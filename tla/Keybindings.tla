----------------------------- MODULE Keybindings -----------------------------
(***************************************************************************)
(* Keyboard shortcuts (web/static/js/app.js): the recorder of the settings  *)
(* page, which changes one box at a time and checks it against the others   *)
(* as they stand, and the dispatcher, which runs what the bindings the page *)
(* was loaded with say. A binding is one key, or a prefix and a second key. *)
(* What the server says of the posted boxes is external (store's            *)
(* ValidateKeybindings).                                                    *)
(***************************************************************************)
EXTENDS Naturals, Sequences

CONSTANTS
  Direct,     \* the actions bound to one key
  Sequenced,  \* the actions bound to a prefix and a key
  KeySet,     \* the printable keys
  Shifted,    \* those of them that are typed with Shift held
  MaxHands    \* bound: clicks and keys in the settings

\* A printable key is one character, an action is never called "none".
KeysAssumption ==
  /\ Direct \cap Sequenced = {} /\ "none" \notin Direct \cup Sequenced
  /\ {"", "then", "Shift"} \cap KeySet = {} /\ Shifted \subseteq KeySet /\ MaxHands \in Nat

VARIABLES
  default,    \* data-default of each box
  boxes,      \* the value each box shows
  before,     \* data-before-recording
  recording,  \* recordingKeybinding, or "none"
  keys,       \* recordingKeys
  live,       \* SM_KEYBINDINGS: the bindings the page was loaded with
  first,      \* pendingSequence
  hands       \* what is left of MaxHands

keyVars == <<default, boxes, before, recording, keys, live, first, hands>>

Actions == Direct \cup Sequenced
Prompt == <<"press", "a", "key">>
Then(k) == <<k, "then">>

Singles == {<<k>> : k \in KeySet}
Pairs == {<<k, l>> : k \in KeySet, l \in KeySet}
Bindings == Singles \cup Pairs
Shape(a) == IF a \in Direct THEN Singles ELSE Pairs

\* Faulty: only the whole bindings are compared.
Conflict_whole(v, theirs) == v = theirs

\* bindingConflict: the same binding, or one that is the other's prefix.
Conflict(v, theirs) ==
  \/ v = theirs
  \/ Len(v) + Len(theirs) = 3 /\ v[1] = theirs[1]

Clashes(bs, a, v) == \E b \in Actions \ {a} : Conflict(v, bs[b])

\* What the server lets through: each binding of its action's shape, none twice,
\* and no single key that is a prefix.
Valid(bs) ==
  /\ \A a \in Actions : bs[a] \in Shape(a)
  /\ \A a, b \in Actions : bs[a] = bs[b] => a = b
  /\ \A a \in Direct, b \in Sequenced : bs[a][1] # bs[b][1]

Sets == {bs \in [Actions -> Bindings] : Valid(bs)}

Init ==
  /\ default \in Sets /\ live \in Sets
  /\ boxes = live /\ before = live
  /\ recording = "none" /\ keys = <<>> /\ first = ""
  /\ hands = MaxHands

Hand == hands > 0 /\ hands' = hands - 1

-----------------------------------------------------------------------------
\* The box that was being recorded shows what it showed before.
Restored == IF recording = "none" THEN boxes ELSE [boxes EXCEPT ![recording] = before[recording]]

\* beginKeyRecording: a click on a box; on the one being recorded, nothing.
Begin(a) ==
  /\ recording # a /\ Hand
  /\ before' = [before EXCEPT ![a] = Restored[a]]
  /\ boxes' = [Restored EXCEPT ![a] = Prompt]
  /\ recording' = a /\ keys' = <<>>
  /\ UNCHANGED <<default, live, first>>

\* resetKeybinding: refused when another box shows the default; it ends whatever
\* recording there is.
Reset(a) ==
  /\ Hand
  /\ ~Clashes(boxes, a, default[a])
  /\ boxes' = [boxes EXCEPT ![a] = default[a]]
  /\ recording' = "none"
  /\ UNCHANGED <<default, before, keys, live, first>>

ResetAll ==
  /\ Hand
  /\ boxes' = default /\ recording' = "none" /\ keys' = <<>>
  /\ UNCHANGED <<default, before, live, first>>

\* A printable key while a box is recorded: the first of two, one that is taken,
\* or the binding. Other keys are refused and change nothing.
Record(k) ==
  LET a == recording
      v == Append(keys, k)
  IN /\ recording # "none" /\ Hand
     /\ IF a \in Sequenced /\ Len(v) = 1
          THEN boxes' = [boxes EXCEPT ![a] = Then(k)] /\ keys' = v /\ UNCHANGED recording
        ELSE /\ keys' = <<>>
             /\ IF Clashes(boxes, a, v)
                  THEN boxes' = [boxes EXCEPT ![a] = Prompt] /\ UNCHANGED recording
                  ELSE boxes' = [boxes EXCEPT ![a] = v] /\ recording' = "none"
     /\ UNCHANGED <<default, before, live, first>>

Escape ==
  /\ recording # "none" /\ Hand
  /\ boxes' = Restored /\ recording' = "none"
  /\ UNCHANGED <<default, before, keys, live, first>>

\* The form is posted without its recording; accepted, the page loads again.
Submit ==
  /\ Hand
  /\ boxes' = Restored /\ recording' = "none"
  /\ IF Valid(boxes')
       THEN live' = boxes' /\ before' = boxes' /\ keys' = <<>> /\ first' = ""
       ELSE UNCHANGED <<live, before, first>> /\ keys' = IF recording = "none" THEN keys ELSE <<>>
  /\ UNCHANGED default

-----------------------------------------------------------------------------
(* The dispatcher *)

Prefixes(bs) == {bs[a][1] : a \in {b \in Actions : Len(bs[b]) = 2}}

\* What a key runs, with a prefix pending or without.
Runs(bs, pending, k) ==
  IF pending # "" THEN {a \in Actions : bs[a] = <<pending, k>>}
  ELSE IF k \in Prefixes(bs) THEN {}
  ELSE {a \in Actions : bs[a] = <<k>>}

\* What is pending after a keydown: a second key is consumed, whatever it runs, and
\* Shift going down is a key as any other.
After(bs, pending, k) == IF pending = "" /\ k \in Prefixes(bs) THEN k ELSE ""

\* A keydown outside every field: a printable key, or Shift on the way to one.
Press(k) ==
  /\ recording = "none" /\ Hand
  /\ first' = After(live, first, k)
  /\ UNCHANGED <<default, boxes, before, recording, keys, live>>

\* 800 ms without a second key.
Forgotten ==
  /\ first # "" /\ first' = ""
  /\ UNCHANGED <<default, boxes, before, recording, keys, live, hands>>

Next ==
  \/ \E a \in Actions : Begin(a) \/ Reset(a)
  \/ ResetAll \/ Escape \/ Submit \/ Forgotten
  \/ \E k \in KeySet : Record(k) \/ Press(k)
  \/ Press("Shift")

Spec == Init /\ [][Next]_keyVars

-----------------------------------------------------------------------------
TypeOK ==
  /\ \A bs \in {default, live} : bs \in [Actions -> Bindings]
  /\ \A a \in Actions : boxes[a] \in Shape(a) \cup {Prompt} \cup {Then(k) : k \in KeySet}
  /\ recording \in Actions \cup {"none"} /\ keys \in Seq(KeySet) /\ Len(keys) <= 1
  /\ first \in KeySet \cup {""} /\ hands \in 0..MaxHands

\* A binding whose second key needs Shift, and the first not: Shift goes down in between.
ShiftBetween(v) == Len(v) = 2 /\ v[2] \in Shifted /\ v[1] \notin Shifted

\* What the keydowns of typing v run, from rest, in a page loaded with bs.
Typed(bs, v) ==
  LET one == After(bs, "", v[1])
      two == IF ShiftBetween(v) THEN After(bs, one, "Shift") ELSE one
  IN Runs(bs, "", v[1]) \cup (IF Len(v) = 2 THEN Runs(bs, two, v[2]) ELSE {})

\* Whatever was recorded, left half recorded, reset and saved in between: when the
\* form would post a binding for every action, each is one the dispatcher reaches.
\* Typed from rest in a page loaded with them, it runs its action and no other, unless
\* Shift goes down between its keys.
EveryBindingIsReached ==
  (\A a \in Actions : Restored[a] \in Bindings) =>
    \A a \in Actions : ShiftBetween(Restored[a]) \/ Typed(Restored, Restored[a]) = {a}

\* The same without the exception. The code breaks this one (README, Divergences kept as
\* definitions): Shift is taken for the second key, and the key meant to be second runs
\* what it is bound to alone.
ShiftIsNoKey ==
  (\A a \in Actions : Restored[a] \in Bindings) =>
    \A a \in Actions : Typed(Restored, Restored[a]) = {a}

\* Every box that is not being recorded shows a binding, so that the form can be
\* saved. The code breaks this one (README, Divergences kept as definitions).
BoxesShowBindings == \A a \in Actions \ {recording} : boxes[a] \in Bindings
=============================================================================

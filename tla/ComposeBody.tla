----------------------------- MODULE ComposeBody -----------------------------
(***************************************************************************)
(* The text of a message being written (web/static/js/app.js): the format   *)
(* it is written in, which the server converts it from and to               *)
(* (mail.ConvertBody), and the signature the script puts under it and takes *)
(* out again. A text is the words in it and its signatures, each still as   *)
(* the script inserted it or like any other text. Erasing by hand is left   *)
(* out, and with it whatever a user takes away on purpose.                  *)
(***************************************************************************)
EXTENDS Naturals, Sequences, FiniteSets, Sorted

CONSTANTS
  Addresses,  \* the identities the From box offers
  Linked,     \* those whose signature goes under this message
  MaxWords,   \* bound: words written
  MaxChoices  \* bound: choices of format, From and Signature, and sends that fail

BodyAssumption ==
  /\ Linked \subseteq Addresses /\ Addresses # {}
  /\ MaxWords \in Nat \ {0} /\ MaxChoices \in Nat

VARIABLES
  mode,      \* the format box, posted as the text's format
  wrote,     \* compose-mode-from: the format of the text in the window
  sigMode,   \* data-mode of the signatures: which variant is inserted
  from,      \* the From box
  skipped,   \* composeSigSkipped
  sigText,   \* composeSigText: the block last inserted into a textarea
  text,      \* [words, sigs]
  convert,   \* the conversion under way: [at, to, text]
  another,   \* a second conversion waits for it
  written,   \* how many words were written, the prefill included
  choices,   \* what is left of MaxChoices
  swallowed, \* history: words written inside a signature of rich text, or while a
             \* conversion was under way
  brought,   \* history: signatures that came with the text and stand as inserted
  overlaps   \* history: what was chosen while a conversion was under way, "format" or
             \* "sign"; "format" as well when one failed

bodyVars == <<mode, wrote, sigMode, from, skipped, sigText, text, convert, another, written,
              choices, swallowed, brought, overlaps>>

Formats == {"plain", "markdown", "html"}
NoSig == [of |-> "none", var |-> "none"]
NoConversion == [at |-> "none", to |-> "plain", text |-> [words |-> {}, sigs |-> <<>>]]

\* A signature: "block" carries data-signature, "text" stands as it was inserted,
\* "loose" is like any other text.
Sig(f, var, as) == [of |-> f, var |-> var, as |-> as, holds |-> {}]
Marked(t) == {i \in DOMAIN t.sigs : t.sigs[i].as # "loose"}
Unmarked(sigs) == At(sigs, {i \in DOMAIN sigs : sigs[i].as # "block"})

Choice == choices > 0 /\ choices' = choices - 1

-----------------------------------------------------------------------------
(* The signature *)

Is(s, known) == s.as = "text" /\ [of |-> s.of, var |-> s.var] = known

\* Faulty: a textarea's block is forgotten, not removed.
Unsigned_kept(t, format, known) ==
  IF format = "html" THEN [t EXCEPT !.sigs = Unmarked(@)] ELSE t

\* The text without the signature: every marked block of rich text, the first
\* occurrence of the inserted block elsewhere.
Unsigned(t, format, known) ==
  LET found == {i \in DOMAIN t.sigs : Is(t.sigs[i], known)}
      first == CHOOSE i \in found : \A j \in found : i <= j
  IN IF format = "html" THEN [t EXCEPT !.sigs = Unmarked(@)]
     ELSE IF found # {} THEN [t EXCEPT !.sigs = SubSeq(@, 1, first - 1) \o SubSeq(@, first + 1, Len(@))]
     ELSE t

\* applyComposeSignature: the text, and what is remembered of a textarea.
Signed(t, format, known, variant, f, skip) ==
  LET bare == Unsigned(t, format, known)
  IN IF f \notin Linked \/ skip THEN [text |-> bare, known |-> NoSig]
     ELSE IF format = "html"
     THEN [text |-> [bare EXCEPT !.sigs = Append(@, Sig(f, variant, "block"))], known |-> NoSig]
     ELSE [text  |-> [bare EXCEPT !.sigs = Append(@, Sig(f, variant, "text"))],
           known |-> [of |-> f, var |-> variant]]

Crossing(what) == IF convert.at = "none" THEN {} ELSE {what}

Apply(f, skip) ==
  LET s == Signed(text, wrote, sigText, sigMode, f, skip)
  IN /\ text' = s.text /\ sigText' = s.known
     /\ overlaps' = overlaps \cup Crossing("sign")

\* A fresh window is signed; a draft carries its signature, and the box is unticked.
Init ==
  /\ mode \in Formats /\ wrote = mode /\ sigMode = mode
  /\ from \in Addresses
  /\ written \in {0, 1}
  /\ LET prefill == [words |-> 1..written, sigs |-> <<>>]
         fresh   == Signed(prefill, mode, NoSig, mode, from, FALSE)
         draft   == [prefill EXCEPT !.sigs =
                       <<Sig(from, mode, IF mode = "html" THEN "loose" ELSE "text")>>]
     IN \/ skipped = FALSE /\ text = fresh.text /\ sigText = fresh.known /\ brought = 0
        \/ skipped = TRUE /\ text = draft /\ sigText = NoSig /\ brought = Cardinality(Marked(text))
  /\ convert = NoConversion /\ another = FALSE
  /\ choices = MaxChoices /\ swallowed = {} /\ overlaps = {}

ChooseFrom(f) ==
  /\ f # from /\ Choice /\ from' = f
  /\ Apply(f, skipped)
  /\ UNCHANGED <<mode, wrote, sigMode, skipped, convert, another, written, swallowed, brought>>

\* The box is shown where a signature applies.
ToggleSignature ==
  /\ from \in Linked /\ Choice /\ skipped' = ~skipped
  /\ Apply(from, ~skipped)
  /\ UNCHANGED <<mode, wrote, sigMode, from, convert, another, written, swallowed, brought>>

-----------------------------------------------------------------------------
(* Writing *)

NewWord == written < MaxWords /\ written' = written + 1
writingVars == <<mode, wrote, sigMode, from, skipped, sigText, convert, another, choices, brought,
                 overlaps>>

Raced == IF convert.at = "none" THEN {} ELSE {written'}

\* By hand, from a template or from the AI panel: never inside a signature.
Write ==
  /\ NewWord
  /\ text' = [text EXCEPT !.words = @ \cup {written'}]
  /\ swallowed' = swallowed \cup Raced
  /\ UNCHANGED writingVars

\* Inside one: a marked block stays marked, any other is text from now on.
WriteInside(i) ==
  /\ NewWord
  /\ IF text.sigs[i].as = "block"
     THEN /\ text' = [text EXCEPT !.sigs[i].holds = @ \cup {written'}]
          /\ swallowed' = swallowed \cup {written'}
     ELSE /\ text' = [text EXCEPT !.sigs[i].as = "loose", !.words = @ \cup {written'}]
          /\ swallowed' = swallowed \cup Raced
  /\ UNCHANGED writingVars

-----------------------------------------------------------------------------
(* The format *)

Held(t) == UNION {t.sigs[i].holds : i \in DOMAIN t.sigs}
AsText(t) == [words |-> t.words \cup Held(t),
              sigs  |-> [i \in DOMAIN t.sigs |-> Sig(t.sigs[i].of, t.sigs[i].var, "loose")]]

\* ConvertBody and the page: to and from rich text a signature becomes text, and the
\* sanitizer drops the mark; a textarea drops the newline it begins with, and with it
\* a block that begins the text is no longer the one that was inserted.
Shown(t, old, new) ==
  IF new # "html" /\ old # "html" /\ t.words # {} THEN {t, AsText(t)} ELSE {AsText(t)}

\* The request takes the boxes and the text as they are.
Ask(now, format) == [at |-> "sent", to |-> format, text |-> now]

ChooseFormat(m) ==
  /\ m # mode /\ Choice
  /\ mode' = m
  /\ IF convert.at = "none" THEN convert' = Ask(text, m) /\ UNCHANGED another
     ELSE another' = TRUE /\ UNCHANGED convert
  /\ overlaps' = overlaps \cup Crossing("format")
  /\ UNCHANGED <<wrote, sigMode, from, skipped, sigText, text, written, swallowed, brought>>

\* Rich text with markup, and the question answered with no: the box goes back to
\* the format of the text in the window.
KeepFormat ==
  /\ wrote = "html" /\ Choice
  /\ mode' = wrote
  /\ overlaps' = overlaps \cup Crossing("format")
  /\ UNCHANGED <<wrote, sigMode, from, skipped, sigText, text, convert, another, written, swallowed, brought>>

\* Faulty: the variant stays that of the format before.
Rewired_forgotten == sigMode' = sigMode

\* htmx:afterSwap on compose-body-wrap.
Rewired == sigMode' = mode

\* The answer takes the place of the text, and the request that waited leaves.
Converted ==
  /\ convert.at = "sent"
  /\ text' \in Shown(convert.text, wrote, convert.to)
  /\ wrote' = convert.to
  /\ Rewired
  /\ convert' = (IF another THEN Ask(text', mode) ELSE NoConversion) /\ another' = FALSE
  /\ UNCHANGED <<mode, from, skipped, sigText, written, choices, swallowed, brought, overlaps>>

\* Faulty: the error's page is swapped in.
Unswapped_error == text' = NoConversion.text

\* htmx swaps no answer that is an error.
Unswapped == text' = text

\* What waited leaves all the same.
ConvertFails ==
  /\ convert.at = "sent"
  /\ Choice /\ Unswapped
  /\ convert' = (IF another THEN Ask(text, mode) ELSE NoConversion) /\ another' = FALSE
  /\ overlaps' = overlaps \cup {"format"}
  /\ UNCHANGED <<mode, wrote, sigMode, from, skipped, sigText, written, swallowed, brought>>

-----------------------------------------------------------------------------
\* A send that fails comes back as a new window with the posted text under the
\* posted format, as a draft does: unticked, its signature left as text.
SendFails ==
  /\ Choice
  /\ text' \in Shown(text, wrote, mode) /\ brought' = Cardinality(Marked(text'))
  /\ wrote' = mode /\ sigMode' = mode
  /\ skipped' = TRUE /\ sigText' = NoSig
  /\ convert' = NoConversion /\ another' = FALSE
  /\ overlaps' = {}
  /\ UNCHANGED <<mode, from, written, swallowed>>

Next ==
  \/ \E f \in Addresses : ChooseFrom(f)
  \/ ToggleSignature
  \/ Write \/ (\E i \in DOMAIN text.sigs : WriteInside(i))
  \/ (\E m \in Formats : ChooseFormat(m)) \/ KeepFormat \/ Converted \/ ConvertFails
  \/ SendFails

Spec == Init /\ [][Next]_bodyVars

-----------------------------------------------------------------------------
SigType == [of : Addresses, var : Formats, as : {"block", "text", "loose"},
            holds : SUBSET (1..MaxWords)]
TextType == [words : SUBSET (1..MaxWords), sigs : Seq(SigType)]

TypeOK ==
  /\ {mode, wrote, sigMode} \subseteq Formats /\ from \in Addresses
  /\ {skipped, another} \subseteq BOOLEAN /\ overlaps \subseteq {"format", "sign"}
  /\ text \in TextType /\ convert \in [at : {"none", "sent"}, to : Formats, text : TextType]
  /\ sigText \in [of : Addresses, var : Formats] \cup {NoSig}
  /\ written \in 0..MaxWords /\ choices \in 0..MaxChoices /\ swallowed \subseteq 1..written /\ brought \in Nat

\* Whatever formats, identities and signatures were chosen in between, no word is
\* gone from the text, except those written inside a signature of rich text (they
\* go when it goes) or while a conversion was under way (its answer replaces them).
WordsAreKept == (1..written) \ swallowed \subseteq text.words

\* The signatures the script can take out again.
Own == {i \in DOMAIN text.sigs :
          IF wrote = "html" THEN text.sigs[i].as = "block" ELSE Is(text.sigs[i], sigText)}

\* They are of the identity the message is from, none where none is to be, and of
\* what stands as inserted at most one was not there when the text came; unless the
\* identity was chosen under a conversion, which puts the old signature back.
SignatureIsOfFrom ==
  "sign" \notin overlaps =>
  /\ \A i \in Own : text.sigs[i].of = from /\ from \in Linked /\ ~skipped
  /\ Cardinality(Marked(text)) <= 1 + brought

\* At rest the text is in the format it would be posted as, and signatures
\* come in it; unless a format was chosen before the last one had arrived, or a
\* conversion failed: then the text goes out under a format it is not in.
FormatsAgree == convert.at = "none" /\ "format" \notin overlaps => mode = wrote /\ sigMode = wrote

\* The signature can be "cleanly replaced" (app.js, above composeSigText): the text
\* never carries two. The code breaks this one (README, Divergences kept as definitions).
OneSignature == Len(text.sigs) <= 1
=============================================================================

------------------------------- MODULE Compose -------------------------------
(***************************************************************************)
(* The compose window (web/static/js/app.js with partials/compose.html) and *)
(* the drafts and messages its requests make of it (internal/server/        *)
(* compose.go). One window is open at a time; a save, a send and the        *)
(* request for another window can all be under way at once, each on its own *)
(* element, and an answer acts on whatever window is open when it arrives.  *)
(* A text is known by how often it was edited, a file by its number.        *)
(* Reopening a draft and removing a file it keeps are left out.             *)
(***************************************************************************)
EXTENDS Naturals, Sequences

CONSTANTS
  MaxForms,   \* bound: windows opened
  MaxEdits,   \* bound: edits of a text
  MaxFiles,   \* bound: files picked
  MaxSaves,   \* bound: saves pressed, by hand, by the guard or by the timer
  MaxSends,   \* bound: sends pressed
  MaxFaults   \* bound: requests refused or without an answer

ComposeAssumption ==
  {MaxForms, MaxEdits, MaxFiles, MaxSaves, MaxSends, MaxFaults} \subseteq Nat

VARIABLES
  form,      \* the window: [no, text, base, guard, items, draft]
  opening,   \* a request for a window is under way
  closing,   \* composeCloseAfterSave
  sending,   \* composeSending
  attach,    \* composeAttachSent
  saves,     \* each window's save under way: [at, text, items, draft]
  waiting,     \* another save of the open window waits for it
  send,      \* the send under way: [at, no, text, items, draft]
  drafts,    \* the rows: [no, text, files, gone], no the window that made it
  sent,      \* the messages: [no, files]
  left,      \* what is left of the bounds
  lost,      \* history: windows one of whose requests was stored and not answered
  crossed    \* history: windows that sent while a save was under way, or that
             \* another window's answer reached

composeVars == <<form, opening, closing, sending, attach, saves, waiting, send,
                 drafts, sent, left, lost, crossed>>

Forms == 1..MaxForms
NoForm == [no |-> 0, text |-> 0, base |-> 0, guard |-> FALSE, items |-> <<>>, draft |-> 0]
NoSave == [at |-> "none", text |-> 0, items |-> <<>>, draft |-> 0]
NoSend == [at |-> "none", no |-> 0, text |-> 0, items |-> <<>>, draft |-> 0]

Init ==
  /\ form = NoForm /\ opening = FALSE /\ closing = FALSE /\ sending = FALSE /\ attach = 0
  /\ saves = [f \in Forms |-> NoSave] /\ waiting = FALSE /\ send = NoSend
  /\ drafts = <<>> /\ sent = <<>>
  /\ left = [forms |-> MaxForms, edits |-> MaxEdits, files |-> MaxFiles,
             saves |-> MaxSaves, sends |-> MaxSends, faults |-> MaxFaults]
  /\ lost = {} /\ crossed = {}

Spend(what) == left[what] > 0 /\ left' = [left EXCEPT ![what] = @ - 1]

IsOpen  == form.no # 0
InHand  == IsOpen /\ ~form.guard
IsDirty == form.text # form.base
Kept(d) == IF d = 0 \/ drafts[d].gone THEN <<>> ELSE drafts[d].files

-----------------------------------------------------------------------------
(* The window *)

\* c, Reply, the undo of a send: blocked over a window that is being sent or has
\* unsaved text.
AskWindow ==
  /\ ~opening /\ left.forms > 0
  /\ IsOpen => ~sending /\ ~IsDirty
  /\ opening' = TRUE
  /\ UNCHANGED <<form, closing, sending, attach, saves, waiting, send, drafts, sent, left, lost, crossed>>

\* htmx:afterSwap: a new window is in the place of whatever was there.
WindowArrives ==
  /\ opening /\ Spend("forms")
  /\ opening' = FALSE
  /\ form' = [NoForm EXCEPT !.no = MaxForms - left.forms + 1]
  /\ sending' = FALSE /\ waiting' = FALSE
  /\ UNCHANGED <<closing, attach, saves, send, drafts, sent, lost, crossed>>

Type ==
  /\ InHand /\ Spend("edits")
  /\ form' = [form EXCEPT !.text = @ + 1]
  /\ UNCHANGED <<opening, closing, sending, attach, saves, waiting, send, drafts, sent, lost, crossed>>

Pick ==
  /\ InHand /\ Spend("files")
  /\ form' = [form EXCEPT !.items = Append(@, MaxFiles - left.files + 1)]
  /\ UNCHANGED <<opening, closing, sending, attach, saves, waiting, send, drafts, sent, lost, crossed>>

RemoveFile(i) ==
  /\ InHand
  /\ form' = [form EXCEPT !.items = SubSeq(@, 1, i - 1) \o SubSeq(@, i + 1, Len(@))]
  /\ UNCHANGED <<opening, closing, sending, attach, saves, waiting, send, drafts, sent, left, lost, crossed>>

ForceClose == form' = NoForm /\ closing' = FALSE /\ sending' = FALSE /\ waiting' = FALSE

\* closeCompose: text that is not saved raises the guard.
Close ==
  /\ InHand /\ ~sending
  /\ IF IsDirty THEN form' = [form EXCEPT !.guard = TRUE] /\ UNCHANGED <<closing, sending, waiting>>
                ELSE ForceClose
  /\ UNCHANGED <<opening, attach, saves, send, drafts, sent, left, lost, crossed>>

GuardKeep ==
  /\ form.guard
  /\ form' = [form EXCEPT !.guard = FALSE]
  /\ UNCHANGED <<opening, closing, sending, attach, saves, waiting, send, drafts, sent, left, lost, crossed>>

GuardDiscard ==
  /\ form.guard /\ ~sending
  /\ ForceClose
  /\ UNCHANGED <<opening, attach, saves, send, drafts, sent, left, lost, crossed>>

-----------------------------------------------------------------------------
(* Saving *)

\* Faulty: a window that is being sent can still be saved.
Locked_never == FALSE

Locked == sending

\* htmx:beforeRequest of the save button: the window as it is goes out.
IssueSave(w) ==
  /\ saves' = [saves EXCEPT ![w.no] = [at |-> "sent", text |-> w.text, items |-> w.items, draft |-> w.draft]]
  /\ attach' = Len(w.items)

\* A press while a save is under way waits for it.
PressSave ==
  IF saves[form.no].at = "none" THEN IssueSave(form') /\ UNCHANGED waiting
                                ELSE waiting' = TRUE /\ UNCHANGED <<saves, attach>>

\* The button, and the timer three seconds after an edit (which needs no hand,
\* and an edit that is not saved).
Save ==
  /\ IsOpen /\ ~Locked /\ (InHand \/ IsDirty) /\ Spend("saves")
  /\ form' = form
  /\ PressSave
  /\ UNCHANGED <<opening, closing, sending, send, drafts, sent, lost, crossed>>

GuardSave ==
  /\ form.guard /\ ~sending /\ Spend("saves")
  /\ form' = [form EXCEPT !.guard = FALSE]
  /\ closing' = TRUE
  /\ PressSave
  /\ UNCHANGED <<opening, sending, send, drafts, sent, lost, crossed>>

\* UpsertDraft and keepDraftAttachments: a first save makes a row, a row that is
\* gone is not made waiting. row is the row written, 0 for none.
Upsert(r, no) ==
  LET row == IF r.draft = 0 THEN Len(drafts) + 1 ELSE r.draft
  IN drafts' = IF r.draft = 0
               THEN Append(drafts, [no |-> no, text |-> r.text, files |-> r.items, gone |-> FALSE])
               ELSE IF drafts[row].gone THEN drafts
               ELSE [drafts EXCEPT ![row].text = r.text, ![row].files = @ \o r.items]

StoreSave(f) ==
  /\ saves[f].at = "sent"
  /\ Upsert(saves[f], f)
  /\ saves' = [saves EXCEPT ![f].at = IF saves[f].draft = 0 THEN "made" ELSE "stored",
                            ![f].draft = IF saves[f].draft = 0 THEN Len(drafts) + 1 ELSE @]
  /\ UNCHANGED <<form, opening, closing, sending, attach, waiting, send, sent, left, lost, crossed>>

\* The request is over: one that waited leaves, unless a send has begun or its
\* button is gone.
AfterSave(f, w) ==
  IF waiting /\ f = w.no /\ ~Locked
    THEN IssueSave(w) /\ waiting' = FALSE
    ELSE /\ saves' = [saves EXCEPT ![f] = NoSave]
         /\ waiting' = (waiting /\ f # w.no /\ w.no # 0)
         /\ UNCHANGED attach

\* Faulty: the form does not learn the row its first save made.
NewDraft_forgotten(f) == form.draft

\* A first save's answer puts the row's id into the window on screen.
NewDraft(f) == IF saves[f].at = "made" THEN saves[f].draft ELSE form.draft

\* onDraftSaved: the window on screen is clean, drops as many of its files as
\* that save took along, and closes if the guard wanted it to.
SaveAnswered(f) ==
  /\ saves[f].at \in {"made", "stored"}
  /\ IF ~IsOpen
       THEN /\ saves' = [saves EXCEPT ![f] = NoSave] /\ attach' = 0
            /\ UNCHANGED <<form, closing, sending, waiting>>
     ELSE IF closing /\ ~sending
       THEN /\ ForceClose
            /\ saves' = [saves EXCEPT ![f] = NoSave] /\ attach' = 0
     ELSE LET w == [form EXCEPT !.base = form.text, !.draft = NewDraft(f),
                                !.items = SubSeq(@, attach + 1, Len(@))]
          IN /\ form' = w
             /\ IF waiting /\ f = w.no /\ ~Locked
                  THEN AfterSave(f, w)
                  ELSE /\ saves' = [saves EXCEPT ![f] = NoSave] /\ attach' = 0
                       /\ waiting' = (waiting /\ f # w.no)
             /\ UNCHANGED <<closing, sending>>
  /\ crossed' = IF IsOpen /\ f # form.no THEN crossed \cup {form.no} ELSE crossed
  /\ UNCHANGED <<opening, send, drafts, sent, left, lost>>

\* Refused, or without an answer although it may have been stored.
SaveFails(f) ==
  /\ saves[f].at # "none" /\ Spend("faults")
  /\ AfterSave(f, form)
  /\ lost' = IF saves[f].at = "sent" THEN lost ELSE lost \cup {f}
  /\ UNCHANGED <<form, opening, closing, sending, send, drafts, sent, crossed>>

-----------------------------------------------------------------------------
(* Sending *)

\* submitCompose, past the reminder of a forgotten attachment, and the request:
\* it locks the window and voids a save that was to close it.
Send ==
  /\ InHand /\ ~sending /\ send.at = "none" /\ Spend("sends")
  /\ send' = [at |-> "sent", no |-> form.no, text |-> form.text, items |-> form.items, draft |-> form.draft]
  /\ sending' = TRUE /\ closing' = FALSE
  /\ crossed' = IF saves[form.no].at = "none" THEN crossed ELSE crossed \cup {form.no}
  /\ UNCHANGED <<form, opening, attach, saves, waiting, drafts, sent, lost>>

\* handleComposeSend: the kept files and the picked ones go out, the draft is
\* dropped.
StoreSend ==
  /\ send.at = "sent"
  /\ send' = [send EXCEPT !.at = "ok"]
  /\ sent' = Append(sent, [no |-> send.no, files |-> Kept(send.draft) \o send.items])
  /\ drafts' = [d \in DOMAIN drafts |-> [drafts[d] EXCEPT !.gone = @ \/ d = send.draft]]
  /\ UNCHANGED <<form, opening, closing, sending, attach, saves, waiting, left, lost, crossed>>

\* Refused for its form alone, or later: then the window becomes a draft first.
RefuseSend ==
  /\ send.at = "sent" /\ Spend("faults")
  /\ \/ send' = [send EXCEPT !.at = "refused"] /\ UNCHANGED drafts
     \/ /\ send' = [send EXCEPT !.at = "refused", !.draft = IF @ = 0 THEN Len(drafts) + 1 ELSE @]
        /\ Upsert(send, send.no)
  /\ UNCHANGED <<form, opening, closing, sending, attach, saves, waiting, sent, lost, crossed>>

\* onComposeResponse: an accepted message closes the window; a refused one comes
\* back as a new window with its text, clean, and no files but those kept.
SendAnswered ==
  /\ send.at \in {"ok", "refused"}
  /\ send' = NoSend
  /\ IF send.at = "ok" THEN ForceClose
     ELSE /\ form' = [NoForm EXCEPT !.no = send.no, !.text = send.text, !.base = send.text, !.draft = send.draft]
          /\ sending' = FALSE /\ waiting' = FALSE /\ UNCHANGED closing
  /\ UNCHANGED <<opening, attach, saves, drafts, sent, left, lost, crossed>>

\* No answer: the window is as it was, and may be sent again.
SendFails ==
  /\ send.at # "none" /\ Spend("faults")
  /\ send' = NoSend /\ sending' = FALSE
  /\ lost' = IF send.at = "sent" THEN lost ELSE lost \cup {send.no}
  /\ UNCHANGED <<form, opening, closing, attach, saves, waiting, drafts, sent, crossed>>

Next ==
  \/ AskWindow \/ WindowArrives \/ Type \/ Pick
  \/ \E i \in DOMAIN form.items : RemoveFile(i)
  \/ Close \/ GuardKeep \/ GuardDiscard \/ GuardSave \/ Save
  \/ \E f \in Forms : StoreSave(f) \/ SaveAnswered(f) \/ SaveFails(f)
  \/ Send \/ StoreSend \/ RefuseSend \/ SendAnswered \/ SendFails

Spec == Init /\ [][Next]_composeVars

-----------------------------------------------------------------------------
TypeOK ==
  /\ form \in [no : 0..MaxForms, text : 0..MaxEdits, base : 0..MaxEdits, guard : BOOLEAN,
               items : Seq(1..MaxFiles), draft : 0..Len(drafts)]
  /\ {opening, closing, sending, waiting} \subseteq BOOLEAN
  /\ attach \in 0..MaxFiles
  /\ saves \in [Forms -> [at : {"none", "sent", "made", "stored"}, text : 0..MaxEdits,
                          items : Seq(1..MaxFiles), draft : 0..Len(drafts)]]
  /\ send \in [at : {"none", "sent", "ok", "refused"}, no : 0..MaxForms, text : 0..MaxEdits,
               items : Seq(1..MaxFiles), draft : 0..Len(drafts)]
  /\ drafts \in Seq([no : Forms, text : 0..MaxEdits, files : Seq(1..MaxFiles), gone : BOOLEAN])
  /\ sent \in Seq([no : Forms, files : Seq(1..MaxFiles)])
  /\ lost \subseteq Forms /\ crossed \subseteq Forms

\* A message that went out leaves no draft of itself, however often it was saved
\* on the way, refused, or sent again; unless an answer was lost, or a save and
\* the send, or two windows, overlapped.
SentLeavesNoDraft ==
  \A m \in DOMAIN sent : sent[m].no \notin lost \cup crossed =>
    \A d \in DOMAIN drafts : drafts[d].no = sent[m].no => drafts[d].gone

\* A window makes one draft, with the same exceptions.
OneDraftEach ==
  \A d, e \in DOMAIN drafts :
    drafts[d].no = drafts[e].no /\ drafts[d].no \notin lost \cup crossed => d = e

\* "the send attaches exactly what the compose window shows" (compose.go): no
\* message carries a file twice. The code breaks this one
\* (README, Divergences kept as definitions).
FilesGoOnce ==
  \A m \in DOMAIN sent : \A i, j \in DOMAIN sent[m].files : sent[m].files[i] = sent[m].files[j] => i = j

\* "untouched: replacing it loses nothing" (app.js, on a window that is not dirty):
\* its text is as it was opened, or a draft has it. The code breaks this one
\* (README, Divergences kept as definitions).
CleanLosesNothing ==
  IsOpen /\ ~IsDirty /\ ~sending /\ form.text # 0 =>
    \E d \in DOMAIN drafts : ~drafts[d].gone /\ drafts[d].text = form.text

=============================================================================

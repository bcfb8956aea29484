------------------------------- MODULE Outbox -------------------------------
(***************************************************************************)
(* The outbox: the compose window's POST, the undo toast, the buttons of    *)
(* the Outgoing page, the scheduler that drains due rows, and a process     *)
(* that may die between any two statements.                                 *)
(*                                                                          *)
(* The SQLite handle has one connection, so a statement is one step here    *)
(* and two statements of one handler are two.  A row is reduced to its      *)
(* status; send_at to whether it has passed (due); the text of a message to *)
(* the compose window it was written in.  A row is named by the press of    *)
(* Send that made it, and only that press has this name: module OutboxIds   *)
(* says what changes when SQLite gives the key of a deleted row out again.  *)
(***************************************************************************)
EXTENDS Naturals, FiniteSets

CONSTANTS
  Msgs,       \* compose windows
  MaxSends,   \* bound: presses of Send
  MaxAsks,    \* bound: times one send is asked for (the press, then retries)
  MaxFaults   \* bound: crashes and failed database statements (but not failed recoveries)

ASSUME MsgsAssumption == Msgs # {}
ASSUME BoundsAssumption == MaxSends \in Nat /\ MaxAsks \in Nat \ {0} /\ MaxFaults \in Nat

Sends == 1..MaxSends
Status == {"queued", "sending", "sent", "failed", "cancelled"}

VARIABLES
  row,        \* row[s]: status column of the outbox row of s, "none" when there is no row
  due,        \* due[s]: send_at <= now
  draft,      \* draft[m]: a local draft row holds the text of m
  msg,        \* msg[s]: the window whose text s carries
  window,     \* window[m]: the browser's compose window
  post,       \* post[s]: where the POST /compose of s stands
  undo,       \* undo[s]: where a POST /outbox/{s}/undo stands
  pc,         \* the scheduler goroutine
  cur,        \* the row it claimed last, 0 when none
  batch,      \* rows of the last DueOutbox it has not looked at yet
  next,       \* first unused id
  faults,     \* faults so far
  asked,      \* history: asks per send
  delivered,  \* history: SMTP acceptances per send
  discarded,  \* history: sends the user cancelled or deleted from the Outgoing page
  unmarked,   \* history: claimed rows whose outcome, or whose recovery, could not be written
  cut         \* history: undo requests the process died in, after the cancel

db      == <<row, due, draft>>
server  == <<post, undo, pc, cur, batch>>
history == <<asked, delivered, discarded, unmarked, cut>>
vars    == <<db, msg, window, server, next, faults, history>>

Up == pc # "down"

Init ==
  /\ row = [s \in Sends |-> "none"]
  /\ due = [s \in Sends |-> FALSE]
  /\ draft \in [Msgs -> BOOLEAN]
  /\ msg \in [Sends -> {CHOOSE m \in Msgs : TRUE}]
  /\ window = [m \in Msgs |-> "open"]
  /\ post = [s \in Sends |-> "none"]
  /\ undo = [s \in Sends |-> "none"]
  /\ pc = "recover" /\ cur = 0 /\ batch = {}
  /\ next = 1 /\ faults = 0
  /\ asked = [s \in Sends |-> 0]
  /\ delivered = [s \in Sends |-> 0]
  /\ discarded = {} /\ unmarked = {} /\ cut = {}

Fault == faults < MaxFaults /\ faults' = faults + 1

\* UPDATE outbox SET status = to WHERE id = s: a deleted row stays deleted.
SetStatus(s, to) == row' = [row EXCEPT ![s] = IF @ = "none" THEN @ ELSE to]

-----------------------------------------------------------------------------
(* POST /compose *)

EnqueueOutbox(s) ==
  /\ row' = [row EXCEPT ![s] = "queued"]
  /\ \E d \in BOOLEAN : due' = [due EXCEPT ![s] = d]

\* A press of Send in window m, as send number s.
Press(m, s) ==
  /\ Up /\ window[m] = "open" /\ s = next /\ s \in Sends
  /\ next' = next + 1
  /\ msg' = [msg EXCEPT ![s] = m]
  /\ window' = [window EXCEPT ![m] = "posting"]
  /\ asked' = [asked EXCEPT ![s] = 1]

\* Send later or scheduled: the row is committed, the draft not dropped yet.
ComposeEnqueue(m, s) ==
  /\ Press(m, s)
  /\ EnqueueOutbox(s)
  /\ post' = [post EXCEPT ![s] = "drop"]
  /\ UNCHANGED <<draft, undo, pc, cur, batch, faults, delivered, discarded, unmarked, cut>>

\* The form becomes a draft; when that fails as well, the window says so.
PreserveComposeFailure(m) == draft' = [draft EXCEPT ![m] = TRUE] \/ UNCHANGED draft

\* The INSERT fails and the window stays open.
ComposeEnqueueFails(m) ==
  /\ Up /\ window[m] = "open" /\ Fault
  /\ PreserveComposeFailure(m)
  /\ UNCHANGED <<row, due, msg, window, server, next, history>>

\* Send now: the request itself talks to the SMTP server, no row is written.
ComposeSendNow(m, s) ==
  /\ Press(m, s)
  /\ post' = [post EXCEPT ![s] = "smtp"]
  /\ UNCHANGED <<db, undo, pc, cur, batch, faults, delivered, discarded, unmarked, cut>>

SendNowAccepted(s) ==
  /\ post[s] = "smtp"
  /\ post' = [post EXCEPT ![s] = "taken"]
  /\ delivered' = [delivered EXCEPT ![s] = @ + 1]
  /\ UNCHANGED <<db, msg, window, undo, pc, cur, batch, next, faults, asked, discarded, unmarked, cut>>

SendNowReturns(s) ==
  /\ post[s] = "taken"
  /\ post' = [post EXCEPT ![s] = "drop"]
  /\ UNCHANGED <<db, msg, window, undo, pc, cur, batch, next, faults, history>>

\* Faulty: the error closes the window and nothing is preserved.
SendNowFails_unpreserved(s) ==
  /\ post[s] \in {"smtp", "taken"}
  /\ post' = [post EXCEPT ![s] = "none"]
  /\ window' = [window EXCEPT ![msg[s]] = "closed"]
  /\ UNCHANGED <<db, msg, undo, pc, cur, batch, next, faults, history>>

\* Send returned an error, before the acceptance or after it (QUIT failed): the
\* form is preserved as a draft and rendered again.
SendNowFails(s) ==
  /\ post[s] \in {"smtp", "taken"}
  /\ post' = [post EXCEPT ![s] = "none"]
  /\ PreserveComposeFailure(msg[s])
  /\ window' = [window EXCEPT ![msg[s]] = "open"]
  /\ UNCHANGED <<row, due, msg, undo, pc, cur, batch, next, faults, history>>

\* dropDraft, then the 204 that closes the window.
ComposeDone(s) ==
  /\ post[s] = "drop"
  /\ post' = [post EXCEPT ![s] = "none"]
  /\ draft' = [draft EXCEPT ![msg[s]] = FALSE]
  /\ window' = [window EXCEPT ![msg[s]] = "closed"]
  /\ UNCHANGED <<row, due, msg, undo, pc, cur, batch, next, faults, history>>

-----------------------------------------------------------------------------
(* The undo toast and the buttons of the Outgoing page *)

\* The handler has read the row; a row that is gone answers 404.
UndoRead(s) ==
  /\ Up /\ undo[s] = "none" /\ post[s] = "none" /\ row[s] # "none"
  /\ undo' = [undo EXCEPT ![s] = "cancel"]
  /\ UNCHANGED <<db, msg, window, post, pc, cur, batch, next, faults, history>>

\* Faulty: a status no other query knows.
CancelOutbox_misspelt(s) == row[s] = "queued" /\ SetStatus(s, "canceled")

CancelOutbox(s) == row[s] = "queued" /\ SetStatus(s, "cancelled")

UndoCancels(s) ==
  /\ undo[s] = "cancel"
  /\ CancelOutbox(s)
  /\ undo' = [undo EXCEPT ![s] = "restore"]
  /\ UNCHANGED <<due, draft, msg, window, post, pc, cur, batch, next, faults, history>>

UndoTooLate(s) ==
  /\ undo[s] = "cancel" /\ row[s] # "queued"
  /\ undo' = [undo EXCEPT ![s] = "none"]
  /\ UNCHANGED <<db, msg, window, post, pc, cur, batch, next, faults, history>>

\* The text comes back as a new local draft, in a window; an error of that
\* UpsertDraft is ignored and leaves the text in the window only.
UndoRestores(s) ==
  /\ undo[s] = "restore"
  /\ undo' = [undo EXCEPT ![s] = "none"]
  /\ window' = [window EXCEPT ![msg[s]] = "open"]
  /\ \/ draft' = [draft EXCEPT ![msg[s]] = TRUE] /\ UNCHANGED faults
     \/ Fault /\ UNCHANGED draft
  /\ UNCHANGED <<row, due, msg, post, pc, cur, batch, next, history>>

HandleCancel(s) ==
  /\ Up /\ CancelOutbox(s)
  /\ discarded' = discarded \cup {s}
  /\ UNCHANGED <<due, draft, msg, window, server, next, faults, asked, delivered, unmarked, cut>>

RetryOutbox(s) ==
  /\ row[s] = "failed"
  /\ row' = [row EXCEPT ![s] = "queued"]
  /\ due' = [due EXCEPT ![s] = TRUE]

HandleRetry(s) ==
  /\ Up /\ asked[s] < MaxAsks
  /\ RetryOutbox(s)
  /\ asked' = [asked EXCEPT ![s] = @ + 1]
  /\ UNCHANGED <<draft, msg, window, server, next, faults, delivered, discarded, unmarked, cut>>

\* The Delete button shows on failed rows, but the page may be older than a
\* retry from another tab: the row has failed once, and may be in any state now.
HandleDelete(s) ==
  /\ Up /\ row[s] # "none" /\ (row[s] = "failed" \/ asked[s] > 1)
  /\ row' = [row EXCEPT ![s] = "none"]
  /\ discarded' = discarded \cup {s}
  /\ UNCHANGED <<due, draft, msg, window, server, next, faults, asked, delivered, unmarked, cut>>

-----------------------------------------------------------------------------
(* The scheduler *)

\* Faulty: stranded rows go back in the queue, or stay where they are.
RecoverSending_none == UNCHANGED row

RecoverSending_requeue ==
  row' = [s \in Sends |-> IF row[s] = "sending" THEN "queued" ELSE row[s]]

RecoverSending ==
  row' = [s \in Sends |-> IF row[s] = "sending" THEN "failed" ELSE row[s]]

\* Once per start, and each time the UPDATE may fail (outside the bound MaxFaults,
\* which bounds the starts): the error is logged and the loop goes on, the rows of
\* the last run stay "sending" until the next start.
Recover ==
  /\ pc = "recover"
  /\ \/ RecoverSending /\ unmarked' = {}
     \/ UNCHANGED row /\ unmarked' = {s \in Sends : row[s] = "sending"}
  /\ pc' = "loop"
  /\ UNCHANGED <<due, draft, msg, window, post, undo, cur, batch, next, faults, asked, delivered, discarded, cut>>

\* Faulty: the comparison is the wrong way round.
DueOutbox_swapped == {s \in Sends : row[s] = "queued" /\ ~due[s]}

DueOutbox == {s \in Sends : row[s] = "queued" /\ due[s]}

\* A tick: the due rows are read once, and worked through from this copy.
ReadDue ==
  /\ pc = "loop" /\ batch = {} /\ DueOutbox # {}
  /\ batch' = DueOutbox
  /\ UNCHANGED <<db, msg, window, post, undo, pc, cur, next, faults, history>>

\* Faulty: the claim trusts the copy of the row.
ClaimOutbox_unguarded(s) == SetStatus(s, "sending")

ClaimOutbox(s) == row[s] = "queued" /\ SetStatus(s, "sending")

Claim(s) ==
  /\ pc = "loop" /\ s \in batch
  /\ ClaimOutbox(s)
  /\ batch' = batch \ {s}
  /\ pc' = "smtp" /\ cur' = s
  /\ UNCHANGED <<due, draft, msg, window, post, undo, next, faults, history>>

\* The row was cancelled, deleted or retried away meanwhile, or the UPDATE failed.
ClaimLost(s) ==
  /\ pc = "loop" /\ s \in batch
  /\ \/ row[s] # "queued" /\ UNCHANGED faults
     \/ Fault
  /\ batch' = batch \ {s}
  /\ UNCHANGED <<db, msg, window, post, undo, pc, cur, next, history>>

SmtpAccepts ==
  /\ pc = "smtp"
  /\ pc' = "taken"
  /\ delivered' = [delivered EXCEPT ![cur] = @ + 1]
  /\ UNCHANGED <<db, msg, window, post, undo, cur, batch, next, faults, asked, discarded, unmarked, cut>>

MarkOutboxSent ==
  /\ pc = "taken"
  /\ SetStatus(cur, "sent")

\* Send returned an error: the server refused, or took the message and the
\* conversation broke before it ended.
MarkOutboxFailed ==
  /\ pc \in {"smtp", "taken"}
  /\ SetStatus(cur, "failed")

Settle ==
  /\ MarkOutboxSent \/ MarkOutboxFailed
  /\ pc' = "loop" /\ cur' = 0
  /\ UNCHANGED <<due, draft, msg, window, post, undo, batch, next, faults, history>>

\* The UPDATE of the outcome fails and the error is dropped.
SettleLost ==
  /\ pc \in {"smtp", "taken"} /\ Fault
  /\ pc' = "loop" /\ cur' = 0
  /\ unmarked' = unmarked \cup {cur}
  /\ UNCHANGED <<db, msg, window, post, undo, batch, next, asked, delivered, discarded, cut>>

-----------------------------------------------------------------------------
(* The clock and the process *)

BecomesDue(s) ==
  /\ row[s] = "queued" /\ ~due[s]
  /\ due' = [due EXCEPT ![s] = TRUE]
  /\ UNCHANGED <<row, draft, msg, window, server, next, faults, history>>

\* Everything in memory is gone; a window that was waiting for its answer gets
\* an error and stays open.
Crash ==
  /\ Up /\ Fault
  /\ pc' = "down" /\ cur' = 0 /\ batch' = {}
  /\ post' = [s \in Sends |-> "none"]
  /\ undo' = [s \in Sends |-> "none"]
  /\ window' = [m \in Msgs |-> IF window[m] = "posting" THEN "open" ELSE window[m]]
  /\ cut' = cut \cup {s \in Sends : undo[s] = "restore"}
  /\ UNCHANGED <<db, msg, next, asked, delivered, discarded, unmarked>>

Boot ==
  /\ pc = "down"
  /\ pc' = "recover"
  /\ UNCHANGED <<db, msg, window, post, undo, cur, batch, next, faults, history>>

-----------------------------------------------------------------------------

Compose ==
  \/ \E m \in Msgs, s \in Sends : ComposeEnqueue(m, s) \/ ComposeSendNow(m, s)
  \/ \E m \in Msgs : ComposeEnqueueFails(m)
  \/ \E s \in Sends : SendNowAccepted(s) \/ SendNowReturns(s) \/ SendNowFails(s) \/ ComposeDone(s)

Buttons == \E s \in Sends :
  \/ UndoRead(s) \/ UndoCancels(s) \/ UndoTooLate(s) \/ UndoRestores(s)
  \/ HandleCancel(s) \/ HandleRetry(s) \/ HandleDelete(s)

\* The scheduler's own steps, and those that wait for the servers.
Scheduler ==
  \/ Recover \/ ReadDue
  \/ \E s \in Sends : Claim(s) \/ ClaimLost(s)

Conversation == SmtpAccepts \/ Settle

Next ==
  \/ Compose \/ Buttons \/ Scheduler \/ Conversation \/ SettleLost
  \/ \E s \in Sends : BecomesDue(s)
  \/ Crash \/ Boot

Spec == Init /\ [][Next]_vars

\* The scheduler goroutine runs and a process that died is started again.  No
\* fairness of Conversation: the send has no deadline and may hang for ever.
FairSpec == Spec /\ WF_vars(Scheduler) /\ WF_vars(Boot)

-----------------------------------------------------------------------------

TypeOK ==
  /\ row \in [Sends -> Status \cup {"none"}]
  /\ due \in [Sends -> BOOLEAN]
  /\ draft \in [Msgs -> BOOLEAN]
  /\ msg \in [Sends -> Msgs]
  /\ window \in [Msgs -> {"open", "posting", "closed"}]
  /\ post \in [Sends -> {"none", "drop", "smtp", "taken"}]
  /\ undo \in [Sends -> {"none", "cancel", "restore"}]
  /\ pc \in {"down", "recover", "loop", "smtp", "taken"}
  /\ cur \in IF pc \in {"smtp", "taken"} THEN Sends ELSE {0}
  /\ batch \in SUBSET Sends
  /\ next \in Nat \ {0}
  /\ faults \in 0..MaxFaults
  /\ asked \in [Sends -> 0..MaxAsks]
  /\ delivered \in [Sends -> Nat]
  /\ discarded \in SUBSET Sends /\ unmarked \in SUBSET Sends /\ cut \in SUBSET Sends

\* The scheduler is between the claim of s and the row's outcome.
Held(s) == cur = s /\ pc \in {"smtp", "taken"}

\* At most once per ask: however ticks, buttons, two tabs and restarts interleave,
\* one press of Send or Retry never lets the SMTP server accept a message twice.
AtMostOncePerAsk == \A s \in Sends : delivered[s] <= asked[s]

\* A window closes only over text that is somewhere: in a draft, in a row the
\* scheduler or the Outgoing page still shows, at the recipient, or given up by
\* the user's own cancel or delete.  The one way to lose it is an undo the
\* process dies in after the cancel and before the draft is back.
NoSilentLoss ==
  \A m \in Msgs : window[m] = "closed" =>
    \/ draft[m]
    \/ \E s \in Sends : msg[s] = m /\ asked[s] > 0 /\
         \/ row[s] \in {"queued", "sending", "failed", "sent"}
         \/ delivered[s] > 0
         \/ undo[s] = "restore"
         \/ s \in discarded \cup cut

\* A due row does not wait for ever, whatever else is raced, lost or restarted:
\* only a send that never ends holds up the rows behind it, as there is one
\* scheduler and it has no deadline.
DueIsHandled ==
  \A s \in Sends : (row[s] = "queued" /\ due[s]) ~>
    (row[s] # "queued" \/ [](pc \in {"smtp", "taken"}))

\* A claimed row comes out of "sending" without anybody's help, also over a restart,
\* except while it waits for the next start: the scheduler hangs in its send for
\* ever, or the UPDATE of its outcome or of its recovery failed.
SendingSettles ==
  \A s \in Sends : row[s] = "sending" ~> (row[s] # "sending" \/ s \in unmarked \/ []Held(s))

\* Where the abstract send s stands: the goroutine that talks to SMTP decides
\* before the row does, because a row can be deleted under a send in flight.
Trying(s) == (Held(s) /\ pc = "smtp") \/ post[s] = "smtp"
Taken(s)  == (Held(s) /\ pc = "taken") \/ post[s] = "taken"

PhaseOf(s) ==
  IF asked[s] = 0 THEN "unasked"
  ELSE IF Trying(s) THEN "trying"
  ELSE IF Taken(s) THEN "taken"
  ELSE IF row[s] = "queued" THEN "waiting"
  ELSE IF row[s] \in {"sending", "failed"} THEN "failed"
  ELSE "closed"

phase == [s \in Sends |-> PhaseOf(s)]
Abstract == INSTANCE SendOnce
  WITH Sends <- Sends, phase <- phase, asked <- asked, delivered <- delivered

\* Every step is a step of the abstract send or invisible to it: nothing is
\* attempted after a cancel, a delete or a recorded success.
ImplementsSendOnce == Abstract!Spec

=============================================================================

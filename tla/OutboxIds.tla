------------------------------ MODULE OutboxIds ------------------------------
(***************************************************************************)
(* The outbox with the ids SQLite really hands out.                         *)
(*                                                                          *)
(* outbox.id is INTEGER PRIMARY KEY without AUTOINCREMENT: a new row gets   *)
(* the largest id in the table plus one, so the id of a deleted last row is *)
(* given out again.  Outbox names a row by the press of Send that made it;  *)
(* here a row is found by its id, and whoever still holds the id of a       *)
(* deleted row finds the row that took its place.                           *)
(***************************************************************************)
EXTENDS Outbox, FiniteSetsExt

VARIABLE idOf   \* idOf[s]: id of the row of s, also once that row is deleted; 0 before

idVars == <<vars, idOf>>

\* INSERT without an id.
NewId == 1 + Max({0} \cup {idOf[s] : s \in {r \in Sends : row[r] # "none"}})

\* The rows a statement WHERE id = (the id of s) finds when the row of s is gone.
Takers(s) == {t \in Sends : row[s] = "none" /\ row[t] # "none" /\ idOf[s] # 0 /\ idOf[t] = idOf[s]}

\* Nobody who holds the id of s acts as if it found nothing.
NotMistaken == \A s \in Sends : Takers(s) # {} =>
  /\ s \in batch /\ pc' # "down" => s \in batch'
  /\ cur = s /\ pc' # "down" => cur' = s
  /\ undo[s] = "cancel" /\ pc' # "down" => undo'[s] = "cancel"

\* A step of Outbox on rows that are still their own.
OwnRow ==
  /\ Next
  /\ NotMistaken
  /\ idOf' = [s \in Sends |-> IF row[s] = "none" /\ row'[s] = "queued" THEN NewId ELSE idOf[s]]

\* The scheduler claims the row of t with the id of s, and has the text of s.
ClaimTaker(s, t) ==
  /\ pc = "loop" /\ s \in batch
  /\ ClaimOutbox(t)
  /\ batch' = batch \ {s}
  /\ pc' = "smtp" /\ cur' = s
  /\ UNCHANGED <<due, draft, msg, window, post, undo, next, faults, history, idOf>>

\* The row is some other message's, or it was t's already at the claim.
SettleTaker(t) ==
  /\ \/ pc = "taken" /\ SetStatus(t, "sent")
     \/ pc \in {"smtp", "taken"} /\ SetStatus(t, "failed")
  /\ pc' = "loop" /\ cur' = 0
  /\ UNCHANGED <<due, draft, msg, window, post, undo, batch, next, faults, history, idOf>>

\* The undo cancels the row of t and will put the text of s back.
UndoTaker(s, t) ==
  /\ undo[s] = "cancel"
  /\ \/ CancelOutbox(t) /\ undo' = [undo EXCEPT ![s] = "restore"]
     \/ row[t] # "queued" /\ UNCHANGED row /\ undo' = [undo EXCEPT ![s] = "none"]
  /\ UNCHANGED <<due, draft, msg, window, post, pc, cur, batch, next, faults, history, idOf>>

\* A tab that still shows the failed row of s deletes the row of t.
DeleteTaker(t) ==
  /\ Up
  /\ row' = [row EXCEPT ![t] = "none"]
  /\ UNCHANGED <<due, draft, msg, window, server, next, faults, history, idOf>>

OtherRow == \E s \in Sends : \E t \in Takers(s) :
  \/ ClaimTaker(s, t) \/ UndoTaker(s, t) \/ DeleteTaker(t)
  \/ cur = s /\ SettleTaker(t)

InitIds == Init /\ idOf = [s \in Sends |-> 0]
NextIds == OwnRow \/ OtherRow
SpecIds == InitIds /\ [][NextIds]_idVars

\* The scheduler cannot silently eat a queued message: a row reads "sent" only when
\* the message in it was handed over (dispatchDue, MarkOutboxSent).
SentWasDelivered == \A s \in Sends : row[s] = "sent" => delivered[s] > 0

=============================================================================

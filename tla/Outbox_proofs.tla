---------------------------- MODULE Outbox_proofs ----------------------------
(***************************************************************************)
(* Theorems about Outbox, for any number of windows, presses, retries and   *)
(* faults.                                                                  *)
(***************************************************************************)
EXTENDS Outbox, TLAPS

-----------------------------------------------------------------------------
(* Types *)

\* Every reachable state is well typed.
THEOREM TypeCorrect == Spec => []TypeOK
<1> USE MsgsAssumption, BoundsAssumption DEF Sends, Status
<1>1. Init => TypeOK
  BY DEF Init, TypeOK
<1>2. TypeOK /\ [Next]_vars => TypeOK'
  <2> SUFFICES ASSUME TypeOK, [Next]_vars PROVE TypeOK'
    OBVIOUS
  <2> USE DEF TypeOK, db, server, history, Fault, SetStatus, Up
  <2>1. ASSUME NEW m \in Msgs, NEW s \in Sends, ComposeEnqueue(m, s) PROVE TypeOK'
    <3>1. due' \in [Sends -> BOOLEAN]
      BY <2>1 DEF ComposeEnqueue, Press, EnqueueOutbox
    <3>2. asked' \in [Sends -> 0..MaxAsks]
      BY <2>1 DEF ComposeEnqueue, Press, EnqueueOutbox
    <3>3. row' \in [Sends -> Status \cup {"none"}]
      BY <2>1 DEF ComposeEnqueue, Press, EnqueueOutbox
    <3>4. msg' \in [Sends -> Msgs]
      BY <2>1 DEF ComposeEnqueue, Press, EnqueueOutbox
    <3>5. window' \in [Msgs -> {"open", "posting", "closed"}]
      BY <2>1 DEF ComposeEnqueue, Press, EnqueueOutbox
    <3>6. post' \in [Sends -> {"none", "drop", "smtp", "taken"}] /\ next' \in Nat \ {0}
      BY <2>1 DEF ComposeEnqueue, Press
    <3>7. UNCHANGED <<draft, undo, pc, cur, batch, faults, delivered, discarded, unmarked, cut>>
      BY <2>1 DEF ComposeEnqueue
    <3> QED
      BY <3>1, <3>2, <3>3, <3>4, <3>5, <3>6, <3>7
  <2>2. ASSUME NEW m \in Msgs, NEW s \in Sends, ComposeSendNow(m, s) PROVE TypeOK'
    <3>1. asked' \in [Sends -> 0..MaxAsks]
      BY <2>2 DEF ComposeSendNow, Press
    <3>2. msg' \in [Sends -> Msgs]
      BY <2>2 DEF ComposeSendNow, Press
    <3>3. window' \in [Msgs -> {"open", "posting", "closed"}]
      BY <2>2 DEF ComposeSendNow, Press
    <3>4. post' \in [Sends -> {"none", "drop", "smtp", "taken"}] /\ next' \in Nat \ {0}
      BY <2>2 DEF ComposeSendNow, Press
    <3>5. UNCHANGED <<row, due, draft, undo, pc, cur, batch, faults, delivered, discarded, unmarked, cut>>
      BY <2>2 DEF ComposeSendNow
    <3> QED
      BY <3>1, <3>2, <3>3, <3>4, <3>5
  <2>3. ASSUME NEW m \in Msgs, ComposeEnqueueFails(m) PROVE TypeOK'
    <3>1. draft' \in [Msgs -> BOOLEAN]
      BY <2>3 DEF ComposeEnqueueFails, PreserveComposeFailure
    <3>2. faults' \in 0..MaxFaults
      BY <2>3 DEF ComposeEnqueueFails
    <3>3. UNCHANGED <<row, due, msg, window, post, undo, pc, cur, batch, next, asked, delivered,
                      discarded, unmarked, cut>>
      BY <2>3 DEF ComposeEnqueueFails
    <3> QED
      BY <3>1, <3>2, <3>3
  <2>4. ASSUME NEW s \in Sends, SendNowAccepted(s) PROVE TypeOK'
    <3>1. delivered' \in [Sends -> Nat]
      BY <2>4 DEF SendNowAccepted
    <3> QED
      BY <2>4, <3>1 DEF SendNowAccepted
  <2>5. ASSUME NEW s \in Sends, SendNowReturns(s) PROVE TypeOK'
    BY <2>5 DEF SendNowReturns
  <2>6. ASSUME NEW s \in Sends, SendNowFails(s) PROVE TypeOK'
    BY <2>6 DEF SendNowFails, PreserveComposeFailure
  <2>7. ASSUME NEW s \in Sends, ComposeDone(s) PROVE TypeOK'
    BY <2>7 DEF ComposeDone
  <2>8. ASSUME NEW s \in Sends, UndoRead(s) PROVE TypeOK'
    BY <2>8 DEF UndoRead
  <2>9. ASSUME NEW s \in Sends, UndoCancels(s) PROVE TypeOK'
    BY <2>9 DEF UndoCancels, CancelOutbox
  <2>10. ASSUME NEW s \in Sends, UndoTooLate(s) PROVE TypeOK'
    BY <2>10 DEF UndoTooLate
  <2>11. ASSUME NEW s \in Sends, UndoRestores(s) PROVE TypeOK'
    <3>1. draft' \in [Msgs -> BOOLEAN]
      BY <2>11 DEF UndoRestores
    <3>2. faults' \in 0..MaxFaults
      BY <2>11 DEF UndoRestores
    <3> QED
      BY <2>11, <3>1, <3>2 DEF UndoRestores
  <2>12. ASSUME NEW s \in Sends, HandleCancel(s) PROVE TypeOK'
    BY <2>12 DEF HandleCancel, CancelOutbox
  <2>13. ASSUME NEW s \in Sends, HandleRetry(s) PROVE TypeOK'
    <3>1. asked' \in [Sends -> 0..MaxAsks]
      BY <2>13 DEF HandleRetry, RetryOutbox
    <3>2. row' \in [Sends -> Status \cup {"none"}]
      BY <2>13 DEF HandleRetry, RetryOutbox
    <3>3. due' \in [Sends -> BOOLEAN]
      BY <2>13 DEF HandleRetry, RetryOutbox
    <3> QED
      BY <2>13, <3>1, <3>2, <3>3 DEF HandleRetry, RetryOutbox
  <2>14. ASSUME NEW s \in Sends, HandleDelete(s) PROVE TypeOK'
    BY <2>14 DEF HandleDelete
  <2>15. CASE Recover
    BY <2>15 DEF Recover, RecoverSending
  <2>16. CASE ReadDue
    BY <2>16 DEF ReadDue, DueOutbox
  <2>17. CASE SmtpAccepts
    <3>1. delivered' \in [Sends -> Nat]
      BY <2>17 DEF SmtpAccepts
    <3> QED
      BY <2>17, <3>1 DEF SmtpAccepts
  <2>18. CASE Settle
    BY <2>18 DEF Settle, MarkOutboxSent, MarkOutboxFailed
  <2>19. ASSUME NEW s \in Sends, Claim(s) PROVE TypeOK'
    BY <2>19 DEF Claim, ClaimOutbox
  <2>20. ASSUME NEW s \in Sends, ClaimLost(s) PROVE TypeOK'
    <3>1. faults' \in 0..MaxFaults
      BY <2>20 DEF ClaimLost
    <3> QED
      BY <2>20, <3>1 DEF ClaimLost
  <2>21. CASE SettleLost
    <3>1. faults' \in 0..MaxFaults
      BY <2>21 DEF SettleLost
    <3> QED
      BY <2>21, <3>1 DEF SettleLost
  <2>22. ASSUME NEW s \in Sends, BecomesDue(s) PROVE TypeOK'
    BY <2>22 DEF BecomesDue
  <2>23. CASE Crash
    <3>1. faults' \in 0..MaxFaults
      BY <2>23 DEF Crash
    <3>2. window' \in [Msgs -> {"open", "posting", "closed"}]
      BY <2>23 DEF Crash
    <3>3. UNCHANGED <<row, due, draft, msg, next, asked, delivered, discarded, unmarked>>
      BY <2>23 DEF Crash
    <3>4. /\ post' \in [Sends -> {"none", "drop", "smtp", "taken"}]
          /\ undo' \in [Sends -> {"none", "cancel", "restore"}]
          /\ pc' = "down" /\ cur' = 0 /\ batch' = {}
          /\ cut' \in SUBSET Sends
      BY <2>23 DEF Crash
    <3> QED
      BY <3>1, <3>2, <3>3, <3>4
  <2>24. CASE Boot
    BY <2>24 DEF Boot
  <2>25. CASE UNCHANGED vars
    BY <2>25 DEF vars
  <2> QED
    BY <2>1, <2>2, <2>3, <2>4, <2>5, <2>6, <2>7, <2>8, <2>9, <2>10, <2>11, <2>12, <2>13,
       <2>14, <2>15, <2>16, <2>17, <2>18, <2>19, <2>20, <2>21, <2>22, <2>23, <2>24, <2>25
       DEF Next, Compose, Buttons, Scheduler, Conversation
<1> QED
  BY <1>1, <1>2, PTL DEF Spec

-----------------------------------------------------------------------------
(* At most once per ask *)

\* Ids that were not handed out yet have no row, no request and no delivery.
Fresh ==
  /\ \A s \in Sends : s >= next => asked[s] = 0
  /\ \A s \in Sends : asked[s] = 0 => row[s] = "none" /\ post[s] = "none" /\ delivered[s] = 0

\* Nobody else works on a send that is being tried: a send-now has no row, and
\* the row the scheduler holds stays "sending" until it is settled or deleted.
Alone ==
  /\ \A s \in Sends : post[s] \in {"smtp", "taken"} => row[s] = "none"
  /\ \A s \in Sends : Held(s) =>
       row[s] \in {"sending", "none"} /\ post[s] \notin {"smtp", "taken"} /\ asked[s] > 0

\* What was delivered, and what one more try may deliver, was asked for.
Credit ==
  \A s \in Sends :
    /\ delivered[s] <= asked[s]
    /\ row[s] = "queued" \/ Trying(s) => delivered[s] + 1 <= asked[s]

\* The inductive invariant.
IInv == TypeOK /\ Fresh /\ Alone /\ Credit

LEMMA IInvInit == Init => IInv
  BY MsgsAssumption, BoundsAssumption
     DEF Init, IInv, TypeOK, Fresh, Alone, Credit, Sends, Status, Held, Trying

LEMMA IInvStep == TypeOK /\ TypeOK' /\ Fresh /\ Alone /\ Credit /\ [Next]_vars => (Fresh /\ Alone /\ Credit)'
<1> SUFFICES ASSUME TypeOK, TypeOK', Fresh, Alone, Credit, [Next]_vars PROVE (Fresh /\ Alone /\ Credit)'
  OBVIOUS
<1> USE BoundsAssumption DEF TypeOK, Fresh, Alone, Credit, Held, Trying, db, server, history, Fault, SetStatus, Up, Sends, Status
<1>1. ASSUME NEW m \in Msgs, NEW s \in Sends, ComposeEnqueue(m, s) PROVE (Fresh /\ Alone /\ Credit)'
  BY <1>1 DEF ComposeEnqueue, Press, EnqueueOutbox
<1>2. ASSUME NEW m \in Msgs, NEW s \in Sends, ComposeSendNow(m, s) PROVE (Fresh /\ Alone /\ Credit)'
  BY <1>2 DEF ComposeSendNow, Press
<1>3. ASSUME NEW m \in Msgs, ComposeEnqueueFails(m) PROVE (Fresh /\ Alone /\ Credit)'
  BY <1>3 DEF ComposeEnqueueFails, PreserveComposeFailure
<1>4. ASSUME NEW s \in Sends, SendNowAccepted(s) PROVE (Fresh /\ Alone /\ Credit)'
  BY <1>4 DEF SendNowAccepted
<1>5. ASSUME NEW s \in Sends, SendNowReturns(s) PROVE (Fresh /\ Alone /\ Credit)'
  BY <1>5 DEF SendNowReturns
<1>6. ASSUME NEW s \in Sends, SendNowFails(s) PROVE (Fresh /\ Alone /\ Credit)'
  BY <1>6 DEF SendNowFails, PreserveComposeFailure
<1>7. ASSUME NEW s \in Sends, ComposeDone(s) PROVE (Fresh /\ Alone /\ Credit)'
  BY <1>7 DEF ComposeDone
<1>8. ASSUME NEW s \in Sends, UndoRead(s) PROVE (Fresh /\ Alone /\ Credit)'
  BY <1>8 DEF UndoRead
<1>9. ASSUME NEW s \in Sends, UndoCancels(s) PROVE (Fresh /\ Alone /\ Credit)'
  BY <1>9 DEF UndoCancels, CancelOutbox
<1>10. ASSUME NEW s \in Sends, UndoTooLate(s) PROVE (Fresh /\ Alone /\ Credit)'
  BY <1>10 DEF UndoTooLate
<1>11. ASSUME NEW s \in Sends, UndoRestores(s) PROVE (Fresh /\ Alone /\ Credit)'
  BY <1>11 DEF UndoRestores
<1>12. ASSUME NEW s \in Sends, HandleCancel(s) PROVE (Fresh /\ Alone /\ Credit)'
  BY <1>12 DEF HandleCancel, CancelOutbox
<1>13. ASSUME NEW s \in Sends, HandleRetry(s) PROVE (Fresh /\ Alone /\ Credit)'
  BY <1>13 DEF HandleRetry, RetryOutbox
<1>14. ASSUME NEW s \in Sends, HandleDelete(s) PROVE (Fresh /\ Alone /\ Credit)'
  BY <1>14 DEF HandleDelete
<1>15. CASE Recover
  BY <1>15 DEF Recover, RecoverSending
<1>16. CASE ReadDue
  BY <1>16 DEF ReadDue
<1>17. CASE SmtpAccepts
  BY <1>17 DEF SmtpAccepts
<1>18. CASE Settle
  BY <1>18 DEF Settle, MarkOutboxSent, MarkOutboxFailed
<1>19. ASSUME NEW s \in Sends, Claim(s) PROVE (Fresh /\ Alone /\ Credit)'
  BY <1>19 DEF Claim, ClaimOutbox
<1>20. ASSUME NEW s \in Sends, ClaimLost(s) PROVE (Fresh /\ Alone /\ Credit)'
  BY <1>20 DEF ClaimLost
<1>21. CASE SettleLost
  BY <1>21 DEF SettleLost
<1>22. ASSUME NEW s \in Sends, BecomesDue(s) PROVE (Fresh /\ Alone /\ Credit)'
  BY <1>22 DEF BecomesDue
<1>23. CASE Crash
  BY <1>23 DEF Crash
<1>24. CASE Boot
  BY <1>24 DEF Boot
<1>25. CASE UNCHANGED vars
  BY <1>25 DEF vars
<1> QED
  BY <1>1, <1>2, <1>3, <1>4, <1>5, <1>6, <1>7, <1>8, <1>9, <1>10, <1>11, <1>12, <1>13,
     <1>14, <1>15, <1>16, <1>17, <1>18, <1>19, <1>20, <1>21, <1>22, <1>23, <1>24,
     <1>25
       DEF Next, Compose, Buttons, Scheduler, Conversation

\* One press of Send or Retry never lets an SMTP server accept a message twice.
THEOREM AtMostOnce == Spec => []AtMostOncePerAsk
<1>1. IInv /\ [Next]_vars /\ TypeOK' => IInv'
  BY IInvStep DEF IInv
<1>2. IInv => AtMostOncePerAsk
  BY DEF IInv, Credit, AtMostOncePerAsk
<1> QED
  BY IInvInit, TypeCorrect, <1>1, <1>2, PTL DEF Spec

-----------------------------------------------------------------------------
(* Outbox implements SendOnce *)

\* A step that moves one send moves the abstract one, and no other.
LEMMA PhaseMoves ==
  ASSUME NEW s \in Sends, NEW to, PhaseOf(s)' = to,
         \A t \in Sends \ {s} : PhaseOf(t)' = PhaseOf(t)
  PROVE  phase' = [phase EXCEPT ![s] = to]
BY DEF phase

LEMMA PhaseStays ==
  ASSUME \A t \in Sends : PhaseOf(t)' = PhaseOf(t)
  PROVE  phase' = phase
BY DEF phase

LEMMA InitRefines == Init => Abstract!Init
BY DEF Init, Abstract!Init, phase, PhaseOf

LEMMA StepRefines == TypeOK /\ Fresh /\ Alone /\ [Next]_vars => [Abstract!Next]_(Abstract!vars)
<1> DEFINE Goal == [Abstract!Next]_(Abstract!vars)
<1> SUFFICES ASSUME TypeOK, Fresh, Alone, [Next]_vars PROVE Goal
  OBVIOUS
<1> USE DEF db, server, history, SetStatus, PhaseOf, Held, Trying, Taken
\* Steps that only touch what the abstract send does not see.
<1>a. ASSUME UNCHANGED <<asked, delivered>>, \A t \in Sends : PhaseOf(t)' = PhaseOf(t) PROVE Goal
  BY <1>a, PhaseStays DEF Abstract!vars
\* Steps that move one send.
<1>b. ASSUME NEW s \in Sends, NEW to, PhaseOf(s)' = to,
             \A t \in Sends \ {s} : PhaseOf(t)' = PhaseOf(t),
             \/ /\ PhaseOf(s) = "unasked" /\ to \in {"waiting", "trying"}
                /\ asked' = [asked EXCEPT ![s] = asked[s] + 1] /\ UNCHANGED delivered
             \/ /\ PhaseOf(s) = "waiting" /\ to = "trying" /\ UNCHANGED <<asked, delivered>>
             \/ /\ PhaseOf(s) = "trying" /\ to = "taken" /\ UNCHANGED asked
                /\ delivered' = [delivered EXCEPT ![s] = delivered[s] + 1]
             \/ /\ PhaseOf(s) \in {"trying", "taken"} /\ to = "failed" /\ UNCHANGED <<asked, delivered>>
             \/ /\ PhaseOf(s) = "failed" /\ to = "waiting" /\ UNCHANGED delivered
                /\ asked' = [asked EXCEPT ![s] = asked[s] + 1]
             \/ /\ PhaseOf(s) \in {"waiting", "trying", "taken", "failed"} /\ to = "closed"
                /\ UNCHANGED <<asked, delivered>>
      PROVE Goal
  <2>1. phase' = [phase EXCEPT ![s] = to] /\ phase[s] = PhaseOf(s)
    BY <1>b, PhaseMoves DEF phase
  <2> HIDE DEF PhaseOf
  <2> QED
    BY <1>b, <2>1 DEF Abstract!Next, Abstract!Ask, Abstract!Try, Abstract!Accept, Abstract!Fail,
       Abstract!AskAgain, Abstract!Close, Abstract!Goto
<1> USE DEF Fresh, Alone, TypeOK
<1>1. ASSUME NEW m \in Msgs, NEW s \in Sends, ComposeEnqueue(m, s) PROVE Goal
  <2>1. PhaseOf(s) = "unasked" /\ PhaseOf(s)' = "waiting"
    BY <1>1 DEF ComposeEnqueue, Press, EnqueueOutbox
  <2>2. \A t \in Sends \ {s} : PhaseOf(t)' = PhaseOf(t)
    BY <1>1 DEF ComposeEnqueue, Press, EnqueueOutbox
  <2>3. asked' = [asked EXCEPT ![s] = asked[s] + 1] /\ UNCHANGED delivered
    <3>1. asked[s] = 0 /\ 0 + 1 = 1
      BY <1>1 DEF ComposeEnqueue, Press, EnqueueOutbox
    <3>2. asked' = [asked EXCEPT ![s] = 1] /\ UNCHANGED delivered
      BY <1>1 DEF ComposeEnqueue, Press, EnqueueOutbox
    <3> QED
      BY <3>1, <3>2
  <2> HIDE DEF PhaseOf
  <2> QED
    BY <2>1, <2>2, <2>3, <1>b
<1>2. ASSUME NEW m \in Msgs, NEW s \in Sends, ComposeSendNow(m, s) PROVE Goal
  <2>1. PhaseOf(s) = "unasked" /\ PhaseOf(s)' = "trying"
    BY <1>2 DEF ComposeSendNow, Press
  <2>2. \A t \in Sends \ {s} : PhaseOf(t)' = PhaseOf(t)
    BY <1>2 DEF ComposeSendNow, Press
  <2>3. asked' = [asked EXCEPT ![s] = asked[s] + 1] /\ UNCHANGED delivered
    <3>1. asked[s] = 0 /\ 0 + 1 = 1
      BY <1>2 DEF ComposeSendNow, Press
    <3>2. asked' = [asked EXCEPT ![s] = 1] /\ UNCHANGED delivered
      BY <1>2 DEF ComposeSendNow, Press
    <3> QED
      BY <3>1, <3>2
  <2> HIDE DEF PhaseOf
  <2> QED
    BY <2>1, <2>2, <2>3, <1>b
<1>3. ASSUME NEW m \in Msgs, ComposeEnqueueFails(m) PROVE Goal
  <2>1. UNCHANGED <<asked, delivered>> /\ \A t \in Sends : PhaseOf(t)' = PhaseOf(t)
    BY <1>3 DEF ComposeEnqueueFails, PreserveComposeFailure
  <2> QED
    BY <2>1, <1>a
<1>4. ASSUME NEW s \in Sends, SendNowAccepted(s) PROVE Goal
  <2>1. PhaseOf(s) = "trying" /\ PhaseOf(s)' = "taken"
    BY <1>4 DEF SendNowAccepted
  <2>2. \A t \in Sends \ {s} : PhaseOf(t)' = PhaseOf(t)
    BY <1>4 DEF SendNowAccepted
  <2>3. delivered' = [delivered EXCEPT ![s] = delivered[s] + 1] /\ UNCHANGED asked
    BY <1>4 DEF SendNowAccepted
  <2> HIDE DEF PhaseOf
  <2> QED
    BY <2>1, <2>2, <2>3, <1>b
<1>5. ASSUME NEW s \in Sends, SendNowReturns(s) PROVE Goal
  <2>1. PhaseOf(s) = "taken" /\ PhaseOf(s)' = "closed"
    BY <1>5 DEF SendNowReturns
  <2>2. \A t \in Sends \ {s} : PhaseOf(t)' = PhaseOf(t)
    BY <1>5 DEF SendNowReturns
  <2>3. UNCHANGED <<asked, delivered>>
    BY <1>5 DEF SendNowReturns
  <2> HIDE DEF PhaseOf
  <2> QED
    BY <2>1, <2>2, <2>3, <1>b
<1>6. ASSUME NEW s \in Sends, SendNowFails(s) PROVE Goal
  <2>1. PhaseOf(s) \in {"trying", "taken"} /\ PhaseOf(s)' = "closed"
    BY <1>6 DEF SendNowFails, PreserveComposeFailure
  <2>2. \A t \in Sends \ {s} : PhaseOf(t)' = PhaseOf(t)
    BY <1>6 DEF SendNowFails, PreserveComposeFailure
  <2>3. UNCHANGED <<asked, delivered>>
    BY <1>6 DEF SendNowFails, PreserveComposeFailure
  <2> HIDE DEF PhaseOf
  <2> QED
    BY <2>1, <2>2, <2>3, <1>b
<1>7. ASSUME NEW s \in Sends, ComposeDone(s) PROVE Goal
  <2>1. UNCHANGED <<asked, delivered>> /\ \A t \in Sends : PhaseOf(t)' = PhaseOf(t)
    BY <1>7 DEF ComposeDone
  <2> QED
    BY <2>1, <1>a
<1>8. ASSUME NEW s \in Sends, UndoRead(s) PROVE Goal
  <2>1. UNCHANGED <<asked, delivered>> /\ \A t \in Sends : PhaseOf(t)' = PhaseOf(t)
    BY <1>8 DEF UndoRead
  <2> QED
    BY <2>1, <1>a
<1>9. ASSUME NEW s \in Sends, UndoCancels(s) PROVE Goal
  <2>1. PhaseOf(s) = "waiting" /\ PhaseOf(s)' = "closed"
    BY <1>9 DEF UndoCancels, CancelOutbox
  <2>2. \A t \in Sends \ {s} : PhaseOf(t)' = PhaseOf(t)
    BY <1>9 DEF UndoCancels, CancelOutbox
  <2>3. UNCHANGED <<asked, delivered>>
    BY <1>9 DEF UndoCancels, CancelOutbox
  <2> HIDE DEF PhaseOf
  <2> QED
    BY <2>1, <2>2, <2>3, <1>b
<1>10. ASSUME NEW s \in Sends, UndoTooLate(s) PROVE Goal
  <2>1. UNCHANGED <<asked, delivered>> /\ \A t \in Sends : PhaseOf(t)' = PhaseOf(t)
    BY <1>10 DEF UndoTooLate
  <2> QED
    BY <2>1, <1>a
<1>11. ASSUME NEW s \in Sends, UndoRestores(s) PROVE Goal
  <2>1. UNCHANGED <<asked, delivered>> /\ \A t \in Sends : PhaseOf(t)' = PhaseOf(t)
    BY <1>11 DEF UndoRestores
  <2> QED
    BY <2>1, <1>a
<1>12. ASSUME NEW s \in Sends, HandleCancel(s) PROVE Goal
  <2>1. PhaseOf(s) = "waiting" /\ PhaseOf(s)' = "closed"
    BY <1>12 DEF HandleCancel, CancelOutbox
  <2>2. \A t \in Sends \ {s} : PhaseOf(t)' = PhaseOf(t)
    BY <1>12 DEF HandleCancel, CancelOutbox
  <2>3. UNCHANGED <<asked, delivered>>
    BY <1>12 DEF HandleCancel, CancelOutbox
  <2> HIDE DEF PhaseOf
  <2> QED
    BY <2>1, <2>2, <2>3, <1>b
<1>13. ASSUME NEW s \in Sends, HandleRetry(s) PROVE Goal
  <2>1. PhaseOf(s) = "failed" /\ PhaseOf(s)' = "waiting"
    BY <1>13 DEF HandleRetry, RetryOutbox
  <2>2. \A t \in Sends \ {s} : PhaseOf(t)' = PhaseOf(t)
    BY <1>13 DEF HandleRetry, RetryOutbox
  <2>3. asked' = [asked EXCEPT ![s] = asked[s] + 1] /\ UNCHANGED delivered
    BY <1>13 DEF HandleRetry, RetryOutbox
  <2> HIDE DEF PhaseOf
  <2> QED
    BY <2>1, <2>2, <2>3, <1>b
<1>14. ASSUME NEW s \in Sends, HandleDelete(s) PROVE Goal
  <2>1. UNCHANGED <<asked, delivered>> /\ \A t \in Sends \ {s} : PhaseOf(t)' = PhaseOf(t)
    BY <1>14 DEF HandleDelete
  <2>2. CASE Trying(s) \/ Taken(s) \/ row[s] \in {"sent", "cancelled"}
    <3>1. PhaseOf(s)' = PhaseOf(s)
      BY <1>14, <2>2 DEF HandleDelete
    <3> QED
      BY <2>1, <3>1, <1>a
  <2>3. CASE ~(Trying(s) \/ Taken(s) \/ row[s] \in {"sent", "cancelled"})
    <3>1. PhaseOf(s) \in {"waiting", "failed"} /\ PhaseOf(s)' = "closed"
      BY <1>14, <2>3 DEF HandleDelete, Status
    <3> HIDE DEF PhaseOf
    <3> QED
      BY <2>1, <3>1, <1>b
  <2> QED
    BY <2>2, <2>3
<1>15. CASE Recover
  <2>1. UNCHANGED <<asked, delivered>> /\ \A t \in Sends : PhaseOf(t)' = PhaseOf(t)
    BY <1>15 DEF Recover, RecoverSending
  <2> QED
    BY <2>1, <1>a
<1>16. CASE ReadDue
  <2>1. UNCHANGED <<asked, delivered>> /\ \A t \in Sends : PhaseOf(t)' = PhaseOf(t)
    BY <1>16 DEF ReadDue
  <2> QED
    BY <2>1, <1>a
<1>17. CASE SmtpAccepts
  <2> PICK s \in Sends : s = cur
    BY <1>17 DEF SmtpAccepts
  <2>1. PhaseOf(s) = "trying" /\ PhaseOf(s)' = "taken"
    BY <1>17 DEF SmtpAccepts
  <2>2. \A t \in Sends \ {s} : PhaseOf(t)' = PhaseOf(t)
    BY <1>17 DEF SmtpAccepts
  <2>3. delivered' = [delivered EXCEPT ![s] = delivered[s] + 1] /\ UNCHANGED asked
    BY <1>17 DEF SmtpAccepts
  <2> HIDE DEF PhaseOf
  <2> QED
    BY <2>1, <2>2, <2>3, <1>b
<1>18. CASE Settle
  <2> PICK s \in Sends : s = cur
    BY <1>18 DEF Settle, MarkOutboxSent, MarkOutboxFailed
  <2>1. UNCHANGED <<asked, delivered>>
    BY <1>18 DEF Settle, MarkOutboxSent, MarkOutboxFailed
  <2>2. \A t \in Sends \ {s} : PhaseOf(t)' = PhaseOf(t)
    BY <1>18 DEF Settle, MarkOutboxSent, MarkOutboxFailed
  <2>3. PhaseOf(s) \in {"trying", "taken"}
    BY <1>18 DEF Settle, MarkOutboxSent, MarkOutboxFailed
  <2>4. PhaseOf(s)' \in {"failed", "closed"}
    BY <1>18 DEF Settle, MarkOutboxSent, MarkOutboxFailed
  <2> HIDE DEF PhaseOf
  <2> QED
    BY <2>1, <2>2, <2>3, <2>4, <1>b
<1>19. ASSUME NEW s \in Sends, Claim(s) PROVE Goal
  <2>1. PhaseOf(s) = "waiting" /\ PhaseOf(s)' = "trying"
    BY <1>19 DEF Claim, ClaimOutbox
  <2>2. \A t \in Sends \ {s} : PhaseOf(t)' = PhaseOf(t)
    BY <1>19 DEF Claim, ClaimOutbox
  <2>3. UNCHANGED <<asked, delivered>>
    BY <1>19 DEF Claim, ClaimOutbox
  <2> HIDE DEF PhaseOf
  <2> QED
    BY <2>1, <2>2, <2>3, <1>b
<1>20. ASSUME NEW s \in Sends, ClaimLost(s) PROVE Goal
  <2>1. UNCHANGED <<asked, delivered>> /\ \A t \in Sends : PhaseOf(t)' = PhaseOf(t)
    BY <1>20 DEF ClaimLost
  <2> QED
    BY <2>1, <1>a
<1>21. CASE SettleLost
  <2> PICK s \in Sends : s = cur
    BY <1>21 DEF SettleLost
  <2>1. UNCHANGED <<asked, delivered>>
    BY <1>21 DEF SettleLost
  <2>2. \A t \in Sends \ {s} : PhaseOf(t)' = PhaseOf(t)
    BY <1>21 DEF SettleLost
  <2>3. PhaseOf(s) \in {"trying", "taken"}
    BY <1>21 DEF SettleLost
  <2>4. PhaseOf(s)' \in {"failed", "closed"}
    BY <1>21 DEF SettleLost
  <2> HIDE DEF PhaseOf
  <2> QED
    BY <2>1, <2>2, <2>3, <2>4, <1>b
<1>22. ASSUME NEW s \in Sends, BecomesDue(s) PROVE Goal
  <2>1. UNCHANGED <<asked, delivered>> /\ \A t \in Sends : PhaseOf(t)' = PhaseOf(t)
    BY <1>22 DEF BecomesDue
  <2> QED
    BY <2>1, <1>a
<1>23. CASE Crash
  <2>1. UNCHANGED <<asked, delivered>>
    BY <1>23 DEF Crash
  <2>2. ASSUME NEW t \in Sends
        PROVE  \/ PhaseOf(t)' = PhaseOf(t)
               \/ PhaseOf(t) \in {"trying", "taken"} /\ PhaseOf(t)' \in {"failed", "closed"}
    BY <1>23 DEF Crash
  <2>3. \A t \in Sends : PhaseOf(t)' \in Abstract!Phase
    BY DEF Abstract!Phase
  <2> HIDE DEF PhaseOf
  <2>4. /\ phase' \in [Sends -> Abstract!Phase]
        /\ \A t \in Sends : phase[t] = PhaseOf(t) /\ phase'[t] = PhaseOf(t)'
    BY <2>3 DEF phase
  <2> QED
    BY <2>1, <2>2, <2>4 DEF Abstract!Next, Abstract!Interrupt
<1>24. CASE Boot
  <2>1. UNCHANGED <<asked, delivered>> /\ \A t \in Sends : PhaseOf(t)' = PhaseOf(t)
    BY <1>24 DEF Boot
  <2> QED
    BY <2>1, <1>a
<1>25. CASE UNCHANGED vars
  <2>1. UNCHANGED <<asked, delivered>> /\ \A t \in Sends : PhaseOf(t)' = PhaseOf(t)
    BY <1>25 DEF vars
  <2> QED
    BY <2>1, <1>a
<1> QED
  BY <1>1, <1>2, <1>3, <1>4, <1>5, <1>6, <1>7, <1>8, <1>9, <1>10, <1>11, <1>12, <1>13,
     <1>14, <1>15, <1>16, <1>17, <1>18, <1>19, <1>20, <1>21, <1>22, <1>23, <1>24, <1>25
     DEF Next, Compose, Buttons, Scheduler, Conversation

\* Outbox implements SendOnce: whatever requests, ticks, buttons and restarts do,
\* a send is tried only when asked for and never after it was cancelled, deleted
\* or recorded as sent.
THEOREM Refinement == Spec => ImplementsSendOnce
<1>1. IInv /\ [Next]_vars /\ TypeOK' => IInv'
  BY IInvStep DEF IInv
<1>2. IInv /\ [Next]_vars => [Abstract!Next]_(Abstract!vars)
  BY StepRefines DEF IInv
<1> QED
  BY IInvInit, InitRefines, TypeCorrect, <1>1, <1>2, PTL DEF Spec, ImplementsSendOnce, Abstract!Spec

-----------------------------------------------------------------------------
(* No message is lost silently *)

\* The text of send s is somewhere, or its user gave it up.
Kept(s) ==
  \/ row[s] \in {"queued", "sending", "failed", "sent"}
  \/ delivered[s] > 0
  \/ undo[s] = "restore"
  \/ s \in discarded \cup cut

\* A POST drops the draft only when it is needed no more, and an undo starts
\* only after the POST was answered.
Handover ==
  /\ \A s \in Sends : post[s] = "drop" => Kept(s)
  /\ \A s \in Sends : post[s] = "taken" => delivered[s] > 0
  /\ \A s \in Sends : undo[s] # "none" => post[s] = "none" /\ asked[s] > 0

Covered(m) == draft[m] \/ \E s \in Sends : msg[s] = m /\ asked[s] > 0 /\ Kept(s)

LEMMA LossInit == Init => Handover /\ NoSilentLoss
  BY DEF Init, Handover, NoSilentLoss, Kept

\* What was kept stays kept, except by the undo that gives it back to its window.
LEMMA KeptStays ==
  ASSUME TypeOK, Fresh, Alone, [Next]_vars
  PROVE  /\ \A t \in Sends : Kept(t) => Kept(t)' \/ (undo[t] = "restore" /\ UndoRestores(t))
         /\ \A t \in Sends : asked[t] > 0 => msg'[t] = msg[t] /\ asked'[t] > 0
<1> DEFINE Goal == /\ \A t \in Sends : Kept(t) => Kept(t)' \/ (undo[t] = "restore" /\ UndoRestores(t))
                   /\ \A t \in Sends : asked[t] > 0 => msg'[t] = msg[t] /\ asked'[t] > 0
<1> SUFFICES Goal
  OBVIOUS
<1> USE DEF TypeOK, Fresh, Alone, Kept, Held, db, server, history, SetStatus, Up, Fault
<1>1. ASSUME NEW m \in Msgs, NEW s \in Sends, ComposeEnqueue(m, s) PROVE Goal
  BY <1>1 DEF ComposeEnqueue, Press, EnqueueOutbox
<1>2. ASSUME NEW m \in Msgs, NEW s \in Sends, ComposeSendNow(m, s) PROVE Goal
  BY <1>2 DEF ComposeSendNow, Press
<1>3. ASSUME NEW m \in Msgs, ComposeEnqueueFails(m) PROVE Goal
  BY <1>3 DEF ComposeEnqueueFails, PreserveComposeFailure
<1>4. ASSUME NEW s \in Sends, SendNowAccepted(s) PROVE Goal
  BY <1>4 DEF SendNowAccepted
<1>5. ASSUME NEW s \in Sends, SendNowReturns(s) PROVE Goal
  BY <1>5 DEF SendNowReturns
<1>6. ASSUME NEW s \in Sends, SendNowFails(s) PROVE Goal
  BY <1>6 DEF SendNowFails, PreserveComposeFailure
<1>7. ASSUME NEW s \in Sends, ComposeDone(s) PROVE Goal
  BY <1>7 DEF ComposeDone
<1>8. ASSUME NEW s \in Sends, UndoRead(s) PROVE Goal
  BY <1>8 DEF UndoRead
<1>9. ASSUME NEW s \in Sends, UndoCancels(s) PROVE Goal
  BY <1>9 DEF UndoCancels, CancelOutbox
<1>10. ASSUME NEW s \in Sends, UndoTooLate(s) PROVE Goal
  BY <1>10 DEF UndoTooLate
<1>11. ASSUME NEW s \in Sends, UndoRestores(s) PROVE Goal
  <2>1. undo[s] = "restore" /\ UNCHANGED <<row, delivered, discarded, cut, msg, asked>>
    BY <1>11 DEF UndoRestores
  <2>2. \A t \in Sends \ {s} : undo'[t] = undo[t]
    BY <1>11 DEF UndoRestores
  <2> QED
    BY <1>11, <2>1, <2>2
<1>12. ASSUME NEW s \in Sends, HandleCancel(s) PROVE Goal
  BY <1>12 DEF HandleCancel, CancelOutbox
<1>13. ASSUME NEW s \in Sends, HandleRetry(s) PROVE Goal
  BY <1>13 DEF HandleRetry, RetryOutbox
<1>14. ASSUME NEW s \in Sends, HandleDelete(s) PROVE Goal
  BY <1>14 DEF HandleDelete
<1>15. CASE Recover
  BY <1>15 DEF Recover, RecoverSending
<1>16. CASE ReadDue
  BY <1>16 DEF ReadDue
<1>17. CASE SmtpAccepts
  BY <1>17 DEF SmtpAccepts
<1>18. CASE Settle
  BY <1>18 DEF Settle, MarkOutboxSent, MarkOutboxFailed
<1>19. ASSUME NEW s \in Sends, Claim(s) PROVE Goal
  BY <1>19 DEF Claim, ClaimOutbox
<1>20. ASSUME NEW s \in Sends, ClaimLost(s) PROVE Goal
  BY <1>20 DEF ClaimLost
<1>21. CASE SettleLost
  BY <1>21 DEF SettleLost
<1>22. ASSUME NEW s \in Sends, BecomesDue(s) PROVE Goal
  BY <1>22 DEF BecomesDue
<1>23. CASE Crash
  BY <1>23 DEF Crash
<1>24. CASE Boot
  BY <1>24 DEF Boot
<1>25. CASE UNCHANGED vars
  BY <1>25 DEF vars
<1> QED
  BY <1>1, <1>2, <1>3, <1>4, <1>5, <1>6, <1>7, <1>8, <1>9, <1>10, <1>11, <1>12, <1>13,
     <1>14, <1>15, <1>16, <1>17, <1>18, <1>19, <1>20, <1>21, <1>22, <1>23, <1>24, <1>25
     DEF Next, Compose, Buttons, Scheduler, Conversation

LEMMA HandoverStep ==
  ASSUME TypeOK, Fresh, Alone, Handover, [Next]_vars PROVE Handover'
<1> USE DEF TypeOK, Fresh, Alone, Handover, Kept, Held, db, server, history, SetStatus, Up, Fault
<1>1. ASSUME NEW m \in Msgs, NEW s \in Sends, ComposeEnqueue(m, s) PROVE Handover'
  BY <1>1 DEF ComposeEnqueue, Press, EnqueueOutbox
<1>2. ASSUME NEW m \in Msgs, NEW s \in Sends, ComposeSendNow(m, s) PROVE Handover'
  BY <1>2 DEF ComposeSendNow, Press
<1>3. ASSUME NEW m \in Msgs, ComposeEnqueueFails(m) PROVE Handover'
  BY <1>3 DEF ComposeEnqueueFails, PreserveComposeFailure
<1>4. ASSUME NEW s \in Sends, SendNowAccepted(s) PROVE Handover'
  BY <1>4 DEF SendNowAccepted
<1>5. ASSUME NEW s \in Sends, SendNowReturns(s) PROVE Handover'
  BY <1>5 DEF SendNowReturns
<1>6. ASSUME NEW s \in Sends, SendNowFails(s) PROVE Handover'
  BY <1>6 DEF SendNowFails, PreserveComposeFailure
<1>7. ASSUME NEW s \in Sends, ComposeDone(s) PROVE Handover'
  BY <1>7 DEF ComposeDone
<1>8. ASSUME NEW s \in Sends, UndoRead(s) PROVE Handover'
  BY <1>8 DEF UndoRead
<1>9. ASSUME NEW s \in Sends, UndoCancels(s) PROVE Handover'
  BY <1>9 DEF UndoCancels, CancelOutbox
<1>10. ASSUME NEW s \in Sends, UndoTooLate(s) PROVE Handover'
  BY <1>10 DEF UndoTooLate
<1>11. ASSUME NEW s \in Sends, UndoRestores(s) PROVE Handover'
  BY <1>11 DEF UndoRestores
<1>12. ASSUME NEW s \in Sends, HandleCancel(s) PROVE Handover'
  BY <1>12 DEF HandleCancel, CancelOutbox
<1>13. ASSUME NEW s \in Sends, HandleRetry(s) PROVE Handover'
  BY <1>13 DEF HandleRetry, RetryOutbox
<1>14. ASSUME NEW s \in Sends, HandleDelete(s) PROVE Handover'
  BY <1>14 DEF HandleDelete
<1>15. CASE Recover
  BY <1>15 DEF Recover, RecoverSending
<1>16. CASE ReadDue
  BY <1>16 DEF ReadDue
<1>17. CASE SmtpAccepts
  BY <1>17 DEF SmtpAccepts
<1>18. CASE Settle
  BY <1>18 DEF Settle, MarkOutboxSent, MarkOutboxFailed
<1>19. ASSUME NEW s \in Sends, Claim(s) PROVE Handover'
  BY <1>19 DEF Claim, ClaimOutbox
<1>20. ASSUME NEW s \in Sends, ClaimLost(s) PROVE Handover'
  BY <1>20 DEF ClaimLost
<1>21. CASE SettleLost
  BY <1>21 DEF SettleLost
<1>22. ASSUME NEW s \in Sends, BecomesDue(s) PROVE Handover'
  BY <1>22 DEF BecomesDue
<1>23. CASE Crash
  BY <1>23 DEF Crash
<1>24. CASE Boot
  BY <1>24 DEF Boot
<1>25. CASE UNCHANGED vars
  BY <1>25 DEF vars
<1> QED
  BY <1>1, <1>2, <1>3, <1>4, <1>5, <1>6, <1>7, <1>8, <1>9, <1>10, <1>11, <1>12, <1>13,
     <1>14, <1>15, <1>16, <1>17, <1>18, <1>19, <1>20, <1>21, <1>22, <1>23, <1>24, <1>25
     DEF Next, Compose, Buttons, Scheduler, Conversation

\* A window that closes, or is closed already, stays over text that is kept.
LEMMA LossStep ==
  ASSUME TypeOK, Fresh, Alone, Handover, NoSilentLoss, [Next]_vars PROVE NoSilentLoss'
<1> SUFFICES ASSUME NEW m \in Msgs, window'[m] = "closed" PROVE Covered(m)'
  BY DEF NoSilentLoss, Covered, Kept
<1>1. CASE \E s \in Sends : ComposeDone(s) /\ msg[s] = m
  <2> PICK s \in Sends : ComposeDone(s) /\ msg[s] = m
    BY <1>1
  <2>1. post[s] = "drop" /\ UNCHANGED <<msg, row, asked, delivered, undo, discarded, cut>>
    BY DEF ComposeDone, history
  <2>2. asked[s] > 0 /\ Kept(s)
    BY <2>1 DEF Fresh, Handover, TypeOK
  <2> QED
    BY <2>1, <2>2 DEF Covered, Kept
<1>2. CASE ~\E s \in Sends : ComposeDone(s) /\ msg[s] = m
  <2> USE DEF TypeOK, db, server, history, Up, Fault
  <2>1. window[m] = "closed"
    BY <1>2 DEF Next, Compose, Buttons, Scheduler, Conversation, vars, ComposeEnqueue, ComposeSendNow, Press,
       ComposeEnqueueFails, PreserveComposeFailure, SendNowAccepted, SendNowReturns, SendNowFails, ComposeDone, UndoRead,
       UndoCancels, UndoTooLate, UndoRestores, HandleCancel, HandleRetry, HandleDelete, Recover,
       ReadDue, SmtpAccepts, Settle, Claim, ClaimLost, SettleLost, BecomesDue, Crash, Boot
  <2>2. draft[m] => draft'[m]
    BY <1>2, <2>1 DEF Next, Compose, Buttons, Scheduler, Conversation, vars, ComposeEnqueue, ComposeSendNow, Press,
       ComposeEnqueueFails, PreserveComposeFailure, SendNowAccepted, SendNowReturns, SendNowFails, ComposeDone, UndoRead,
       UndoCancels, UndoTooLate, UndoRestores, HandleCancel, HandleRetry, HandleDelete, Recover,
       ReadDue, SmtpAccepts, Settle, Claim, ClaimLost, SettleLost, BecomesDue, Crash, Boot
  <2>3. CASE draft[m]
    BY <2>2, <2>3 DEF Covered
  <2>4. CASE \E s \in Sends : msg[s] = m /\ asked[s] > 0 /\ Kept(s)
    <3> PICK s \in Sends : msg[s] = m /\ asked[s] > 0 /\ Kept(s)
      BY <2>4
    <3>1. msg'[s] = m /\ asked'[s] > 0 /\ (Kept(s)' \/ UndoRestores(s))
      BY KeptStays
    <3>2. ~UndoRestores(s)
      BY <1>2 DEF UndoRestores
    <3> QED
      BY <3>1, <3>2 DEF Covered
  <2> QED
    BY <2>1, <2>3, <2>4 DEF NoSilentLoss, Kept
<1> QED
  BY <1>1, <1>2

\* A compose window closes only over text that is kept somewhere or given up on
\* purpose; the one exception is an undo that the process dies in.
THEOREM NothingIsLostSilently == Spec => []NoSilentLoss
<1>1. IInv /\ [Next]_vars /\ TypeOK' => IInv'
  BY IInvStep DEF IInv
<1>2. IInv /\ Handover /\ NoSilentLoss /\ [Next]_vars => Handover' /\ NoSilentLoss'
  BY HandoverStep, LossStep DEF IInv
<1> QED
  BY IInvInit, LossInit, TypeCorrect, <1>1, <1>2, PTL DEF Spec

=============================================================================

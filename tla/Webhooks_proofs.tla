--------------------------- MODULE Webhooks_proofs ---------------------------
(***************************************************************************)
(* Theorems about Webhooks, for any number of endpoints, deliveries, drains, *)
(* rungs of the ladder, replays, edits and faults.                          *)
(***************************************************************************)
EXTENDS Webhooks, TLAPS, FiniteSetTheorems, WellFoundedInduction

-----------------------------------------------------------------------------
(* The due rows a drain copies *)

LEMMA Least == ASSUME NEW S \in SUBSET Nat, S # {}
               PROVE  \E x \in S : \A y \in S : x <= y
<1>1. PICK x \in S : \A y \in S : ~(<<y, x>> \in OpToRel(<, Nat))
  BY NatLessThanWellFounded, WFMin
<1>2. \A y \in S : ~(y < x)
  BY <1>1 DEF OpToRel
<1> QED
  BY <1>2

\* A batch of due rows is not empty when a row is due.
LEMMA OldestIsSome == ASSUME NEW S \in SUBSET Nat, S # {}, NEW n \in Nat \ {0}
                      PROVE  Oldest(S, n) # {}
<1>1. PICK d \in S : \A y \in S : d <= y
  BY Least
<1>2. \A x \in S : ~(x < d)
  BY <1>1
<1>3. {x \in S : x < d} = {}
  BY <1>2
<1>4. Cardinality({x \in S : x < d}) = 0
  BY <1>3, FS_EmptySet
<1> QED
  BY <1>4 DEF Oldest

\* A drain is at work on a delivery.
AtWork == {"post", "disable", "notify"}

Busy ==
  /\ \A w \in Drainers : wpc[w] = "pick" => batch[w] # {}
  /\ \A w \in Drainers : wpc[w] \in AtWork => job[w].id \in Rows

TypeInv == TypeOK /\ Busy

\* The row a drain turns to is one of those it copied.
LEMMA HeadIsCopied == ASSUME TypeInv, NEW w \in Drainers, wpc[w] = "pick"
                      PROVE  Head(w) \in batch[w]
<1> DEFINE ids == {r.id : r \in batch[w]}
<1>1. batch[w] \in SUBSET [id : Rows, tries : 0..Ladder] /\ batch[w] # {}
  BY DEF TypeInv, TypeOK, Busy
<1>2. ids \in SUBSET Nat /\ ids # {}
  BY <1>1 DEF Rows
<1>3. PICK x \in ids : \A y \in ids : x <= y
  BY <1>2, Least
<1>4. \E r \in batch[w] : \A y \in batch[w] : r.id <= y.id
  BY <1>3
<1> QED
  BY <1>4 DEF Head

-----------------------------------------------------------------------------
(* Types *)

LEMMA TypeInit == ASSUME Init PROVE TypeInv
<1>1. (CHOOSE e \in Endpoints : TRUE) \in Endpoints
  BY EndpointsAssumption
<1>2. NoRow \in [status : Awaiting \cup {"none", "ok", "dead"}, tries : 0..Ladder, due : BOOLEAN]
  BY SizesAssumption DEF NoRow, Settled
<1>3. NoJob \in [id : Rows \cup {0}, tries : 0..Ladder, mailDue : BOOLEAN]
  BY SizesAssumption DEF NoJob
<1> QED
  BY <1>1, <1>2, <1>3, SizesAssumption DEF Init, TypeInv, TypeOK, Busy, AtWork

\* An endpoint's columns and the edit of one keep their types.
EndpointsOK ==
  /\ there \in [Endpoints -> {"no", "yes", "deleted"}]
  /\ on \in [Endpoints -> BOOLEAN] /\ given \in [Endpoints -> BOOLEAN]
  /\ mailed \in [Endpoints -> BOOLEAN] /\ licensed \in BOOLEAN
  /\ edit \in {NoEdit} \cup [kind : {"pause", "resume", "patch"}, ep : Endpoints, on : BOOLEAN,
                             given : BOOLEAN]
  /\ fan \in SUBSET Endpoints /\ mails \in [Endpoints -> Nat]
  /\ replays \in 0..MaxReplays /\ edits \in 0..MaxEdits /\ faults \in 0..MaxFaults

LEMMA EditedOK == ASSUME NEW c \in [kind : {"pause", "resume", "patch"}, ep : Endpoints,
                                    on : BOOLEAN, given : BOOLEAN]
                  PROVE  Edited(c).on \in BOOLEAN /\ Edited(c).given \in BOOLEAN
  BY DEF Edited

LEMMA IfOK == ASSUME NEW f \in [Endpoints -> BOOLEAN], NEW e, NEW b \in BOOLEAN
              PROVE  If(e, f, b) \in [Endpoints -> BOOLEAN]
  BY DEF If

LEMMA EndpointsStep == ASSUME EndpointsOK, [Next]_vars PROVE EndpointsOK'
<1> USE SizesAssumption DEF EndpointsOK, endpointVars, bounds, Fault
<1>1. CASE Fire
  BY <1>1 DEF Fire
<1>2. CASE User
  <2>1. ASSUME NEW e \in Endpoints, TestWebhook(e) PROVE EndpointsOK'
    BY <2>1 DEF TestWebhook
  <2>2. ASSUME NEW e \in Endpoints, CreateWebhook(e) PROVE EndpointsOK'
    BY <2>2 DEF CreateWebhook
  <2>3. ASSUME NEW e \in Endpoints, DeleteWebhook(e) PROVE EndpointsOK'
    BY <2>3 DEF DeleteWebhook
  <2>4. ASSUME NEW e \in Endpoints, NEW kind \in {"pause", "resume", "patch"}, EditRead(e, kind)
        PROVE EndpointsOK'
    BY <2>4 DEF EditRead
  <2> QED
    BY <1>2, <2>1, <2>2, <2>3, <2>4 DEF User
<1>3. CASE EditWrite
  <2>1. edit \in [kind : {"pause", "resume", "patch"}, ep : Endpoints, on : BOOLEAN, given : BOOLEAN]
    BY <1>3 DEF EditWrite
  <2>2. on' \in [Endpoints -> BOOLEAN] /\ given' \in [Endpoints -> BOOLEAN]
    BY <1>3, <2>1, EditedOK, IfOK DEF EditWrite
  <2> QED
    BY <1>3, <2>2 DEF EditWrite
<1>4. CASE LicenceTurns
  BY <1>4 DEF LicenceTurns
<1>5. CASE Restart
  BY <1>5 DEF Restart
<1>6. ASSUME NEW e \in Endpoints, Queue(e) PROVE EndpointsOK'
  BY <1>6 DEF Queue
<1>7. ASSUME NEW e \in Endpoints, DayPasses(e) PROVE EndpointsOK'
  BY <1>7 DEF DayPasses
<1>8. ASSUME NEW d \in Rows, Replay(d) PROVE EndpointsOK'
  BY <1>8 DEF Replay
<1>9. ASSUME NEW d \in Rows, TimerFires(d) PROVE EndpointsOK'
  BY <1>9 DEF TimerFires
<1>10. ASSUME NEW w \in Drainers, Step(w) PROVE EndpointsOK'
  <2>1. CASE Drain(w) \/ DrainNothing(w) \/ Skip(w) \/ Post(w)
    BY <2>1 DEF Drain, DrainNothing, Skip, Post
  <2>2. CASE Accepted(w) \/ Gone(w) \/ Refused(w)
    BY <2>2 DEF Accepted, Gone, Refused, Answered, SaveWebhookDelivery
  <2>3. CASE Disable(w)
    <3>1. on' \in [Endpoints -> BOOLEAN] /\ given' \in [Endpoints -> BOOLEAN]
      <4>1. CASE AutoDisableWebhookEndpoint(of[job[w].id])
        BY <4>1, IfOK DEF AutoDisableWebhookEndpoint
      <4>2. CASE UNCHANGED <<on, given>>
        BY <4>2
      <4> QED
        BY <2>3, <4>1, <4>2 DEF Disable
    <3>2. faults' \in 0..MaxFaults
      BY <2>3 DEF Disable
    <3> QED
      BY <2>3, <3>1, <3>2 DEF Disable
  <2>4. CASE NotifyFailure(w)
    <3>1. mailed' \in [Endpoints -> BOOLEAN]
      <4>1. CASE MarkWebhookFailureEmail(of[job[w].id])
        BY <4>1, IfOK DEF MarkWebhookFailureEmail
      <4>2. CASE UNCHANGED mailed
        BY <4>2
      <4> QED
        BY <2>4, <4>1, <4>2 DEF NotifyFailure
    <3>2. mails' \in [Endpoints -> Nat]
      BY <2>4 DEF NotifyFailure
    <3>3. faults' \in 0..MaxFaults
      BY <2>4 DEF NotifyFailure
    <3> QED
      BY <2>4, <3>1, <3>2, <3>3 DEF NotifyFailure
  <2> QED
    BY <1>10, <2>1, <2>2, <2>3, <2>4 DEF Step
<1>11. CASE UNCHANGED vars
  BY <1>11 DEF vars
<1> QED
  BY <1>1, <1>2, <1>3, <1>4, <1>5, <1>6, <1>7, <1>8, <1>9, <1>10, <1>11 DEF Next

RowType == [status : Awaiting \cup {"none", "ok", "dead"}, tries : 0..Ladder, due : BOOLEAN]
CopyType == [id : Rows, tries : 0..Ladder]
JobType == [id : Rows \cup {0}, tries : 0..Ladder, mailDue : BOOLEAN]

\* Rows keep their types and belong to endpoints.
RowsOK ==
  /\ row \in [Rows -> RowType] /\ of \in [Rows -> Endpoints] /\ last \in 0..MaxRows
  /\ posts \in [Rows -> 0..Ladder]

LEMMA Written == SizesAssumption =>
  /\ NoRow \in RowType /\ Fresh \in RowType /\ NoJob \in JobType
  /\ Settled("ok") \in RowType /\ Settled("dead") \in RowType
  BY DEF NoRow, Fresh, NoJob, Settled, RowType, JobType, Awaiting

LEMMA Enqueued == ASSUME RowsOK, NEW e \in Endpoints, EnqueueWebhookDelivery(e)
                  PROVE  /\ last' = last + 1 /\ last' \in Rows
                         /\ row' \in [Rows -> RowType] /\ of' \in [Rows -> Endpoints]
                         /\ row'[last'] = Fresh
                         /\ \A d \in Rows : row'[d] \in {Fresh, NoRow, row[d]}
<1>1. last' = last + 1 /\ last' \in Rows
  BY SizesAssumption DEF EnqueueWebhookDelivery, RowsOK, Rows
<1>2. of' \in [Rows -> Endpoints]
  BY <1>1 DEF EnqueueWebhookDelivery, RowsOK
<1>3. \A d \in Rows : row'[d] \in {Fresh, NoRow, row[d]}
  BY DEF EnqueueWebhookDelivery
<1>4. row' \in [Rows -> RowType]
  BY <1>3, Written, SizesAssumption DEF EnqueueWebhookDelivery, RowsOK
<1>5. row'[last'] = Fresh
  BY <1>1 DEF EnqueueWebhookDelivery
<1> QED
  BY <1>1, <1>2, <1>3, <1>4, <1>5

LEMMA RowsStep == ASSUME TypeInv, EndpointsOK, RowsOK, [Next]_vars PROVE RowsOK'
<1> USE SizesAssumption, Written DEF RowsOK, rowVars
<1>1. CASE Fire
  BY <1>1 DEF Fire
<1>2. CASE User
  <2>1. ASSUME NEW e \in Endpoints, TestWebhook(e) PROVE RowsOK'
    BY <2>1, Enqueued DEF TestWebhook, Rows
  <2>2. ASSUME NEW e \in Endpoints, CreateWebhook(e) PROVE RowsOK'
    BY <2>2 DEF CreateWebhook
  <2>3. ASSUME NEW e \in Endpoints, DeleteWebhook(e) PROVE RowsOK'
    BY <2>3 DEF DeleteWebhook
  <2>4. ASSUME NEW e \in Endpoints, NEW kind \in {"pause", "resume", "patch"}, EditRead(e, kind)
        PROVE RowsOK'
    BY <2>4 DEF EditRead
  <2> QED
    BY <1>2, <2>1, <2>2, <2>3, <2>4 DEF User
<1>3. CASE EditWrite
  BY <1>3 DEF EditWrite
<1>4. CASE LicenceTurns
  BY <1>4 DEF LicenceTurns
<1>5. CASE Restart
  BY <1>5 DEF Restart
<1>6. ASSUME NEW e \in Endpoints, Queue(e) PROVE RowsOK'
  BY <1>6, Enqueued DEF Queue, Rows
<1>7. ASSUME NEW e \in Endpoints, DayPasses(e) PROVE RowsOK'
  BY <1>7 DEF DayPasses
<1>8. ASSUME NEW d \in Rows, Replay(d) PROVE RowsOK'
  BY <1>8 DEF Replay, ReplayWebhookDelivery
<1>9. ASSUME NEW d \in Rows, TimerFires(d) PROVE RowsOK'
  <2>1. row[d] \in RowType
    OBVIOUS
  <2>2. [row[d] EXCEPT !.due = TRUE] \in RowType
    BY <2>1 DEF RowType
  <2> QED
    BY <1>9, <2>2 DEF TimerFires
<1>10. ASSUME NEW w \in Drainers, Step(w) PROVE RowsOK'
  <2>1. CASE Drain(w) \/ DrainNothing(w) \/ Skip(w)
    BY <2>1 DEF Drain, DrainNothing, Skip
  <2>2. CASE Post(w)
    <3>1. posts' \in [Rows -> 0..Ladder]
      <4>1. \A d \in Rows : posts[d] \in 0..Ladder /\ (posts[d] < Ladder => posts[d] + 1 \in 0..Ladder)
        OBVIOUS
      <4>2. posts' = [posts EXCEPT ![Head(w).id] = IF posts[Head(w).id] < Ladder
                                                   THEN posts[Head(w).id] + 1 ELSE posts[Head(w).id]]
        BY <2>2 DEF Post
      <4> QED
        BY <4>1, <4>2
    <3> QED
      BY <2>2, <3>1 DEF Post
  <2>3. ASSUME NEW r \in RowType, Answered(w, r) PROVE RowsOK'
    BY <2>3 DEF Answered, SaveWebhookDelivery
  <2>4. CASE Accepted(w) \/ Gone(w)
    BY <2>3, <2>4 DEF Accepted, Gone
  <2>5. CASE Refused(w)
    <3> DEFINE n == job[w].tries + 1
    <3>1. n \in Nat
      BY DEF TypeInv, TypeOK
    <3>2. ASSUME ~Exhausted(n) PROVE [status |-> "failed", tries |-> n, due |-> FALSE] \in RowType
      BY <3>1, <3>2 DEF Exhausted, RowType, Awaiting
    <3> QED
      BY <2>3, <2>5, <3>2 DEF Refused
  <2>6. CASE Disable(w) \/ NotifyFailure(w)
    BY <2>6 DEF Disable, NotifyFailure
  <2> QED
    BY <1>10, <2>1, <2>2, <2>4, <2>5, <2>6 DEF Step
<1>11. CASE UNCHANGED vars
  BY <1>11 DEF vars
<1> QED
  BY <1>1, <1>2, <1>3, <1>4, <1>5, <1>6, <1>7, <1>8, <1>9, <1>10, <1>11 DEF Next

\* Drains keep their types, and have a row to work on while they are at work.
DrainsOK ==
  /\ wpc \in [Drainers -> {"idle", "start", "pick", "post", "disable", "notify"}]
  /\ batch \in [Drainers -> SUBSET CopyType] /\ job \in [Drainers -> JobType]
  /\ Busy

LEMMA TypeParts == TypeInv <=> EndpointsOK /\ RowsOK /\ DrainsOK
  BY DEF TypeInv, TypeOK, EndpointsOK, RowsOK, DrainsOK, RowType, CopyType, JobType

\* What a drain copies of the due rows.
LEMMA Copied == ASSUME RowsOK, DueRows # {}
                PROVE  /\ DueWebhookDeliveries \in SUBSET CopyType
                       /\ DueWebhookDeliveries # {}
                       /\ \A r \in DueWebhookDeliveries : r.id \in Rows /\ r.tries = row[r.id].tries
<1>1. DueRows \in SUBSET Nat /\ DueRows \subseteq Rows
  BY DEF DueRows, Rows
<1>2. Oldest(DueRows, Batch) # {}
  BY <1>1, OldestIsSome, SizesAssumption
<1>3. Oldest(DueRows, Batch) \subseteq Rows
  BY <1>1 DEF Oldest
<1>4. \A d \in Rows : row[d].tries \in 0..Ladder
  BY DEF RowsOK, RowType
<1> DEFINE copy(d) == [id |-> d, tries |-> row[d].tries]
<1>5. DueWebhookDeliveries = {copy(d) : d \in Oldest(DueRows, Batch)}
  BY DEF DueWebhookDeliveries
<1>6. \A d \in Rows : copy(d) \in CopyType /\ copy(d).id = d /\ copy(d).tries = row[d].tries
  BY <1>4 DEF CopyType
<1> HIDE DEF copy
<1> QED
  BY <1>2, <1>3, <1>5, <1>6

\* Nothing changes in a drain but that one may be started.
LEMMA DrainsRest == ASSUME DrainsOK, UNCHANGED <<batch, job>>, UNCHANGED wpc \/ StartSoon
                    PROVE  DrainsOK'
  BY DEF DrainsOK, StartSoon, Busy, AtWork

LEMMA DrainsStep == ASSUME TypeInv, [Next]_vars PROVE DrainsOK'
<1>0. RowsOK /\ DrainsOK
  BY TypeParts
<1> USE DEF drainVars
<1>1. CASE Fire \/ User \/ EditWrite \/ LicenceTurns \/ UNCHANGED vars
  BY <1>0, <1>1, DrainsRest DEF Fire, User, TestWebhook, CreateWebhook, DeleteWebhook, EditRead,
     EditWrite, LicenceTurns, vars
<1>2. ASSUME NEW e \in Endpoints, Queue(e) \/ DayPasses(e) PROVE DrainsOK'
  BY <1>0, <1>2, DrainsRest DEF Queue, DayPasses
<1>3. ASSUME NEW d \in Rows, Replay(d) \/ TimerFires(d) PROVE DrainsOK'
  BY <1>0, <1>3, DrainsRest DEF Replay, TimerFires
<1>4. CASE Restart
  BY <1>4, Written, SizesAssumption DEF Restart, DrainsOK, Busy, AtWork
<1>5. ASSUME NEW w \in Drainers, Step(w) PROVE DrainsOK'
  <2>1. CASE Drain(w)
    BY <1>0, <2>1, Copied DEF Drain, DrainsOK, Busy, AtWork
  <2>2. CASE DrainNothing(w)
    BY <1>0, <2>2 DEF DrainNothing, DrainsOK, Busy, AtWork
  <2>3. CASE Skip(w)
    BY <1>0, <2>3, Written, SizesAssumption DEF Skip, Onward, DrainsOK, Busy, AtWork
  <2>4. CASE Post(w)
    <3>1. Head(w) \in CopyType
      BY <2>4, <1>0, HeadIsCopied DEF Post, DrainsOK
    <3>2. \A e \in Endpoints : mailed[e] \in BOOLEAN
      BY TypeParts DEF EndpointsOK
    <3>3. of[Head(w).id] \in Endpoints
      BY <3>1, <1>0 DEF RowsOK, CopyType
    <3>4. [id |-> Head(w).id, tries |-> Head(w).tries, mailDue |-> ~mailed[of[Head(w).id]]] \in JobType
      BY <3>1, <3>2, <3>3 DEF CopyType, JobType
    <3>5. Head(w).id \in Rows
      BY <3>1 DEF CopyType
    <3> QED
      BY <1>0, <2>4, <3>4, <3>5 DEF Post, DrainsOK, Busy, AtWork
  <2>5. CASE Accepted(w) \/ Gone(w) \/ Refused(w)
    BY <1>0, <2>5, Written, SizesAssumption DEF Accepted, Gone, Refused, Answered, Onward, DrainsOK,
       Busy, AtWork
  <2>6. CASE Disable(w)
    BY <1>0, <2>6 DEF Disable, DrainsOK, Busy, AtWork
  <2>7. CASE NotifyFailure(w)
    BY <1>0, <2>7, Written, SizesAssumption DEF NotifyFailure, Onward, DrainsOK, Busy, AtWork
  <2> QED
    BY <1>5, <2>1, <2>2, <2>3, <2>4, <2>5, <2>6, <2>7 DEF Step
<1> QED
  BY <1>1, <1>2, <1>3, <1>4, <1>5 DEF Next

LEMMA TypeStep == ASSUME TypeInv, [Next]_vars PROVE TypeInv'
<1>1. EndpointsOK /\ RowsOK
  BY TypeParts
<1>2. EndpointsOK' /\ RowsOK' /\ DrainsOK'
  BY <1>1, EndpointsStep, RowsStep, DrainsStep
<1> QED
  BY <1>2 DEF TypeInv, TypeOK, EndpointsOK, RowsOK, DrainsOK, RowType, CopyType, JobType

\* Every reachable state of Webhooks is well typed (the type invariant of its runs).
THEOREM TypeCorrect == Spec => []TypeOK
<1>1. TypeInv => TypeOK
  BY DEF TypeInv
<1> QED
  BY <1>1, TypeInit, TypeStep, PTL DEF Spec

-----------------------------------------------------------------------------
(* An endpoint given up is off *)

\* A copy of an endpoint's row that will be written back is no more than the row was:
\* off if it carries the stamp.  An endpoint not created yet carries none.
CopyIsOff == edit # NoEdit => (edit.given => ~edit.on)
NewIsBlank == \A e \in Endpoints : there[e] = "no" => ~given[e]

Off == GivenUpIsOff /\ CopyIsOff /\ NewIsBlank

LEMMA OffRests == ASSUME Off, UNCHANGED <<there, on, given, edit>> PROVE Off'
  BY DEF Off, GivenUpIsOff, CopyIsOff, NewIsBlank

LEMMA OffStep == ASSUME TypeInv, Off, [Next]_vars PROVE Off'
<1>0. EndpointsOK
  BY TypeParts
<1> USE DEF endpointVars
<1>1. CASE Fire \/ LicenceTurns \/ UNCHANGED vars
  BY <1>1, OffRests DEF Fire, LicenceTurns, vars
<1>2. CASE User
  <2>1. ASSUME NEW e \in Endpoints, TestWebhook(e) PROVE Off'
    BY <2>1, OffRests DEF TestWebhook
  <2>2. ASSUME NEW e \in Endpoints, CreateWebhook(e) PROVE Off'
    <3>1. ~given[e] /\ UNCHANGED <<given, edit>>
      BY <2>2 DEF CreateWebhook, Off, NewIsBlank
    <3>2. \A x \in Endpoints : x # e => on'[x] = on[x] /\ there'[x] = there[x]
      BY <2>2, <1>0 DEF CreateWebhook, EndpointsOK
    <3> QED
      BY <3>1, <3>2 DEF Off, GivenUpIsOff, CopyIsOff, NewIsBlank
  <2>3. ASSUME NEW e \in Endpoints, DeleteWebhook(e) PROVE Off'
    BY <2>3, <1>0 DEF DeleteWebhook, EndpointsOK, Off, GivenUpIsOff, CopyIsOff, NewIsBlank
  <2>4. ASSUME NEW e \in Endpoints, NEW kind \in {"pause", "resume", "patch"}, EditRead(e, kind)
        PROVE Off'
    BY <2>4 DEF EditRead, Off, GivenUpIsOff, CopyIsOff, NewIsBlank
  <2> QED
    BY <1>2, <2>1, <2>2, <2>3, <2>4 DEF User
<1>3. CASE EditWrite
  <2>1. edit \in [kind : {"pause", "resume", "patch"}, ep : Endpoints, on : BOOLEAN, given : BOOLEAN]
    BY <1>0, <1>3 DEF EditWrite, EndpointsOK
  <2>2. Edited(edit).given => ~Edited(edit).on
    BY <1>3, <2>1 DEF EditWrite, Edited, Off, CopyIsOff
  <2>3. \A x \in Endpoints : \/ on'[x] = on[x] /\ given'[x] = given[x]
                             \/ there[x] = "yes" /\ on'[x] = Edited(edit).on
                                /\ given'[x] = Edited(edit).given
    BY <1>0, <1>3, <2>1 DEF EditWrite, If, EndpointsOK
  <2>4. UNCHANGED there /\ edit' = NoEdit
    BY <1>3 DEF EditWrite
  <2> QED
    BY <2>2, <2>3, <2>4 DEF Off, GivenUpIsOff, CopyIsOff, NewIsBlank
<1>4. CASE Restart
  BY <1>4 DEF Restart, Off, GivenUpIsOff, CopyIsOff, NewIsBlank
<1>5. ASSUME NEW e \in Endpoints, Queue(e) \/ DayPasses(e) PROVE Off'
  BY <1>5, OffRests DEF Queue, DayPasses
<1>6. ASSUME NEW d \in Rows, Replay(d) \/ TimerFires(d) PROVE Off'
  BY <1>6, OffRests DEF Replay, TimerFires
<1>7. ASSUME NEW w \in Drainers, Step(w) PROVE Off'
  <2>1. CASE Drain(w) \/ DrainNothing(w) \/ Skip(w) \/ Post(w)
    BY <2>1, OffRests DEF Drain, DrainNothing, Skip, Post
  <2>2. CASE Accepted(w) \/ Gone(w) \/ Refused(w)
    BY <2>2, OffRests DEF Accepted, Gone, Refused, Answered
  <2>3. CASE Disable(w)
    <3>1. \A x \in Endpoints : \/ on'[x] = on[x] /\ given'[x] = given[x]
                               \/ there[x] = "yes" /\ ~on'[x]
      <4> DEFINE e == of[job[w].id]
      <4>1. CASE AutoDisableWebhookEndpoint(e)
        <5>1. on' = [on EXCEPT ![e] = IF there[e] = "yes" THEN FALSE ELSE on[e]]
              /\ given' = [given EXCEPT ![e] = IF there[e] = "yes" THEN TRUE ELSE given[e]]
          BY <4>1 DEF AutoDisableWebhookEndpoint, If
        <5> HIDE DEF e
        <5> QED
          BY <1>0, <5>1 DEF EndpointsOK
      <4>2. CASE UNCHANGED <<on, given>>
        BY <4>2
      <4> QED
        BY <2>3, <4>1, <4>2 DEF Disable
    <3>2. UNCHANGED <<there, edit>>
      BY <2>3 DEF Disable
    <3> QED
      BY <3>1, <3>2 DEF Off, GivenUpIsOff, CopyIsOff, NewIsBlank
  <2>4. CASE NotifyFailure(w)
    BY <2>4, OffRests DEF NotifyFailure
  <2> QED
    BY <1>7, <2>1, <2>2, <2>3, <2>4 DEF Step
<1> QED
  BY <1>1, <1>2, <1>3, <1>4, <1>5, <1>6, <1>7 DEF Next

\* An endpoint the engine gave up on stays off whatever stale copy of it is written
\* back (pause, resume and PATCH read it before they write it).
THEOREM StaysOff == Spec => []GivenUpIsOff
<1>1. Init => TypeInv /\ Off
  <2>1. Init => Off
    BY DEF Init, Off, GivenUpIsOff, CopyIsOff, NewIsBlank
  <2> QED
    BY <2>1, TypeInit
<1>2. TypeInv /\ Off /\ [Next]_vars => (TypeInv /\ Off)'
  BY TypeStep, OffStep
<1>3. Off => GivenUpIsOff
  BY DEF Off
<1> QED
  BY <1>1, <1>2, <1>3, PTL DEF Spec

-----------------------------------------------------------------------------
(* No endpoint is switched off before its time *)

\* Nobody counts more attempts of a delivery than were begun: not its row, not a copy
\* of it, and not the drain that is at it, whose own attempt comes on top.
RowsCount == \A d \in Rows : row[d].tries <= posts[d]
CopiesCount == \A w \in Drainers : \A r \in batch[w] : r.tries <= posts[r.id]
Counts(w) == posts[job[w].id] >= Ladder \/ posts[job[w].id] >= job[w].tries + 1
JobsCount == \A w \in Drainers : wpc[w] = "post" => Counts(w)

Climbing == RowsCount /\ CopiesCount /\ JobsCount /\ LadderIsClimbed

\* Steps that leave drains and history alone and write rows that have not been tried.
LEMMA ClimbingRests ==
  ASSUME TypeInv, Climbing, UNCHANGED <<batch, job, posts>>, UNCHANGED wpc \/ StartSoon,
         \A d \in Rows : row'[d].tries \in {0, row[d].tries}
  PROVE  Climbing'
<1>0. RowsOK /\ DrainsOK
  BY TypeParts
<1>1. RowsCount'
  BY <1>0 DEF Climbing, RowsCount, RowsOK
<1>2. \A w \in Drainers : wpc'[w] \in {wpc[w], "start"}
  BY <1>0 DEF StartSoon, DrainsOK
<1> QED
  BY <1>1, <1>2 DEF Climbing, CopiesCount, JobsCount, Counts, LadderIsClimbed

LEMMA Blank == NoRow.tries = 0 /\ Fresh.tries = 0 /\ Settled("ok").tries = 0 /\ Settled("dead").tries = 0
  BY DEF NoRow, Fresh, Settled

LEMMA ClimbingStep == ASSUME TypeInv, Climbing, [Next]_vars PROVE Climbing'
<1>0. RowsOK /\ DrainsOK
  BY TypeParts
<1> USE DEF rowVars, drainVars
<1>1. CASE Fire \/ EditWrite \/ LicenceTurns \/ UNCHANGED vars
  BY <1>1, ClimbingRests DEF Fire, EditWrite, LicenceTurns, vars
<1>2. CASE User
  <2>1. ASSUME NEW e \in Endpoints, TestWebhook(e) PROVE Climbing'
    BY <1>0, <2>1, Enqueued, Blank, ClimbingRests DEF TestWebhook
  <2>2. ASSUME NEW e \in Endpoints, CreateWebhook(e) PROVE Climbing'
    BY <2>2, ClimbingRests DEF CreateWebhook
  <2>3. ASSUME NEW e \in Endpoints, DeleteWebhook(e) PROVE Climbing'
    BY <2>3, Blank, ClimbingRests DEF DeleteWebhook
  <2>4. ASSUME NEW e \in Endpoints, NEW kind \in {"pause", "resume", "patch"}, EditRead(e, kind)
        PROVE Climbing'
    BY <2>4, ClimbingRests DEF EditRead
  <2> QED
    BY <1>2, <2>1, <2>2, <2>3, <2>4 DEF User
<1>3. CASE Restart
  <2>1. RowsCount'
    BY <1>3 DEF Restart, Climbing, RowsCount
  <2> QED
    BY <1>3, <2>1 DEF Restart, Climbing, CopiesCount, JobsCount, LadderIsClimbed
<1>4. ASSUME NEW e \in Endpoints, Queue(e) PROVE Climbing'
  <2>1. \A d \in Rows : row'[d].tries \in {0, row[d].tries}
    BY <1>0, <1>4, Enqueued, Blank DEF Queue
  <2> QED
    BY <1>4, <2>1, ClimbingRests DEF Queue
<1>5. ASSUME NEW e \in Endpoints, DayPasses(e) PROVE Climbing'
  BY <1>5, ClimbingRests DEF DayPasses
<1>6. ASSUME NEW d \in Rows, Replay(d) PROVE Climbing'
  BY <1>0, <1>6, Blank, ClimbingRests DEF Replay, ReplayWebhookDelivery, RowsOK
<1>7. ASSUME NEW d \in Rows, TimerFires(d) PROVE Climbing'
  <2>1. \A x \in Rows : row'[x].tries = row[x].tries
    BY <1>0, <1>7 DEF TimerFires, RowsOK, RowType
  <2> QED
    BY <1>7, <2>1, ClimbingRests DEF TimerFires
<1>8. ASSUME NEW w \in Drainers, Step(w) PROVE Climbing'
  <2>1. CASE Drain(w)
    <3>1. \A r \in DueWebhookDeliveries : r.tries <= posts[r.id]
      BY <1>0, <2>1, Copied DEF Drain, Climbing, RowsCount
    <3> QED
      BY <1>0, <2>1, <3>1 DEF Drain, DrainsOK, Climbing, RowsCount, CopiesCount, JobsCount, Counts,
         LadderIsClimbed
  <2>2. CASE DrainNothing(w)
    BY <1>0, <2>2 DEF DrainNothing, DrainsOK, Climbing, RowsCount, CopiesCount, JobsCount, Counts,
       LadderIsClimbed
  <2>3. CASE Skip(w)
    BY <1>0, <2>3 DEF Skip, Onward, DrainsOK, Climbing, RowsCount, CopiesCount, JobsCount, Counts,
       LadderIsClimbed
  <2>4. CASE Post(w)
    <3>1. Head(w) \in batch[w] /\ Head(w) \in CopyType
      BY <1>0, <2>4, HeadIsCopied DEF Post, DrainsOK
    <3>2. Head(w).id \in Rows /\ Head(w).tries \in 0..Ladder
      BY <3>1 DEF CopyType
    <3>3. \A d \in Rows : posts[d] \in 0..Ladder /\ posts'[d] \in 0..Ladder /\ posts'[d] >= posts[d]
      BY <1>0, <2>4, RowsStep, TypeParts, SizesAssumption DEF Post, RowsOK
    <3>4. posts'[Head(w).id] >= Ladder \/ posts'[Head(w).id] >= Head(w).tries + 1
      BY <1>0, <2>4, <3>1, <3>2, SizesAssumption DEF Post, RowsOK, Climbing, CopiesCount
    <3>5. RowsCount'
      BY <1>0, <2>4, <3>3 DEF Post, RowsOK, RowType, Climbing, RowsCount
    <3>6. CopiesCount'
      <4>1. \A x \in Drainers : batch'[x] \subseteq batch[x] /\ batch[x] \subseteq CopyType
        BY <1>0, <2>4 DEF Post, DrainsOK
      <4> QED
        BY <3>3, <4>1 DEF CopyType, Climbing, CopiesCount
    <3>7. \A x \in Drainers : x # w => wpc'[x] = wpc[x] /\ job'[x] = job[x]
      BY <1>0, <2>4 DEF Post, DrainsOK
    <3>8. wpc'[w] = "post" /\ job'[w].id = Head(w).id /\ job'[w].tries = Head(w).tries
      BY <1>0, <2>4 DEF Post, DrainsOK
    <3>9. \A x \in Drainers : wpc[x] \in AtWork => job[x].id \in Rows /\ job[x].tries \in 0..Ladder
      BY <1>0 DEF DrainsOK, Busy, JobType
    <3>10. JobsCount'
      <4>1. Counts(w)'
        BY <3>4, <3>8 DEF Counts
      <4>2. ASSUME NEW x \in Drainers, x # w, wpc'[x] = "post" PROVE Counts(x)'
        <5>1. wpc[x] = "post" /\ job'[x] = job[x] /\ Counts(x)
          BY <3>7, <4>2 DEF Climbing, JobsCount
        <5>2. job[x].id \in Rows /\ job[x].tries \in 0..Ladder
          BY <3>9, <5>1 DEF AtWork
        <5>3. posts[job[x].id] \in Nat /\ posts'[job[x].id] \in Nat
              /\ posts'[job[x].id] >= posts[job[x].id]
          BY <3>3, <5>2
        <5> QED
          BY <5>1, <5>2, <5>3, SizesAssumption DEF Counts
      <4> QED
        BY <4>1, <4>2 DEF JobsCount
    <3>11. LadderIsClimbed'
      <4>1. ASSUME NEW x \in Drainers, wpc'[x] = "disable" PROVE posts'[job'[x].id] >= Ladder
        <5>1. x # w /\ wpc[x] = "disable" /\ job'[x] = job[x]
          BY <3>7, <3>8, <4>1
        <5>2. job[x].id \in Rows /\ posts[job[x].id] >= Ladder
          BY <3>9, <5>1 DEF AtWork, Climbing, LadderIsClimbed
        <5>3. posts[job[x].id] \in Nat /\ posts'[job[x].id] \in Nat
              /\ posts'[job[x].id] >= posts[job[x].id]
          BY <3>3, <5>2
        <5> QED
          BY <5>1, <5>2, <5>3, SizesAssumption
      <4> QED
        BY <4>1 DEF LadderIsClimbed
    <3> QED
      BY <3>5, <3>6, <3>10, <3>11 DEF Climbing
  <2>5. CASE Accepted(w) \/ Gone(w) \/ Refused(w)
    <3> DEFINE n == job[w].tries + 1
    <3>1. wpc[w] = "post" /\ job[w].id \in Rows /\ n \in Nat /\ Counts(w)
      BY <1>0, <2>5 DEF Accepted, Gone, Refused, Answered, DrainsOK, Busy, AtWork, JobType, Climbing,
         JobsCount
    <3>2. ASSUME NEW r \in RowType, Answered(w, r), r.tries <= posts[job[w].id] PROVE RowsCount'
      <4>1. \A d \in Rows : row'[d] = row[d] \/ row'[d] = NoRow \/ (d = job[w].id /\ row'[d] = r)
        BY <1>0, <3>1, <3>2 DEF Answered, SaveWebhookDelivery, RowsOK
      <4>2. UNCHANGED posts /\ \A d \in Rows : posts[d] \in 0..Ladder
        BY <1>0, <3>2 DEF Answered, RowsOK
      <4> QED
        BY <3>2, <4>1, <4>2, Blank, SizesAssumption DEF Climbing, RowsCount
    <3>3. posts[job[w].id] \in 0..Ladder
      BY <1>0, <3>1 DEF RowsOK
    <3>4. RowsCount'
      <4>1. CASE Accepted(w) \/ Gone(w)
        BY <3>2, <3>3, <4>1, Blank, Written, SizesAssumption DEF Accepted, Gone
      <4>2. CASE Refused(w) /\ Exhausted(n)
        BY <3>2, <3>3, <4>2, Blank, Written, SizesAssumption DEF Refused
      <4>3. CASE Refused(w) /\ ~Exhausted(n)
        <5> DEFINE r == [status |-> "failed", tries |-> n, due |-> FALSE]
        <5>1. r \in RowType /\ r.tries <= posts[job[w].id]
          BY <3>1, <3>3, <4>3, SizesAssumption DEF Exhausted, Counts, RowType, Awaiting
        <5> QED
          BY <3>2, <4>3, <5>1 DEF Refused
      <4> QED
        BY <2>5, <4>1, <4>2, <4>3
    <3>5. UNCHANGED <<batch, posts>>
      BY <2>5 DEF Accepted, Gone, Refused, Answered
    <3>6. \A x \in Drainers : x # w => wpc'[x] = wpc[x] /\ job'[x] = job[x]
      BY <1>0, <2>5 DEF Accepted, Gone, Refused, Onward, DrainsOK
    <3>7. \/ wpc'[w] \notin {"post", "disable"}
          \/ wpc'[w] = "disable" /\ job'[w] = job[w] /\ Exhausted(n)
      BY <1>0, <2>5 DEF Accepted, Gone, Refused, Onward, DrainsOK
    <3>8. Exhausted(n) => posts[job[w].id] >= Ladder
      BY <3>1, <3>3, SizesAssumption DEF Exhausted, Counts
    <3> QED
      BY <3>4, <3>5, <3>6, <3>7, <3>8 DEF Climbing, CopiesCount, JobsCount, Counts, LadderIsClimbed
  <2>6. CASE Disable(w)
    BY <1>0, <2>6 DEF Disable, DrainsOK, Climbing, RowsCount, CopiesCount, JobsCount, Counts,
       LadderIsClimbed
  <2>7. CASE NotifyFailure(w)
    BY <1>0, <2>7 DEF NotifyFailure, Onward, DrainsOK, Climbing, RowsCount, CopiesCount, JobsCount,
       Counts, LadderIsClimbed
  <2> QED
    BY <1>8, <2>1, <2>2, <2>3, <2>4, <2>5, <2>6, <2>7 DEF Step
<1> QED
  BY <1>1, <1>2, <1>3, <1>4, <1>5, <1>6, <1>7, <1>8 DEF Next

\* However drains and replays overwrite each other's attempts column, no endpoint is
\* switched off before its receiver was asked once for every rung of the ladder.
THEOREM EveryRung == Spec => []LadderIsClimbed
<1>1. Init => TypeInv /\ Climbing
  <2>1. Init => RowsCount
    BY Blank DEF Init, RowsCount
  <2>2. Init => Climbing
    BY <2>1 DEF Init, Climbing, CopiesCount, JobsCount, LadderIsClimbed
  <2> QED
    BY <2>2, TypeInit
<1>2. TypeInv /\ Climbing /\ [Next]_vars => (TypeInv /\ Climbing)'
  BY TypeStep, ClimbingStep
<1>3. Climbing => LadderIsClimbed
  BY DEF Climbing
<1> QED
  BY <1>1, <1>2, <1>3, PTL DEF Spec

-----------------------------------------------------------------------------
(* Failure mails *)

\* Ids in use have been given out, and a delivery that was begun is of an endpoint that
\* had been created.
RowsGiven == \A d \in Rows : row[d] # NoRow => d <= last
CopiesGiven == \A w \in Drainers : \A r \in batch[w] : r.id <= last
JobGiven(w) == job[w].id <= last /\ there[of[job[w].id]] # "no"
Given == RowsGiven /\ CopiesGiven /\ \A w \in Drainers : wpc[w] \in AtWork => JobGiven(w)

LEMMA EnqueuedOne ==
  ASSUME RowsOK, NEW e \in Endpoints, EnqueueWebhookDelivery(e)
  PROVE  /\ last \in Nat /\ last' = last + 1
         /\ \A d \in Rows : d # last' => row'[d] \in {NoRow, row[d]} /\ of'[d] = of[d]
<1>1. last \in Nat /\ last' = last + 1
  BY SizesAssumption DEF EnqueueWebhookDelivery, RowsOK
<1>2. \A d \in Rows : d # last' => row'[d] \in {NoRow, row[d]}
  BY DEF EnqueueWebhookDelivery
<1>3. \A d \in Rows : d # last' => of'[d] = of[d]
  BY DEF EnqueueWebhookDelivery, RowsOK
<1> QED
  BY <1>1, <1>2, <1>3

\* Rows, ids and drains as they were or less of them.
LEMMA GivenRests ==
  ASSUME TypeInv, Given, UNCHANGED <<batch, job>>, UNCHANGED wpc \/ StartSoon,
         \/ UNCHANGED <<of, last>> /\ \A d \in Rows : row'[d] # NoRow => row[d] # NoRow
         \/ \E e \in Endpoints : EnqueueWebhookDelivery(e),
         \A e \in Endpoints : there[e] # "no" => there'[e] # "no"
  PROVE  Given'
<1>0. RowsOK /\ DrainsOK
  BY TypeParts
<1>1. \A w \in Drainers : wpc'[w] \in AtWork => wpc[w] \in AtWork
  BY <1>0 DEF StartSoon, DrainsOK, AtWork
<1>2. /\ last \in Nat /\ last' \in Nat /\ last <= last'
      /\ \A d \in Rows : d <= last => of'[d] = of[d]
      /\ RowsGiven'
  <2>1. CASE UNCHANGED <<of, last>> /\ \A d \in Rows : row'[d] # NoRow => row[d] # NoRow
    BY <1>0, <2>1, SizesAssumption DEF RowsOK, Given, RowsGiven
  <2>2. ASSUME NEW e \in Endpoints, EnqueueWebhookDelivery(e) 
        PROVE  /\ last \in Nat /\ last' \in Nat /\ last <= last'
               /\ \A d \in Rows : d <= last => of'[d] = of[d]
               /\ RowsGiven'
    <3>1. /\ last \in Nat /\ last' = last + 1
          /\ \A d \in Rows : d # last' => row'[d] \in {NoRow, row[d]} /\ of'[d] = of[d]
      BY <1>0, <2>2, EnqueuedOne
    <3>2. \A d \in Rows : d \in Nat
      BY DEF Rows
    <3> QED
      BY <3>1, <3>2 DEF Given, RowsGiven
  <2> QED
    BY <2>1, <2>2
<1>3. CopiesGiven'
  <2>1. \A w \in Drainers : \A r \in batch[w] : r.id \in Nat
    BY <1>0 DEF DrainsOK, CopyType, Rows
  <2> QED
    BY <1>2, <2>1 DEF Given, CopiesGiven
<1>4. ASSUME NEW w \in Drainers, wpc'[w] \in AtWork PROVE JobGiven(w)'
  <2>1. JobGiven(w) /\ job[w].id \in Rows /\ job[w].id \in Nat
    BY <1>0, <1>1, <1>4 DEF Given, DrainsOK, Busy, Rows
  <2>2. of'[job[w].id] = of[job[w].id] /\ of[job[w].id] \in Endpoints
    BY <1>0, <1>2, <2>1 DEF JobGiven, RowsOK
  <2> QED
    BY <1>2, <2>1, <2>2 DEF JobGiven
<1> QED
  BY <1>2, <1>3, <1>4 DEF Given

\* A drain turns to another row, moves on with its own, or is done with it.
LEMMA GivenDrains ==
  ASSUME TypeInv, Given, UNCHANGED <<there, of, last>>, \A d \in Rows : row'[d] # NoRow => row[d] # NoRow,
         \A w \in Drainers : \A r \in batch'[w] : r \in batch[w] \/ (row[r.id] # NoRow /\ r.id \in Rows),
         \A w \in Drainers : wpc'[w] \in AtWork =>
           \/ wpc[w] \in AtWork /\ job'[w].id = job[w].id
           \/ wpc[w] = "pick" /\ job'[w].id = Head(w).id /\ there[of[Head(w).id]] = "yes"
  PROVE  Given'
<1>1. RowsGiven' /\ CopiesGiven'
  BY DEF Given, RowsGiven, CopiesGiven
<1>2. ASSUME NEW w \in Drainers, wpc'[w] \in AtWork PROVE JobGiven(w)'
  <2>1. CASE wpc[w] \in AtWork /\ job'[w].id = job[w].id
    BY <2>1 DEF Given, JobGiven
  <2>2. CASE wpc[w] = "pick" /\ job'[w].id = Head(w).id /\ there[of[Head(w).id]] = "yes"
    <3>1. Head(w).id <= last
      BY <2>2, HeadIsCopied DEF Given, CopiesGiven
    <3> QED
      BY <2>2, <3>1 DEF JobGiven
  <2> QED
    BY <1>2, <2>1, <2>2
<1> QED
  BY <1>1, <1>2 DEF Given

\* What a drain does to rows, copies and jobs.
LEMMA DrainSteps ==
  ASSUME TypeInv, NEW w \in Drainers, Step(w)
  PROVE  /\ UNCHANGED <<there, of, last>> /\ \A d \in Rows : row'[d] # NoRow => row[d] # NoRow
         /\ \A x \in Drainers : \A r \in batch'[x] : r \in batch[x] \/ (row[r.id] # NoRow /\ r.id \in Rows)
         /\ \A x \in Drainers : x # w => wpc'[x] = wpc[x] /\ job'[x] = job[x]
         /\ \/ wpc'[w] \notin AtWork
            \/ wpc[w] \in AtWork /\ job'[w] = job[w] /\ wpc[w] # "notify"
            \/ /\ Post(w) /\ wpc[w] = "pick" /\ job'[w].id = Head(w).id /\ Live(Head(w).id)
               /\ job'[w].mailDue = ~mailed[of[Head(w).id]]
<1>0. RowsOK /\ DrainsOK
  BY TypeParts
<1>1. /\ wpc \in [Drainers -> {"idle", "start", "pick", "post", "disable", "notify"}]
      /\ batch \in [Drainers -> SUBSET CopyType] /\ job \in [Drainers -> JobType]
      /\ row \in [Rows -> RowType]
  BY <1>0 DEF DrainsOK, RowsOK
<1> USE <1>1 DEF rowVars, endpointVars, AtWork
<1>2. CASE Drain(w)
  <2>1. ASSUME NEW x \in Drainers, NEW r \in batch'[x] PROVE r \in batch[x] \/ (row[r.id] # NoRow /\ r.id \in Rows)
    <3>1. CASE x # w
      BY <1>2, <2>1, <3>1 DEF Drain
    <3>2. CASE x = w
      <4>1. r \in DueWebhookDeliveries
        BY <1>2, <2>1, <3>2 DEF Drain
      <4>2. r.id \in DueRows
        <5>1. PICK d \in Oldest(DueRows, Batch) : r = [id |-> d, tries |-> row[d].tries]
          BY <4>1 DEF DueWebhookDeliveries
        <5>2. d \in DueRows
          BY <5>1 DEF Oldest
        <5> QED
          BY <5>1, <5>2
      <4> QED
        BY <4>2 DEF DueRows, Awaiting, NoRow, Settled
    <3> QED
      BY <3>1, <3>2
  <2> QED
    BY <1>2, <2>1 DEF Drain
<1>3. CASE DrainNothing(w)
  BY <1>3 DEF DrainNothing
<1>4. CASE Skip(w)
  BY <1>4 DEF Skip, Onward
<1>5. CASE Post(w)
  <2>1. job'[w] = [id |-> Head(w).id, tries |-> Head(w).tries, mailDue |-> ~mailed[of[Head(w).id]]]
    BY <1>5 DEF Post
  <2>2. job'[w].id = Head(w).id /\ job'[w].mailDue = ~mailed[of[Head(w).id]]
    BY <2>1
  <2>3. /\ UNCHANGED <<there, of, last, row>> /\ wpc[w] = "pick" /\ Live(Head(w).id)
        /\ \A x \in Drainers : batch'[x] \subseteq batch[x]
        /\ \A x \in Drainers : x # w => wpc'[x] = wpc[x] /\ job'[x] = job[x]
    BY <1>5 DEF Post
  <2> QED
    BY <1>5, <2>2, <2>3
<1>6. CASE Accepted(w) \/ Gone(w) \/ Refused(w)
  <2>1. ASSUME NEW r, SaveWebhookDelivery(job[w].id, r)
        PROVE  \A d \in Rows : row'[d] # NoRow => row[d] # NoRow
    BY <2>1 DEF SaveWebhookDelivery
  <2>2. \A d \in Rows : row'[d] # NoRow => row[d] # NoRow
    BY <1>6, <2>1 DEF Accepted, Gone, Refused, Answered
  <2> QED
    BY <1>6, <2>2 DEF Accepted, Gone, Refused, Answered, Onward
<1>7. CASE Disable(w)
  BY <1>7 DEF Disable
<1>8. CASE NotifyFailure(w)
  BY <1>8 DEF NotifyFailure, Onward
<1> QED
  BY <1>2, <1>3, <1>4, <1>5, <1>6, <1>7, <1>8 DEF Step

LEMMA GivenStep == ASSUME TypeInv, Given, [Next]_vars PROVE Given'
<1>0. EndpointsOK /\ RowsOK
  BY TypeParts
<1> USE DEF rowVars, drainVars, endpointVars
<1>1. CASE Fire \/ EditWrite \/ LicenceTurns \/ UNCHANGED vars
  BY <1>1, GivenRests DEF Fire, EditWrite, LicenceTurns, vars
<1>2. CASE User
  <2>1. ASSUME NEW e \in Endpoints, TestWebhook(e) PROVE Given'
    BY <2>1, GivenRests DEF TestWebhook
  <2>2. ASSUME NEW e \in Endpoints, CreateWebhook(e) PROVE Given'
    <3>1. \A x \in Endpoints : there[x] # "no" => there'[x] # "no"
      BY <1>0, <2>2 DEF CreateWebhook, EndpointsOK
    <3> QED
      BY <2>2, <3>1, GivenRests DEF CreateWebhook
  <2>3. ASSUME NEW e \in Endpoints, DeleteWebhook(e) PROVE Given'
    <3>1. \A x \in Endpoints : there[x] # "no" => there'[x] # "no"
      BY <1>0, <2>3 DEF DeleteWebhook, EndpointsOK
    <3> QED
      BY <2>3, <3>1, GivenRests DEF DeleteWebhook
  <2>4. ASSUME NEW e \in Endpoints, NEW kind \in {"pause", "resume", "patch"}, EditRead(e, kind)
        PROVE Given'
    BY <2>4, GivenRests DEF EditRead
  <2> QED
    BY <1>2, <2>1, <2>2, <2>3, <2>4 DEF User
<1>3. CASE Restart
  BY <1>3 DEF Restart, Given, RowsGiven, CopiesGiven, AtWork
<1>4. ASSUME NEW e \in Endpoints, Queue(e) PROVE Given'
  BY <1>4, GivenRests DEF Queue
<1>5. ASSUME NEW e \in Endpoints, DayPasses(e) PROVE Given'
  BY <1>5, GivenRests DEF DayPasses
<1>6. ASSUME NEW d \in Rows, Replay(d) PROVE Given'
  <2>1. \A x \in Rows : row'[x] # NoRow => row[x] # NoRow
    BY <1>0, <1>6 DEF Replay, ReplayWebhookDelivery, RowsOK
  <2> QED
    BY <1>6, <2>1, GivenRests DEF Replay
<1>7. ASSUME NEW d \in Rows, TimerFires(d) PROVE Given'
  <2>1. \A x \in Rows : row'[x] # NoRow => row[x] # NoRow
    <3>1. row[d] # NoRow
      BY <1>7 DEF TimerFires, NoRow, Settled
    <3>2. \A x \in Rows : x # d => row'[x] = row[x]
      BY <1>0, <1>7 DEF TimerFires, RowsOK
    <3> QED
      BY <3>1, <3>2
  <2> QED
    BY <1>7, <2>1, GivenRests DEF TimerFires
<1>8. ASSUME NEW w \in Drainers, Step(w) PROVE Given'
  BY <1>8, DrainSteps, GivenDrains DEF Live
<1> QED
  BY <1>1, <1>2, <1>3, <1>4, <1>5, <1>6, <1>7, <1>8 DEF Next

\* Drains that are at a delivery of e and found the mail due when they began it.
Owing(e) == {w \in Drainers : wpc[w] \in AtWork /\ of[job[w].id] = e /\ job[w].mailDue}

\* The mails sent today and the drains that may still send one are no more than the drains
\* there are: one that finds the mail due finds that none was sent.
Counted(e) ==
  /\ mails[e] + Cardinality(Owing(e)) <= Cardinality(Drainers)
  /\ there[e] # "deleted" /\ ~mailed[e] => mails[e] = 0
MailsCounted == \A e \in Endpoints : Counted(e)

LEMMA FiniteDrainers == IsFiniteSet(Drainers) /\ Cardinality(Drainers) \in Nat
<1>1. IsFiniteSet({Loop}) /\ IsFiniteSet(Soon)
  BY DrainersAssumption, FS_Singleton
<1>2. IsFiniteSet(Drainers)
  BY <1>1, FS_Union DEF Drainers
<1> QED
  BY <1>2, FS_CardinalityType

LEMMA FewerOwing ==
  ASSUME NEW S \in SUBSET Drainers, NEW T \in SUBSET Drainers, S \subseteq T
  PROVE  /\ Cardinality(S) \in Nat /\ Cardinality(T) \in Nat /\ Cardinality(S) <= Cardinality(T)
         /\ Cardinality(T) <= Cardinality(Drainers)
         /\ \A w \in T : w \notin S => Cardinality(S) + 1 <= Cardinality(T)
<1>1. IsFiniteSet(S) /\ IsFiniteSet(T) /\ Cardinality(S) \in Nat /\ Cardinality(T) \in Nat
  BY FiniteDrainers, FS_Subset, FS_CardinalityType
<1>2. Cardinality(S) <= Cardinality(T) /\ Cardinality(T) <= Cardinality(Drainers)
  BY <1>1, FiniteDrainers, FS_Subset
<1>3. ASSUME NEW w \in T, w \notin S PROVE Cardinality(S) + 1 <= Cardinality(T)
  <2>1. Cardinality(S \cup {w}) = Cardinality(S) + 1
    BY <1>1, <1>3, FS_AddElement
  <2>2. S \cup {w} \subseteq T
    BY <1>3
  <2>3. Cardinality(S \cup {w}) <= Cardinality(T)
    BY <1>1, <2>2, FS_Subset
  <2> QED
    BY <2>1, <2>3
<1> QED
  BY <1>1, <1>2, <1>3

\* No mail and no drain that owes one more.
LEMMA CountedRests ==
  ASSUME TypeInv, NEW e \in Endpoints, Counted(e), Owing(e)' \subseteq Owing(e),
         mails'[e] = mails[e] \/ mails'[e] = 0,
         there'[e] # "deleted" /\ ~mailed'[e] => (there[e] # "deleted" /\ ~mailed[e]) \/ mails'[e] = 0
  PROVE  Counted(e)'
<1>1. mails[e] \in Nat
  BY TypeParts DEF EndpointsOK
<1>2. /\ Cardinality(Owing(e)') \in Nat /\ Cardinality(Owing(e)) \in Nat
      /\ Cardinality(Owing(e)') <= Cardinality(Owing(e))
  BY FewerOwing DEF Owing
<1>3. mails'[e] + Cardinality(Owing(e)') <= Cardinality(Drainers)
  BY <1>1, <1>2, FiniteDrainers DEF Counted
<1>4. there'[e] # "deleted" /\ ~mailed'[e] => mails'[e] = 0
  BY DEF Counted
<1> QED
  BY <1>3, <1>4 DEF Counted

\* Jobs as they were, or dropped.
LEMMA OwingRests ==
  ASSUME TypeInv, Given, UNCHANGED <<batch, job>>, UNCHANGED wpc \/ StartSoon,
         UNCHANGED of \/ \E e \in Endpoints : EnqueueWebhookDelivery(e), NEW e \in Endpoints
  PROVE  Owing(e)' \subseteq Owing(e)
<1>0. RowsOK /\ DrainsOK
  BY TypeParts
<1> SUFFICES ASSUME NEW w \in Drainers, wpc'[w] \in AtWork, of'[job[w].id] = e, job[w].mailDue
             PROVE  w \in Owing(e)
  BY DEF Owing
<1>1. wpc[w] \in AtWork
  BY <1>0 DEF StartSoon, DrainsOK, AtWork
<1>2. job[w].id \in Rows /\ job[w].id <= last /\ job[w].id \in Nat
  BY <1>0, <1>1 DEF Given, JobGiven, DrainsOK, Busy, Rows
<1>3. of'[job[w].id] = of[job[w].id]
  <2>1. ASSUME NEW x \in Endpoints, EnqueueWebhookDelivery(x) PROVE of'[job[w].id] = of[job[w].id]
    BY <1>0, <1>2, <2>1, EnqueuedOne
  <2> QED
    BY <2>1
<1> QED
  BY <1>1, <1>3 DEF Owing

LEMMA MailsStep == ASSUME TypeInv, Given, MailsCounted, [Next]_vars PROVE MailsCounted'
<1>0. EndpointsOK /\ RowsOK /\ DrainsOK
  BY TypeParts
<1> SUFFICES ASSUME NEW e \in Endpoints PROVE Counted(e)'
  BY DEF MailsCounted
<1> USE DEF rowVars, drainVars, endpointVars
<1>1. Counted(e) /\ mails[e] \in Nat
  BY <1>0 DEF MailsCounted, EndpointsOK
<1>2. ASSUME UNCHANGED <<there, mailed, mails>>, Owing(e)' \subseteq Owing(e) PROVE Counted(e)'
  BY <1>1, <1>2, CountedRests
<1>3. CASE Fire \/ EditWrite \/ LicenceTurns \/ UNCHANGED vars
  BY <1>2, <1>3, OwingRests DEF Fire, EditWrite, LicenceTurns, vars
<1>4. CASE User
  <2>1. ASSUME NEW x \in Endpoints, TestWebhook(x) PROVE Counted(e)'
    BY <1>2, <2>1, OwingRests DEF TestWebhook
  <2>2. ASSUME NEW x \in Endpoints, CreateWebhook(x) PROVE Counted(e)'
    <3>1. Owing(e)' \subseteq Owing(e)
      BY <2>2, OwingRests DEF CreateWebhook
    <3>2. there'[e] # "deleted" => there[e] # "deleted"
      BY <1>0, <2>2 DEF CreateWebhook, EndpointsOK
    <3>3. UNCHANGED <<mailed, mails>>
      BY <2>2 DEF CreateWebhook
    <3> QED
      BY <1>1, <3>1, <3>2, <3>3, CountedRests
  <2>3. ASSUME NEW x \in Endpoints, DeleteWebhook(x) PROVE Counted(e)'
    <3>1. Owing(e)' \subseteq Owing(e)
      BY <2>3, OwingRests DEF DeleteWebhook
    <3>2. there'[e] # "deleted" /\ ~mailed'[e] => there[e] # "deleted" /\ ~mailed[e]
      BY <1>0, <2>3 DEF DeleteWebhook, EndpointsOK
    <3>3. UNCHANGED mails
      BY <2>3 DEF DeleteWebhook
    <3> QED
      BY <1>1, <3>1, <3>2, <3>3, CountedRests
  <2>4. ASSUME NEW x \in Endpoints, NEW kind \in {"pause", "resume", "patch"}, EditRead(x, kind)
        PROVE  Counted(e)'
    BY <1>2, <2>4, OwingRests DEF EditRead
  <2> QED
    BY <1>4, <2>1, <2>2, <2>3, <2>4 DEF User
<1>5. CASE Restart
  <2>1. Owing(e)' \subseteq Owing(e)
    BY <1>5 DEF Restart, Owing, AtWork
  <2> QED
    BY <1>2, <1>5, <2>1 DEF Restart
<1>6. ASSUME NEW x \in Endpoints, Queue(x) PROVE Counted(e)'
  BY <1>2, <1>6, OwingRests DEF Queue
<1>7. ASSUME NEW x \in Endpoints, DayPasses(x) PROVE Counted(e)'
  <2>1. Owing(e)' \subseteq Owing(e)
    BY <1>7, OwingRests DEF DayPasses
  <2>2. \/ mails'[e] = 0
        \/ mails'[e] = mails[e] /\ mailed'[e] = mailed[e]
    BY <1>0, <1>7 DEF DayPasses, EndpointsOK
  <2>3. UNCHANGED there
    BY <1>7 DEF DayPasses
  <2> QED
    BY <1>1, <2>1, <2>2, <2>3, CountedRests
<1>8. ASSUME NEW d \in Rows, Replay(d) \/ TimerFires(d) PROVE Counted(e)'
  BY <1>2, <1>8, OwingRests DEF Replay, TimerFires
<1>9. ASSUME NEW w \in Drainers, Step(w) PROVE Counted(e)'
  <2>1. /\ UNCHANGED of
        /\ \A x \in Drainers : x # w => wpc'[x] = wpc[x] /\ job'[x] = job[x]
        /\ \/ wpc'[w] \notin AtWork
           \/ wpc[w] \in AtWork /\ job'[w] = job[w] /\ wpc[w] # "notify"
           \/ /\ Post(w) /\ wpc[w] = "pick" /\ job'[w].id = Head(w).id /\ Live(Head(w).id)
              /\ job'[w].mailDue = ~mailed[of[Head(w).id]]
    BY <1>9, DrainSteps
  <2>2. \A x \in Drainers : x # w /\ x \in Owing(e)' => x \in Owing(e)
    BY <2>1 DEF Owing
  <2>3. CASE Post(w)
    <3>1. UNCHANGED <<there, mailed, mails>>
      BY <2>3 DEF Post
    <3>2. CASE w \in Owing(e)' /\ w \notin Owing(e)
      <4>1. there[e] = "yes" /\ ~mailed[e]
        BY <2>1, <3>2 DEF Owing, Live
      <4>2. mails'[e] = 0
        BY <1>1, <3>1, <4>1 DEF Counted
      <4>3. Cardinality(Owing(e)') \in Nat /\ Cardinality(Owing(e)') <= Cardinality(Drainers)
        BY FewerOwing DEF Owing
      <4> QED
        BY <4>2, <4>3 DEF Counted
    <3>3. CASE ~(w \in Owing(e)' /\ w \notin Owing(e))
      <4>1. Owing(e)' \subseteq Owing(e)
        BY <2>2, <3>3 DEF Owing
      <4> QED
        BY <1>2, <3>1, <4>1
    <3> QED
      BY <3>2, <3>3
  <2>4. CASE ~Post(w) /\ ~NotifyFailure(w)
    <3>1. Owing(e)' \subseteq Owing(e)
      BY <2>1, <2>2, <2>4 DEF Owing
    <3>2. UNCHANGED <<there, mailed, mails>>
      BY <1>9, <2>4 DEF Step, Drain, DrainNothing, Skip, Accepted, Gone, Refused, Answered, Disable
    <3> QED
      BY <1>2, <3>1, <3>2
  <2>5. CASE NotifyFailure(w)
    <3>1. wpc[w] = "notify" /\ UNCHANGED there /\ job[w].id \in Rows
      BY <1>0, <2>5 DEF NotifyFailure, DrainsOK, Busy, AtWork
    <3>2. wpc'[w] \notin AtWork
      BY <2>1, <3>1, <2>5 DEF Post
    <3>3. Owing(e)' \subseteq Owing(e) /\ w \notin Owing(e)'
      BY <2>2, <3>2 DEF Owing
    <3>4. CASE UNCHANGED <<mailed, mails>>
      BY <1>2, <3>1, <3>3, <3>4
    <3>5. ASSUME NEW x \in Endpoints, x = of[job[w].id], job[w].mailDue, MarkWebhookFailureEmail(x),
                 mails' = [mails EXCEPT ![x] = @ + 1]
          PROVE  Counted(e)'
      <4>1. there[x] # "no"
        BY <3>1, <3>5 DEF Given, JobGiven, AtWork
      <4>2. /\ mailed' = [mailed EXCEPT ![x] = IF there[x] = "yes" THEN TRUE ELSE @]
            /\ there[x] \in {"no", "yes", "deleted"}
        BY <1>0, <3>5 DEF MarkWebhookFailureEmail, If, EndpointsOK
      <4>3. CASE x # e
        <5>1. mails'[e] = mails[e] /\ mailed'[e] = mailed[e]
          BY <1>0, <3>5, <4>2, <4>3 DEF EndpointsOK
        <5> QED
          BY <1>1, <3>1, <3>3, <5>1, CountedRests
      <4>4. CASE x = e
        <5>1. mails'[e] = mails[e] + 1
          BY <1>0, <3>5, <4>4 DEF EndpointsOK
        <5>2. w \in Owing(e)
          BY <3>1, <3>5, <4>4 DEF Owing, AtWork
        <5>3. Owing(e) \in SUBSET Drainers /\ Owing(e)' \in SUBSET Drainers
          BY DEF Owing
        <5>4. /\ Cardinality(Owing(e)') + 1 <= Cardinality(Owing(e))
              /\ Cardinality(Owing(e)') \in Nat /\ Cardinality(Owing(e)) \in Nat
          BY <3>3, <5>2, <5>3, FewerOwing
        <5>5. mails'[e] + Cardinality(Owing(e)') <= Cardinality(Drainers)
          BY <1>1, <5>1, <5>4, FiniteDrainers DEF Counted
        <5>6. there'[e] # "deleted" => mailed'[e]
          BY <1>0, <3>1, <4>1, <4>2, <4>4 DEF EndpointsOK
        <5> QED
          BY <5>5, <5>6 DEF Counted
      <4> QED
        BY <4>3, <4>4
    <3>6. of[job[w].id] \in Endpoints
      BY <1>0, <3>1 DEF RowsOK
    <3> QED
      BY <2>5, <3>4, <3>5, <3>6 DEF NotifyFailure
  <2> QED
    BY <2>3, <2>4, <2>5
<1> QED
  BY <1>3, <1>4, <1>5, <1>6, <1>7, <1>8, <1>9 DEF Next

\* However many drains overlap and however they fail, an endpoint's owner gets at most one
\* failure mail a day for each drain that can run at a time (webhooks.notifyFailure).
THEOREM FewMails == Spec => []OneMailPerDrain
<1>1. Init => Given /\ MailsCounted
  <2> SUFFICES ASSUME Init PROVE Given /\ MailsCounted
    OBVIOUS
  <2>1. Given
    BY DEF Init, Given, RowsGiven, CopiesGiven, AtWork
  <2>2. \A e \in Endpoints : mails[e] = 0 /\ Cardinality(Owing(e)) <= Cardinality(Drainers)
                             /\ Cardinality(Owing(e)) \in Nat
    BY FewerOwing DEF Init, Owing
  <2> QED
    BY <2>1, <2>2, FiniteDrainers DEF MailsCounted, Counted
<1>2. TypeInv /\ Given /\ MailsCounted /\ [Next]_vars => (TypeInv /\ Given /\ MailsCounted)'
  BY TypeStep, GivenStep, MailsStep
<1>3. TypeInv /\ MailsCounted => OneMailPerDrain
  <2> SUFFICES ASSUME TypeInv, MailsCounted, NEW e \in Endpoints PROVE mails[e] <= Cardinality(Drainers)
    BY DEF OneMailPerDrain
  <2>1. mails[e] \in Nat
    BY TypeParts DEF EndpointsOK
  <2>2. Cardinality(Owing(e)) \in Nat
    BY FewerOwing DEF Owing
  <2> QED
    BY <2>1, <2>2, FiniteDrainers DEF MailsCounted, Counted
<1> QED
  BY <1>1, <1>2, <1>3, TypeInit, PTL DEF Spec

=============================================================================

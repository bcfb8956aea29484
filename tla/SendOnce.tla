------------------------------ MODULE SendOnce ------------------------------
(***************************************************************************)
(* What the sending half of mimux promises about one press of Send: it is   *)
(* attempted only after somebody asked for it, every ask buys at most one   *)
(* acceptance by the SMTP server, and a send that was withdrawn, deleted or *)
(* reported as sent is never attempted again.  Nothing is said here about   *)
(* tables, scheduler ticks, requests or crashes: module Outbox has those    *)
(* and implements this specification.                                       *)
(***************************************************************************)
EXTENDS Naturals

CONSTANT Sends

VARIABLES
  phase,      \* phase[s]: where send s stands
  asked,      \* asked[s]: how often the user asked for s (Send, then Retry)
  delivered   \* delivered[s]: how often an SMTP server accepted s

vars == <<phase, asked, delivered>>

Phase == {"unasked", "waiting", "trying", "taken", "failed", "closed"}

Init ==
  /\ phase = [s \in Sends |-> "unasked"]
  /\ asked = [s \in Sends |-> 0]
  /\ delivered = [s \in Sends |-> 0]

Goto(s, from, to) ==
  /\ phase[s] \in from
  /\ phase' = [phase EXCEPT ![s] = to]

\* The first ask: the message waits for its time, or is tried at once.
Ask(s) ==
  /\ \E to \in {"waiting", "trying"} : Goto(s, {"unasked"}, to)
  /\ asked' = [asked EXCEPT ![s] = @ + 1]
  /\ UNCHANGED delivered

Try(s) == Goto(s, {"waiting"}, "trying") /\ UNCHANGED <<asked, delivered>>

\* The SMTP server takes the message: once per try.
Accept(s) ==
  /\ Goto(s, {"trying"}, "taken")
  /\ delivered' = [delivered EXCEPT ![s] = @ + 1]
  /\ UNCHANGED asked

\* The try is over and may be asked for again: it failed, or its outcome is unknown.
Fail(s) == Goto(s, {"trying", "taken"}, "failed") /\ UNCHANGED <<asked, delivered>>

AskAgain(s) ==
  /\ Goto(s, {"failed"}, "waiting")
  /\ asked' = [asked EXCEPT ![s] = @ + 1]
  /\ UNCHANGED delivered

\* Sent, withdrawn while it waited, or deleted.
Close(s) ==
  Goto(s, {"waiting", "trying", "taken", "failed"}, "closed") /\ UNCHANGED <<asked, delivered>>

\* The process dies: every try under way ends, with an outcome nobody recorded.
Interrupt ==
  /\ phase' \in [Sends -> Phase]
  /\ \A s \in Sends :
       \/ phase'[s] = phase[s]
       \/ phase[s] \in {"trying", "taken"} /\ phase'[s] \in {"failed", "closed"}
  /\ UNCHANGED <<asked, delivered>>

Next ==
  \/ Interrupt
  \/ \E s \in Sends : Ask(s) \/ Try(s) \/ Accept(s) \/ Fail(s) \/ AskAgain(s) \/ Close(s)

Spec == Init /\ [][Next]_vars

=============================================================================

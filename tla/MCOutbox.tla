------------------------------ MODULE MCOutbox ------------------------------
(* A small instance of Outbox for TLC: one compose window pressed twice or two *)
(* windows pressed once each.                                                 *)
EXTENDS Outbox

CONSTANTS m1, m2
=============================================================================

---------------------------- MODULE MCOutboxIds ----------------------------
(* Two compose windows, one send each: the second may get the first one's id. *)
EXTENDS OutboxIds

CONSTANTS m1, m2
=============================================================================

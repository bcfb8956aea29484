---------------------------- MODULE MCReadState ----------------------------
(* A small instance of ReadState for TLC: one conversation of two messages.  *)
EXTENDS ReadState, TLC

CONSTANTS a, b
Symmetry == Permutations({a, b})
=============================================================================

------------------------------- MODULE Sorted -------------------------------
(***************************************************************************)
(* Finite sets of numbers in order, and the part of a sequence that stands   *)
(* at a set of its places. Each element is named by its rank, without        *)
(* recursion, so that what the operators yield can be proved.                *)
(***************************************************************************)
EXTENDS Naturals, FiniteSets

Ascending(S)  == [k \in 1..Cardinality(S) |-> CHOOSE x \in S : Cardinality({y \in S : y <= x}) = k]
Descending(S) == [k \in 1..Cardinality(S) |-> CHOOSE x \in S : Cardinality({y \in S : y >= x}) = k]

\* The elements of s at the places I, in their order.
At(s, I) == [k \in 1..Cardinality(I) |-> s[Ascending(I)[k]]]
=============================================================================

---------------------------- MODULE Enumeration ----------------------------
(***************************************************************************)
(* The members of a finite set of numbers in ascending order.  It is what  *)
(* SetToSortSeq of SequencesExt makes with <, but defined by counting: the *)
(* order of SortSeq is built into the tools, and nothing could be proved   *)
(* of it.                                                                  *)
(***************************************************************************)
EXTENDS Integers, FiniteSets

\* The n-th smallest member.
Nth(S, n) == CHOOSE i \in S : Cardinality({j \in S : j <= i}) = n

Enumerated(S) == [n \in 1 .. Cardinality(S) |-> Nth(S, n)]
=============================================================================

------------------------------ MODULE Sublists ------------------------------
(* What a filter leaves of a list, by the places it keeps: SelectSeq in a   *)
(* form that can be reasoned with, for it is not recursive.                 *)
EXTENDS Integers, FiniteSets, Sequences

\* The number of places of I up to i.
Nth(I, i) == Cardinality({j \in I : j <= i})

\* The k-th place of I.
Place(I, k) == CHOOSE i \in I : Nth(I, i) = k

\* The elements of s at the places of I, in their order.
Sublist(s, I) == [k \in 1..Cardinality(I) |-> s[Place(I, k)]]
=============================================================================

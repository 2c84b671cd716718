------------------------------ MODULE Ranking -------------------------------
(***************************************************************************)
(* Parts of sequences, and sets of numbers in their order: what SelectSeq  *)
(* and SetToSortSeq compute, in a form that can be reasoned about.         *)
(***************************************************************************)
EXTENDS Naturals, FiniteSets

\* How many of the places come up to n; the k-th place.
Rank(places, n) == Cardinality({m \in places : m <= n})
Nth(places, k) == CHOOSE n \in places : Rank(places, n) = k

\* What a sequence has at some of its places, in its order.
At(s, places) == [k \in 1..Cardinality(places) |-> s[Nth(places, k)]]

\* Numbers in ascending order.
Ascending(S) == [k \in 1..Cardinality(S) |-> Nth(S, k)]
=============================================================================

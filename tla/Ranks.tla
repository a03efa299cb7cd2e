------------------------------- MODULE Ranks --------------------------------
(***************************************************************************)
(* Positions in a finite set of naturals by rank: the rank of k in K is    *)
(* the number of positions of K up to k, and NthOf(K, r) is the position  *)
(* of rank r.  A filtered sequence is the sequence of the elements at the  *)
(* positions that pass the filter, taken by rank.                          *)
(***************************************************************************)
EXTENDS Naturals, FiniteSets

Rank(K, k) == Cardinality({j \in K : j <= k})

NthOf(K, r) == CHOOSE k \in K : Rank(K, k) = r
=============================================================================

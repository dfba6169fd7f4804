------------------------------- MODULE Ranks -------------------------------
(***************************************************************************)
(* What Python's sorted, list comprehensions and percentiles come to: the  *)
(* elements of a list by their rank.                                       *)
(***************************************************************************)
EXTENDS Integers, Sequences, FiniteSets, SequencesExt

\* The k-th smallest of the scores: the first that k of them do not exceed.
Smallest(scores, k) ==
  CHOOSE x \in ToSet(scores) :
    /\ Cardinality({i \in DOMAIN scores : scores[i] < x}) < k
    /\ Cardinality({i \in DOMAIN scores : scores[i] <= x}) >= k

\* The k-th of the positions K.
Place(K, k) == CHOOSE i \in K : Cardinality({j \in K : j <= i}) = k

\* The elements of s at the positions K, in their order.
Picked(s, K) == [k \in 1 .. Cardinality(K) |-> s[Place(K, k)]]

=============================================================================

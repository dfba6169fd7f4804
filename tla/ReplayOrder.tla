---------------------------- MODULE ReplayOrder ----------------------------
(***************************************************************************)
(* The order in which a replay (app/replay.py) feeds the events: sorted()  *)
(* by _parse_ts, which is stable.                                          *)
(***************************************************************************)
EXTENDS Sessionizer

\* _parse_ts: a missing or unparseable timestamp sorts as the epoch.
SortKey(raw) == IF raw \in Events THEN raw.time ELSE 0

\* sorted() by _parse_ts, of the raws at the positions K: a stable sort.
Precedes(raws, i, j) ==
  \/ SortKey(raws[i]) < SortKey(raws[j])
  \/ SortKey(raws[i]) = SortKey(raws[j]) /\ i <= j

Rank(raws, K, i) == Cardinality({j \in K : Precedes(raws, j, i)})

Ranked(raws, K, k) == CHOOSE i \in K : Rank(raws, K, i) = k

Sorted(raws, K) == [k \in 1 .. Cardinality(K) |-> raws[Ranked(raws, K, k)]]

=============================================================================

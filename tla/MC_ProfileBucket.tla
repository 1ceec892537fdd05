--------------------------- MODULE MC_ProfileBucket ---------------------------
(* A small instance of ProfileBucket: points over few ready times, arrivals  *)
(* and numbers of legs.                                                      *)
EXTENDS ProfileBucket

Point(b, r, a, n, s, ts) ==
    [boundary |-> b, ready |-> r, arrival |-> a, legs |-> n, size |-> s, trips |-> ts]

\* Dominated points, ties, and points of one profile that differ in size, at
\* one boundary; one point at another.
Frontiers == {
    Point("d", 1, 4, 1, 2, {"t1"}), Point("d", 2, 5, 1, 2, {"t1"}),
    Point("d", 3, 6, 1, 2, {"t1"}), Point("d", 3, 5, 1, 2, {"t1"}),
    Point("d", 3, 5, 1, 1, {"t2"}), Point("d", 3, 5, 2, 2, {"t1", "t2"}),
    Point("e", 1, 4, 1, 1, {"t2"})}
============================================================================

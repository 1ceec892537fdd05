------------------------ MODULE MC_ProfileCacheLocks ------------------------
(* Small instances of ProfileCacheLocks.                                     *)
EXTENDS ProfileCacheLocks

\* Two shards of either table, a key for each pair of them: a and c alone are
\* looked up, so a knot of four takes the insertions to b and d.
EntryShards == [k \in Keys |-> IF k \in {"a", "b"} THEN 1 ELSE 2]
SummaryShards == [k \in Keys |-> IF k \in {"a", "d"} THEN 1 ELSE 2]

MCBatches == {<<"a", "b">>, <<"c", "d">>}
============================================================================

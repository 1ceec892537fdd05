--------------------------- MODULE ProfileBucket ---------------------------
(***************************************************************************)
(* The buckets of profile_cache.rs: merging a profile point into the       *)
(* bucket of its key, the Pareto compaction, the summary that lets a       *)
(* lookup skip the bucket, the invalidation of changed trips, the lookups  *)
(* and the spatial surface made for one query.                             *)
(*                                                                         *)
(* A point is a record                                                     *)
(*    boundary   the stop its legs end at (the destination of an exact     *)
(*               point, the boundary stop of a spatial one)                *)
(*    ready      latest_ready_secs                                         *)
(*    arrival    arrival_secs                                              *)
(*    legs       transit_legs                                              *)
(*    size       number of its suffix or trunk legs, walks included        *)
(*    trips      the trips its bloom filter was made from                  *)
(***************************************************************************)
EXTENDS Integers, FiniteSets

CONSTANTS
    Keys,         \* (date, destination, source) of a bucket
    Points,       \* the points queries may insert
    Trips,        \* trip indices
    LastReady,    \* bound on latest_ready_secs
    Width,        \* points a surface keeps for one source stop
    ReadyTimes,   \* the ready times, arrival bounds and numbers of legs left
    Bounds,       \* that lookups are made with
    LegsLeft

ASSUME PointsAssumption ==
    /\ LastReady \in Nat /\ Width \in Nat \ {0}
    /\ \A p \in Points : /\ p.ready \in 0..LastReady
                         /\ p.arrival \in Nat
                         /\ p.legs \in Nat
                         /\ p.size \in Nat
                         /\ p.trips \subseteq Trips
ASSUME LookupsAssumption ==
    ReadyTimes \subseteq Int /\ Bounds \subseteq Int /\ LegsLeft \subseteq Int

VARIABLES
    bucket,    \* exact_entries or spatial_entries: the points of each key
    summary,   \* exact_summaries
    \* observation only
    offered    \* points merged since the last invalidation, and those it kept

vars == <<bucket, summary, offered>>

----------------------------------------------------------------------------
(* Points and buckets.                                                      *)

Duration(p) == p.arrival - p.ready

SameProfile(p, o) ==
    /\ p.boundary = o.boundary
    /\ p.ready = o.ready
    /\ p.arrival = o.arrival
    /\ p.legs = o.legs

\* o serves every lookup that p serves, from the same bucket and as early.
Covers(o, p) ==
    /\ o.boundary = p.boundary
    /\ o.legs = p.legs
    /\ o.ready >= p.ready
    /\ o.arrival <= p.arrival

\* Mutant: a later ready time is not asked for.
CompactByArrival(B) ==
    {p \in B : \A o \in B : ~SameProfile(o, p) /\ o.boundary = p.boundary /\ o.legs = p.legs
                                => o.arrival > p.arrival}

\* compact_bucket, compact_spatial_bucket: in the order of falling ready times
\* a point stays when it arrives before all those of its boundary and number
\* of legs that came before it.
Compact(B) == {p \in B : \A o \in B : Covers(o, p) => SameProfile(o, p)}

\* Mutant: a point is pushed without compaction.
MergedUncompacted(B, p) ==
    LET same == {e \in B : SameProfile(e, p)}
    IN  IF same = {} THEN B \union {p} ELSE B

\* merge_profile_point: against a point of the same profile the one with fewer
\* legs stays.
Merged(B, p) ==
    LET same == {e \in B : SameProfile(e, p)}
    IN  IF same = {} THEN Compact(B \union {p})
        ELSE IF \E e \in same : p.size < e.size THEN (B \ same) \union {p}
        ELSE B

MinOf(S) == CHOOSE x \in S : \A y \in S : x <= y

NoSummary == [duration |-> LastReady, legs |-> -1]

\* summarize_profile_bucket
Summarize(B) == [duration |-> MinOf({Duration(p) : p \in B}),
                 legs     |-> MinOf({p.legs : p \in B})]

----------------------------------------------------------------------------
(* The lookups.                                                             *)

Usable(B, readyAt, left) == {p \in B : readyAt <= p.ready /\ p.legs <= left}

\* SummaryPruned of lookup_bounded.
Pruned(s, readyAt, left, bound) == s.legs > left \/ readyAt + s.duration >= bound

\* Mutant: fewer legs first.
FewerLegsFirst(p, o) ==
    \/ p.legs < o.legs
    \/ p.legs = o.legs /\ p.arrival < o.arrival

\* The order of the matches of a surface: arrival, then legs, then boundary
\* (ties of the first two are left to the order of the boundary stops).
Before(p, o) ==
    \/ p.arrival < o.arrival
    \/ p.arrival = o.arrival /\ p.legs < o.legs

\* sort_by and truncate: a set of Width first matches, all when there are fewer.
Truncations(S) ==
    {T \in SUBSET S : /\ \A p \in T, o \in S \ T : ~Before(o, p)
                      /\ \/ T = S /\ Cardinality(S) <= Width
                         \/ Cardinality(T) = Width}

Gathered(keys) == UNION {bucket[k] : k \in keys}

\* lookup_spatial_cells filters by the ready time and then truncates.
CellMatches(keys, readyAt, left) == Truncations(Usable(Gathered(keys), readyAt, left))

\* materialize_spatial_query_surface truncates; its use filters.
SurfaceMatches(keys, readyAt, left) ==
    {Usable(T, readyAt, left) : T \in Truncations(Gathered(keys))}

----------------------------------------------------------------------------

TypeOK ==
    /\ bucket \in [Keys -> SUBSET Points]
    /\ summary \in [Keys -> [duration : Int, legs : Int]]
    /\ offered \in [Keys -> SUBSET Points]

Init ==
    /\ bucket = [k \in Keys |-> {}]
    /\ summary = [k \in Keys |-> NoSummary]
    /\ offered = [k \in Keys |-> {}]

\* Mutant: only a new bucket gets a summary.
MergeKeepingSummary(k, p) ==
    /\ bucket' = [bucket EXCEPT ![k] = Merged(@, p)]
    /\ summary' = IF bucket[k] = {} THEN [summary EXCEPT ![k] = Summarize({p})] ELSE summary
    /\ offered' = [offered EXCEPT ![k] = @ \union {p}]

\* One point of insert_batch or insert_spatial_batch, its summary renewed.
Merge(k, p) ==
    /\ bucket' = [bucket EXCEPT ![k] = Merged(@, p)]
    /\ summary' = [summary EXCEPT ![k] = Summarize(Merged(bucket[k], p))]
    /\ offered' = [offered EXCEPT ![k] = @ \union {p}]

\* invalidate_trips: the points whose bloom filter may hold a changed trip go,
\* false positives among them; empty buckets lose their summary.
Invalidate(changed, falsePositives) ==
    /\ changed # {}
    /\ bucket' = [k \in Keys |-> {p \in bucket[k] \ falsePositives : p.trips \intersect changed = {}}]
    /\ summary' = [k \in Keys |-> IF bucket'[k] = {} THEN NoSummary ELSE Summarize(bucket'[k])]
    /\ offered' = bucket'

Next ==
    \/ \E k \in Keys, p \in Points : Merge(k, p)
    \/ \E changed \in SUBSET Trips, falsePositives \in SUBSET Points :
            Invalidate(changed, falsePositives)

Spec == Init /\ [][Next]_vars

----------------------------------------------------------------------------
(* Properties.                                                              *)

\* No sequence of merges and compactions loses a way to travel: whatever was
\* offered since the last invalidation, the bucket holds a point that can be
\* caught as late, arrives as early and needs as many transit legs.
NothingLost ==
    \A k \in Keys : \A p \in offered[k] : \E o \in bucket[k] : Covers(o, p)

\* The bucket is a Pareto frontier: none of its points makes another useless.
Frontier ==
    \A k \in Keys : \A p, o \in bucket[k] : Covers(o, p) => o = p

\* The early exit on the summary skips no bucket that holds a point a lookup
\* could use to arrive before its bound.
PruneSound ==
    \A k \in Keys : bucket[k] # {} =>
        \A readyAt \in ReadyTimes, left \in LegsLeft, bound \in Bounds :
            Pruned(summary[k], readyAt, left, bound) =>
                \A p \in Usable(bucket[k], readyAt, left) : p.arrival >= bound

\* A surface keeps only some points, whatever their ready times, so it may have
\* none for a stop whose buckets have one.  When it has one, it has one that
\* arrives as early as any that lookup_spatial_cells would find.
SurfaceEarliest ==
    \A readyAt \in ReadyTimes, left \in LegsLeft :
        \A found \in SurfaceMatches(Keys, readyAt, left) :
            found # {} => \A T \in CellMatches(Keys, readyAt, left) :
                MinOf({p.arrival : p \in found}) = MinOf({p.arrival : p \in T})
============================================================================

------------------------- MODULE RealtimeProfiles -------------------------
(***************************************************************************)
(* The realtime store (realtime.rs), the memoized destination profiles     *)
(* (profile_cache.rs) and the queries that fill them (engine.rs), running  *)
(* concurrently.                                                           *)
(*                                                                         *)
(* A refresh collects the trips whose schedule the store alters, empties   *)
(* the shared maps, refills them feed by feed (one await per feed, every   *)
(* entity inserted on its own), collects the altered trips again and       *)
(* invalidates the profile points that ride any collected trip.  Refreshes *)
(* are not serialized: the background loop, POST /api/realtime/refresh and *)
(* a reload that shares the store may overlap.  A query reads the maps     *)
(* while they change and hands its profile points to rayon::spawn, which   *)
(* inserts them at any later time.                                         *)
(*                                                                         *)
(* Data is abstracted to what staleness depends on: the deltas of a trip   *)
(* are one value of Delays, a profile point is the trips its bloom filter  *)
(* holds and the values of those trips its times were computed from.       *)
(***************************************************************************)
EXTENDS Naturals, Sequences, FiniteSets

CONSTANTS
    Trips,         \* trip indices
    Delays,        \* values of a trip's stop deltas that affect its schedule
    Scheduled,     \* the trip has no such delta: it runs as in the static data
    Canceled,      \* the trip is in canceled_trips
    Feeds,         \* number of entries of config.feeds
    FeedOf,        \* the feed whose trip_lookup_by_feed knows the trip
    Refreshers,    \* callers of Engine::refresh_realtime
    Queries,       \* query slots
    MaxLegs,       \* bound: transit legs of a journey
    MaxPoints,     \* bound: points kept in the cache
    MaxPending     \* bound: spawned insertions that have not run yet

ASSUME ValuesAssumption ==
    /\ Scheduled \notin Delays
    /\ Canceled \notin Delays \union {Scheduled}
ASSUME FeedsAssumption ==
    /\ Feeds \in Nat
    /\ FeedOf \in [Trips -> 1..Feeds]
ASSUME BoundsAssumption ==
    /\ MaxLegs \in Nat
    /\ MaxPoints \in Nat
    /\ MaxPending \in Nat

VARIABLES
    stopDeltas,      \* stop_deltas: the schedule-affecting deltas of each trip
    canceledTrips,   \* canceled_trips
    pc,              \* where each refresher stands
    feed,            \* index of the feed a refresher is at
    entities,        \* entities of the fetched message still to be inserted
    changed,         \* changed_trip_indices of the refresh
    queryPc,         \* where each query slot stands
    updatedMask,     \* trip_has_realtime_update of the query
    available,       \* trip_is_available of the query
    journey,         \* trips of the journey the query is building
    seen,            \* the trip values its times were computed from
    pending,         \* batches handed to rayon::spawn
    cache,           \* exact_entries and spatial_entries
    \* observation only: no guard of a handler reads it
    overlapped       \* queries a refresh ran beside, or fed by such a query

storeVars == <<stopDeltas, canceledTrips>>
refreshVars == <<pc, feed, entities, changed>>
queryVars == <<queryPc, updatedMask, available, journey, seen>>
vars == <<storeVars, refreshVars, queryVars, pending, cache, overlapped>>

----------------------------------------------------------------------------
(* What the store says, and the shape of a profile point.                   *)

\* What a passenger would meet on the trip.
Current(t) == IF t \in canceledTrips THEN Canceled ELSE stopDeltas[t]

\* RealtimeStore::updated_trip_indices and updated_trip_mask.
Updated == {t \in Trips : stopDeltas[t] # Scheduled} \union canceledTrips

Readings == Trips \X (Delays \union {Scheduled})

Points == [legs : Seq(Trips), basis : SUBSET Readings, clean : BOOLEAN]

\* The trips whose bits the point's bloom filter has.
BloomTrips(p) == {p.legs[i] : i \in DOMAIN p.legs}

\* The point made of legs i..k of a journey, with the readings behind them.
PointOf(legs, readings, i, k, isClean) ==
    LET part == SubSeq(legs, i, k)
    IN  [legs  |-> part,
         basis |-> {r \in readings : \E j \in DOMAIN part : part[j] = r[1]},
         clean |-> isClean]

\* The same point, once a refresh has begun before its insertion.
Overtaken(p) == [legs |-> p.legs, basis |-> p.basis, clean |-> FALSE]

Fresh(basis) == \A r \in basis : r[2] = Current(r[1])

InProgress(r) == pc[r] # "idle"
Quiet == \A r \in Refreshers : ~InProgress(r)

TypeOK ==
    /\ stopDeltas \in [Trips -> Delays \union {Scheduled}]
    /\ canceledTrips \in SUBSET Trips
    /\ pc \in [Refreshers -> {"idle", "clearDeltas", "clearCanceled", "fetch",
                              "insert", "invalidate"}]
    /\ feed \in [Refreshers -> 1..(Feeds + 1)]
    /\ \A r \in Refreshers : pc[r] = "insert" => feed[r] <= Feeds
    /\ entities \in [Refreshers -> SUBSET (Trips \X (Delays \union {Scheduled, Canceled}))]
    /\ changed \in [Refreshers -> SUBSET Trips]
    /\ queryPc \in [Queries -> {"idle", "searching", "arrived"}]
    /\ updatedMask \in [Queries -> SUBSET Trips]
    /\ available \in [Queries -> SUBSET Trips]
    /\ journey \in [Queries -> Seq(Trips)]
    /\ seen \in [Queries -> SUBSET Readings]
    /\ pending \in SUBSET SUBSET Points
    /\ cache \in SUBSET Points
    /\ overlapped \in SUBSET Queries

Init ==
    /\ stopDeltas = [t \in Trips |-> Scheduled]
    /\ canceledTrips = {}
    /\ pc = [r \in Refreshers |-> "idle"]
    /\ feed = [r \in Refreshers |-> 1]
    /\ entities = [r \in Refreshers |-> {}]
    /\ changed = [r \in Refreshers |-> {}]
    /\ queryPc = [q \in Queries |-> "idle"]
    /\ updatedMask = [q \in Queries |-> {}]
    /\ available = [q \in Queries |-> {}]
    /\ journey = [q \in Queries |-> <<>>]
    /\ seen = [q \in Queries |-> {}]
    /\ pending = {}
    /\ cache = {}
    /\ overlapped = {}

----------------------------------------------------------------------------
(* RealtimeStore::refresh and Engine::refresh_realtime.                     *)

\* Collect the altered trips.  Everything in flight is now beside a refresh.
BeginRefresh(r) ==
    /\ pc[r] = "idle"
    /\ pc' = [pc EXCEPT ![r] = "clearDeltas"]
    /\ changed' = [changed EXCEPT ![r] = Updated]
    /\ overlapped' = overlapped \union {q \in Queries : queryPc[q] # "idle"}
    /\ pending' = {{Overtaken(p) : p \in batch} : batch \in pending}
    /\ UNCHANGED <<storeVars, feed, entities, queryVars, cache>>

ClearDeltas(r) ==
    /\ pc[r] = "clearDeltas"
    /\ stopDeltas' = [t \in Trips |-> Scheduled]
    /\ pc' = [pc EXCEPT ![r] = "clearCanceled"]
    /\ UNCHANGED <<canceledTrips, feed, entities, changed, queryVars, pending, cache, overlapped>>

ClearCanceled(r) ==
    /\ pc[r] = "clearCanceled"
    /\ canceledTrips' = {}
    /\ pc' = [pc EXCEPT ![r] = "fetch"]
    /\ UNCHANGED <<stopDeltas, feed, entities, changed, queryVars, pending, cache, overlapped>>

\* The message of the feed has arrived and decodes: it updates some trips of
\* the feed.  Scheduled stands for an update that carries no usable delay.
FetchTripUpdates(r) ==
    /\ pc[r] = "fetch"
    /\ feed[r] <= Feeds
    /\ \E updates \in SUBSET {t \in Trips : FeedOf[t] = feed[r]} :
       \E value \in [updates -> Delays \union {Scheduled, Canceled}] :
            entities' = [entities EXCEPT ![r] = {<<t, value[t]>> : t \in updates}]
    /\ pc' = [pc EXCEPT ![r] = "insert"]
    /\ UNCHANGED <<storeVars, feed, changed, queryVars, pending, cache, overlapped>>

\* Mutant: a failing feed is not checked against the end of the list.
FetchFailsPastEnd(r) ==
    /\ pc[r] = "fetch"
    /\ feed' = [feed EXCEPT ![r] = @ + 1]
    /\ UNCHANGED <<storeVars, pc, entities, changed, queryVars, pending, cache, overlapped>>

\* The request, its status or the decoding failed: the error is noted and the
\* refresh goes on with the next feed.
FetchFails(r) ==
    /\ pc[r] = "fetch"
    /\ feed[r] <= Feeds
    /\ feed' = [feed EXCEPT ![r] = @ + 1]
    /\ UNCHANGED <<storeVars, pc, entities, changed, queryVars, pending, cache, overlapped>>

\* One entity of the message: a cancellation marks the trip, delays overwrite
\* its deltas, an update without delays inserts nothing.
InsertEntity(r) ==
    /\ pc[r] = "insert"
    /\ \E e \in entities[r] :
        /\ entities' = [entities EXCEPT ![r] = @ \ {e}]
        /\ canceledTrips' = IF e[2] = Canceled THEN canceledTrips \union {e[1]}
                                               ELSE canceledTrips
        /\ stopDeltas' = IF e[2] \in Delays THEN [stopDeltas EXCEPT ![e[1]] = e[2]]
                                            ELSE stopDeltas
    /\ UNCHANGED <<pc, feed, changed, queryVars, pending, cache, overlapped>>

FeedDone(r) ==
    /\ pc[r] = "insert"
    /\ entities[r] = {}
    /\ feed' = [feed EXCEPT ![r] = @ + 1]
    /\ pc' = [pc EXCEPT ![r] = "fetch"]
    /\ UNCHANGED <<storeVars, entities, changed, queryVars, pending, cache, overlapped>>

\* Mutant: only what the store alters now is collected.
CollectAlteredNow(r) ==
    /\ pc[r] = "fetch"
    /\ feed[r] > Feeds
    /\ changed' = [changed EXCEPT ![r] = Updated]
    /\ pc' = [pc EXCEPT ![r] = "invalidate"]
    /\ UNCHANGED <<storeVars, feed, entities, queryVars, pending, cache, overlapped>>

\* Every feed is done: the trips altered now join those altered before.
CollectChanged(r) ==
    /\ pc[r] = "fetch"
    /\ feed[r] > Feeds
    /\ changed' = [changed EXCEPT ![r] = @ \union Updated]
    /\ pc' = [pc EXCEPT ![r] = "invalidate"]
    /\ UNCHANGED <<storeVars, feed, entities, queryVars, pending, cache, overlapped>>

\* ProfileCache::invalidate_trips holds the gate for writing: one step.  A
\* bloom filter has no false negative; its false positives drop more points.
InvalidateTrips(r) ==
    /\ pc[r] = "invalidate"
    /\ pc' = [pc EXCEPT ![r] = "idle"]
    /\ \E falsePositives \in SUBSET cache :
        /\ changed[r] = {} => falsePositives = {}
        /\ cache' = {p \in cache : BloomTrips(p) \intersect changed[r] = {}} \ falsePositives
    /\ changed' = [changed EXCEPT ![r] = {}]
    /\ feed' = [feed EXCEPT ![r] = 1]
    /\ UNCHANGED <<storeVars, entities, queryVars, pending, overlapped>>

----------------------------------------------------------------------------
(* Engine::run_depart_after_query, as far as realtime data and profiles go. *)

\* The masks of the query are built once, from the maps as they stand.
StartQuery(q) ==
    /\ queryPc[q] = "idle"
    /\ queryPc' = [queryPc EXCEPT ![q] = "searching"]
    /\ updatedMask' = [updatedMask EXCEPT ![q] = Updated]
    /\ available' = [available EXCEPT ![q] = Trips \ canceledTrips]
    /\ overlapped' = IF Quiet THEN overlapped \ {q} ELSE overlapped \union {q}
    /\ UNCHANGED <<storeVars, refreshVars, journey, seen, pending, cache>>

\* The scan boards a trip: its times come from the maps when the mask says the
\* trip is updated, from the static data otherwise.
BoardTrip(q, t) ==
    /\ queryPc[q] = "searching"
    /\ Len(journey[q]) < MaxLegs
    /\ t \in available[q]
    /\ \A i \in DOMAIN journey[q] : journey[q][i] # t
    /\ journey' = [journey EXCEPT ![q] = Append(@, t)]
    /\ seen' = [seen EXCEPT ![q] =
            @ \union {<<t, IF t \in updatedMask[q] THEN stopDeltas[t] ELSE Scheduled>>}]
    /\ UNCHANGED <<storeVars, refreshVars, queryPc, updatedMask, available, pending, cache, overlapped>>

\* The lookahead completes the journey with a memoized suffix.
RecallProfile(q) ==
    /\ queryPc[q] = "searching"
    /\ \E p \in cache :
        /\ Len(journey[q]) + Len(p.legs) <= MaxLegs
        /\ journey' = [journey EXCEPT ![q] = @ \o p.legs]
        /\ seen' = [seen EXCEPT ![q] = @ \union p.basis]
        /\ overlapped' = IF p.clean THEN overlapped ELSE overlapped \union {q}
    /\ queryPc' = [queryPc EXCEPT ![q] = "arrived"]
    /\ UNCHANGED <<storeVars, refreshVars, updatedMask, available, pending, cache>>

\* One point per leg, each from that leg to leg `last` of the journey.
BatchOf(q, readings, last) ==
    {PointOf(journey[q], readings, i, last, q \notin overlapped) : i \in 1..last}

\* reconstruct_path and the building of the insertions read the maps again;
\* the exact batch runs to the destination, the spatial batch to the leg that
\* enters the destination cell (or there is none).
FinishQuery(q) ==
    /\ queryPc[q] # "idle"
    /\ journey[q] # <<>>
    /\ LET last == Len(journey[q])
            readings == seen[q] \union {<<journey[q][i], stopDeltas[journey[q][i]]>> : i \in 1..last}
        IN  \E boundary \in 0..last :
                /\ pending' = pending \union {BatchOf(q, readings, last)} \union
                        (IF boundary = 0 THEN {} ELSE {BatchOf(q, readings, boundary)})
                /\ Cardinality(pending') <= MaxPending
    /\ queryPc' = [queryPc EXCEPT ![q] = "idle"]
    /\ journey' = [journey EXCEPT ![q] = <<>>]
    /\ seen' = [seen EXCEPT ![q] = {}]
    /\ updatedMask' = [updatedMask EXCEPT ![q] = {}]
    /\ available' = [available EXCEPT ![q] = {}]
    /\ UNCHANGED <<storeVars, refreshVars, cache, overlapped>>

\* No itinerary, or an error while the answer is built: nothing is spawned.
AbandonQuery(q) ==
    /\ queryPc[q] # "idle"
    /\ queryPc' = [queryPc EXCEPT ![q] = "idle"]
    /\ journey' = [journey EXCEPT ![q] = <<>>]
    /\ seen' = [seen EXCEPT ![q] = {}]
    /\ updatedMask' = [updatedMask EXCEPT ![q] = {}]
    /\ available' = [available EXCEPT ![q] = {}]
    /\ UNCHANGED <<storeVars, refreshVars, pending, cache, overlapped>>

\* The spawned closure runs under the gate held for reading.  Merging into a
\* bucket may drop the new point or points it dominates (module ProfileBucket).
InsertBatch ==
    \E batch \in pending :
        /\ pending' = pending \ {batch}
        /\ \E kept \in SUBSET (cache \union batch) :
            /\ Cardinality(kept) <= MaxPoints
            /\ cache' = kept
        /\ UNCHANGED <<storeVars, refreshVars, queryVars, overlapped>>

RefreshStep(r) ==
    \/ BeginRefresh(r)
    \/ ClearDeltas(r)
    \/ ClearCanceled(r)
    \/ FetchTripUpdates(r)
    \/ FetchFails(r)
    \/ InsertEntity(r)
    \/ FeedDone(r)
    \/ CollectChanged(r)
    \/ InvalidateTrips(r)

QueryStep(q) ==
    \/ StartQuery(q)
    \/ \E t \in Trips : BoardTrip(q, t)
    \/ RecallProfile(q)
    \/ FinishQuery(q)
    \/ AbandonQuery(q)

Next ==
    \/ \E r \in Refreshers : RefreshStep(r)
    \/ \E q \in Queries : QueryStep(q)
    \/ InsertBatch

Spec == Init /\ [][Next]_vars

----------------------------------------------------------------------------
(* Properties.                                                              *)

\* Whenever no refresh is running, a profile point whose query ran beside no
\* refresh, and recalled no point of such a query, still shows every trip as
\* the store shows it: nothing the refreshes changed since, in any overlap of
\* several refreshes, escaped every changed_trip_indices list.
CleanPointsFresh ==
    Quiet => \A p \in cache : p.clean => Fresh(p.basis)

\* What the test invalidates_points_that_touch_changed_trips asserts of a
\* cache after a refresh: no point is left that rides a trip as it used to run.
NoStalePoints ==
    Quiet => \A p \in cache : Fresh(p.basis)
============================================================================

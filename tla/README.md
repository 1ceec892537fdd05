# Alpha-RAPTOR in TLA+

Specifications of the concurrent and algorithmic core of Alpha-RAPTOR, a local
multimodal routing engine: TLA+ modules translated from `src/src/*.rs`, TLC
runs on small instances, and theorems proved with TLAPS. `PROJECT.json` maps
every definition to the lines it models and lists the components, the runs,
the hazards and the theorems.

## The system

| part | state | operations |
|---|---|---|
| realtime store (`realtime.rs`) | shared maps `stop_deltas`, `trip_metrics`, `canceled_trips`; a status behind a mutex | `refresh` (clear, then refill feed by feed over the network), masks, actual times |
| profile cache (`profile_cache.rs`) | `exact_entries`, `exact_summaries`, `spatial_entries`, a gate (RwLock) | lookups, insertions, surfaces, invalidation of trips |
| query engine (`engine.rs`) | none between queries: every query owns its rounds | depart-after search, arrive-by search, reconstruction, profile insertion (spawned) |
| engine load (`engine.rs`, `main.rs`) | the engine the process serves, swapped as a whole | load, reload from the previous engine, reuse, append-only merge |
| remote sources (`engine.rs`) | cached GTFS and OSM files, version sidecars | conditional download |
| cold store (`cold_storage.rs`) | data and index file, overlays in memory | build, open, read a slot |
| HPF (`hpf.rs`) | forest, overlay runtime behind an ArcSwap, overlay file | coordinate lookup, poll of OSM diffs |
| street router (`street.rs`) | walk and drive graphs with overlays | bidirectional search, poll of OSM diffs |
| walker (`walker.rs`) | the matrix of walking transfers of the engine, its cache file | build in full, by rows when a reload changes little |
| hydration, configuration, web API | none | presentation, parsing, routing of requests |

They interact as follows. Five kinds of activities run at once on one engine:
queries, the background realtime refresh, `POST /api/realtime/refresh`, the
polls of the OSM overlays and the static reload. The refreshes write the maps of
the realtime store entry by entry, with an await for every feed; nothing
serialises two refreshes. Queries read those maps, once into masks at their
start and again, live, in the line scan and in the reconstruction. Every query
that finds an itinerary hands its profile points to `rayon::spawn`; later
queries recall them. A refresh invalidates the points that ride a trip it
changed. A reload that finds nothing changed shares store and cache with the
engine it replaces.

What is hard: the overlap of refreshes, queries and spawned insertions (no lock
spans two of them); two concurrent maps locked in opposite orders; the pruning
of the search by bounds, temporal indices, SIMD predicates and memoized
suffixes, each of which must not lose or spoil an itinerary; trips that run
late, early or overtake one another; files replaced in several steps.

What makes each part correct:

- realtime store and profile cache: after the refreshes are over no point shows
  a trip as it no longer runs; a bucket keeps, for everything offered, something
  at least as good; a summary never hides a usable point; calls return, unless lookups and
  insertions hold what each other wants;
- query engine: the earliest arrival within the transfer limit, a journey that
  can be travelled, and one that can be rebuilt whenever one was found;
- overlays, cold store, remote sources: what is loaded after a crash is a state
  that was complete; sequences are applied in order and once;
- engine load: the engine served is always complete and the newest that loaded,
  its transfers those its stops and streets have;
- trip updates: each delay goes on to the next stop that says otherwise, and the
  order of messages does not decide whether a trip is canceled;
- arrive-by search: the latest departure that arrives in time, but for the tolerance;
- street router: the graph searched is the map as the diffs leave it, the route
  the shortest and rebuilt whole.

## Modules

### RealtimeProfiles

The concurrency of refreshes, queries and spawned insertions. The deltas of a
trip are one value of `Delays`, or `Scheduled`; a trip may be canceled. A profile
point is the sequence of trips its bloom filter was made from and its `basis`:
the value each of these trips had when its times were computed.

| module | code |
|---|---|
| `stopDeltas`, `canceledTrips` | `RealtimeStore::stop_deltas` (deltas that affect the schedule), `canceled_trips` |
| `BeginRefresh`, `ClearDeltas`, `ClearCanceled` | the start of `refresh`: collect, then clear the maps one by one |
| `FetchTripUpdates`, `FetchFails`, `InsertEntity`, `FeedDone` | the loop over the feeds, `refresh_trip_updates` |
| `CollectChanged`, `InvalidateTrips` | the end of `refresh`, `ProfileCache::invalidate_trips` |
| `StartQuery`, `BoardTrip`, `RecallProfile` | masks, line scan and lookahead of `run_depart_after_query` |
| `FinishQuery`, `AbandonQuery`, `InsertBatch` | reconstruction, `build_profile_insertions`, the closure of `rayon::spawn` |

`overlapped` and the `clean` mark of a point are observations: no guard of a
handler reads them. A point is clean when no refresh ran from the start of its
query until its insertion, and every point the query recalled is clean.
`CleanPointsFresh` says that clean points are fresh whenever no refresh runs.
It is about the overlap of refreshes: each refresh collects the altered trips
before it clears the maps and after it has refilled them, and any number of them
interleave. `NoStalePoints` asks the same of all points and fails: an insertion
spawned before the refresh runs after its invalidation.

The mutants and the run have two refreshers, two feeds, one trip with two
possible delays, one query slot, one pending batch and one cached point. A
violation needs one trip, one value it had and another it has, one point, and two
refreshes that interleave; more of each adds independent copies. Journeys of
several legs are covered by the proof.

### Timetable and Raptor

`Timetable` holds what a query reads of the static data and of the store:
scheduled and actual times, skipped stops, availability, walking transfers, and
`find_earliest_trip` with its temporal index. `Window` is the Chronos index: the
trips of (line, position) in the order of their scheduled departure, from the
bucket of the ready time less the look-back of the line on.

`Raptor` is `run_depart_after_query`, one action per stage: `Start` (masks,
origin, initial walk), `WalkFromSeed` (transfers from the seeds of a virtual
origin), `Egress`, `Lookahead` per stop, `QueueLines`, `BeginLine`,
`ScanPosition` per position with the SVRT chunk rule, `RelaxTransfers`,
`EndRound`, `BeginRebuild`, one `Rebuild...` action per kind of parent, and
`Respond`, which also inserts the exact profile points. A query is sequential;
its steps are separate actions so that invariants hold in the middle of a scan.
`phase` is the program counter and `after` the phase that follows a lookahead.

The reference, `EarliestWithin`, is over all pairs of a stop and a time that can be
reached on actual times (`PointsWithin`): so many walks in a row, then at most
`Rounds` times one ride and again so many walks.

- `Optimal`: with a cold cache, on timetables where no trip is early, arrives before
  it has left or is overtaken (`Regular`), with transfers closed under composition
  (`Closed`) and none of them to the beginning of a connector of the destination
  (`ConnectorsApart`), the answer is the reference with one walk at a time; none is
  given only where the reference has none. Late trips, skipped stops, filters and
  coordinates at either end are included.
- `Feasible`: every leg is a ride between two calls of a trip in service, on an
  allowed line, at its actual times, or a walk there is; legs join, none leaves
  before the previous has arrived, the last arrives when the answer says, and the
  rides are within the transfer limit.
- `NeverTooGood`: where no trip is early, no answer beats the reference on the
  allowed lines, with profiles of earlier queries, filters and virtual ends. The
  search can put several walks in a row (the walk from a seed after the access edge,
  a memoized suffix that begins with one), so the reference may walk as often in a
  row as the answer has legs.
- `Rebuildable`: on `Regular` timetables reconstruction does not fail, with profiles,
  filters and virtual ends.
- `SvrtSkipsNothing`: where no trip is early, a boarding test skipped by SVRT would
  have kept the trip.
- `ChronosExact`: where no trip is early, the temporal index finds a trip exactly
  when a linear scan of the line does, and one that leaves at the same time.

`Raptor_search` runs two queries in a row on three lines of two or three stops
with five trips: 128 timetables on schedule (skipped stops, trips out of service),
512 with one trip late from some position on by less or more than the headway,
24 where trips overtake one another, and 12 with transfers between three stops in a
row that are not closed (`Rows`). The requests are between stops, from and to
coordinates, and with a filter. `Bucket` is 3 seconds and `SvrtWidth` 2
positions, so that times fall on both sides of bucket borders and chunks end
inside, at and before the end of a line. `Rounds` is 2: one transfer, the least at
which a parent of an earlier round matters.

One property fails and has a run of its own. `Raptor_early`: when no trip of a
line is late, scheduled departures decide and a trip running early is boarded
after it has left, so that `Feasible` fails. The premise of the two properties on
boarding, `NoneEarly`, is the same: an index in the order of the schedule can miss
a departure that was moved forward, and a skipped test one that left before.

Five more divergences have no run. Each is why one of the premises is there: without
it TLC finds an answer later than the reference, or none.

- `Closed`. The transfers of the static build end at a distance, so they need not be
  closed: a stop reached on foot is not reached anew by a ride that comes later, so the
  walk on from it after that ride is not taken.
- `NoneOvertaken`. Where trips overtake one another, a scan keeps the trip that leaves
  first although another arrives first; and a journey may be found that cannot be
  rebuilt, because a boarding uses the best of all earlier rounds and the
  reconstruction only the parents of the last.
- `ConnectorsApart` (`engine.rs:2605`). After the transfers of a round the connectors
  of the destination are walked only from `next_marked[transit_frontier_len..]`, the
  stops the transfers reached first. A stop that a ride reached and a transfer then
  improved in the same round is not among them, so the destination keeps the label of
  the later arrival: with a connector of 4 from "c" the answer is 11 where 8 is
  possible.
- The first query (`engine.rs:2673`). With a warm cache a round that reaches the
  destination overrides the round of a better memoized arrival.
- The same in one round: when a ride has marked the destination and a profile then
  improves it for a later round, the end of the round sets `destination_round` back
  to itself, and the answer is the later of the two, although `global_best` has the
  earlier (8 answered, 6 known).

The requests are those the planner makes (`RaptorAssumption`): `VirtualOrigin` says
that the index of a coordinate lies past those of the stops, so that no line calls
there and no transfer touches it.

Left out: the spatial part of the lookahead (surface, last-mile subqueries,
anchors), and the live reading of deltas while a refresh runs; here the
timetable does not change during a query.

### ProfileBucket

The data of the cache: `Merged` and `Compact` are `merge_profile_point` and
`compact_bucket` (and their spatial twins), `Summarize` and `Pruned` the summary
and its early exit, `CellMatches` and `SurfaceMatches` the two ways to read
spatial buckets. `offered` is an observation: what was merged since the last
invalidation.

- `NothingLost`: for every point offered the bucket holds one that covers it.
- `Frontier`: no point of a bucket makes another useless.
- `PruneSound`: the early exit skips no bucket with a point that would beat the
  bound.
- `SurfaceEarliest`: a surface that keeps a usable point keeps the earliest one.
  That it may keep none, because it truncates before the ready time is known, is
  what the code does.

The run has two keys and seven points (dominated ones, ties, two of one profile
that differ in size, two boundaries): all orders of merges and invalidations.

### ProfileCacheLocks

The gate and the two sharded maps of the exact profiles. A thread's `pc` says
which lock it waits for. The gate is `std::sync::RwLock`: readers queue behind a
waiting writer. Who holds which shard is two sets of guards, `summaryGuards` for
reading `exact_summaries` and `entryGuards` for writing `exact_entries`: a guard of
the first is held from `GetSummary` until the lookup returns, one of the second from
`MergePoint` until `InsertSummary`. A bucket is the number of merges into it, a summary
the number it was made at. The two maps hash on their own, so the shards of a key in
one say nothing of its shard in the other.

`SummaryOfBucket` and `SummariesComplete` relate the two maps. The other two say when
calls return:

- `OnlyKnotsStick`: threads each of which waits for another of them (`Stuck`) have
  among them a `Knot`, lookups that want their buckets and insertions that want to
  summarize theirs, each holding what the next wants. So neither the points of a batch,
  one after another, nor waiting at the gate adds a way to get stuck.
- `InvalidationsReturn`: an invalidation returns, unless there is a knot.

Knots happen: a lookup and an insertion of one key suffice, and so do two of each whose
keys lie on the four pairs of two shards of either map. The insertions and lookups tied
never return, and an invalidation then waits for ever, and every call behind it.

Fairness is weak for each thread inside a call: a thread that can go on does. Nothing is
assumed of the order in which a lock is granted. So an insertion may wait as long as
lookups keep taking turns at a shard of `exact_summaries`; that is why only invalidations
are promised to return, and with them the calls inside the gate before: a waiting
invalidation keeps new lookups out.

The run has two lookups, two insertions and one invalidation, over two shards of either
map with a key on each of the four pairs; two keys are looked up and each batch has a key
that is and one that is not. That is enough for knots of two and of four, which are
both reached. `MaxMerges` bounds the merges a bucket has when an insertion is called; two
insertions may overlap in one bucket.

### HpfTopology

`apply_osc_diff` of the pedestrian forest, one change of a diff after another. The
plane is a grid; the forest is built from a small network as the code builds it
(`Edges`, `Snap` and `Forest` are `build_pedestrian_graph`, `snap_stop_to_graph` and
`multi_source_forest`), so that its costs, roots and parents are ones the program
produces. `BlockWay`
blocks the cells of the course a way has, `Reroute` renews its override and cools
its new course from the better end, and `PropagateCell` pops one cell of the queue,
in the shadow pass (repairs allowed) or after the cooling. The costs are in units
larger than `HPF_OVERLAY_EPSILON_METERS`.

- `AddedWaysRelaxed`: as long as nothing was blocked, the parent of an entry is usable
  and keeps what the entry promises: the entry costs no less than the parent and the
  step there. And a cell with an entry, or beside one, could not be nearer by way of a
  neighbour, unless it waits in the queue or waited there when a propagation ended at
  the limit (`dropped`, an observation).
- `NeverShorterThanStraight`: after and during any changes, the walk promised from
  a usable cell to its stop is no shorter than the straight line.
- `PolylinesReachStops` is what `docs/hpf.md` says of polylines, and fails: after a
  deletion the repaired cells take parents that hang below them.

Two stronger claims are false, as the proof and then TLC showed, and are not made.
An entry may name another stop than its parent: where a course passes a cell that is
as far from one stop as from another, `cool_new_way` leaves the cell its stop, and the
next cell gets the anchor's stop with that cell for its parent. And an entry may cost
more than its parent and the step: courses have gaps, since they are rasterized every
12 m and cells are smaller, so that a parent may be no neighbour, and may get nearer
without its child being queued. For a parent that is a neighbour equality follows
from the second part.

The grid has 3 by 4 cells, three networks (a street, two that do not meet, and one
with two stops as far from a cell), two ways and four courses, one with a gap, and up
to three changes: add, delete, modify with or without coordinates, make impassable.
Three changes are the least that add a way, take away what it hung on, and come back.
A propagation gives every cell around it a state, whether there is a street or not,
so that in the program the limit of 2048 cells is what usually ends it;
`PropagationLimit` is 20, which ends some propagations of the run and not others. The
run that is violated has a limit none reaches.

### OsmReplica and OverlayPoll

`OsmReplica` is what an overlay promises: the network served stands at a sequence
the server has published, moves only forward while one engine serves, and changes
otherwise only with the engine. `OverlayPoll` is how the code keeps it, for
the forest and for each mode of the street router, whose polls have the same
shape. The content of an overlay is the set of sequences applied to it.

| action | code |
|---|---|
| `SyncInputs`, `LoadNext`, `Swap` | `reload_from_source`, `reload_from_previous` and `engine.swap` in the reload loop |
| `Start`, `Crash` | `Engine::load` at the start of the process; the end of the process at any step |
| `PollLatest`, `PollLate` | the start of `poll_remote_updates`, up to the state file of the server |
| `FetchDiff`, `PollFails` | the loop over the sequences; any `?` of the poll |
| `RemoveFile`, `RenameFile`, `RenameCutFile` | `persist_overlay_runtime` |
| `StoreRuntime` | `overlay_runtime.store`, of the engine the poll began with |

The refinement mapping is `AsOf`: the sequence the served overlay stands at when
its extract has an anchor and it holds every sequence from there, `Unknown`
for an extract without an anchor, `Mixed` (no state of `OsmReplica`) otherwise.

- `ServesPublishedState` is the refinement.
- `NoGaps`: no overlay anywhere (served, loaded, drafted, on file) misses a
  sequence between those it holds, anchored or not.
- `CatchesUp`: when publishing and faults have ended, the engine served ends at
  the last sequence.

The run has an extract with and one without an anchor, two sets of stops, sequences
up to 4, two faults and two reloads. Two faults are enough for a crash between
the removal and the rename and a failure after it; two reloads for a poll that
outlives two engines. Not modelled: a base URL that does not match or a missing
way index, which disable polling.

### RemoteSync, StaticCore, WalkerMatrix and StaticReload

How new versions of the inputs come to be served. `RemoteSync` brings the OSM
extract and a GTFS archive to disk, one after the other; `StaticCore` holds the
tables as operators; `StaticReload` extends both with the loading of an engine at
start and at each poll, and is what the runs check. `WalkerMatrix` extends
`StaticCore` with the walking transfers of a stop table, which `StaticReload`
keeps beside the tables of the engine.

| action | code |
|---|---|
| `Keep`, `KeepUnreached` | the probe of `sync_remote_static_gtfs` and `sync_remote_osm_pbf`, and the failures that fall back to the file |
| `FetchArchive`, `FetchExtract`, `RangeRefused`, `Fetch...Fails` | the download: into memory, or into `download.tmp`, resumed when there is no extract |
| `RemoveCached`, `RenameDownload`, `StoreSidecar`, `...Fails` | the replacement of the file and the note of its version |
| `Start`, `BeginPoll`, `Compare` | the start of the process and the loop of `spawn_static_reload` |
| `ReadCache`, `BuildCore`, `WriteCache`, `WriteCacheCut` | `load_or_build_static_core`; `Build`, `Divergence` and `Merged` are the functions it calls |
| `Reuse` | the early return of `load_internal` on a divergence of 0.0 |
| `FindStore`, `BuildStore`, `BuildStoreCut`, `OpenFails` | `ColdStore::load_or_build` |
| `NextTransfers` | `build_walker_transfers`: `FullMatrix`, or `DifferentialMatrix` with the rows of the engine served |
| `Swap` | the engine complete and swapped in |
| `IndexPanics` | `build_transfer_relax_index` on a row that leads past the stop table |
| `Crash` | the end of the process at any step, a download half way included |

A file is the version it contains and a count of its writings: length and
modification time tell the same apart. A cut file is one value, `Cut`, with a
header that passes: an index cut within its header is rebuilt like none. Ids are
numbers in the order they are sorted in; the rest a record says is its look, and a
call is a stop. `services` and `calendar` are what is not part of a comparison.
Global ids are modelled for stops; those of routes and trips are allocated alike.
A row of transfers is the slots it leads to with the seconds to each; `Walk` gives
the seconds on foot between two places on an extract, since `bounded_dijkstra` over
a graph is a function of these. `relaid` and `refit` of an engine, and the extract
a row was walked on, are observations, read by no guard.

- `CoresMeanTheirInputs`: whatever was merged, cached, cut or repeated, the
  tables loaded say what their archive says.
- `GlobalIdsUnique`: over any generations of merges no two stop records share a
  global id.
- `HydratesServed`: an engine reads names from the slots of its own tables. One
  start is excepted: when only the extract changed and the process was restarted
  before it was reloaded, the cache does not fit but the store, whose token
  leaves the extract out, does; the tables are laid out anew and the store is not.
- `TransfersFit`: the transfers of every active stop are those a full build over
  the tables served would give it. `expand_affected_stop_indices` must therefore find
  every stop near where a changed one was or is, and the rows of moved, appended and
  retired slots must go on to fit. A row may be of an older extract. Engines that
  took over rows of tables laid out otherwise are excepted: `differential_applied`
  is set in the summary of a build beyond the tolerance as well, whose
  slots are those of a new table, and its rows are then taken over slot by slot, or
  lead past the table and the rebuilding task panics (`IndexPanics`). Without this
  exception TLC finds a counterexample.
- `EventuallyFollows`: when the servers stop changing and failures end, the
  engine served has the last versions for inputs, unless one of the three states
  of `Stuck` is left, none of which a retry repairs. Without any one of the
  three exceptions, and without that of `HydratesServed`, TLC finds a
  counterexample.
- `ServesItsInputs` fails: a version whose stops, routes and trips are the same
  is taken over as inputs, but not served.

`StaticReload_crashes` has four versions (the first; a moved stop and another
calendar; a new first stop, a moved call and a changed route; most of the service
gone), two extracts, of which the second has a detour, and two faults: two, because
the exceptions need a failure and what comes of it. A version may be skipped by a
poll, so that both the merge and the full rebuild happen, below and above a
tolerance of 2/5. The stops lie along a street so that a move brings two stops
within the radius of each other and takes two others apart, and `MaxCandidates` is 2
so that one stop displaces another from a row. `StaticReload_served` needs two
versions that differ in their days of service only, and no fault. `Spec` is weakly
fair to the process as a whole: its one task goes on, the pauses between polls end
and a process that ended is started again.

Not modelled: servers that send neither ETag nor modification time (after the first
download such a source is never downloaded again), several feeds, a manifest
that changes, two versions of one length written within one second. The cache file
of the walker is left out: its key holds all the matrix is made from, so what it
returns is what would be built. Retired slots stay in the table and may take one of
the `MaxCandidates` places of a row, which is what a full build does too.

### TripUpdates

What the entities of a feed's messages make of one trip, in the order they come.

| action | code |
|---|---|
| `TripUpdate` | one entity of `refresh_trip_updates`, with `resolve_stop_update_position`, `sanitize_delay` and `merge_schedule_relationship` |
| `VehiclePosition` | `note_vehicle_position`, `should_replace_vehicle_snapshot` |
| `Refresh` | the maps emptied by the next refresh |

The loop over the positions keeps the update it waits for (`Awaited`: the least,
by position, that is not behind) and the delays in force; `Visit` is its body, and
`Carried` the state after each position. The updates sorted by position are the
set `Placed`.

- `DelaysPropagate`: arrival and departure delays are carried along the trip each on
  its own, from the update that gives them to the next that does, and later entities
  override earlier ones where they say anything. The reference, `Said`, looks back
  from a position instead of walking forward. Excepted are two updates of one entity
  that resolve to one position: the loop waits for the second for ever
  and passes over all that follow.
- `RelationAnyOrder`: in whatever order trip updates and vehicle positions come, a
  trip any of them cancels is shown canceled, and no trip is left out of searches
  that is not shown canceled.

The trip calls three times at two stops, one of them twice, so that a stop id alone
is ambiguous; entities have up to two stop updates, by sequence number, by stop, by
both, out of order or unknown, with delays missing, beyond `MaxDelay`, and the least
integer, which passes `sanitize_delay` in a release build. Two entities between two
refreshes are the least at which one overrides the other. The start date
of a trip descriptor is ignored, as the code does; occupancy of single carriages is
left out.

### ArriveBy

`run_arrive_by_query`: `SearchAtTarget`, then `LookBack` from ever further before
the target, then `Halve` until `Answer`, or `GiveUp`. A depart-after search is its
outcome: it arrives by the target when it departs, to the minute
(`request_with_departure_datetime` drops the seconds), no later than the last
departure of its service day that does. `RealtimeChanges` is a refresh between two
searches; `SearchFails` any error but a missing itinerary.

- `LatestFound`: what is answered arrives by the target, and no departure later by
  more than the tolerance does, to the second.
- `NothingMissed`: a query that gives up has missed no departure within half the
  maximum look-back. The rest it may pass over: with the constants of the code the
  last look-back is of 4 hours, the maximum 6.
- `ArriveEnds`: whatever refreshes do to the bracket, the query ends.

Both safety properties are stated for queries without a refresh in between
(`Steady`) and for two service days that agree (`Fifo`): if something that leaves on
the later day arrives, so does something that leaves just before midnight.

### StreetSearch

The graph of an extract (`MapEdges`), the changes of OSM diffs laid over it
(`ApplyDiff`: `parse_osc_diff`, `apply_osc_diff`), and the bidirectional search over
both. A diff is its elements, nodes and ways, in the order of the document: a way gets
the places of those of its nodes that were read ahead of it (`NodesAhead`,
`PlacesGiven`), matched to its nodes by position. The search: `StartSearch`, `Pop` and `PopStale` of the end with the cheaper top, `Stop`,
and `Rebuild` along the parents of each end. Among entries of one cost the heap
pops that of the last node; of parallel edges, those that are dearer may have been
queued before. A search keeps the overlay it began with.

- `ServedIsMap`: of every way the diffs told, the edges served are those OSM has, ways
  changed, deleted and created again, by any elements in any order.
  Excepted are the ways left untold (`Untold`), one by one: a way whose last element in a
  diff is closed at once, as deletions may be (the parser skips it), or does not follow all
  its nodes, placed where they end up; and a way without an element, one of whose nodes
  was moved. What was untold stays so until an element of the way tells.
- `ShortestFound`: the cost found is that of the shortest route, and none is found
  only where there is none. The reference, `Cheapest`, is Bellman's recurrence,
  `Costs`: the costs with at most so many edges, relaxed as many times as there
  are nodes.
- `RouteHolds`: the route is rebuilt whole, from edges that add up to no more than
  the cost found, though labels and parents went on changing after the ends met.

Left out: snapping (which may choose a node all of whose ways are blocked), names,
geometry, and the two modes: they differ in the ways they take and in speed.

### MC_Handlers

`TripUpdates`, `StreetSearch` and `ArriveBy` share no state. `MC_Handlers` runs each
alone from its own initial states, with the other two at rest: the product of three
independent systems would only multiply their states. Street maps have five nodes and
four ways in 24 forms, nine diffs of which up to two are applied, one after another: ways
behind their nodes, between them and without them, nodes moved ahead of their way and
again behind it, deletions closed at once and not, a way deleted and created again by
one diff. And there are searches between any two nodes. Five nodes are enough for the ends to meet at a
node that is not on the shortest route. Arrive-by targets are early and late in a
day, so that look-backs cross midnight; the initial look-back is 4, the maximum 28,
a minute 2: the bracket is halved up to twice.

## Runs

| run | expects | shows |
|---|---|---|
| `RealtimeProfiles_overlap` | pass | clean points stay fresh under overlapping refreshes |
| `RealtimeProfiles_stale` | violation | a late insertion leaves a stale point |
| `Raptor_search` | pass | the search, with and without delays, filters, profiles |
| `Raptor_early` | violation | a trip boarded after it left |
| `ProfileBucket_frontier` | pass | frontier, summary and surface of the buckets |
| `ProfileCacheLocks_shared` | pass | summaries fit their buckets; only knots of lookups and insertions get stuck, and invalidations return unless there is one |
| `HpfTopology_changes` | pass | added ways leave the overlay relaxed, but for what the limit cut off; no walk shorter than the straight line |
| `HpfTopology_polyline` | violation | parents that form a cycle after a deletion |
| `OverlayPoll_crashes` | pass | the overlay implements `OsmReplica`, has no gap, catches up |
| `StaticReload_crashes` | pass | tables, caches, stores and transfers agree; the last versions are served in the end |
| `StaticReload_served` | violation | a new calendar that is never served |
| `Handlers_each` | pass | trip updates, street router and arrive-by queries against their references |

Deadlock is not checked where the system may rest: no refresh or query is bound
to come, and the bounds on queries, points, merges, changes and sequences end some
behaviours.

`CatchesUp` assumes weak fairness of the start of the process and of each step of
a poll: the loops of `main.rs` never end, and a process that crashed is started
again. `EventuallyFollows` assumes the same of the reload loop, `ArriveEnds` of the
searches of one query, which are calls that return. Reloads and publications are not bound to happen; faults are bounded by
`MaxFaults`, so from some time on none happens.

## Proofs

`RealtimeProfiles_proofs` proves `TypeCorrect` and `CleanFresh` for all trips,
delays, feeds, refreshers and queries. `CleanPointsFresh` is not inductive: in the
middle of refreshes clean points may be stale. The invariant says what protects
them: a reading of a clean point, of a batch or of a running query that differs
from the store is a reading of a trip some refresh in progress has collected
or will still collect, and while no refresh runs nothing clean differs. One step per action.

`ProfileBucket_proofs` proves `KeepsEverything`, `KeepsFrontier` and
`PruneIsSound` for every set of points. The inductive invariant adds to the type
invariant that no two points of a bucket have one profile (`Apart`), that what
was offered is covered (`NothingLost`) and that the summary is a lower bound
(`Bounding`). Covering is transitive, and every point has a maximal one above it:
ready times are bounded by `LastReady` and arrivals are natural numbers, so a
least element exists by well-foundedness.

`OverlayPoll_proofs` proves the refinement, `ImplementsReplica`, and `NeverAGap`
for all extracts, stops, sequences and any number of faults. The refinement needs
more than what is served: the invariant says of every overlay that may be served
later (the engine loaded, the draft of a poll, the file) that it is complete for
its own inputs and not ahead of the server, and that the draft of a poll is not
behind the runtime it replaces as long as its engine serves. That a file is used only
for the inputs it was written for is what `LoadedOverlay` checks, so that the
invariant says of the file itself only that it is complete for those.

`HpfTopology_proofs` proves `NoWalkIsTooShort` and `OverlayIsRelaxed`, for every grid,
every network and course (with gaps or without) and any propagation limit.

- `IInv`: every state of the forest and of the overlay is blocked, has no stop, or
  promises no less than the straight line to its stop (`Above`). The property alone is
  not inductive, since a cell of the forest below an entry is not usable now and may
  show again when the entry is pruned. That the forest begins so is an induction over the
  links walked (`DistancesAreStraight`), with courses no shorter than they are straight
  (`AlongIsLonger`, `LinksAreLong`). Then each write adds one step to a state that has
  it, and the triangle inequality of the grid (`Straighter`) does the rest: once for a
  repaired cell, by an induction over the cells for a way that is cooled
  (`CoolingStands`).
- `RInv`, while nothing was blocked: everything in the overlay serves, and what an
  entry promises its parent keeps (`Entered`); a cell that could be nearer by way of a
  neighbour is in the queue or was cut off (`Relaxed`). States only get nearer then, which
  keeps what was promised before (`Eased`, `EasedKeeps`). A cell popped takes the best
  neighbour there is, so that it waits for nothing (`PropagatedEases`), and what
  its new state may help is queued (`PushHolds`, `MooreNeighborsAre`); a cooled way leaves
  no cell beside it unqueued (`WithAroundHolds`).

Two inductions over sequences pushed or cooled go through the recursive functions of the
model, whose existence is shown first (`StepByStepOf`).

`Handlers_proofs` proves `AnswerIsLatest` and `GivesUpForAReason` of `ArriveBy` for all targets,
look-backs, tolerances and timetables. The invariant is the bracket: while looking
back, the last search was too late and lies half the next look-back before the
target; while halving, the early bound arrives and the late one does not. It
is conditional on `Steady` and `Fifo`, like what it shows; the one lemma about the
timetable is that leaving earlier never makes one late.

Of `StreetSearch` it proves `RoutesHold`, for all maps, diffs and nodes. The parent of
a node may change while its label goes down, and so may the label of the parent, so
the invariant asks less than equality: every label but the root's has a parent edge
from a node whose label leaves room for the edge (`Labels`). Entries are never cheaper
than labels (`Queued`), the two labels where the ends met fit into the best cost
(`Met`), and so does what is left to rebuild (`Rest`).

`ShortestIsFound` proves that this search is optimal, for any finite set of nodes.
First the reference: after each relaxation one more node, the cheapest of the
others, has its final cost, so that as many relaxations as there are nodes are enough
(`OneMoreSettled`), and no node costs more than over an edge to it
(`CostsOfRoutes`). Then the search (`Seen`): an edge of a node whose entry was taken
has been relaxed, unless no route by it is shorter than the one found (`Explored`);
an edge between a node each end has taken is on no shorter route (`Crossed`); so is
a root the other end has taken (`Reached`); no label is below the cost of a route
(`NotShorter`). If there were a shorter route than the one found, one of its nodes
would still be queued from the target, and on the way to it one from the source
(`QueuedBehind`, `QueuedAhead`), so that both tops would not add up to what was
found, and the search would not stop.

`TheMapIsServed` proves that what is served is the map, of every way the diffs told,
for any diffs. The invariant (`Fits`) is about each such way: one no diff had is as it
was in the extract, places of its nodes included; the override of one that was changed is what
OSM says of it, and it has none only if OSM does not have it or it is a single node.
Within a diff a way may be changed several times, of which the last element
decides; so the step is an induction over the elements (`AppliedSteps`, `SaidSteps`): behind
the last element of a way its override and what OSM says stay. That element fits if it
tells (`ChangeFits`), as all nodes of the way were read ahead of it and none of them is
moved behind it (`AllGiven`, `AheadMoved`); a way the diff does not have fits if none of its nodes moved
(`DiffFits`).

`ProfileCacheLocks_proofs` proves `ScansWhatWasSummarized`, `SummariesKeepUp` and
`OnlyKnots` for any threads, keys, batches and assignment of keys to shards.
The invariant: whoever is past the gate is counted by it, the guards of
`exact_entries` are those of the insertions between `MergePoint` and `InsertSummary`, each
of the shard of the key it is at, and the guards of `exact_summaries` those of
the lookups past their summary (`Holders`); no two insertions hold one shard (`Exclusive`);
a bucket differs from its summary only while an insertion at its key is about to summarize
(`Behind`). A lookup gets a bucket only when nobody holds its shard, so that what it
scans is what was summarized. `OnlyKnots` rests on `WhoHolds`: whoever holds a shard of
`exact_entries` stands at `summarize`, and whom that waits for is a lookup at `compare`,
which waits for nobody, or at `bucket`. So of threads that each wait for another,
those at `bucket` and `summarize` wait for one another, and there are some: who waits
at the gate waits, over at most one invalidation, for one inside.

`SurfaceIsEarliest`, in `ProfileBucket_proofs`, is about the operators alone: the
surface is the first `Width` entries by arrival, so if it keeps a usable entry, every
one that it drops arrives no earlier.

`Handlers_proofs` proves `DelaysAreCarried` and `OrderDoesNotMatter` of `TripUpdates`. The first is
about a fold over the positions of a trip of any length, so it needs induction. It is
done by the least counterexample, which the library's facts on well-founded
sets give without an operator parameter: at the first position where `Carried`
differs from what looking back says, the state one position earlier agrees, and
`Visit` makes them agree at this one as well. The second is an invariant on the one
record the two handlers merge into.

`Raptor_proofs` proves `AnswersAreTravelled`, `NoneTooGood`, `JourneysRebuild`,
`SearchIsOptimal`, `IndexIsExact` and `SvrtIsSound`, which are all the properties of the run,
for all well-formed timetables, requests and transfer limits and any number of queries
in a row. The inductive invariant has five parts.

- `Typed` (`SearchTyped`): types; the trip on board was found at the position it was
  boarded at (`Aboard`); in a chunk the trip keeps its schedule and no stop was
  reached in earlier rounds before the trip leaves it (`InChunk`); bounds only go down
  in a round (`Falling`). It holds for every timetable. `SvrtSkipsNothing` follows
  from `InChunk`: what could be caught at a position of the chunk leaves no earlier
  than the trip on board. `ChronosExact` is a lemma about `Timetable` alone
  (`IndexIsScan`), used with the types: a trip is never later than the look-back of its
  line, so the window begins no later than the first departure to be caught, and
  once no scheduled departure can be before the best found, neither can an actual one.
- `Sound`, for timetables where no trip runs early and none arrives before it has left
  (`Calm`): each label is that of its parent (`Reached`): a walk, a ride or a memoized
  suffix, from a stop that was reached in time in a round that leaves transfers
  enough; only the destination is reached in rounds to come (`Later`); bounds are
  no later than labels (`Least`), and no earlier where the stop was reached in the
  round (`Current`, `Before`); profiles are journeys (`Profiles`); the trip on
  board was caught (`BoardedInTime`); and the legs rebuilt so far are a journey from
  the stop the reconstruction stands at, with no more rides than rounds left (`Rest`).
  Labels may fall after a parent was set by them, which `ReachedKept` shows does no
  harm: the stop before is then reached earlier still. A boarding uses the best label
  of all earlier rounds where the reconstruction uses that of the round before; so
  `Reached` claims of a ride that it was caught only if the stop has a parent in
  the round before. Where it has none, the reconstruction fails, and there is no
  answer: `Feasible` needs no premise on overtaking, `Rebuildable` does.
- `Stays`: an answer without legs is one to a request from a stop to itself. It is all that
  `NoneTooGood` adds, because the rest follows from `Feasible`: if a journey can be
  travelled, the stop and the time after each of its legs are among the points of
  the reference (`Travelling`, by the least leg where they are not), after as many
  rides as the legs have so far and as many walks as follow the last ride; and
  the reference is the least time among those points at the destination. The reference is
  two recursive functions over natural numbers, whose existence is proved one step at
  a time (`StepByStep`).

- `Leading`, for `Regular` timetables, which is `JourneysRebuild`. A boarding takes the best of all earlier
  rounds; the reconstruction, the parents of the round before. They agree because a
  ride improves a stop only if it begins at one reached in the round before:
  `Explored` says that every ride from any other stop has been taken already. In the
  middle of a round that needs to know of every line what of it was scanned: rides
  from stops reached before the last round are taken (`RidesTaken`, `RidesBefore`),
  only stops of the last round are marked (`OnlyMarked`), each line with a marked stop
  is ahead, from its first marked position (`LinesAhead`), was scanned
  (`AllScanned`), or is being scanned, and then every ride up to this position that
  the trip on board does not make was taken (`LineScanned`). Here overtaking
  matters: the trip on board arrives no later than any that could be caught
  further back (`FirstToBoard`). `Known` is the consequence: each label of the
  round, and the leg to rebuild next, leads back to a stop with a parent in its round.
- `Best`, for the first query, which is `SearchIsOptimal`. Two recursive functions make
  the reference; a `Tour` is what they reach, round by round, told without
  recursion. `Covers` says of every point of a tour, of the rounds done, that its stop has
  a bound no later, or the destination has. In the middle of a round the rest of
  `Toured` says which part of the next one is done: the walks from all stops but
  those still to be relaxed (`WalksTaken`, `Fronts`), the connectors of all stops but
  those still to be looked at (`LinksTaken`), the departure and the access edges
  (`Departed`); the rides are those of `Explored`. `Destined` says that the round the
  answer will be taken from has the bound of the destination.
  Pruning by the bound at the destination loses nothing, since walks and rides never
  lead back in time. `Closed` is used where a walk follows a walk: the stop it
  begins at was marked by a ride, or one walk goes as far (`WalksSettle`).
  At the end, the bound at the destination is no later than the reference
  (`NoLaterIsLeast`), and by `NoneTooGood` no earlier than the reference with as many
  walks in a row as the answer has legs. `DetoursAreLonger` closes the gap: where
  transfers are `Closed`, more walks in a row lead nowhere sooner.

`StaticReload_proofs` proves `TablesSayTheirInputs`, `GlobalIdsStayUnique`,
`HydratesFromItsSlots` and `TransfersStayFit` for any number of versions of any archives that can be loaded, any
tolerance, streets and faults: all four invariants of the reload.

- The operators first. `BuiltSays`: the tables built from an archive are fit to
  be merged into (`Sane`: records lead to records there are, active ids are told apart,
  global ids differ) and say what the archive says. `MergedSays`: so are and do tables
  such tables are merged into. Its core is `Appends`: every entry of the new
  table has one place in the merged one, where an equal entry was or one was appended
  (`WellAppended`). Global ids are a recursive function over the stops appended;
  `GidsAreNew` shows that it exists and gives each an id not taken, since among one
  more salts than ids taken one is free.
- `Served`, the invariant of the first two: archives read are among those published
  and there when read (`FilesKnown`); the tables served, cached and being loaded are
  `Sane`, and the last two say what their archive says (`TablesKnown`). Those served
  need not, which is what `ServesItsInputs` finds.
- `Hydrated` adds that tables of one token have the same slots, wherever they are: in
  the store, in the static cache, in what is being loaded and in what would be loaded
  beside the engine served (`SlabsAgree`), but for stores a start built anew beside. It
  rests on a lemma about merging: what is served already is loaded again without any
  slot changed (`ServedAgain`), because tables that say the same diverge by nothing
  (`SameMeaning`). A new archive has a token no file ever had (`SyncToken`).
- `Fitted` adds that the engine has a row for each of its slots, the row of an active
  stop being the one of a full build (`RowsKnown`), and that what differs is
  merged or built (`NextKnown`). `UnaffectedFit` is the lemma behind it: a stop that is not
  affected was active in its slot before, and no stop appended is within its radius,
  since appended stops are changed ones. The distance is symmetric, which is why
  looking around the changed stops finds all that have one in their rows.

The assumptions are those of the modules, evaluated by TLC on every run:
`ValuesAssumption`, `FeedsAssumption`, `BoundsAssumption`, `PointsAssumption` (with a
surface of at least one entry),
`LookupsAssumption`, `ThreadsAssumption`, `ShardsAssumption`, `OverlayAssumption`,
`TopologyAssumption`, `SyncAssumption`, `ReloadAssumption` (every version is an `Archive`: its trips have
routes and stops there are), `WalkerAssumption`,
`DelayAssumption`, `EntitiesAssumption`, `ArriveAssumption`, `StreetAssumption`
(finitely many nodes), `MapsAssumption` (the nodes of a way have places),
`TimetableAssumption`, and `RaptorAssumption`: the timetables
are well formed (`WellFormed`: a time for every stop a trip calls at), the requests
between their stops, on their lines, and coordinates beyond them (`VirtualOrigin`).

Only model-checked: the liveness properties (`CatchesUp`, `EventuallyFollows`,
`ArriveEnds`, `InvalidationsReturn`), which ENABLED puts out of the prover's reach. Every
other property of a passing run is stated by a theorem. Lemmas by induction over data cannot be stated for an operator
that is a parameter; where one is needed it is proved by the least counterexample.

## Plan

The modules above are the first part of the plan: the concurrency of the store and
the cache, the search, the overlays and the reload, then the handlers of one message,
one street route and one arrive-by query. What is left, in this order:

1. `StaticReload` as an implementation of an abstract specification of what is
   served, with the tables abstracted to versions, and its proof.
2. The spatial part of the lookahead in `Raptor`: last-mile subqueries and anchors.
3. The parser of diffs in `HpfTopology`, as it is in `StreetSearch`.

## Not modelled

Geometry (snapping, polylines, directions), parsing and configuration, statistics
and traces, hydration of names and shapes, the search of stops, the web server. They
decide no state the properties above are about. The live reading of deltas by a query
whose refresh runs beside it is in `RealtimeProfiles` as a reading of one trip; how it
disturbs a whole journey is not followed. Whether the server drops the handler of
`POST /api/realtime/refresh` when its client goes away lies outside the
repository's source; the model lets every refresh end.

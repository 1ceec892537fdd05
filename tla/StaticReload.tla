---------------------------- MODULE StaticReload ----------------------------
(***************************************************************************)
(* Loading the static core at start and at each poll that finds other      *)
(* inputs: from the static cache, or built from the feeds and, when little *)
(* of it differs from what is served, merged into that; the cold store     *)
(* beside it; the swap of the engine, or its reuse.                        *)
(*                                                                         *)
(* The inputs of an engine are the files it was loaded from.  Only this    *)
(* task writes them, so that those it compared are those it reads.         *)
(***************************************************************************)
EXTENDS RemoteSync, WalkerMatrix

CONSTANTS Versions,       \* Versions[v]: what version v of the feeds says
          Tolerance,      \* the divergence merged at most, <<a, b>> for a/b
          Cut             \* a file that was not written to its end

ASSUME ReloadAssumption ==
    /\ DOMAIN Versions = 1..Newest["gtfs"] /\ \A v \in DOMAIN Versions : Archive(Versions[v])
    /\ Tolerance \in Nat \X (Nat \ {0})

VARIABLES engine,     \* [inputs, core, store, transfers, refit] served, or NoFile
          next,       \* [core, mutated] of the engine being loaded, or NoFile
          cache,      \* the static cache: [inputs, core], Cut or NoFile
          store,      \* the newest cold store: [token, slab] or NoFile
          relaid      \* observed: tokens of stores found by a start that built anew

vars == <<sync, engine, next, cache, store, relaid>>
loading == <<engine, next, cache, store, relaid>>

Init ==
    /\ SyncInit
    /\ engine = NoFile /\ next = NoFile /\ cache = NoFile /\ store = NoFile
    /\ relaid = {}

Go(p) == phase' = p /\ UNCHANGED <<remote, disk, mode, got, faults>>
GoFaulty(p) == phase' = p /\ Fault /\ UNCHANGED <<remote, disk, mode, got>>

\* capture_static_inputs_metadata
Inputs == cached

Start ==
    /\ phase = <<"down">>
    /\ phase' = <<"osm", "probe">> /\ mode' = "bootstrap"
    /\ UNCHANGED <<remote, disk, got, faults, loading>>

\* The sleep between two polls is over.
BeginPoll ==
    /\ phase = <<"idle">>
    /\ phase' = <<"osm", "probe">> /\ mode' = "poll"
    /\ UNCHANGED <<remote, disk, got, faults, loading>>

Compare ==
    /\ phase = <<"compare">>
    /\ Go(IF engine # NoFile /\ engine.inputs = Inputs THEN <<"idle">> ELSE <<"read">>)
    /\ UNCHANGED loading

\* load_static_cache: one that cannot be read to its end is none.
CacheFits == cache \notin {NoFile, Cut} /\ cache.inputs = Inputs

ReadCache ==
    /\ phase = <<"read">> /\ CacheFits
    /\ next' = [core |-> cache.core, mutated |-> 0]
    /\ Go(<<"decide">>)
    /\ UNCHANGED <<engine, cache, store, relaid>>

\* Mutant: the token is of the extract.
TokenOfExtract == cached["osm"]
\* static_metadata_generation_token
Token == cached["gtfs"]
StoreIsCurrent == store # NoFile /\ store.token = Token

\* The tables build_static_core makes of each version.
Built == [v \in DOMAIN Versions |-> Build(Versions[v])]

\* What is built is as it is at start; what is near enough to the tables
\* served is merged into them.
Loaded ==
    LET built == Built[cached["gtfs"].version]
        differs == Divergence(engine.core, built)
    IN  IF engine = NoFile THEN [core |-> built, mutated |-> 0]
        ELSE [core |-> IF differs.mutated * Tolerance[2] <= differs.total * Tolerance[1]
                       THEN Merged(engine.core, built) ELSE built,
              mutated |-> differs.mutated]

\* From the parsing of the feeds to the truncation of the cache.
BuildCore ==
    /\ phase = <<"read">> /\ ~CacheFits
    /\ next' = Loaded
    /\ cache' = Cut
    /\ relaid' = IF engine = NoFile /\ StoreIsCurrent THEN relaid \union {Token} ELSE relaid
    /\ Go(<<"write">>)
    /\ UNCHANGED <<engine, store>>

WriteCache ==
    /\ phase = <<"write">>
    /\ cache' = [inputs |-> Inputs, core |-> next.core]
    /\ Go(<<"decide">>)
    /\ UNCHANGED <<engine, next, store, relaid>>

\* A write error ends the attempt, unless it is one of the last buffer's.
WriteCacheCut ==
    /\ phase = <<"write">>
    /\ GoFaulty(IF mode = "bootstrap" THEN <<"down">> ELSE <<"idle">>) \/ GoFaulty(<<"decide">>)
    /\ next' = IF phase' = <<"decide">> THEN next ELSE NoFile
    /\ UNCHANGED <<engine, cache, store, relaid>>

ReusesEngine == engine # NoFile /\ next.mutated = 0 /\ engine.inputs["osm"] = Inputs["osm"]

\* The engine served goes on with the new inputs.
Reuse ==
    /\ phase = <<"decide">> /\ ReusesEngine
    /\ engine' = [engine EXCEPT !.inputs = Inputs]
    /\ next' = NoFile
    /\ Go(<<"idle">>)
    /\ UNCHANGED <<cache, store, relaid>>

Slab(core) == [stops |-> core.stops, routes |-> core.routes, trips |-> core.trips]

BuildStore ==
    /\ phase = <<"decide">> /\ ~ReusesEngine /\ ~StoreIsCurrent
    /\ store' = [token |-> Token, slab |-> Slab(next.core)]
    /\ Go(<<"open">>)
    /\ UNCHANGED <<engine, next, cache, relaid>>

\* The index is cut, its header whole or not; the process lives on or does not.
BuildStoreCut ==
    /\ phase = <<"decide">> /\ ~ReusesEngine /\ ~StoreIsCurrent
    /\ store' \in {store, [token |-> Token, slab |-> Cut]}
    /\ next' = NoFile
    /\ \/ GoFaulty(IF mode = "bootstrap" THEN <<"down">> ELSE <<"idle">>) /\ UNCHANGED engine
       \/ GoFaulty(<<"down">>) /\ engine' = NoFile
    /\ UNCHANGED <<cache, relaid>>

FindStore ==
    /\ phase = <<"decide">> /\ ~ReusesEngine /\ StoreIsCurrent
    /\ Go(<<"open">>)
    /\ UNCHANGED loading

\* The walking transfers of the engine being loaded: by rows when some record
\* differs from those of the engine served, merged or built anew alike, unless
\* rows are to be walked on an extract that cannot be read.
ByRows ==
    /\ engine # NoFile /\ next.mutated > 0
    /\ Inputs["osm"].version \in DOMAIN Walk \/ Affected(engine.core, next.core) = {}

NextTransfers ==
    LET x == Inputs["osm"].version
    IN  IF ByRows THEN DifferentialMatrix(engine.core, engine.transfers, next.core, x)
        ELSE FullMatrix(next.core.stops, x)

\* Observed: rows of other tables are among the transfers.
Refit == ByRows /\ (engine.refit \/ next.core = Built[cached["gtfs"].version])

\* The store opened, the engine is complete and swapped in.
Swap ==
    /\ phase = <<"open">> /\ store.slab # Cut
    /\ LET rows == NextTransfers
       IN  /\ Indexable(next.core.stops, rows)
           /\ engine' = [inputs |-> Inputs, core |-> next.core, store |-> store,
                         transfers |-> rows, refit |-> Refit]
    /\ next' = NoFile
    /\ Go(<<"idle">>)
    /\ UNCHANGED <<cache, store, relaid>>

\* The task that rebuilds panics in build_transfer_relax_index.
IndexPanics ==
    /\ phase = <<"open">> /\ store.slab # Cut
    /\ ~Indexable(next.core.stops, NextTransfers)
    /\ Go(<<"idle">>)
    /\ next' = NoFile
    /\ UNCHANGED <<engine, cache, store, relaid>>

OpenFails ==
    /\ phase = <<"open">> /\ store.slab = Cut
    /\ Go(IF mode = "bootstrap" THEN <<"down">> ELSE <<"idle">>)
    /\ next' = NoFile
    /\ UNCHANGED <<engine, cache, store, relaid>>

\* What was being downloaded of the extract stays.
Crash ==
    /\ phase # <<"down">>
    /\ phase' = <<"down">>
    /\ Fault
    /\ partial' \in {partial} \union (IF Downloads("osm") THEN Downloaded(FALSE) ELSE {})
    /\ engine' = NoFile /\ next' = NoFile
    /\ UNCHANGED <<remote, cached, mtime, sidecar, mode, got, cache, store, relaid>>

LoadStep ==
    \/ Start \/ BeginPoll \/ Compare \/ ReadCache \/ BuildCore \/ WriteCache
    \/ Reuse \/ BuildStore \/ FindStore \/ Swap \/ IndexPanics \/ OpenFails
LoadFault == WriteCacheCut \/ BuildStoreCut \/ Crash

Next ==
    \/ SyncStep /\ UNCHANGED loading
    \/ (SyncFault \/ \E s \in Sources : Publish(s)) /\ UNCHANGED loading
    \/ LoadStep
    \/ LoadFault

\* The task goes on, the pauses between polls end, a process that ended is
\* started again; nothing makes the server publish or anything fail.
Spec == Init /\ [][Next]_vars /\ WF_vars((SyncStep /\ UNCHANGED loading) \/ LoadStep)
-----------------------------------------------------------------------------
(* Properties                                                              *)

\* The tables loaded, and those in the static cache, say what the archive they
\* were loaded from says: appending to the tables of older versions, crashes
\* and cut files notwithstanding (load_or_build_static_core,
\* merge_append_only_core).
CoresMeanTheirInputs ==
    /\ next # NoFile => Means(next.core) = Says(Versions[cached["gtfs"].version])
    /\ cache \notin {NoFile, Cut} =>
           Means(cache.core) = Says(Versions[cache.inputs["gtfs"].version])

\* No two stops of the tables served, outdated ones included, have the same
\* global id, however often they have been merged into (append_stop_record).
GlobalIdsUnique ==
    engine # NoFile =>
        \A i, j \in DOMAIN engine.core.stops :
            engine.core.stops[i].gid = engine.core.stops[j].gid => i = j

\* The slots an engine hydrates from are those of its tables, unless a start
\* that could not use the static cache found a store of its inputs' token
\* (ColdStore::load_or_build).
HydratesServed ==
    engine # NoFile =>
        \/ engine.store.slab = Slab(engine.core)
        \/ engine.store.token \in relaid

\* The transfers of every active stop are those a full build over the tables
\* served would give it on the extract its row was walked on, however often
\* stops were merged in, moved or retired since, unless the engine took over
\* rows of tables laid out otherwise: a build beyond the tolerance does, whose
\* summary has differential_applied too (rebuild_differential_walker_transfers).
TransfersFit ==
    phase = <<"idle">> /\ engine # NoFile /\ ~engine.refit =>
        \A i \in Range(engine.core.activeStops) :
            engine.transfers[i] = Transfers(engine.core.stops, i, engine.transfers[i].on)

\* What a failure leaves for good: a cold store that never opens, a download
\* whose rest is refused, an extract of two versions.
Stuck ==
    \/ store # NoFile /\ store.slab = Cut
    \/ ~Present("osm") /\ partial # NoFile /\ partial.full
    \/ Present("osm") /\ cached["osm"].version = Mixed

Follows ==
    /\ engine # NoFile
    /\ \A s \in Sources : Present(s) /\ cached[s].version = remote[s]
    /\ engine.inputs = Inputs

\* When the sources stop changing an engine is served that has their last
\* versions for inputs, unless a failure left one of the three things no retry
\* repairs (spawn_static_reload, sync_remote_*).
EventuallyFollows == <>[](Follows \/ Stuck)

\* "If upstream metadata changes, Alpha-RAPTOR downloads the new ZIP and
\* hot-swaps the rebuilt engine" (README): the engine served says what the
\* version of its inputs says.  It does not after a change that is no
\* divergence, nor after a rebuild that failed once its cache was written.
ServesItsInputs ==
    engine # NoFile => Means(engine.core) = Says(Versions[engine.inputs["gtfs"].version])
=============================================================================

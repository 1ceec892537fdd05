----------------------------- MODULE StaticCore -----------------------------
(***************************************************************************)
(* The tables of the static core: built from the feeds, compared with the  *)
(* tables an engine serves, and merged into them by appending only.        *)
(*                                                                         *)
(* Ids are numbers, in the order the code sorts them; what else a record   *)
(* says of a stop, a route or a trip is its look.  A version of the feeds  *)
(* is [stops, routes : id -> look,                                         *)
(*     trips : id -> [route, calls, look, service], calendar].             *)
(***************************************************************************)
EXTENDS Naturals, Sequences, SequencesExt

\* What can be loaded: trips have routes and stops there are, each known by its
\* id; the build fails otherwise.
Archive(v) ==
    /\ v.stops \in [DOMAIN v.stops -> Range(v.stops)]
    /\ v.routes \in [DOMAIN v.routes -> Range(v.routes)]
    /\ \A ids \in {DOMAIN v.stops, DOMAIN v.routes, DOMAIN v.trips} : ids \subseteq Nat /\ IsFiniteSet(ids)
    /\ \A t \in DOMAIN v.trips :
          v.trips[t].route \in DOMAIN v.routes /\ v.trips[t].calls \in Seq(DOMAIN v.stops)

Sorted(ids) ==
    [i \in 1..Cardinality(ids) |->
        CHOOSE id \in ids : Cardinality({lower \in ids : lower < id}) = i - 1]
Numbers(table) == [i \in DOMAIN table |-> i]

\* The position of an id among the entries of a table that are active.
Lookup(table, active, id) == CHOOSE i \in Range(active) : table[i].id = id
Ids(table, active) == {table[i].id : i \in Range(active)}

\* build_static_core: the tables in the order of the ids; a trip with fewer
\* than two calls is left out.
Build(v) ==
    LET stopIds == Sorted(DOMAIN v.stops)
        routeIds == Sorted(DOMAIN v.routes)
        tripIds == Sorted({t \in DOMAIN v.trips : Len(v.trips[t].calls) >= 2})
        at(ids, id) == CHOOSE i \in DOMAIN ids : ids[i] = id
        stop(i) == [id |-> stopIds[i], look |-> v.stops[stopIds[i]], gid |-> <<i, 0>>]
        route(i) == [id |-> routeIds[i], look |-> v.routes[routeIds[i]]]
        trip(t) == [id |-> t, look |-> v.trips[t].look, route |-> at(routeIds, v.trips[t].route),
                    calls |-> [k \in DOMAIN v.trips[t].calls |-> at(stopIds, v.trips[t].calls[k])]]
    IN  [stops |-> [i \in DOMAIN stopIds |-> stop(i)], activeStops |-> Numbers(stopIds),
         routes |-> [i \in DOMAIN routeIds |-> route(i)], activeRoutes |-> Numbers(routeIds),
         trips |-> [i \in DOMAIN tripIds |-> trip(tripIds[i])], activeTrips |-> Numbers(tripIds),
         services |-> [i \in DOMAIN tripIds |-> v.trips[tripIds[i]].service],
         calendar |-> v.calendar]
-----------------------------------------------------------------------------
(* Comparing                                                               *)

\* The pairs of positions, one in each of two tables, whose records say the same.
SameStops(p, n) ==
    {e \in (DOMAIN p.stops) \X (DOMAIN n.stops) :
        /\ p.stops[e[1]].id = n.stops[e[2]].id
        /\ p.stops[e[1]].look = n.stops[e[2]].look}
SameRoutes(p, n) ==
    {e \in (DOMAIN p.routes) \X (DOMAIN n.routes) : p.routes[e[1]] = n.routes[e[2]]}

\* The calls of two trips are at stops of the same ids, whatever their records.
SameCalls(p, s, n, t) ==
    /\ Len(s.calls) = Len(t.calls)
    /\ \A k \in DOMAIN s.calls : p.stops[s.calls[k]].id = n.stops[t.calls[k]].id

\* Mutant: the route of a trip is not compared.
SameTripsOnAnyRoute(p, n) ==
    {e \in (DOMAIN p.trips) \X (DOMAIN n.trips) :
        LET s == p.trips[e[1]]
            t == n.trips[e[2]]
        IN  s.look = t.look /\ SameCalls(p, s, n, t)}

\* trip_records_equivalent: the route by all it says.
SameTrips(p, n) ==
    {e \in (DOMAIN p.trips) \X (DOMAIN n.trips) :
        LET s == p.trips[e[1]]
            t == n.trips[e[2]]
        IN  s.look = t.look /\ SameCalls(p, s, n, t) /\ <<s.route, t.route>> \in SameRoutes(p, n)}

\* The ids that are in one of two tables only, or whose records differ.
Changed(table, active, nextTable, nextActive, same) ==
    LET old == Ids(table, active)
        new == Ids(nextTable, nextActive)
        pair(id) == <<Lookup(table, active, id), Lookup(nextTable, nextActive, id)>>
    IN  (old \ new) \union (new \ old) \union {id \in old \intersect new : pair(id) \notin same}

\* summarize_static_divergence: of how many records how many differ.  What
\* days a trip runs is no part of a record.
Divergence(p, n) ==
    LET size(f, g) == IF Len(f) > Len(g) THEN Len(f) ELSE Len(g)
        stops == Changed(p.stops, p.activeStops, n.stops, n.activeStops, SameStops(p, n))
        routes == Changed(p.routes, p.activeRoutes, n.routes, n.activeRoutes, SameRoutes(p, n))
        trips == Changed(p.trips, p.activeTrips, n.trips, n.activeTrips, SameTrips(p, n))
    IN  [mutated |-> Cardinality(stops) + Cardinality(routes) + Cardinality(trips),
         total |-> size(p.activeStops, n.activeStops) + size(p.activeRoutes, n.activeRoutes)
                   + size(p.activeTrips, n.activeTrips)]
-----------------------------------------------------------------------------
(* Merging                                                                 *)

\* Mutant: the id a stop proposes is taken as it is.
ProposedGid(gid, id, taken) == gid

\* allocate_unique_global_id: the id proposed, else one hashed from the local
\* id and the first salt that gives a free one.
UniqueGid(gid, id, taken) ==
    IF gid \notin taken THEN gid
    ELSE LET salt == CHOOSE k \in 1..(Cardinality(taken) + 1) :
                        /\ <<id, k>> \notin taken
                        /\ \A m \in 1..(k - 1) : <<id, m>> \in taken
         IN  <<id, salt>>

\* Which of the tables just built are there already, active and the same.
Kept(table, active, nextTable, same) ==
    {j \in DOMAIN nextTable :
        /\ nextTable[j].id \in Ids(table, active)
        /\ <<Lookup(table, active, nextTable[j].id), j>> \in same}

\* What of them is appended, in their order, and where each of their entries is
\* then; these positions are what is active.
Appended(table, active, nextTable, same) ==
    LET kept == Kept(table, active, nextTable, same)
        new == DOMAIN nextTable \ kept
    IN  [added |-> Sorted(new),
         to |-> [j \in DOMAIN nextTable |->
                    IF j \in kept THEN Lookup(table, active, nextTable[j].id)
                    ELSE Len(table) + Cardinality({k \in new : k < j}) + 1]]

\* The global ids of stops appended one after the other.
Gids(taken, new) ==
    LET gid[k \in DOMAIN new] ==
            UniqueGid(new[k].gid, new[k].id, taken \union {gid[m] : m \in 1..(k - 1)})
    IN  gid

\* Mutant: an appended trip calls at positions of its own table.
NewTripUnmapped(t, stopAt, routeAt) == [t EXCEPT !.route = routeAt[@]]

\* append_trip_record: routes and stops are pointed to where they are now.
NewTrip(t, stopAt, routeAt) ==
    [t EXCEPT !.route = routeAt[@], !.calls = [k \in DOMAIN @ |-> stopAt[@[k]]]]

\* merge_append_only_core
Merged(p, n) ==
    LET stops == Appended(p.stops, p.activeStops, n.stops, SameStops(p, n))
        routes == Appended(p.routes, p.activeRoutes, n.routes, SameRoutes(p, n))
        trips == Appended(p.trips, p.activeTrips, n.trips, SameTrips(p, n))
        new == [k \in DOMAIN stops.added |-> n.stops[stops.added[k]]]
        gid == Gids({s.gid : s \in Range(p.stops)}, new)
    IN  [stops |-> p.stops \o [k \in DOMAIN new |-> [new[k] EXCEPT !.gid = gid[k]]],
         activeStops |-> stops.to,
         routes |-> p.routes \o [k \in DOMAIN routes.added |-> n.routes[routes.added[k]]],
         activeRoutes |-> routes.to,
         trips |-> p.trips \o [k \in DOMAIN trips.added |->
                                  NewTrip(n.trips[trips.added[k]], stops.to, routes.to)],
         activeTrips |-> trips.to,
         services |-> n.services, calendar |-> n.calendar]
-----------------------------------------------------------------------------
(* What the tables say                                                     *)

\* A version as a query reads it from tables: by what is active.
StopMeant(core, id) == core.stops[Lookup(core.stops, core.activeStops, id)].look
RouteMeant(core, id) == core.routes[Lookup(core.routes, core.activeRoutes, id)].look
TripMeant(core, id) ==
    LET i == Lookup(core.trips, core.activeTrips, id)
        t == core.trips[i]
        k == CHOOSE k \in DOMAIN core.activeTrips : core.activeTrips[k] = i
    IN  [route |-> core.routes[t.route], look |-> t.look, service |-> core.services[k],
         calls |-> [c \in DOMAIN t.calls |-> core.stops[t.calls[c]].id]]
Means(core) ==
    [stops |-> [id \in Ids(core.stops, core.activeStops) |-> StopMeant(core, id)],
     routes |-> [id \in Ids(core.routes, core.activeRoutes) |-> RouteMeant(core, id)],
     trips |-> [id \in Ids(core.trips, core.activeTrips) |-> TripMeant(core, id)],
     calendar |-> core.calendar]

\* What the tables of a version should say.
Says(v) ==
    [stops |-> v.stops, routes |-> v.routes,
     trips |-> [id \in {t \in DOMAIN v.trips : Len(v.trips[t].calls) >= 2} |->
                   [route |-> [id |-> v.trips[id].route, look |-> v.routes[v.trips[id].route]],
                    look |-> v.trips[id].look, service |-> v.trips[id].service,
                    calls |-> v.trips[id].calls]],
     calendar |-> v.calendar]
=============================================================================

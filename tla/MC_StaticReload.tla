--------------------------- MODULE MC_StaticReload ---------------------------
(***************************************************************************)
(* Versions of a small feed, and bounds on what fails.                     *)
(***************************************************************************)
EXTENDS StaticReload

MCNewest == [s \in Sources |-> IF s = "gtfs" THEN 4 ELSE 2]
MCNewestDays == [s \in Sources |-> IF s = "gtfs" THEN 2 ELSE 1]
MCTolerance == <<2, 5>>

Trip(route, calls, look, service) ==
    [route |-> route, calls |-> calls, look |-> look, service |-> service]

First ==
    [stops |-> [s \in 1..3 |-> "a"], routes |-> [r \in 1..2 |-> "a"],
     trips |-> 1 :> Trip(1, <<1, 2, 3>>, "a", "wd") @@ 2 :> Trip(2, <<2, 3>>, "a", "wd")
               @@ 3 :> Trip(2, <<2>>, "a", "wd"),
     calendar |-> "a"]
\* A stop is moved, and the calendar is another.
Second == [First EXCEPT !.stops[2] = "b", !.calendar = "b"]
\* A stop comes first, a trip calls at it, another changes its route only.
Third ==
    [Second EXCEPT !.stops = 0 :> "a" @@ @, !.trips[2] = Trip(2, <<0, 2>>, "a", "we"),
                   !.trips[1].route = 2]
\* Most of the service ends.
Fourth ==
    [Third EXCEPT !.stops = [s \in {0, 2} |-> Third.stops[s]],
                  !.trips = 4 :> Trip(2, <<0, 2>>, "a", "we")]
MCVersions == <<First, Second, Third, Fourth>>

\* Only the days change.
MCVersionsDays == <<First, [First EXCEPT !.calendar = "b", !.trips[1].service = "we"]>>

\* The stops lie along a street: the first two near each other once the one is
\* moved, the others far from them; the second extract has a detour between those.
MCPlaces == [stop \in (0..3) \X {"a", "b"} |->
                CASE stop[1] = 0 -> 4 [] stop[1] = 1 -> 20 [] stop[1] = 3 -> 21
                  [] stop = <<2, "a">> -> 2 [] stop = <<2, "b">> -> 5]
Coordinates == {MCPlaces[stop] : stop \in DOMAIN MCPlaces}
MCWalk == [x \in 1..2 |-> [pq \in Coordinates \X Coordinates |->
               Straight(pq[1], pq[2]) + (IF x = 2 /\ {pq[1], pq[2]} = {20, 21} THEN 1 ELSE 0)]]
==============================================================================

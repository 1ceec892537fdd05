------------------------------ MODULE ArriveBy ------------------------------
(***************************************************************************)
(* A query for an arrival: depart-after searches from ever further before  *)
(* the time asked for until one arrives by it, then by halves between that *)
(* one and the last that did not.                                          *)
(*                                                                         *)
(* Times count in seconds from the midnight before the arrival asked for.  *)
(* A search departs at a full minute, as its request is written, and knows *)
(* the trips of the day it departs on: for each of the two days            *)
(* there is a latest departure that still arrives, whoever leaves earlier  *)
(* on that day can wait for it.  A refresh of the realtime store between   *)
(* two searches changes these.                                             *)
(***************************************************************************)
EXTENDS Integers

CONSTANTS Targets,         \* arrivals asked for
          Latest,          \* latest departures there can be
          Initial,         \* ARRIVE_BY_INITIAL_LOOKBACK_SECS
          MaxLookback,     \* ARRIVE_BY_MAX_LOOKBACK_SECS
          Tolerance,       \* ARRIVE_BY_BINARY_SEARCH_TOLERANCE_SECS
          Minute,          \* the seconds of one
          MaxRefreshes     \* bound

ASSUME ArriveAssumption ==
    /\ Targets \subseteq Nat /\ Latest \subseteq Int
    /\ Initial \in Nat \ {0} /\ MaxLookback \in Nat /\ Initial <= MaxLookback
    /\ Tolerance \in Nat \ {0} /\ Minute \in Nat \ {0} /\ MaxRefreshes \in Nat

VARIABLES query,       \* "target", "back", "halve", or how it ended
          asked,       \* target_arrival
          lookback,
          early,       \* best_departure: the search for it arrives by the target
          late,        \* upper_bound: the search for it does not
          latest,      \* latest[day]: the last departure that arrives by the target
          refreshes

arriveVars == <<query, asked, lookback, early, late, latest, refreshes>>

Day(d) == IF d < 0 THEN "before" ELSE "on"
Arrives(d) == d <= latest[Day(d)]

\* request_with_departure_datetime: the seconds are dropped.
ToMinute(d) == d - (d % Minute)

\* The search made for a departure arrives by the target.
InTime(d) == Arrives(ToMinute(d))
Ended == {"found", "nothing", "failed"}

ArriveInit ==
    /\ query = "target"
    /\ asked \in Targets
    /\ lookback = Initial
    /\ early = asked /\ late = asked
    /\ latest \in [{"before", "on"} -> Latest]
    /\ refreshes = 0

\* A search that fails for another reason than that there is no itinerary
\* ends the query.
SearchFails ==
    /\ query \notin Ended
    /\ query' = "failed"
    /\ UNCHANGED <<asked, lookback, early, late, latest, refreshes>>

SearchAtTarget ==
    /\ query = "target"
    /\ query' = IF InTime(asked) THEN "found" ELSE "back"
    /\ UNCHANGED <<asked, lookback, early, late, latest, refreshes>>

\* Mutant: the look-back is trebled.
LookBackByThree ==
    /\ query = "back" /\ lookback <= MaxLookback
    /\ LET d == asked - lookback
       IN  IF InTime(d) THEN query' = "halve" /\ early' = d /\ UNCHANGED <<late, lookback>>
           ELSE late' = d /\ lookback' = 3 * lookback /\ UNCHANGED <<query, early>>
    /\ UNCHANGED <<asked, latest, refreshes>>

LookBack ==
    /\ query = "back" /\ lookback <= MaxLookback
    /\ LET d == asked - lookback
       IN  IF InTime(d) THEN query' = "halve" /\ early' = d /\ UNCHANGED <<late, lookback>>
           ELSE late' = d /\ lookback' = 2 * lookback /\ UNCHANGED <<query, early>>
    /\ UNCHANGED <<asked, latest, refreshes>>

GiveUp ==
    /\ query = "back" /\ lookback > MaxLookback
    /\ query' = "nothing"
    /\ UNCHANGED <<asked, lookback, early, late, latest, refreshes>>

\* Mutant: an itinerary that arrives late counts.
HalveByAny ==
    /\ query = "halve" /\ late - early > Tolerance
    /\ early' = early + (late - early) \div 2
    /\ UNCHANGED <<query, asked, lookback, late, latest, refreshes>>

Halve ==
    /\ query = "halve" /\ late - early > Tolerance
    /\ LET d == early + (late - early) \div 2
       IN  IF InTime(d) THEN early' = d /\ UNCHANGED late ELSE late' = d /\ UNCHANGED early
    /\ UNCHANGED <<query, asked, lookback, latest, refreshes>>

\* Mutant: the search goes on while the bounds differ.
AnswerWhenEqual ==
    /\ query = "halve" /\ late = early
    /\ query' = "found"
    /\ UNCHANGED <<asked, lookback, early, late, latest, refreshes>>

Answer ==
    /\ query = "halve" /\ late - early <= Tolerance
    /\ query' = "found"
    /\ UNCHANGED <<asked, lookback, early, late, latest, refreshes>>

\* RealtimeStore::refresh, between two searches of the query.
RealtimeChanges ==
    /\ query \notin Ended /\ refreshes < MaxRefreshes
    /\ latest' \in [{"before", "on"} -> Latest]
    /\ refreshes' = refreshes + 1
    /\ UNCHANGED <<query, asked, lookback, early, late>>

Search == SearchAtTarget \/ LookBack \/ GiveUp \/ Halve \/ Answer

ArriveNext == Search \/ SearchFails \/ RealtimeChanges

\* The searches of a query follow one another (each is a function that returns).
ArriveSpec == ArriveInit /\ [][ArriveNext]_arriveVars /\ WF_arriveVars(Search)
-----------------------------------------------------------------------------
(* Properties                                                              *)

\* Leaving earlier never makes one late: the trips of the day before are no
\* fewer than it takes to be there at midnight.
Fifo == latest["on"] >= 0 => latest["before"] >= -1

Steady == refreshes = 0

\* What is answered arrives by the target, and no departure later by more than
\* the tolerance does, to the second, unless the two days disagree or a refresh
\* came between (run_arrive_by_query, the bisection).
LatestFound ==
    query = "found" /\ Steady /\ Fifo =>
        /\ InTime(early)
        /\ \A d \in (early + Tolerance)..asked : ~Arrives(d)

\* When the query gives up, nothing departs in time within half the maximum
\* look-back: the doubling may pass over the rest of it (run_arrive_by_query,
\* the look-back).
NothingMissed ==
    query = "nothing" /\ Steady /\ Fifo =>
        \A d \in (asked - MaxLookback)..asked : 2 * (asked - d) <= MaxLookback => ~Arrives(d)

\* Whatever refreshes do to the bracket, the query ends (the two loops of
\* run_arrive_by_query).
ArriveEnds == (query = "target") ~> (query \in Ended)
=============================================================================

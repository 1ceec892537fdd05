----------------------------- MODULE Timetable -----------------------------
(***************************************************************************)
(* What a query reads of the static data and of the realtime store: the    *)
(* lines, the trips in the order of trip_indices, scheduled and actual     *)
(* times, skipped stops, canceled trips and walking transfers.             *)
(*                                                                         *)
(* A timetable is a record                                                 *)
(*    path[l]        the stops of line l, in order                         *)
(*    trips[l]       its trips, numbered in the order of their departure   *)
(*    sched[t][p]    <<arrival, departure>> of trip t at position p        *)
(*    actual[t][p]   the same with the stop deltas applied                 *)
(*    skipped        the pairs <<t, p>> whose stop is skipped              *)
(*    available      the trips in service and not canceled                 *)
(*    walk           [<<stop, stop>> -> seconds, Inf when there is none]   *)
(***************************************************************************)
EXTENDS Integers, Sequences, FiniteSets

CONSTANTS
    Stops,      \* stop indices, virtual ones included
    Inf,        \* INF_TIME: later than every time
    Bucket,     \* CHRONOS_BUCKET_SECS
    SvrtWidth   \* SVRT_WIDTH: positions of a chunk

ASSUME TimetableAssumption ==
    /\ Inf \in Nat
    /\ Bucket \in Nat \ {0}
    /\ SvrtWidth \in Nat \ {0}

\* The times of a day, those an early trip may leave before it included.
Times == -Inf..Inf

\* A timetable of these stops, with a time for every stop a trip calls at.
WellFormed(tt) ==
    /\ DOMAIN tt.path \subseteq Nat \ {0}
    /\ \A l \in DOMAIN tt.path :
        /\ Len(tt.path[l]) \in Nat
        /\ DOMAIN tt.path[l] = 1..Len(tt.path[l])
        /\ tt.trips[l] \subseteq Nat \ {0}
        /\ \A p \in DOMAIN tt.path[l] :
            /\ tt.path[l][p] \in Stops
            /\ \A t \in tt.trips[l] : /\ tt.sched[t][p][2] \in 0..Inf
                                       /\ tt.actual[t][p] \in Times \X Times
    /\ tt.walk \in [Stops \X Stops -> 0..Inf]

MinOf(S) == CHOOSE x \in S : \A y \in S : x <= y

\* The least of S, or INF_TIME when S is empty.
Earliest(S) == MinOf(S \union {Inf})

LinesOf(tt) == DOMAIN tt.path

SchedDep(tt, t, p) == tt.sched[t][p][2]
SchedArr(tt, t, p) == tt.sched[t][p][1]
Dep(tt, t, p) == tt.actual[t][p][2]
Arr(tt, t, p) == tt.actual[t][p][1]
Skipped(tt, t, p) == <<t, p>> \in tt.skipped

\* trip_has_realtime_update: some delta of the trip alters its schedule.
Updated(tt, t) ==
    \/ tt.actual[t] # tt.sched[t]
    \/ \E p \in DOMAIN tt.sched[t] : Skipped(tt, t, p)

\* No trip leaves before it is scheduled to.
NoneEarly(tt) ==
    \A l \in LinesOf(tt) : \A t \in tt.trips[l] : \A p \in DOMAIN tt.path[l] :
        SchedDep(tt, t, p) <= Dep(tt, t, p)

\* No trip arrives at a stop before it has left an earlier one.
Forward(tt) ==
    \A l \in LinesOf(tt) : \A t \in tt.trips[l] : \A p, q \in DOMAIN tt.path[l] :
        p < q => Dep(tt, t, p) <= Arr(tt, t, q)

\* No trip of a line that may be boarded is overtaken before a stop another of them
\* calls at: one that leaves no later calls there too, and no later.
NoneOvertaken(tt) ==
    \A l \in LinesOf(tt) : \A t, u \in tt.trips[l] \intersect tt.available :
        \A p, q \in DOMAIN tt.path[l] :
            p < q /\ Dep(tt, t, p) <= Dep(tt, u, p) /\ ~Skipped(tt, u, q)
                => ~Skipped(tt, t, q) /\ Arr(tt, t, q) <= Arr(tt, u, q)

\* The timetables the search is made for.
Regular(tt) == NoneEarly(tt) /\ Forward(tt) /\ NoneOvertaken(tt)

\* No detour by a third stop is shorter than the transfer, or makes up for there
\* being none.
Closed(tt) ==
    \A s, u, v \in Stops : s # v => tt.walk[<<s, v>>] <= tt.walk[<<s, u>>] + tt.walk[<<u, v>>]

\* line_max_positive_delay_secs, from departure delays only.
LineDelay(tt, l) ==
    LET delays == {Dep(tt, t, p) - SchedDep(tt, t, p) :
                      t \in {u \in tt.trips[l] : Updated(tt, u)}, p \in DOMAIN tt.path[l]}
    IN  CHOOSE d \in delays \union {0} : \A e \in delays \union {0} : e <= d

\* Mutant: no look-back for late trips.
WindowWithoutLookback(tt, l, p, readyAt) ==
    {t \in tt.trips[l] : /\ SchedDep(tt, t, p) >= (readyAt \div Bucket) * Bucket
                         /\ t \in tt.available
                         /\ ~Skipped(tt, t, p)}

\* Where the temporal index of (line, position) starts to search: the trips
\* in the order of their scheduled departure there, from the Chronos bucket of
\* the ready time less the look-back on.
Window(tt, l, p, readyAt) ==
    LET lookback == LineDelay(tt, l)
        safe     == IF readyAt > lookback THEN readyAt - lookback ELSE 0
    IN  {t \in tt.trips[l] : /\ SchedDep(tt, t, p) >= (safe \div Bucket) * Bucket
                             /\ t \in tt.available
                             /\ ~Skipped(tt, t, p)}

\* Mutant: the first trip of the window, boardable or not.
FirstOfWindow(tt, l, p, readyAt) ==
    LET window == Window(tt, l, p, readyAt)
    IN  {t \in window : \A u \in window \ {t} : Dep(tt, t, p) < Dep(tt, u, p)}

\* find_earliest_trip: with no late trip on the line the first scheduled
\* departure decides, else the first actual one.  Empty or one trip.
FindEarliestTrip(tt, l, p, readyAt) ==
    LET time(t) == IF LineDelay(tt, l) = 0 THEN SchedDep(tt, t, p) ELSE Dep(tt, t, p)
        usable  == {t \in Window(tt, l, p, readyAt) : time(t) >= readyAt}
        before(t, u) == \/ time(t) < time(u)
                        \/ /\ time(t) = time(u)
                           /\ \/ SchedDep(tt, t, p) < SchedDep(tt, u, p)
                              \/ SchedDep(tt, t, p) = SchedDep(tt, u, p) /\ t < u
    IN  {t \in usable : \A u \in usable \ {t} : before(t, u)}

\* svrt_chunk_has_catchup_candidate, negated: at no position of the chunk does
\* the bound of the round before precede the scheduled departure of the trip.
NoCatchUp(tt, l, t, p, bestBefore) ==
    \A i \in p..(p + SvrtWidth - 1) : bestBefore[tt.path[l][i]] >= SchedDep(tt, t, i)
============================================================================

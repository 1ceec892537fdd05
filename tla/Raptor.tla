------------------------------- MODULE Raptor -------------------------------
(***************************************************************************)
(* Engine::run_depart_after_query: the initial walk, the rounds (queue the *)
(* lines of the marked stops, scan them position by position, consult the  *)
(* memoized profiles, relax the transfers), and the reconstruction of the  *)
(* journey from the parents.  Queries run one after the other on one       *)
(* timetable, each filling the exact profiles the next may recall.         *)
(***************************************************************************)
EXTENDS Timetable

CONSTANTS
    Timetables,    \* the timetables to run on
    Requests(_),   \* the queries on each: [from, to, depart, access, egress, allowed]
    Rounds,        \* max_transfers + 1
    MaxQueries     \* bound: queries served

\* The index of a coordinate lies past those of the stops: no line calls there, no
\* transfer touches it, and no connector of the destination begins there.
VirtualOrigin(x, q) ==
    /\ \A l \in LinesOf(x) : \A p \in DOMAIN x.path[l] : x.path[l][p] # q.from
    /\ \A s \in Stops : x.walk[<<q.from, s>>] = Inf /\ x.walk[<<s, q.from>>] = Inf
    /\ \A e \in q.egress : e[1] # q.from

ASSUME RaptorAssumption ==
    /\ Rounds \in Nat \ {0}
    /\ MaxQueries \in Nat
    /\ \A x \in Timetables :
        /\ WellFormed(x)
        /\ \A q \in Requests(x) : /\ q.from \in Stops /\ q.to \in Stops
                                  /\ q.depart \in 0..(Inf - 1)
                                  /\ q.access \in SUBSET (Stops \X Nat)
                                  /\ q.egress \in SUBSET (Stops \X Nat)
                                  /\ q.allowed \subseteq LinesOf(x)
                                  /\ q.access # {} => VirtualOrigin(x, q)

VARIABLES
    tt,          \* the timetable
    cache,       \* exact_entries: points [stop, to, ready, arrival, legs]
    query,       \* the request being served
    phase,       \* the stage of the query
    round,
    best,        \* global_best
    bestBefore,  \* best_before_round
    arr,         \* round_arrivals
    par,         \* parents
    marked,      \* marked_stops
    nextMarked,  \* next_marked
    frontier,    \* the slice of next_marked the current stage works on
    todo,        \* its stops still to be handled
    after,       \* the phase that follows the lookahead
    queue,       \* queued_line_positions, 0 when the line is not queued
    scan,        \* [line, pos, trip, boarded, chunk] of scan_line
    destRound,   \* destination_round
    at,          \* <<current_stop, current_round>> of reconstruct_path
    legs,        \* the raw legs rebuilt so far
    answer,      \* [query, arrival, legs] of the last query
    served

searchVars == <<round, best, bestBefore, arr, par, marked, nextMarked, frontier,
                todo, after, queue, scan, destRound>>
answerVars == <<at, legs, answer, cache, served>>
vars == <<tt, query, phase, searchVars, answerVars>>

NoTrip == 0
None == Rounds + 1      \* destination_round is not set
NoParent == [kind |-> "none"]
Origin == [kind |-> "origin"]
WalkFrom(s, secs) == [kind |-> "walk", from |-> s, secs |-> secs]
Ride(t, l, i, j) == [kind |-> "transit", trip |-> t, line |-> l, board |-> i, alight |-> j]
Memoized(s, k, suffix) == [kind |-> "memo", from |-> s, round |-> k, legs |-> suffix]

IdleScan == [line |-> 0, pos |-> 0, trip |-> NoTrip, boarded |-> 0, chunk |-> 0]
NoAnswer == [arrival |-> Inf, legs |-> <<>>]

FilterActive == query.allowed # LinesOf(tt)
Exact == query.egress = {}
Path == tt.path[scan.line]

TransitLegs(ls) == Cardinality({i \in DOMAIN ls : ls[i].trip # NoTrip})

Init ==
    /\ tt \in Timetables
    /\ query = CHOOSE q \in Requests(tt) : TRUE
    /\ cache = {}
    /\ phase = "idle"
    /\ round = 0
    /\ best = [s \in Stops |-> Inf]
    /\ bestBefore = best
    /\ arr = [k \in 0..Rounds |-> best]
    /\ par = [k \in 0..Rounds |-> [s \in Stops |-> NoParent]]
    /\ marked = {}
    /\ nextMarked = {}
    /\ frontier = {}
    /\ todo = {}
    /\ after = "queue"
    /\ queue = [l \in LinesOf(tt) |-> 0]
    /\ scan = IdleScan
    /\ destRound = None
    /\ at = <<query.from, 0>>
    /\ legs = <<>>
    /\ answer = NoAnswer
    /\ served = 0

----------------------------------------------------------------------------
(* Recording improvements.                                                  *)

\* record_stop_improvement for every stop s with time[s] < best[s], in round k.
Record(k, time, parent, improved) ==
    /\ best' = [s \in Stops |-> IF s \in improved THEN time[s] ELSE best[s]]
    /\ arr' = [arr EXCEPT ![k] = [s \in Stops |-> IF s \in improved THEN time[s] ELSE @[s]]]
    /\ par' = [par EXCEPT ![k] = [s \in Stops |-> IF s \in improved THEN parent[s] ELSE @[s]]]

\* record_memoized_destination_improvement.
RecordsMemo(k, time) ==
    \/ time < best[query.to]
    \/ time = best[query.to] /\ k < destRound

RecordMemo(k, time, parent) ==
    /\ best' = [best EXCEPT ![query.to] = time]
    /\ arr' = [arr EXCEPT ![k][query.to] = time]
    /\ par' = [par EXCEPT ![k][query.to] = parent]
    /\ destRound' = k

\* What walking from the stops of `from`, reached at arrivals[s], achieves.
WalkTimes(from, arrivals) ==
    [s \in Stops |-> Earliest({arrivals[f] + tt.walk[<<f, s>>] :
                                    f \in {g \in from : tt.walk[<<g, s>>] < Inf}})]
WalkParents(from, arrivals) ==
    [s \in Stops |->
        IF WalkTimes(from, arrivals)[s] = Inf THEN NoParent
        ELSE LET f == CHOOSE g \in from : /\ tt.walk[<<g, s>>] < Inf
                                          /\ arrivals[g] + tt.walk[<<g, s>>] = WalkTimes(from, arrivals)[s]
             IN  WalkFrom(f, tt.walk[<<f, s>>])]

----------------------------------------------------------------------------
(* The request, the initial walk, the virtual ends.                         *)

\* A request is taken: the origin, and the stops one walk away from it, or the
\* access edges of a virtual origin.
Start(q) ==
    /\ phase = "idle"
    /\ served < MaxQueries
    /\ query' = q
    /\ served' = served + 1
    /\ LET secs(s) == IF q.access = {} THEN {tt.walk[<<q.from, s>>]}
                                       ELSE {e[2] : e \in {f \in q.access : f[1] = s}}
           start == [s \in Stops |-> IF s = q.from THEN q.depart
                                     ELSE Earliest({q.depart + d : d \in secs(s) \ {Inf}})]
           reached == {s \in Stops \ {q.from} : start[s] < Inf}
       IN  /\ best' = start
           /\ arr' = [k \in 0..Rounds |-> IF k = 0 THEN start ELSE [s \in Stops |-> Inf]]
           /\ par' = [k \in 0..Rounds |-> [s \in Stops |->
                        IF k > 0 THEN NoParent
                        ELSE IF s = q.from THEN Origin
                        ELSE IF s \in reached THEN WalkFrom(q.from, start[s] - q.depart)
                        ELSE NoParent]]
           /\ marked' = reached \union (IF q.access = {} THEN {q.from} ELSE {})
           /\ destRound' = IF q.from = q.to \/ q.to \in reached THEN 0 ELSE None
           /\ todo' = IF q.access = {} THEN {} ELSE reached
    /\ phase' = "seeds"
    /\ round' = 0
    /\ legs' = <<>>
    /\ answer' = NoAnswer
    /\ after' = "queue"
    /\ UNCHANGED <<tt, cache, at, bestBefore, nextMarked, frontier, queue, scan>>

\* The transfers of one seeded stop of a virtual origin.
WalkFromSeed ==
    /\ phase = "seeds"
    /\ \E s \in todo :
        /\ todo' = todo \ {s}
        /\ LET time == WalkTimes({s}, arr[0])
               improved == {u \in Stops : arr[0][s] < best[query.to] /\ time[u] < best[u]}
           IN  /\ Record(0, time, WalkParents({s}, arr[0]), improved)
               /\ marked' = marked \union improved
               /\ destRound' = IF query.to \in improved THEN 0 ELSE destRound
    /\ UNCHANGED <<tt, query, phase, round, bestBefore, nextMarked, frontier, after, queue,
                   scan, answerVars>>

SeedsDone ==
    /\ phase = "seeds"
    /\ todo = {}
    /\ phase' = "egress"
    /\ frontier' = marked
    /\ UNCHANGED <<tt, query, round, best, bestBefore, arr, par, marked, nextMarked, todo,
                   after, queue, scan, destRound, answerVars>>

\* Mutant: profiles answer a query that allows only some lines.
LookaheadIgnoringFilter == IF Exact THEN frontier ELSE {}

\* The stops whose profiles are consulted.
LookaheadStops == IF FilterActive \/ ~Exact THEN {} ELSE frontier

\* apply_virtual_destination_egress on the frontier.
Egress ==
    /\ phase = "egress"
    /\ phase' = "lookahead"
    /\ todo' = LookaheadStops
    /\ LET edges == {e \in query.egress : e[1] \in frontier /\ arr[round][e[1]] < Inf}
           time(e) == arr[round][e[1]] + e[2]
       IN  IF edges # {} /\ RecordsMemo(round, MinOf({time(e) : e \in edges}))
           THEN \E e \in edges :
                    /\ time(e) = MinOf({time(f) : f \in edges})
                    /\ RecordMemo(round, time(e), Memoized(e[1], round,
                            <<[from |-> e[1], to |-> query.to, trip |-> NoTrip,
                               dep |-> arr[round][e[1]], arr |-> time(e)]>>))
           ELSE UNCHANGED <<best, arr, par, destRound>>
    /\ UNCHANGED <<tt, query, round, bestBefore, marked, nextMarked, frontier, after,
                   queue, scan, answerVars>>

----------------------------------------------------------------------------
(* The lookahead on the exact profiles.                                     *)

\* Mutant: the suffix is chained to the round it arrives in.
ChainedAtTarget(s, p) == Memoized(s, round + TransitLegs(p.legs), p.legs)

\* The parent of a destination reached by profile p of stop s.
ChainedToSource(s, p) == Memoized(s, round, p.legs)

\* lookup_bounded and its use by apply_profile_lookahead for one stop.
Lookahead ==
    /\ phase = "lookahead"
    /\ \E s \in todo :
        /\ todo' = todo \ {s}
        /\ LET readyAt == arr[round][s]
               left    == Rounds - round
               bucket  == {p \in cache : p.stop = s /\ p.to = query.to}
               usable  == {p \in bucket : readyAt <= p.ready /\ TransitLegs(p.legs) <= left}
               chosen  == {p \in usable : \A o \in usable :
                              \/ p.arrival < o.arrival
                              \/ /\ p.arrival = o.arrival
                                 /\ TransitLegs(p.legs) <= TransitLegs(o.legs)}
               bound   == best[query.to]
               pruned  == \/ \A p \in bucket : TransitLegs(p.legs) > left
                          \/ \A p \in bucket : readyAt + (p.arrival - p.ready) >= bound
           IN  IF readyAt = Inf \/ pruned \/ chosen = {}
               THEN UNCHANGED <<best, arr, par, destRound>>
               ELSE \E p \in chosen :
                    LET k == round + TransitLegs(p.legs)
                    IN  IF readyAt + (p.arrival - p.ready) < bound /\ RecordsMemo(k, p.arrival)
                        THEN RecordMemo(k, p.arrival, ChainedToSource(s, p))
                        ELSE UNCHANGED <<best, arr, par, destRound>>
    /\ UNCHANGED <<tt, query, phase, round, bestBefore, marked, nextMarked, frontier, after,
                   queue, scan, answerVars>>

LookaheadDone ==
    /\ phase = "lookahead"
    /\ todo = {}
    /\ phase' = after
    /\ UNCHANGED <<tt, query, searchVars, answerVars>>

----------------------------------------------------------------------------
(* A round.                                                                 *)

MarkedPositions(l) ==
    {p \in DOMAIN tt.path[l] : tt.path[l][p] \in marked /\ best[tt.path[l][p]] < best[query.to]}

\* Mutant: the line is scanned from the last marked stop seen.
LastMarkedPosition(l) == CHOOSE p \in MarkedPositions(l) : \A o \in MarkedPositions(l) : o <= p

QueuedPosition(l) == MinOf(MarkedPositions(l))

\* The lines of the marked stops, each from its first such position.
QueueLines ==
    /\ phase = "queue"
    /\ marked # {}
    /\ round < Rounds
    /\ round' = round + 1
    /\ bestBefore' = best
    /\ queue' = [l \in LinesOf(tt) |-> IF l \in query.allowed /\ MarkedPositions(l) # {}
                                    THEN QueuedPosition(l) ELSE 0]
    /\ nextMarked' = {}
    /\ scan' = IdleScan
    /\ phase' = "scan"
    /\ UNCHANGED <<tt, query, best, arr, par, marked, frontier, todo, after, destRound, answerVars>>

\* scan_line is called for the next queued line.
BeginLine ==
    /\ phase = "scan"
    /\ scan.line = 0
    /\ \E l \in LinesOf(tt) :
        /\ queue[l] > 0
        /\ \A m \in 1..(l - 1) : queue[m] = 0
        /\ scan' = [IdleScan EXCEPT !.line = l, !.pos = queue[l]]
        /\ queue' = [queue EXCEPT ![l] = 0]
    /\ UNCHANGED <<tt, query, phase, round, best, bestBefore, arr, par, marked, nextMarked,
                   frontier, todo, after, destRound, answerVars>>

\* Mutant: SVRT is not disabled for a trip with realtime updates.
ChunkBeginsOnUpdated ==
    /\ scan.chunk = 0
    /\ scan.trip # NoTrip
    /\ Len(Path) - scan.pos + 1 >= SvrtWidth
    /\ NoCatchUp(tt, scan.line, scan.trip, scan.pos, bestBefore)

\* A chunk of positions whose boarding test is skipped begins here.
ChunkBegins ==
    /\ scan.chunk = 0
    /\ scan.trip # NoTrip
    /\ ~Updated(tt, scan.trip)
    /\ Len(Path) - scan.pos + 1 >= SvrtWidth
    /\ NoCatchUp(tt, scan.line, scan.trip, scan.pos, bestBefore)

\* The trip the scalar step would ride on from the position, given the bound.
Boarding(bound) ==
    LET readyAt   == bestBefore[Path[scan.pos]]
        candidate == FindEarliestTrip(tt, scan.line, scan.pos, readyAt)
    IN  IF readyAt >= Inf \/ readyAt >= bound THEN {}
        ELSE {t \in candidate : \/ scan.trip = NoTrip
                                \/ Dep(tt, t, scan.pos) < Dep(tt, scan.trip, scan.pos)}

\* One position: evaluate_onboard_arrival, then (outside a skipped chunk) the
\* boarding test of scan_line_scalar_step.
ScanPosition ==
    /\ phase = "scan"
    /\ scan.line # 0
    /\ scan.pos <= Len(Path)
    /\ LET s       == Path[scan.pos]
           arrival == IF scan.trip = NoTrip THEN Inf ELSE Arr(tt, scan.trip, scan.pos)
           improved == {u \in {s} : /\ scan.trip # NoTrip
                                    /\ ~Skipped(tt, scan.trip, scan.pos)
                                    /\ arrival < best[query.to]
                                    /\ arrival < best[s]}
           bound    == IF query.to \in improved THEN arrival ELSE best[query.to]
           inChunk  == scan.chunk > 0 \/ ChunkBegins
           boarding == IF inChunk THEN {} ELSE Boarding(bound)
       IN  /\ Record(round, [u \in Stops |-> arrival],
                     [u \in Stops |-> Ride(scan.trip, scan.line, scan.boarded, scan.pos)], improved)
           /\ nextMarked' = nextMarked \union improved
           /\ scan' = [line    |-> scan.line,
                       pos     |-> scan.pos + 1,
                       trip    |-> IF boarding = {} THEN scan.trip ELSE CHOOSE t \in boarding : TRUE,
                       boarded |-> IF boarding = {} THEN scan.boarded ELSE scan.pos,
                       chunk   |-> IF scan.chunk > 0 THEN scan.chunk - 1
                                   ELSE IF inChunk THEN SvrtWidth - 1 ELSE 0]
    /\ UNCHANGED <<tt, query, phase, round, bestBefore, marked, frontier, todo, after, queue,
                   destRound, answerVars>>

EndLine ==
    /\ phase = "scan"
    /\ scan.line # 0
    /\ scan.pos > Len(Path)
    /\ scan' = IdleScan
    /\ UNCHANGED <<tt, query, phase, round, best, bestBefore, arr, par, marked, nextMarked,
                   frontier, todo, after, queue, destRound, answerVars>>

\* Every queued line is scanned: the stops marked so far are the transit frontier.
ScanDone ==
    /\ phase = "scan"
    /\ scan.line = 0
    /\ \A l \in LinesOf(tt) : queue[l] = 0
    /\ frontier' = nextMarked
    /\ after' = "relax"
    /\ phase' = "egress"
    /\ UNCHANGED <<tt, query, round, best, bestBefore, arr, par, marked, nextMarked, todo,
                   queue, scan, destRound, answerVars>>

\* relax_transfers_tiled: one walk from the transit frontier.
RelaxTransfers ==
    /\ phase = "relax"
    /\ LET sources == {s \in frontier : arr[round][s] < best[query.to]}
           time == WalkTimes(sources, arr[round])
           improved == {s \in Stops : time[s] < best[s]}
       IN  /\ Record(round, time, WalkParents(sources, arr[round]), improved)
           /\ nextMarked' = nextMarked \union improved
           /\ frontier' = improved \ nextMarked
    /\ after' = "endRound"
    /\ phase' = "egress"
    /\ UNCHANGED <<tt, query, round, bestBefore, marked, todo, queue, scan, destRound, answerVars>>

\* Mutant: the round counts although it did not improve the destination.
ReachedAnyhow == IF best[query.to] < Inf THEN round ELSE destRound

\* The round whose arrival the answer will take.
ReachedIn == IF query.to \in nextMarked THEN round ELSE destRound

EndRound ==
    /\ phase = "endRound"
    /\ destRound' = ReachedIn
    /\ marked' = nextMarked
    /\ phase' = "queue"
    /\ UNCHANGED <<tt, query, round, best, bestBefore, arr, par, nextMarked, frontier, todo,
                   after, queue, scan, answerVars>>

----------------------------------------------------------------------------
(* The answer.                                                              *)

SearchDone == phase = "queue" /\ (marked = {} \/ round = Rounds)

\* "no itinerary found"
NoItinerary ==
    /\ SearchDone
    /\ destRound = None
    /\ phase' = "idle"
    /\ UNCHANGED <<tt, query, searchVars, answerVars>>

BeginRebuild ==
    /\ SearchDone
    /\ destRound # None
    /\ at' = <<query.to, destRound>>
    /\ phase' = "rebuild"
    /\ UNCHANGED <<tt, query, searchVars, legs, answer, cache, served>>

Parent == par[at[2]][at[1]]
AtOrigin == at = <<query.from, 0>> \/ Parent = Origin

\* One turn of the loop of reconstruct_path.
RebuildWalk ==
    /\ phase = "rebuild" /\ ~AtOrigin
    /\ Parent.kind = "walk"
    /\ LET arrival == arr[at[2]][at[1]]
       IN  legs' = <<[from |-> Parent.from, to |-> at[1], trip |-> NoTrip,
                      dep |-> arrival - Parent.secs, arr |-> arrival]>> \o legs
    /\ at' = <<Parent.from, at[2]>>
    /\ UNCHANGED <<tt, query, phase, searchVars, answer, cache, served>>

RebuildRide ==
    /\ phase = "rebuild" /\ ~AtOrigin
    /\ Parent.kind = "transit"
    /\ LET path == tt.path[Parent.line]
       IN  /\ legs' = <<[from |-> path[Parent.board], to |-> path[Parent.alight],
                         trip |-> Parent.trip, dep |-> Dep(tt, Parent.trip, Parent.board),
                         arr |-> arr[at[2]][path[Parent.alight]]]>> \o legs
           /\ at' = <<path[Parent.board], IF at[2] = 0 THEN 0 ELSE at[2] - 1>>
    /\ UNCHANGED <<tt, query, phase, searchVars, answer, cache, served>>

RebuildMemo ==
    /\ phase = "rebuild" /\ ~AtOrigin
    /\ Parent.kind = "memo"
    /\ legs' = Parent.legs \o legs
    /\ at' = <<Parent.from, Parent.round>>
    /\ UNCHANGED <<tt, query, phase, searchVars, answer, cache, served>>

\* "path reconstruction failed"
RebuildFails ==
    /\ phase = "rebuild" /\ ~AtOrigin
    /\ Parent = NoParent
    /\ phase' = "failed"
    /\ UNCHANGED <<tt, query, searchVars, answerVars>>

\* The answer is complete; build_profile_insertions makes one point per leg
\* whose ends are real stops.
Respond ==
    /\ phase = "rebuild"
    /\ AtOrigin
    /\ answer' = [arrival |-> arr[destRound][query.to], legs |-> legs]
    /\ LET kept == {i \in DOMAIN legs : query.access = {} \/ legs[i].from # query.from}
           last == Len(legs)
       IN  cache' = IF FilterActive \/ ~Exact THEN cache
                    ELSE cache \union {[stop |-> legs[i].from, to |-> query.to,
                                        ready |-> legs[i].dep, arrival |-> legs[last].arr,
                                        legs |-> SubSeq(legs, i, last)] : i \in kept}
    /\ phase' = "idle"
    /\ UNCHANGED <<tt, query, searchVars, at, legs, served>>

RestartAfterFailure ==
    /\ phase = "failed"
    /\ phase' = "idle"
    /\ UNCHANGED <<tt, query, searchVars, answerVars>>

SearchStep ==
    \/ WalkFromSeed \/ SeedsDone
    \/ Egress \/ Lookahead \/ LookaheadDone
    \/ QueueLines \/ BeginLine \/ ScanPosition \/ EndLine \/ ScanDone
    \/ RelaxTransfers \/ EndRound

AnswerStep ==
    \/ NoItinerary \/ BeginRebuild
    \/ RebuildWalk \/ RebuildRide \/ RebuildMemo \/ RebuildFails
    \/ Respond \/ RestartAfterFailure

Next == (\E q \in Requests(tt) : Start(q)) \/ SearchStep \/ AnswerStep

Spec == Init /\ [][Next]_vars

----------------------------------------------------------------------------
(* The reference: all <<stop, time>> that can be reached with at most k      *)
(* transit legs, and at most so many walks in a row before, between and      *)
(* after them.                                                              *)

WalkedOnce(points) ==
    points \union UNION {{<<s, p[2] + tt.walk[<<p[1], s>>]>> :
                            s \in {u \in Stops : tt.walk[<<p[1], u>>] < Inf}} : p \in points}

Walked(points, walks) ==
    LET by[n \in 0..walks] == IF n = 0 THEN points ELSE WalkedOnce(by[n - 1]) IN by[walks]

\* Where one trip leads from a point it leaves after.
Rode(lines, points) ==
    UNION {UNION {{<<tt.path[l][j], Arr(tt, t, j)>> :
                  j \in {j \in DOMAIN tt.path[l] :
                        /\ ~Skipped(tt, t, j)
                        /\ \E i \in 1..(j - 1) : /\ ~Skipped(tt, t, i)
                                                /\ \E p \in points : /\ p[1] = tt.path[l][i]
                                                                     /\ p[2] <= Dep(tt, t, i)}} :
               t \in tt.trips[l] \intersect tt.available} : l \in lines}

PointsWithin(q, walks) ==
    LET origin == {<<q.from, q.depart>>} \union {<<e[1], q.depart + e[2]>> : e \in q.access}
        by[k \in 0..Rounds] == IF k = 0 THEN Walked(origin, walks)
                               ELSE by[k - 1] \union Walked(Rode(q.allowed, by[k - 1]), walks)
    IN  by[Rounds]

EarliestWithin(q, walks) ==
    LET points == PointsWithin(q, walks)
    IN  Earliest({p[2] : p \in {o \in points : o[1] = q.to}}
                 \union UNION {{p[2] + e[2] : e \in {f \in q.egress : f[1] = p[1]}} : p \in points})

----------------------------------------------------------------------------
(* Properties.                                                              *)

Answered == phase = "idle" /\ served > 0

\* No transfer leads to the beginning of a connector of the destination.
ConnectorsApart ==
    \A e \in query.egress : \A s \in Stops \ {e[1]} : tt.walk[<<s, e[1]>>] = Inf

\* With no memoized profile yet, on lines where no trip is early or overtaken and
\* transfers that make up for every walk of several, the answer is the earliest
\* arrival there is within the transfer limit, and no itinerary is reported only
\* when there is none.
Optimal ==
    Answered /\ served = 1 /\ Regular(tt) /\ Closed(tt) /\ ConnectorsApart
        => answer.arrival = EarliestWithin(query, 1)

\* Legs that a trip of the lines makes, that are a walk, and that are an edge of a
\* virtual end.
RideLeg(leg, lines) ==
    \E l \in lines : \E i, j \in DOMAIN tt.path[l] :
        /\ i < j /\ leg.from = tt.path[l][i] /\ leg.to = tt.path[l][j]
        /\ leg.trip \in tt.trips[l] \intersect tt.available
        /\ ~Skipped(tt, leg.trip, i) /\ ~Skipped(tt, leg.trip, j)
        /\ leg.dep = Dep(tt, leg.trip, i) /\ leg.arr = Arr(tt, leg.trip, j)
WalkLeg(leg) == leg.trip = NoTrip /\ leg.arr - leg.dep \in {tt.walk[<<leg.from, leg.to>>]} \ {Inf}
AccessLeg(leg) == leg.trip = NoTrip /\ leg.from = query.from /\ <<leg.to, leg.arr - leg.dep>> \in query.access
EgressLeg(leg) == leg.trip = NoTrip /\ leg.to = query.to /\ <<leg.from, leg.arr - leg.dep>> \in query.egress

\* The answer can be travelled: its legs join the ends of the query within the
\* transfer limit, none leaves before the one before it has arrived, each is a
\* ride of a trip in service on an allowed line or a walk there is, and the
\* last arrives when the answer says.
Feasible ==
    Answered /\ answer.legs # <<>> =>
        LET n == Len(answer.legs)
            leg(i) == answer.legs[i]
        IN  /\ leg(1).from = query.from /\ leg(1).dep >= query.depart
            /\ leg(n).to = query.to /\ leg(n).arr = answer.arrival
            /\ \A i \in 1..n : leg(i).dep <= leg(i).arr
            /\ \A i \in 1..(n - 1) : leg(i).to = leg(i + 1).from /\ leg(i).arr <= leg(i + 1).dep
            /\ \A i \in 1..n : \/ RideLeg(leg(i), query.allowed) \/ WalkLeg(leg(i))
                               \/ AccessLeg(leg(i)) \/ EgressLeg(leg(i))
            /\ TransitLegs(answer.legs) <= Rounds

\* Where no trip is early, no profile, filter or virtual end makes an answer arrive
\* before the earliest arrival there is within the transfer limit, on the allowed
\* lines, walking no more often in a row than the answer has legs.
NeverTooGood ==
    Answered /\ NoneEarly(tt) /\ Forward(tt) => answer.arrival >= EarliestWithin(query, Len(answer.legs))

\* Where no trip is early, arrives before it has left or is overtaken, a journey that
\* was found can be rebuilt from the parents, memoized suffixes and virtual ends
\* included.
Rebuildable == Regular(tt) => phase # "failed"

\* Where no trip is early and SVRT skips the boarding test, the test would have
\* kept the trip.
SvrtSkipsNothing ==
    NoneEarly(tt) /\ phase = "scan" /\ scan.line # 0 /\ scan.pos <= Len(Path) /\ (scan.chunk > 0 \/ ChunkBegins)
        => Boarding(best[query.to]) = {}

\* Where no trip is early, the temporal index finds a trip exactly when the
\* linear scan of the line does, and one that leaves at the same time.
ChronosExact ==
    NoneEarly(tt) /\ phase = "scan" /\ scan.line # 0 /\ scan.pos <= Len(Path) =>
        LET readyAt == bestBefore[Path[scan.pos]]
            linear == {t \in tt.trips[scan.line] \intersect tt.available :
                          ~Skipped(tt, t, scan.pos) /\ Dep(tt, t, scan.pos) >= readyAt}
        IN  {Dep(tt, t, scan.pos) : t \in FindEarliestTrip(tt, scan.line, scan.pos, readyAt)}
                = {d \in {Dep(tt, t, scan.pos) : t \in linear} :
                      \A t \in linear : d <= Dep(tt, t, scan.pos)}
============================================================================

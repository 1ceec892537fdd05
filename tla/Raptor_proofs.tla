--------------------------- MODULE Raptor_proofs ---------------------------
(***************************************************************************)
(* Proofs about Raptor, for all timetables, requests, rounds and bounds:   *)
(* the temporal index is exact, the boarding tests SVRT skips decide       *)
(* nothing, an answer can be travelled and none arrives before the         *)
(* earliest arrival there is, a journey that was found can be rebuilt, and *)
(* the first search answers with the earliest arrival there is.            *)
(***************************************************************************)
EXTENDS Raptor, WellFoundedInduction, FiniteSetTheorems, TLAPS

Leg == [from : Stops, to : Stops, trip : Nat, dep : Int, arr : Times]
Legs == Seq(Leg) \ {<<>>}
Points == [stop : Stops, to : Stops, ready : Int, arrival : Times, legs : Legs]

ParentSteps ==
    {NoParent, Origin}
        \union {WalkFrom(f, secs) : f \in Stops, secs \in Nat}
        \union {Ride(t, l, i, j) : t \in Nat, l \in Nat, i \in Nat, j \in Nat}
        \union {Memoized(f, k, ls) : f \in Stops, k \in 0..Rounds, ls \in Legs}

\* A ride is of a trip of its line, between positions of it.
KnownRide(p) ==
    p.kind = "transit" =>
        /\ p.line \in LinesOf(tt)
        /\ p.trip \in tt.trips[p.line]
        /\ p.board \in DOMAIN tt.path[p.line]
        /\ p.alight \in DOMAIN tt.path[p.line]

Phases == {"idle", "seeds", "egress", "lookahead", "queue", "scan", "relax", "endRound",
           "rebuild", "failed"}

TypeOK ==
    /\ tt \in Timetables
    /\ phase \in Phases
    /\ served \in Nat
    /\ phase # "idle" => served > 0
    /\ served > 0 => query \in Requests(tt)
    /\ round \in 0..Rounds
    /\ phase = "seeds" => round = 0
    /\ phase \in {"scan", "relax", "endRound"} \/ after # "queue" => round > 0
    /\ after \in {"queue", "relax", "endRound"}
    /\ best \in [Stops -> Times]
    /\ round > 0 => bestBefore \in [Stops -> Times]
    /\ arr \in [0..Rounds -> [Stops -> Times]]
    /\ par \in [0..Rounds -> [Stops -> ParentSteps]]
    /\ \A k \in 0..Rounds, s \in Stops : KnownRide(par[k][s])
    /\ marked \subseteq Stops
    /\ nextMarked \subseteq Stops
    /\ frontier \subseteq Stops
    /\ todo \subseteq Stops
    /\ phase = "lookahead" /\ todo # {} => ~FilterActive /\ Exact
    /\ destRound \in 0..None
    /\ cache \subseteq Points
    /\ legs \in Seq(Leg)
    /\ phase = "rebuild" => destRound # None /\ at \in Stops \X (0..Rounds)

\* The trip on board was found at the position it is boarded at.
Aboard ==
    scan.trip # NoTrip =>
        /\ scan.boarded \in 1..(scan.pos - 1)
        /\ scan.trip \in tt.trips[scan.line] \intersect tt.available
        /\ ~Skipped(tt, scan.trip, scan.boarded)
        /\ Path[scan.boarded] # query.to

\* In a chunk the trip keeps its schedule and no stop was reached earlier.
InChunk ==
    scan.chunk > 0 =>
        /\ scan.trip # NoTrip
        /\ ~Updated(tt, scan.trip)
        /\ scan.pos + scan.chunk <= Len(Path) + 1
        /\ \A i \in scan.pos..(scan.pos + scan.chunk - 1) :
              bestBefore[Path[i]] >= SchedDep(tt, scan.trip, i)

Scanning ==
    phase = "scan" =>
        /\ DOMAIN queue = LinesOf(tt)
        /\ \A l \in LinesOf(tt) :
              queue[l] # 0 => l \in query.allowed /\ queue[l] \in DOMAIN tt.path[l]
        /\ scan.line # 0 =>
              /\ scan.line \in query.allowed
              /\ scan.pos \in 1..(Len(Path) + 1)
              /\ scan.chunk \in Nat
              /\ Aboard
              /\ InChunk

\* Bounds only go down in a round.
Falling == round > 0 => \A s \in Stops : best[s] <= bestBefore[s]

Typed == TypeOK /\ Scanning /\ Falling

----------------------------------------------------------------------------
(* Least elements, and the temporal index.                                  *)

\* A set of integers with a lower bound has a least element.
LEMMA LeastOf ==
    ASSUME NEW S \in SUBSET Int, S # {}, NEW b \in Int, \A x \in S : b <= x
    PROVE  MinOf(S) \in S /\ \A y \in S : MinOf(S) <= y
<1> DEFINE T == {x - b : x \in S}
<1>0. PICK x0 \in S : TRUE
      OBVIOUS
<1>1. T \subseteq Nat /\ x0 - b \in T
      OBVIOUS
<1>2. PICK n \in T : \A m \in T : <<m, n>> \notin OpToRel(<, Nat)
      <2> HIDE DEF T
      <2> QED BY <1>1, NatLessThanWellFounded, WFMin
<1>3. PICK x \in S : n = x - b
      OBVIOUS
<1>4. \A y \in S : x <= y
  <2>1. SUFFICES ASSUME NEW y \in S, y < x PROVE FALSE
        OBVIOUS
  <2>2. y - b \in T /\ y - b \in Nat /\ n \in Nat /\ y - b < n
        BY <1>3, <2>1
  <2> QED BY <1>2, <2>2 DEF OpToRel
<1> QED BY <1>3, <1>4 DEF MinOf

\* Times have an earliest one, INF_TIME if there are none.
LEMMA EarliestOf ==
    ASSUME NEW S \in SUBSET Int, \A x \in S : -Inf <= x
    PROVE  /\ Earliest(S) \in Times
           /\ Earliest(S) \in S \union {Inf}
           /\ \A x \in S : Earliest(S) <= x
<1> DEFINE T == S \union {Inf}
<1>1. Inf \in Nat
      BY TimetableAssumption
<1>2. T \in SUBSET Int /\ T # {} /\ -Inf \in Int /\ \A x \in T : -Inf <= x
      BY <1>1
<1>3. Earliest(S) = MinOf(T)
      BY DEF Earliest
<1>4. MinOf(T) \in T /\ \A y \in T : MinOf(T) <= y
      <2> HIDE DEF T
      <2> QED BY <1>2, LeastOf
<1>5. MinOf(T) \in Int /\ MinOf(T) <= Inf /\ -Inf <= MinOf(T)
      BY <1>2, <1>4
<1> QED BY <1>1, <1>3, <1>4, <1>5 DEF Times

\* The look-back of a line is the delay of its latest departure; without one,
\* and without early trips, departures are those scheduled.
LEMMA Lookback ==
    ASSUME NEW x, WellFormed(x), NEW l \in LinesOf(x)
    PROVE  /\ LineDelay(x, l) \in Nat
           /\ \A t \in x.trips[l], p \in DOMAIN x.path[l] :
                 Dep(x, t, p) - SchedDep(x, t, p) <= LineDelay(x, l)
<1> DEFINE D == {Dep(x, t, p) - SchedDep(x, t, p) :
                    t \in {u \in x.trips[l] : Updated(x, u)}, p \in DOMAIN x.path[l]}
           E == D \union {0}
           N == {0 - d : d \in E}
<1>1. Inf \in Nat
      BY TimetableAssumption
<1>2. ASSUME NEW t \in x.trips[l], NEW p \in DOMAIN x.path[l]
      PROVE  Dep(x, t, p) \in Int /\ SchedDep(x, t, p) \in Nat /\ Dep(x, t, p) <= Inf
      BY <1>1 DEF WellFormed, LinesOf, Dep, SchedDep, Times
<1>3. \A d \in E : d \in Int /\ d <= Inf
      BY <1>1, <1>2
<1>4. N \in SUBSET Int /\ N # {} /\ -Inf \in Int /\ \A n \in N : -Inf <= n
  <2> HIDE DEF D
  <2> QED BY <1>1, <1>3
<1>5. MinOf(N) \in N /\ \A n \in N : MinOf(N) <= n
  <2> HIDE DEF N
  <2> QED BY <1>4, LeastOf
<1>6. PICK m \in E : MinOf(N) = 0 - m
  <2> HIDE DEF E
  <2> QED BY <1>5
<1>7. \A e \in E : e <= m
  <2>1. ASSUME NEW e \in E PROVE e <= m
    <3>1. MinOf(N) <= 0 - e
          BY <1>5
    <3>2. e \in Int /\ m \in Int
          BY <1>3
    <3> QED BY <1>6, <3>1, <3>2
  <2> QED BY <2>1
<1>8. LineDelay(x, l) = CHOOSE d \in E : \A e \in E : e <= d
      BY DEF LineDelay
<1>9. LineDelay(x, l) \in E /\ \A e \in E : e <= LineDelay(x, l)
  <2> HIDE DEF E
  <2> QED BY <1>7, <1>8
<1>10. LineDelay(x, l) \in Nat
       BY <1>3, <1>9
<1>11. ASSUME NEW t \in x.trips[l], NEW p \in DOMAIN x.path[l]
       PROVE  Dep(x, t, p) - SchedDep(x, t, p) <= LineDelay(x, l)
  <2>1. CASE Updated(x, t)
    <3>1. Dep(x, t, p) - SchedDep(x, t, p) \in E
          BY <2>1
    <3> QED BY <1>9, <3>1
  <2>2. CASE ~Updated(x, t)
    <3>1. Dep(x, t, p) = SchedDep(x, t, p)
          BY <2>2 DEF Updated, Dep, SchedDep
    <3> QED BY <1>2, <1>10, <3>1
  <2> QED BY <2>1, <2>2
<1> QED BY <1>10, <1>11

\* What the index finds leaves when the first trip of a linear scan does.
FindsFirst(x, l, p, readyAt) ==
    LET linear == {t \in x.trips[l] \intersect x.available :
                      ~Skipped(x, t, p) /\ Dep(x, t, p) >= readyAt}
    IN  {Dep(x, t, p) : t \in FindEarliestTrip(x, l, p, readyAt)}
           = {d \in {Dep(x, t, p) : t \in linear} : \A t \in linear : d <= Dep(x, t, p)}

LEMMA IndexIsScan ==
    ASSUME NEW x, WellFormed(x), NoneEarly(x), NEW l \in LinesOf(x), NEW p \in DOMAIN x.path[l],
           NEW readyAt \in Int
    PROVE  FindsFirst(x, l, p, readyAt)
<1> DEFINE linear == {t \in x.trips[l] \intersect x.available :
                         ~Skipped(x, t, p) /\ Dep(x, t, p) >= readyAt}
           dep(t) == Dep(x, t, p)
           sched(t) == SchedDep(x, t, p)
           lookback == LineDelay(x, l)
           found == FindEarliestTrip(x, l, p, readyAt)
           before(t, u) == \/ dep(t) < dep(u)
                           \/ /\ dep(t) = dep(u)
                              /\ \/ sched(t) < sched(u)
                                 \/ sched(t) = sched(u) /\ t < u
<1>1. Inf \in Nat /\ Bucket \in Nat \ {0} /\ lookback \in Nat
      BY TimetableAssumption, Lookback
<1>2. ASSUME NEW t \in x.trips[l]
      PROVE  /\ dep(t) \in Int /\ sched(t) \in Nat /\ -Inf <= dep(t) /\ t \in Nat
             /\ sched(t) <= dep(t) /\ dep(t) <= sched(t) + lookback
  <2>1. dep(t) \in Int /\ sched(t) \in Nat /\ -Inf <= dep(t) /\ t \in Nat
        BY <1>1 DEF WellFormed, LinesOf, Dep, SchedDep, Times
  <2>2. sched(t) <= dep(t)
        BY DEF NoneEarly
  <2>3. dep(t) - sched(t) <= lookback
        BY Lookback
  <2> QED BY <1>1, <2>1, <2>2, <2>3
<1>3. Window(x, l, p, readyAt) \intersect {t \in x.trips[l] : dep(t) >= readyAt} = linear
  <2> DEFINE safe == IF readyAt > lookback THEN readyAt - lookback ELSE 0
             start == (safe \div Bucket) * Bucket
  <2>1. safe \in Nat
        BY <1>1
  <2>2. start \in Int /\ start <= safe
    <3> HIDE DEF safe
    <3> QED BY <1>1, <2>1
  <2>3. Window(x, l, p, readyAt) = {t \in x.trips[l] : /\ sched(t) >= start
                                                       /\ t \in x.available
                                                       /\ ~Skipped(x, t, p)}
        BY DEF Window
  <2>4. ASSUME NEW t \in x.trips[l], dep(t) >= readyAt PROVE sched(t) >= start
    <3>1. safe <= sched(t)
      <4> HIDE DEF dep, sched, lookback
      <4> QED BY <1>1, <1>2, <2>4
    <3> HIDE DEF start, safe, sched
    <3> QED BY <1>2, <2>1, <2>2, <3>1
  <2> HIDE DEF start, safe, dep, sched
  <2> QED BY <2>3, <2>4 DEF dep
<1>4. found = {t \in linear : \A u \in linear \ {t} : before(t, u)}
  <2> DEFINE time(t) == IF lookback = 0 THEN sched(t) ELSE dep(t)
             usable == {t \in Window(x, l, p, readyAt) : time(t) >= readyAt}
             precedes(t, u) == \/ time(t) < time(u)
                               \/ /\ time(t) = time(u)
                                  /\ \/ sched(t) < sched(u)
                                     \/ sched(t) = sched(u) /\ t < u
  <2>1. found = {t \in usable : \A u \in usable \ {t} : precedes(t, u)}
        BY DEF FindEarliestTrip
  <2>2. ASSUME NEW t \in x.trips[l] PROVE time(t) = dep(t)
    <3> HIDE DEF dep, sched, lookback
    <3> QED BY <1>1, <1>2
  <2>3. Window(x, l, p, readyAt) \subseteq x.trips[l]
        BY DEF Window
  <2>4. usable = linear
    <3> HIDE DEF time, dep
    <3> QED BY <1>3, <2>2, <2>3 DEF dep
  <2>5. linear \subseteq x.trips[l]
        OBVIOUS
  <2>6. \A t, u \in linear : precedes(t, u) <=> before(t, u)
    <3> HIDE DEF linear, time, dep, sched
    <3> QED BY <2>2, <2>5
  <2> HIDE DEF precedes, before, usable, linear
  <2> QED BY <2>1, <2>4, <2>6
<1>5. linear \subseteq x.trips[l]
      OBVIOUS
<1> HIDE DEF linear, dep, sched, found, lookback
<1>6. ASSUME linear # {} PROVE found # {}
  <2> DEFINE D == {dep(t) : t \in linear}
  <2>1. D \in SUBSET Int /\ D # {} /\ -Inf \in Int /\ \A d \in D : -Inf <= d
        BY <1>1, <1>2, <1>5, <1>6
  <2>2. MinOf(D) \in D /\ \A d \in D : MinOf(D) <= d
    <3> HIDE DEF D
    <3> QED BY <2>1, LeastOf
  <2> DEFINE first == {t \in linear : dep(t) = MinOf(D)}
             E == {sched(t) : t \in first}
  <2>3. first # {} /\ first \subseteq linear
        BY <2>2
  <2>4. E \in SUBSET Int /\ E # {} /\ \A d \in E : 0 <= d
    <3> HIDE DEF first
    <3> QED BY <1>2, <1>5, <2>3
  <2>5. MinOf(E) \in E /\ \A d \in E : MinOf(E) <= d
    <3> HIDE DEF E
    <3> QED BY <2>4, LeastOf
  <2> DEFINE both == {t \in first : sched(t) = MinOf(E)}
  <2>6. both # {} /\ both \subseteq first
    <3> HIDE DEF first
    <3> QED BY <2>5
  <2>7. both \in SUBSET Int /\ \A t \in both : 0 <= t
    <3> HIDE DEF both, first
    <3> QED BY <1>2, <1>5, <2>3, <2>6
  <2>8. MinOf(both) \in both /\ \A t \in both : MinOf(both) <= t
    <3> HIDE DEF both
    <3> QED BY <2>6, <2>7, LeastOf
  <2> DEFINE t == MinOf(both)
  <2>9. t \in first /\ sched(t) = MinOf(E) /\ t \in linear /\ dep(t) = MinOf(D)
        BY <2>8
  <2> HIDE DEF t
  <2>10. ASSUME NEW u \in linear \ {t} PROVE before(t, u)
    <3>1. dep(t) <= dep(u)
          BY <2>2, <2>9
    <3>2. dep(u) = dep(t) => sched(t) <= sched(u)
          BY <2>5, <2>9
    <3>3. dep(u) = dep(t) /\ sched(u) = sched(t) => t <= u
          BY <2>8, <2>9 DEF t
    <3>4. /\ dep(t) \in Int /\ dep(u) \in Int /\ sched(t) \in Nat /\ sched(u) \in Nat
          /\ t \in Nat /\ u \in Nat
          BY <1>2, <1>5, <2>9
    <3> QED BY <3>1, <3>2, <3>3, <3>4
  <2> QED BY <1>4, <2>9, <2>10
<1>7. ASSUME NEW t \in found, NEW u \in linear PROVE t \in linear /\ dep(t) <= dep(u)
  <2>1. t \in linear
        BY <1>4
  <2>2. u # t => before(t, u)
        BY <1>4
  <2>3. dep(t) \in Int /\ dep(u) \in Int
        BY <1>2, <1>5, <2>1
  <2> QED BY <2>1, <2>2, <2>3
<1>8. found \subseteq linear
      BY <1>4
<1>9. {dep(t) : t \in found} = {d \in {dep(t) : t \in linear} : \A t \in linear : d <= dep(t)}
  <2>1. ASSUME NEW t \in found
        PROVE  dep(t) \in {d \in {dep(u) : u \in linear} : \A u \in linear : d <= dep(u)}
        BY <1>7, <1>8
  <2>2. ASSUME NEW t \in linear, \A u \in linear : dep(t) <= dep(u)
        PROVE  dep(t) \in {dep(u) : u \in found}
    <3>1. PICK u \in found : TRUE
          BY <1>6, <2>2
    <3>2. u \in linear /\ dep(u) <= dep(t) /\ dep(t) <= dep(u)
          BY <1>7, <1>8, <2>2
    <3>3. dep(u) \in Int /\ dep(t) \in Int
          BY <1>2, <1>5, <3>2
    <3>4. dep(u) = dep(t)
          BY <3>2, <3>3
    <3> QED BY <3>4
  <2> QED BY <2>1, <2>2
<1> QED BY <1>9 DEF linear, dep, found, FindsFirst

----------------------------------------------------------------------------
(* What is recorded.                                                        *)

LEMMA Constants ==
    /\ Inf \in Nat /\ Rounds \in Nat \ {0} /\ None = Rounds + 1
    /\ SvrtWidth \in Nat \ {0}
    /\ \A t \in Times : t \in Int /\ t <= Inf /\ -Inf <= t
    /\ \A t \in Int : t <= Inf /\ -Inf <= t => t \in Times
    /\ Inf \in Times
BY TimetableAssumption, RaptorAssumption DEF Times, None

\* What a request and a timetable are made of.
LEMMA Served ==
    ASSUME TypeOK
    PROVE  /\ WellFormed(tt)
           /\ served > 0 => /\ query.from \in Stops /\ query.to \in Stops
                            /\ query.depart \in Nat /\ query.depart < Inf
                            /\ query.access \in SUBSET (Stops \X Nat)
                            /\ query.egress \in SUBSET (Stops \X Nat)
                            /\ query.allowed \subseteq LinesOf(tt)
BY RaptorAssumption, Constants DEF TypeOK

LEMMA Serving ==
    ASSUME TypeOK, phase # "idle"
    PROVE  /\ served > 0 /\ round \in 0..Rounds /\ round \in round..Rounds /\ WellFormed(tt)
           /\ query.from \in Stops /\ query.to \in Stops /\ query.depart \in Nat
           /\ query.access \in SUBSET (Stops \X Nat)
           /\ query.egress \in SUBSET (Stops \X Nat)
           /\ query.allowed \subseteq LinesOf(tt)
<1>1. served > 0 /\ round \in 0..Rounds /\ Rounds \in Nat
      BY Constants DEF TypeOK
<1>2. round \in round..Rounds
      BY <1>1
<1> QED BY <1>1, <1>2, Served

LEMMA KnownPath ==
    ASSUME TypeOK, NEW l \in LinesOf(tt)
    PROVE  /\ l \in Nat \ {0}
           /\ Len(tt.path[l]) \in Nat /\ DOMAIN tt.path[l] = 1..Len(tt.path[l])
           /\ \A p \in DOMAIN tt.path[l] : tt.path[l][p] \in Stops
           /\ \A t \in tt.trips[l] :
                 /\ t \in Nat \ {0}
                 /\ \A p \in DOMAIN tt.path[l] :
                       /\ Dep(tt, t, p) \in Times /\ Arr(tt, t, p) \in Times
                       /\ SchedDep(tt, t, p) \in Nat
BY Served DEF WellFormed, LinesOf, Dep, Arr, SchedDep

\* Walking from some stops: the times are those of walks, and so are the parents.
LEMMA WalksKnown ==
    ASSUME WellFormed(tt), NEW from \in SUBSET Stops, NEW a \in [Stops -> Times], NEW s \in Stops
    PROVE  /\ WalkTimes(from, a)[s] \in Times
           /\ WalkTimes(from, a)[s] < Inf =>
                 \E f \in from : /\ WalkParents(from, a)[s] = WalkFrom(f, tt.walk[<<f, s>>])
                                 /\ tt.walk[<<f, s>>] \in Nat
                                 /\ tt.walk[<<f, s>>] < Inf
                                 /\ WalkTimes(from, a)[s] = a[f] + tt.walk[<<f, s>>]
<1> DEFINE near == {g \in from : tt.walk[<<g, s>>] < Inf}
           times == {a[f] + tt.walk[<<f, s>>] : f \in near}
           time == WalkTimes(from, a)[s]
<1>1. \A f \in from : tt.walk[<<f, s>>] \in Nat /\ a[f] \in Int /\ -Inf <= a[f]
      BY Constants DEF WellFormed
<1>2. times \in SUBSET Int /\ \A x \in times : -Inf <= x
  <2>1. ASSUME NEW f \in near
        PROVE  a[f] + tt.walk[<<f, s>>] \in Int /\ -Inf <= a[f] + tt.walk[<<f, s>>]
    <3>1. a[f] \in Int /\ -Inf <= a[f] /\ tt.walk[<<f, s>>] \in Nat /\ Inf \in Int
          BY <1>1, Constants
    <3> QED BY <3>1
  <2> QED BY <2>1
<1>3. time = Earliest(times)
      BY DEF WalkTimes
<1>4. time \in Times /\ time \in times \union {Inf}
  <2> HIDE DEF times
  <2> QED BY <1>2, <1>3, EarliestOf
<1>5. ASSUME time < Inf
      PROVE  \E f \in from : /\ WalkParents(from, a)[s] = WalkFrom(f, tt.walk[<<f, s>>])
                             /\ tt.walk[<<f, s>>] < Inf
                             /\ time = a[f] + tt.walk[<<f, s>>]
  <2>1. time # Inf /\ time \in times
        BY <1>4, <1>5, Constants
  <2>2. \E f \in from : tt.walk[<<f, s>>] < Inf /\ a[f] + tt.walk[<<f, s>>] = time
        BY <2>1
  <2>3. WalkParents(from, a)[s]
          = LET f == CHOOSE g \in from : /\ tt.walk[<<g, s>>] < Inf
                                         /\ a[g] + tt.walk[<<g, s>>] = time
            IN  WalkFrom(f, tt.walk[<<f, s>>])
        BY <2>1 DEF WalkParents
  <2> HIDE DEF time, times, near
  <2> QED BY <2>2, <2>3
<1> QED BY <1>1, <1>4, <1>5

\* The labels of the stops I of round k become those of time and parent.
Effects(k, time, parent, I) ==
    /\ best' = [s \in Stops |-> IF s \in I THEN time[s] ELSE best[s]]
    /\ arr' = [j \in 0..Rounds |->
                  [s \in Stops |-> IF j = k /\ s \in I THEN time[s] ELSE arr[j][s]]]
    /\ par' = [j \in 0..Rounds |->
                  [s \in Stops |-> IF j = k /\ s \in I THEN parent[s] ELSE par[j][s]]]

LEMMA RecordEffects ==
    ASSUME TypeOK, NEW k \in 0..Rounds, NEW time, NEW parent, NEW I, Record(k, time, parent, I)
    PROVE  Effects(k, time, parent, I)
<1>1. arr' = [j \in 0..Rounds |->
                  [s \in Stops |-> IF j = k /\ s \in I THEN time[s] ELSE arr[j][s]]]
      BY DEF TypeOK, Record
<1>2. par' = [j \in 0..Rounds |->
                  [s \in Stops |-> IF j = k /\ s \in I THEN parent[s] ELSE par[j][s]]]
      BY DEF TypeOK, Record
<1> QED BY <1>1, <1>2 DEF Effects, Record

LEMMA RecordMemoEffects ==
    ASSUME TypeOK, served > 0, NEW k \in 0..Rounds, NEW time, NEW parent, RecordMemo(k, time, parent)
    PROVE  Effects(k, [s \in Stops |-> time], [s \in Stops |-> parent], {query.to})
<1>0. query.to \in Stops
      BY Served
<1>1. arr' = [j \in 0..Rounds |->
                  [s \in Stops |-> IF j = k /\ s \in {query.to} THEN [u \in Stops |-> time][s]
                                                                ELSE arr[j][s]]]
      BY <1>0 DEF TypeOK, RecordMemo
<1>2. par' = [j \in 0..Rounds |->
                  [s \in Stops |-> IF j = k /\ s \in {query.to} THEN [u \in Stops |-> parent][s]
                                                                ELSE par[j][s]]]
      BY <1>0 DEF TypeOK, RecordMemo
<1>3. best' = [s \in Stops |-> IF s \in {query.to} THEN [u \in Stops |-> time][s] ELSE best[s]]
      BY <1>0 DEF TypeOK, RecordMemo
<1> QED BY <1>1, <1>2, <1>3 DEF Effects

\* Labels of these types keep the types, and lower ones the bounds of a round.
LEMMA EffectsTyped ==
    ASSUME TypeOK, Falling, NEW k \in 0..Rounds, NEW time, NEW parent, NEW I \in SUBSET Stops,
           Effects(k, time, parent, I), tt' = tt, round' = round, bestBefore' = bestBefore,
           \A s \in I : /\ time[s] \in Times /\ time[s] <= best[s]
                        /\ parent[s] \in ParentSteps /\ KnownRide(parent[s])
    PROVE  /\ best' \in [Stops -> Times]
           /\ arr' \in [0..Rounds -> [Stops -> Times]]
           /\ par' \in [0..Rounds -> [Stops -> ParentSteps]]
           /\ \A j \in 0..Rounds, s \in Stops : KnownRide(par[j][s])'
           /\ Falling'
<1>1. best' \in [Stops -> Times] /\ arr' \in [0..Rounds -> [Stops -> Times]]
      BY DEF TypeOK, Effects
<1>2. par' \in [0..Rounds -> [Stops -> ParentSteps]]
      BY DEF TypeOK, Effects
<1>3. ASSUME NEW j \in 0..Rounds, NEW s \in Stops PROVE KnownRide(par[j][s])'
  <2>1. KnownRide(par[j][s])
        BY DEF TypeOK
  <2>2. par'[j][s] = IF j = k /\ s \in I THEN parent[s] ELSE par[j][s]
        BY DEF Effects
  <2> QED BY <2>1, <2>2 DEF KnownRide, LinesOf
<1>4. Falling'
  <2> SUFFICES ASSUME round > 0, NEW s \in Stops PROVE best'[s] <= bestBefore[s]
      BY DEF Falling
  <2>1. best'[s] = IF s \in I THEN time[s] ELSE best[s]
        BY DEF Effects
  <2>3. best'[s] <= best[s] /\ best'[s] \in Int
    <3>1. best[s] \in Int /\ (s \in I => time[s] \in Int /\ time[s] <= best[s])
          BY Constants DEF TypeOK
    <3> QED BY <2>1, <3>1
  <2>2. best[s] <= bestBefore[s] /\ best[s] \in Int /\ bestBefore[s] \in Int
        BY Constants DEF Falling, TypeOK
  <2> QED BY <2>2, <2>3
<1> QED BY <1>1, <1>2, <1>3, <1>4

\* The stops I get labels of round k, each lower than the bound of the stop; the
\* destination may get one as low in an earlier round.
Recorded(k, time, parent, I) ==
    /\ I \subseteq Stops
    /\ Effects(k, time, parent, I)
    /\ k \in round..Rounds
    /\ k = round \/ I \subseteq {query.to}
    /\ \A s \in I : /\ time[s] \in Times
                    /\ parent[s] \in ParentSteps
                    /\ KnownRide(parent[s])
                    /\ \/ time[s] < best[s]
                       \/ s = query.to /\ time[s] = best[s] /\ k < destRound

\* A label of round k is that of another stop and a walk.
WalkRecord(k, time, parent, s) ==
    \E f \in Stops, secs \in Nat :
        /\ parent = WalkFrom(f, secs)
        /\ secs = tt.walk[<<f, s>>] /\ secs < Inf
        /\ time = arr[k][f] + secs

\* A label is the arrival of the trip on board.
RideRecord(time, parent) ==
    /\ scan.trip # NoTrip
    /\ ~Skipped(tt, scan.trip, scan.pos)
    /\ scan.pos \in DOMAIN Path
    /\ time = Arr(tt, scan.trip, scan.pos)
    /\ parent = Ride(scan.trip, scan.line, scan.boarded, scan.pos)

\* A label is the arrival of a suffix that begins at a stop of the round.
MemoRecord(k, time, parent) ==
    \E f \in Stops, ls \in Legs :
        /\ parent = Memoized(f, round, ls)
        /\ arr[round][f] < Inf
        /\ \/ \E e \in query.egress :
                 /\ f = e[1]
                 /\ ls = <<[from |-> f, to |-> query.to, trip |-> NoTrip,
                            dep |-> arr[round][f], arr |-> time]>>
                 /\ time = arr[round][f] + e[2]
                 /\ k = round
           \/ \E p \in cache :
                 /\ ~FilterActive
                 /\ Exact
                 /\ p.stop = f /\ p.to = query.to /\ p.legs = ls
                 /\ arr[round][f] <= p.ready
                 /\ time = p.arrival
                 /\ k = round + TransitLegs(ls)

LEMMA WalksRecord ==
    ASSUME Typed, served > 0, NEW from \in SUBSET Stops, NEW I \in SUBSET Stops,
           \A s \in I : WalkTimes(from, arr[round])[s] < best[s],
           Record(round, WalkTimes(from, arr[round]), WalkParents(from, arr[round]), I)
    PROVE  /\ Recorded(round, WalkTimes(from, arr[round]), WalkParents(from, arr[round]), I)
           /\ \A s \in I : WalkRecord(round, WalkTimes(from, arr[round])[s],
                                      WalkParents(from, arr[round])[s], s)
<1> DEFINE a == arr[round]
           time == WalkTimes(from, a)
           parent == WalkParents(from, a)
<1>1. TypeOK /\ round \in 0..Rounds /\ round \in round..Rounds /\ a \in [Stops -> Times] /\ WellFormed(tt)
      BY Served, Constants DEF Typed, TypeOK
<1>2. Effects(round, time, parent, I)
      BY <1>1, RecordEffects
<1>3. ASSUME NEW s \in I
      PROVE  /\ time[s] \in Times
             /\ \E f \in from : /\ parent[s] = WalkFrom(f, tt.walk[<<f, s>>])
                                /\ tt.walk[<<f, s>>] \in Nat
                                /\ tt.walk[<<f, s>>] < Inf
                                /\ time[s] = a[f] + tt.walk[<<f, s>>]
  <2>1. time[s] < best[s] /\ best[s] <= Inf /\ best[s] \in Int
        BY <1>1, Constants DEF TypeOK
  <2>2. time[s] \in Times
        BY <1>1, WalksKnown
  <2>3. time[s] < Inf
    <3>1. time[s] \in Int /\ Inf \in Int
          BY <2>2, Constants
    <3> HIDE DEF time
    <3> QED BY <2>1, <3>1
  <2> HIDE DEF time, parent, a
  <2> QED BY <1>1, <2>2, <2>3, WalksKnown DEF time, parent
<1>4. ASSUME NEW s \in I
      PROVE  WalkRecord(round, time[s], parent[s], s) /\ parent[s] \in ParentSteps /\ KnownRide(parent[s])
  <2>1. PICK f \in from : /\ parent[s] = WalkFrom(f, tt.walk[<<f, s>>])
                          /\ tt.walk[<<f, s>>] \in Nat
                          /\ tt.walk[<<f, s>>] < Inf
                          /\ time[s] = a[f] + tt.walk[<<f, s>>]
    <3> HIDE DEF time, parent, a
    <3> QED BY <1>3
  <2>2. parent[s] \in ParentSteps
    <3> HIDE DEF parent
    <3> QED BY <2>1 DEF ParentSteps
  <2>3. KnownRide(parent[s])
    <3> HIDE DEF parent
    <3> QED BY <2>1 DEF KnownRide, WalkFrom
  <2>4. WalkRecord(round, time[s], parent[s], s)
    <3>1. f \in Stops
          OBVIOUS
    <3> HIDE DEF time, parent
    <3> QED BY <2>1, <3>1 DEF WalkRecord
  <2> QED BY <2>2, <2>3, <2>4
<1> HIDE DEF time, parent
<1> QED BY <1>1, <1>2, <1>3, <1>4 DEF Recorded, time, parent

LEMMA SeedRecords ==
    ASSUME Typed, WalkFromSeed
    PROVE  \E I \in SUBSET Stops : \E time, parent :
              /\ Recorded(round, time, parent, I)
              /\ \A s \in I : WalkRecord(round, time[s], parent[s], s) /\ time[s] < best[s]
              /\ destRound' = IF query.to \in I THEN 0 ELSE destRound
              /\ marked' = marked \union I
<1>1. served > 0 /\ round = 0
      BY DEF Typed, TypeOK, WalkFromSeed
<1>2. PICK s \in todo :
        LET time == WalkTimes({s}, arr[0])
            improved == {u \in Stops : arr[0][s] < best[query.to] /\ time[u] < best[u]}
        IN  /\ Record(0, time, WalkParents({s}, arr[0]), improved)
            /\ marked' = marked \union improved
            /\ destRound' = IF query.to \in improved THEN 0 ELSE destRound
      BY DEF WalkFromSeed
<1> DEFINE time == WalkTimes({s}, arr[round])
           parent == WalkParents({s}, arr[round])
           I == {u \in Stops : arr[0][s] < best[query.to] /\ time[u] < best[u]}
<1>3. s \in Stops /\ {s} \in SUBSET Stops /\ I \in SUBSET Stops /\ \A u \in I : time[u] < best[u]
      BY DEF Typed, TypeOK
<1>4. /\ Record(round, time, parent, I)
      /\ marked' = marked \union I
      /\ destRound' = IF query.to \in I THEN 0 ELSE destRound
      BY <1>1, <1>2
<1>5. Recorded(round, time, parent, I) /\ \A u \in I : WalkRecord(round, time[u], parent[u], u)
  <2> HIDE DEF I
  <2> QED BY <1>1, <1>3, <1>4, WalksRecord
<1>6. \A u \in I : time[u] < best[u]
      BY <1>3
<1> HIDE DEF time, parent, I
<1> QED BY <1>3, <1>4, <1>5, <1>6

LEMMA RelaxRecords ==
    ASSUME Typed, RelaxTransfers
    PROVE  \E I \in SUBSET Stops : \E time, parent :
              /\ Recorded(round, time, parent, I)
              /\ \A s \in I : WalkRecord(round, time[s], parent[s], s) /\ time[s] < best[s]
              /\ nextMarked' = nextMarked \union I
              /\ frontier' = I \ nextMarked
<1> DEFINE from == {s \in frontier : arr[round][s] < best[query.to]}
           time == WalkTimes(from, arr[round])
           parent == WalkParents(from, arr[round])
           I == {s \in Stops : time[s] < best[s]}
<1>1. /\ Record(round, time, parent, I)
      /\ nextMarked' = nextMarked \union I
      /\ frontier' = I \ nextMarked
      BY DEF RelaxTransfers
<1>2. served > 0 /\ from \in SUBSET Stops /\ I \in SUBSET Stops /\ \A u \in I : time[u] < best[u]
      BY DEF Typed, TypeOK, RelaxTransfers
<1>3. Recorded(round, time, parent, I) /\ \A u \in I : WalkRecord(round, time[u], parent[u], u)
  <2> HIDE DEF I, from
  <2> QED BY <1>1, <1>2, WalksRecord
<1>4. \A u \in I : time[u] < best[u]
      BY <1>2
<1> HIDE DEF time, parent, I
<1> QED BY <1>1, <1>2, <1>3, <1>4

LEMMA EgressRecords ==
    ASSUME Typed, Egress
    PROVE  \/ UNCHANGED <<best, arr, par, destRound>>
           \/ \E time, parent :
                 /\ Recorded(round, [s \in Stops |-> time], [s \in Stops |-> parent], {query.to})
                 /\ MemoRecord(round, time, parent)
                 /\ destRound' = round
<1>1. /\ TypeOK /\ served > 0 /\ query.to \in Stops /\ query.egress \in SUBSET (Stops \X Nat)
      /\ round \in 0..Rounds /\ round \in round..Rounds
      BY Serving DEF Typed, Egress
<1> DEFINE edges == {e \in query.egress : e[1] \in frontier /\ arr[round][e[1]] < Inf}
           arrival(e) == arr[round][e[1]] + e[2]
           leg(e) == [from |-> e[1], to |-> query.to, trip |-> NoTrip,
                      dep |-> arr[round][e[1]], arr |-> arrival(e)]
           parent(e) == Memoized(e[1], round, <<leg(e)>>)
<1> SUFFICES ASSUME ~UNCHANGED <<best, arr, par, destRound>>
             PROVE  \E time, step :
                       /\ Recorded(round, [s \in Stops |-> time], [s \in Stops |-> step], {query.to})
                       /\ MemoRecord(round, time, step)
                       /\ destRound' = round
    OBVIOUS
<1>2. PICK e \in edges : /\ RecordsMemo(round, arrival(e))
                         /\ RecordMemo(round, arrival(e), parent(e))
      BY DEF Egress
<1>3. e \in query.egress /\ e[1] \in Stops /\ e[2] \in Nat /\ arr[round][e[1]] \in Times
      BY <1>1 DEF TypeOK
<1>4. best[query.to] \in Times
      BY <1>1 DEF TypeOK
<1>5. arrival(e) <= best[query.to] /\ arrival(e) \in Times
  <2>1. /\ arr[round][e[1]] \in Int /\ -Inf <= arr[round][e[1]] /\ best[query.to] \in Int
        /\ best[query.to] <= Inf /\ Inf \in Int
        BY <1>3, <1>4, Constants
  <2>2. arrival(e) \in Int /\ -Inf <= arrival(e)
        BY <1>3, <2>1
  <2> HIDE DEF arrival
  <2>3. arrival(e) <= best[query.to]
        BY <1>2, <2>1, <2>2 DEF RecordsMemo
  <2>4. arrival(e) <= Inf
        BY <2>1, <2>2, <2>3
  <2> QED BY <2>2, <2>3, <2>4, Constants
<1>6. leg(e) \in Leg /\ <<leg(e)>> \in Legs
  <2>1. leg(e) \in Leg
        BY <1>1, <1>3, <1>5, Constants DEF Leg, NoTrip
  <2> HIDE DEF leg
  <2> QED BY <2>1 DEF Legs
<1> HIDE DEF leg, arrival
<1>7. parent(e) \in ParentSteps /\ KnownRide(parent(e))
  <2>1. parent(e) \in ParentSteps
        BY <1>1, <1>3, <1>6 DEF ParentSteps
  <2>2. parent(e).kind = "memo"
        BY DEF Memoized
  <2> QED BY <2>1, <2>2 DEF KnownRide
<1>8. MemoRecord(round, arrival(e), parent(e))
  <2>1. <<leg(e)>> = <<[from |-> e[1], to |-> query.to, trip |-> NoTrip,
                        dep |-> arr[round][e[1]], arr |-> arrival(e)]>>
        BY DEF leg
  <2>2. arrival(e) = arr[round][e[1]] + e[2]
        BY DEF arrival
  <2>3. arr[round][e[1]] < Inf
        OBVIOUS
  <2> QED BY <1>3, <1>6, <2>1, <2>2, <2>3, Zenon DEF MemoRecord
<1> HIDE DEF parent
<1>9. Effects(round, [s \in Stops |-> arrival(e)], [s \in Stops |-> parent(e)], {query.to})
      BY <1>1, <1>2, RecordMemoEffects
<1>10. Recorded(round, [s \in Stops |-> arrival(e)], [s \in Stops |-> parent(e)], {query.to})
       BY <1>1, <1>2, <1>5, <1>7, <1>9 DEF Recorded, RecordsMemo
<1>11. destRound' = round
       BY <1>2 DEF RecordMemo
<1> QED BY <1>8, <1>10, <1>11

LEMMA TransitLegsOf ==
    ASSUME NEW ls \in Seq(Leg)
    PROVE  TransitLegs(ls) \in Nat /\ IsFiniteSet({i \in DOMAIN ls : ls[i].trip # NoTrip})
<1> DEFINE S == {i \in DOMAIN ls : ls[i].trip # NoTrip}
<1>1. IsFiniteSet(1..Len(ls))
      BY FS_Interval
<1>2. S \in SUBSET (1..Len(ls))
      OBVIOUS
<1>3. IsFiniteSet(S)
      BY <1>1, <1>2, FS_Subset
<1> QED BY <1>3, FS_CardinalityType DEF TransitLegs

LEMMA LookaheadRecords ==
    ASSUME Typed, Lookahead
    PROVE  \/ UNCHANGED <<best, arr, par, destRound>>
           \/ \E k \in round..Rounds : \E time, parent :
                 /\ Recorded(k, [s \in Stops |-> time], [s \in Stops |-> parent], {query.to})
                 /\ MemoRecord(k, time, parent)
                 /\ destRound' = k
<1> SUFFICES ASSUME ~UNCHANGED <<best, arr, par, destRound>>
             PROVE  \E k \in round..Rounds : \E time, step :
                       /\ Recorded(k, [s \in Stops |-> time], [s \in Stops |-> step], {query.to})
                       /\ MemoRecord(k, time, step)
                       /\ destRound' = k
    OBVIOUS
<1>1. PICK s \in todo, p \in cache :
        LET k == round + TransitLegs(p.legs)
        IN  /\ p.stop = s /\ p.to = query.to
            /\ arr[round][s] <= p.ready
            /\ arr[round][s] # Inf
            /\ TransitLegs(p.legs) <= Rounds - round
            /\ RecordsMemo(k, p.arrival)
            /\ RecordMemo(k, p.arrival, ChainedToSource(s, p))
      BY DEF Lookahead
<1> DEFINE k == round + TransitLegs(p.legs)
           parent == Memoized(s, round, p.legs)
<1>2. /\ TypeOK /\ served > 0 /\ query.to \in Stops /\ round \in 0..Rounds
      /\ p \in Points /\ s \in Stops /\ ~FilterActive /\ Exact
      BY Served DEF Typed, TypeOK, Lookahead
<1>3. p.legs \in Seq(Leg) /\ p.legs \in Legs /\ p.arrival \in Times
      BY <1>2 DEF Points, Legs
<1>4. k \in round..Rounds /\ k \in 0..Rounds
  <2>1. TransitLegs(p.legs) \in Nat
        BY <1>3, TransitLegsOf
  <2> QED BY <1>1, <1>2, <2>1, Constants
<1>5. best[query.to] \in Times
      BY <1>2 DEF TypeOK
<1> HIDE DEF k
<1>6. RecordsMemo(k, p.arrival) /\ RecordMemo(k, p.arrival, parent)
      BY <1>1 DEF k, ChainedToSource
<1>7. parent \in ParentSteps /\ KnownRide(parent)
  <2>1. parent \in ParentSteps
        BY <1>2, <1>3 DEF ParentSteps
  <2>2. parent.kind = "memo"
        BY DEF Memoized
  <2> QED BY <2>1, <2>2 DEF KnownRide
<1>8. MemoRecord(k, p.arrival, parent)
  <2>1. arr[round][s] \in Times
        BY <1>2 DEF TypeOK
  <2>2. arr[round][s] \in Int /\ arr[round][s] <= Inf /\ Inf \in Int
        BY <2>1, Constants, Zenon
  <2>3. arr[round][s] < Inf
        BY <1>1, <2>2
  <2> QED BY <1>1, <1>2, <1>3, <2>3 DEF MemoRecord, k
<1> HIDE DEF parent
<1>9. Effects(k, [u \in Stops |-> p.arrival], [u \in Stops |-> parent], {query.to})
      BY <1>2, <1>4, <1>6, RecordMemoEffects
<1>10. Recorded(k, [u \in Stops |-> p.arrival], [u \in Stops |-> parent], {query.to})
       BY <1>2, <1>3, <1>4, <1>6, <1>7, <1>9 DEF Recorded, RecordsMemo
<1>11. destRound' = k
       BY <1>6 DEF RecordMemo
<1> QED BY <1>4, <1>8, <1>10, <1>11

\* A trip that is boarded is in service, calls, and leaves no earlier than the
\* stop was reached; the destination is no stop to board at.
LEMMA BoardingKnown ==
    ASSUME Typed, phase = "scan", scan.line # 0, scan.pos \in DOMAIN Path,
           NEW bound \in Int, bound <= best[query.to], NEW t \in Boarding(bound)
    PROVE  /\ t \in tt.trips[scan.line] \intersect tt.available
           /\ ~Skipped(tt, t, scan.pos)
           /\ Path[scan.pos] # query.to
           /\ NoneEarly(tt) => bestBefore[Path[scan.pos]] <= Dep(tt, t, scan.pos)
<1> DEFINE readyAt == bestBefore[Path[scan.pos]]
<1>1. TypeOK /\ served > 0 /\ round > 0 /\ scan.line \in LinesOf(tt) /\ query.to \in Stops
      BY Served DEF Typed, TypeOK, Scanning
<1>2. Path[scan.pos] \in Stops
      BY <1>1, KnownPath DEF Path
<1>3. readyAt \in Int /\ bestBefore[query.to] \in Int /\ best[query.to] \in Int
      BY <1>1, <1>2, Constants DEF TypeOK
<1>4. readyAt < bound /\ t \in FindEarliestTrip(tt, scan.line, scan.pos, readyAt)
      BY <1>3 DEF Boarding
<1>5. /\ t \in Window(tt, scan.line, scan.pos, readyAt)
      /\ (IF LineDelay(tt, scan.line) = 0 THEN SchedDep(tt, t, scan.pos) ELSE Dep(tt, t, scan.pos))
            >= readyAt
      BY <1>4 DEF FindEarliestTrip
<1>6. t \in tt.trips[scan.line] \intersect tt.available /\ ~Skipped(tt, t, scan.pos)
      BY <1>5 DEF Window
<1>7. Path[scan.pos] # query.to
  <2>1. best[query.to] <= bestBefore[query.to]
        BY <1>1 DEF Typed, Falling
  <2> QED BY <1>3, <1>4, <2>1
<1>8. ASSUME NoneEarly(tt) PROVE readyAt <= Dep(tt, t, scan.pos)
  <2>1. SchedDep(tt, t, scan.pos) <= Dep(tt, t, scan.pos)
        BY <1>1, <1>6, <1>8 DEF NoneEarly, Path
  <2>2. SchedDep(tt, t, scan.pos) \in Int /\ Dep(tt, t, scan.pos) \in Int
    <3>1. scan.pos \in DOMAIN tt.path[scan.line] /\ t \in tt.trips[scan.line]
          BY <1>6 DEF Path
    <3>2. SchedDep(tt, t, scan.pos) \in Nat /\ Dep(tt, t, scan.pos) \in Times
          BY <1>1, <3>1, KnownPath
    <3>3. Dep(tt, t, scan.pos) \in Int
          BY <3>2, Constants, Zenon
    <3> QED BY <3>2, <3>3
  <2> QED BY <1>3, <1>5, <2>1, <2>2
<1> QED BY <1>6, <1>7, <1>8

LEMMA ScanRecords ==
    ASSUME Typed, ScanPosition
    PROVE  /\ scan.pos \in DOMAIN Path
           /\ \E I \in SUBSET {Path[scan.pos]} : \E time, parent :
                 /\ Recorded(round, [s \in Stops |-> time], [s \in Stops |-> parent], I)
                 /\ I # {} => /\ RideRecord(time, parent)
                              /\ time < best[Path[scan.pos]] /\ time < best[query.to]
                 /\ I = {} /\ scan.trip # NoTrip /\ ~Skipped(tt, scan.trip, scan.pos) =>
                        \/ best[Path[scan.pos]] <= Arr(tt, scan.trip, scan.pos)
                        \/ best[query.to] <= Arr(tt, scan.trip, scan.pos)
                 /\ nextMarked' = nextMarked \union I
           /\ \E bound \in Int :
                 /\ bound <= best[query.to] /\ bound = best'[query.to]
                 /\ LET inChunk == scan.chunk > 0 \/ ChunkBegins
                        boarding == IF inChunk THEN {} ELSE Boarding(bound)
                    IN  scan' = [line    |-> scan.line,
                                 pos     |-> scan.pos + 1,
                                 trip    |-> IF boarding = {} THEN scan.trip ELSE CHOOSE t \in boarding : TRUE,
                                 boarded |-> IF boarding = {} THEN scan.boarded ELSE scan.pos,
                                 chunk   |-> IF scan.chunk > 0 THEN scan.chunk - 1
                                             ELSE IF inChunk THEN SvrtWidth - 1 ELSE 0]
<1> DEFINE at_ == Path[scan.pos]
           arrival == IF scan.trip = NoTrip THEN Inf ELSE Arr(tt, scan.trip, scan.pos)
           I == {u \in {at_} : /\ scan.trip # NoTrip
                               /\ ~Skipped(tt, scan.trip, scan.pos)
                               /\ arrival < best[query.to]
                               /\ arrival < best[at_]}
           parent == Ride(scan.trip, scan.line, scan.boarded, scan.pos)
           bound == IF query.to \in I THEN arrival ELSE best[query.to]
<1>1. /\ TypeOK /\ served > 0 /\ round \in 0..Rounds /\ round \in round..Rounds
      /\ phase = "scan" /\ scan.line # 0 /\ scan.line \in LinesOf(tt) /\ query.to \in Stops
      /\ scan.pos \in 1..(Len(Path) + 1) /\ scan.pos <= Len(Path) /\ Aboard
  <2>1. phase = "scan" /\ scan.line # 0 /\ scan.pos <= Len(Path) /\ TypeOK /\ Scanning
        BY DEF Typed, ScanPosition
  <2>2. /\ served > 0 /\ round \in 0..Rounds /\ round \in round..Rounds /\ query.to \in Stops
        /\ query.allowed \subseteq LinesOf(tt)
        BY <2>1, Serving
  <2>3. scan.line \in query.allowed /\ scan.pos \in 1..(Len(Path) + 1) /\ Aboard
        BY <2>1 DEF Scanning
  <2> QED BY <2>1, <2>2, <2>3
<1>2. /\ Len(Path) \in Nat /\ DOMAIN Path = 1..Len(Path) /\ scan.line \in Nat
      /\ \A p \in DOMAIN Path : Path[p] \in Stops
      BY <1>1, KnownPath DEF Path
<1>3. scan.pos \in DOMAIN Path /\ at_ \in Stops
      BY <1>1, <1>2
<1>4. /\ Record(round, [u \in Stops |-> arrival], [u \in Stops |-> parent], I)
      /\ nextMarked' = nextMarked \union I
      BY DEF ScanPosition
<1>5. scan' = LET inChunk == scan.chunk > 0 \/ ChunkBegins
                  boarding == IF inChunk THEN {} ELSE Boarding(bound)
              IN  [line    |-> scan.line,
                   pos     |-> scan.pos + 1,
                   trip    |-> IF boarding = {} THEN scan.trip ELSE CHOOSE t \in boarding : TRUE,
                   boarded |-> IF boarding = {} THEN scan.boarded ELSE scan.pos,
                   chunk   |-> IF scan.chunk > 0 THEN scan.chunk - 1
                               ELSE IF inChunk THEN SvrtWidth - 1 ELSE 0]
      BY DEF ScanPosition
<1>6. arrival \in Times
  <2>1. CASE scan.trip = NoTrip
        BY <2>1, Constants
  <2>2. CASE scan.trip # NoTrip
    <3>1. scan.trip \in tt.trips[scan.line]
          BY <1>1, <2>2 DEF Aboard
    <3> QED BY <1>1, <1>3, <2>2, <3>1, KnownPath DEF Path
  <2> QED BY <2>1, <2>2
<1>7. bound \in Int /\ bound <= best[query.to]
  <2>1. best[query.to] \in Int /\ arrival \in Int
        BY <1>1, <1>6, Constants DEF TypeOK
  <2>2. query.to \in I => arrival < best[query.to]
        OBVIOUS
  <2> HIDE DEF I, arrival
  <2> QED BY <2>1, <2>2
<1>8. ASSUME I # {}
      PROVE  RideRecord(arrival, parent) /\ parent \in ParentSteps /\ KnownRide(parent)
  <2>1. scan.trip # NoTrip /\ ~Skipped(tt, scan.trip, scan.pos)
        BY <1>8
  <2>2. RideRecord(arrival, parent)
        BY <1>3, <2>1 DEF RideRecord
  <2>3. /\ scan.trip \in tt.trips[scan.line] /\ scan.trip \in Nat
        /\ scan.boarded \in Nat /\ scan.boarded \in DOMAIN Path
    <3>1. scan.trip \in tt.trips[scan.line] /\ scan.boarded \in 1..(scan.pos - 1)
          BY <1>1, <2>1 DEF Aboard
    <3>2. scan.trip \in Nat
          BY <1>1, <3>1, KnownPath
    <3> QED BY <1>1, <1>2, <3>1, <3>2
  <2>4. parent \in ParentSteps
        BY <1>1, <1>2, <2>3 DEF ParentSteps
  <2>5. KnownRide(parent)
    <3>1. /\ parent.line = scan.line /\ parent.trip = scan.trip
          /\ parent.board = scan.boarded /\ parent.alight = scan.pos
          BY DEF Ride
    <3> HIDE DEF parent
    <3> QED BY <1>1, <1>3, <2>3, <3>1 DEF KnownRide, Path
  <2> QED BY <2>2, <2>4, <2>5
<1>9. Effects(round, [u \in Stops |-> arrival], [u \in Stops |-> parent], I)
  <2> HIDE DEF arrival, parent, I
  <2> QED BY <1>1, <1>4, RecordEffects
<1>10. /\ I \subseteq Stops /\ \A u \in I : arrival < best[u]
       /\ I # {} => arrival < best[at_] /\ arrival < best[query.to]
       BY <1>3
<1>11. Recorded(round, [u \in Stops |-> arrival], [u \in Stops |-> parent], I)
  <2> HIDE DEF arrival, parent, I
  <2> QED BY <1>1, <1>6, <1>8, <1>9, <1>10 DEF Recorded
<1>12. \E J \in SUBSET {Path[scan.pos]} : \E time, step :
                 /\ Recorded(round, [s \in Stops |-> time], [s \in Stops |-> step], J)
                 /\ J # {} => /\ RideRecord(time, step)
                              /\ time < best[Path[scan.pos]] /\ time < best[query.to]
                 /\ J = {} /\ scan.trip # NoTrip /\ ~Skipped(tt, scan.trip, scan.pos) =>
                        \/ best[Path[scan.pos]] <= Arr(tt, scan.trip, scan.pos)
                        \/ best[query.to] <= Arr(tt, scan.trip, scan.pos)
                 /\ nextMarked' = nextMarked \union J
  <2>1. I \in SUBSET {Path[scan.pos]}
        OBVIOUS
  <2>2. ASSUME I = {}, scan.trip # NoTrip, ~Skipped(tt, scan.trip, scan.pos)
        PROVE  \/ best[at_] <= Arr(tt, scan.trip, scan.pos)
               \/ best[query.to] <= Arr(tt, scan.trip, scan.pos)
    <3>1. ~(arrival < best[query.to]) \/ ~(arrival < best[at_])
          BY <2>2
    <3>2. arrival = Arr(tt, scan.trip, scan.pos) /\ arrival \in Int
      <4>1. arrival = Arr(tt, scan.trip, scan.pos)
            BY <2>2
      <4>2. arrival \in Int
        <5> HIDE DEF arrival
        <5> QED BY <1>6, Constants, Zenon
      <4> QED BY <4>1, <4>2
    <3>3. best[at_] \in Int /\ best[query.to] \in Int
      <4>1. best[at_] \in Times /\ best[query.to] \in Times
            BY <1>1, <1>3 DEF TypeOK
      <4> HIDE DEF at_
      <4> QED BY <4>1, Constants, Zenon
    <3> HIDE DEF arrival, at_
    <3> QED BY <3>1, <3>2, <3>3
  <2> HIDE DEF arrival, parent, I
  <2> QED BY <1>4, <1>8, <1>10, <1>11, <2>1, <2>2
<1>13. bound = best'[query.to]
  <2>1. best'[query.to] = IF query.to \in I THEN arrival ELSE best[query.to]
    <3> HIDE DEF arrival, parent, I
    <3> QED BY <1>1, <1>9 DEF Effects
  <2> QED BY <2>1
<1> HIDE DEF bound
<1> QED BY <1>3, <1>5, <1>7, <1>12, <1>13

\* The first labels: the origin at the departure, and what a walk from it or an
\* edge of a virtual origin reaches.
StartLabels(q, start, reached) ==
    /\ start \in [Stops -> Times]
    /\ start[q.from] = q.depart
    /\ reached \subseteq Stops \ {q.from}
    /\ \A s \in Stops : q.depart <= start[s]
    /\ \A s \in reached : /\ start[s] - q.depart \in Nat
                          /\ \/ start[s] - q.depart = tt.walk[<<q.from, s>>] /\ tt.walk[<<q.from, s>>] < Inf
                             \/ <<s, start[s] - q.depart>> \in q.access
    /\ best' = start
    /\ arr' = [k \in 0..Rounds |-> IF k = 0 THEN start ELSE [s \in Stops |-> Inf]]
    /\ par' = [k \in 0..Rounds |-> [s \in Stops |->
                  IF k > 0 THEN NoParent
                  ELSE IF s = q.from THEN Origin
                  ELSE IF s \in reached THEN WalkFrom(q.from, start[s] - q.depart)
                  ELSE NoParent]]
    /\ marked' \subseteq Stops
    /\ todo' \subseteq Stops
    /\ destRound' \in {0, None}
    /\ q.from = q.to => destRound' = 0
    /\ \A s \in Stops \ {q.from} : s \notin reached => start[s] = Inf
    /\ marked' = reached \union (IF q.access = {} THEN {q.from} ELSE {})
    /\ todo' = IF q.access = {} THEN {} ELSE reached
    /\ destRound' = IF q.from = q.to \/ q.to \in reached THEN 0 ELSE None
    /\ \A s \in Stops \ {q.from}, d \in Nat :
          (q.access = {} /\ d = tt.walk[<<q.from, s>>]) \/ <<s, d>> \in q.access
             => start[s] <= q.depart + d

LEMMA Started ==
    ASSUME TypeOK, NEW q \in Requests(tt), Start(q)
    PROVE  \E start, reached : StartLabels(q, start, reached)
<1> DEFINE secs(s) == IF q.access = {} THEN {tt.walk[<<q.from, s>>]}
                                       ELSE {e[2] : e \in {f \in q.access : f[1] = s}}
           ways(s) == {q.depart + d : d \in secs(s) \ {Inf}}
           start == [s \in Stops |-> IF s = q.from THEN q.depart ELSE Earliest(ways(s))]
           reached == {s \in Stops \ {q.from} : start[s] < Inf}
<1>1. /\ q.from \in Stops /\ q.depart \in Nat /\ q.depart < Inf
      /\ q.access \in SUBSET (Stops \X Nat) /\ WellFormed(tt) /\ Inf \in Nat
      BY RaptorAssumption, Constants DEF TypeOK
<1>2. ASSUME NEW s \in Stops, NEW d \in secs(s)
      PROVE  /\ d \in Nat
             /\ d # Inf => \/ d = tt.walk[<<q.from, s>>] /\ tt.walk[<<q.from, s>>] < Inf
                           \/ <<s, d>> \in q.access
  <2>1. CASE q.access = {}
    <3>1. d = tt.walk[<<q.from, s>>]
          BY <1>2, <2>1
    <3>2. tt.walk[<<q.from, s>>] \in 0..Inf
          BY <1>1 DEF WellFormed
    <3> QED BY <1>1, <3>1, <3>2
  <2>2. CASE q.access # {}
    <3>1. PICK e \in q.access : e[1] = s /\ d = e[2]
          BY <1>2, <2>2
    <3>2. e = <<s, d>> /\ d \in Nat
          BY <1>1, <3>1
    <3> QED BY <3>1, <3>2
  <2> QED BY <2>1, <2>2
<1>3. ASSUME NEW s \in Stops \ {q.from}
      PROVE  /\ start[s] \in Times
             /\ q.depart <= start[s]
             /\ start[s] < Inf => \E d \in secs(s) \ {Inf} : start[s] = q.depart + d
             /\ start[s] <= Inf /\ \A d \in secs(s) \ {Inf} : start[s] <= q.depart + d
  <2>1. \A x \in ways(s) : x \in Int /\ -Inf <= x /\ q.depart <= x
    <3>1. ASSUME NEW d \in secs(s) \ {Inf}
          PROVE  q.depart + d \in Int /\ -Inf <= q.depart + d /\ q.depart <= q.depart + d
      <4>1. d \in Nat
            BY <1>2
      <4> QED BY <1>1, <4>1
    <3> QED BY <3>1
  <2>2. start[s] = Earliest(ways(s))
        OBVIOUS
  <2>3. start[s] \in Times /\ start[s] \in ways(s) \union {Inf}
    <3> HIDE DEF ways, start
    <3> QED BY <2>1, <2>2, EarliestOf
  <2>4. q.depart <= start[s]
    <3> HIDE DEF ways, start
    <3> QED BY <1>1, <2>1, <2>3
  <2>5. start[s] < Inf => start[s] \in ways(s)
    <3> HIDE DEF ways, start
    <3> QED BY <1>1, <2>3
  <2>6. start[s] <= Inf
    <3> HIDE DEF start
    <3> QED BY <2>3, Constants, Zenon
  <2>7. \A x \in ways(s) : start[s] <= x
    <3> HIDE DEF ways, start
    <3> QED BY <2>1, <2>2, EarliestOf
  <2> QED BY <2>3, <2>4, <2>5, <2>6, <2>7
<1>4. start[q.from] = q.depart /\ q.depart \in Times
  <2>1. q.depart \in Int /\ q.depart <= Inf /\ -Inf <= q.depart
        BY <1>1
  <2> QED BY <1>1, <2>1, Constants
<1>5. start \in [Stops -> Times] /\ \A s \in Stops : q.depart <= start[s]
  <2>1. \A s \in Stops : start[s] \in Times /\ q.depart <= start[s]
    <3> SUFFICES ASSUME NEW s \in Stops PROVE start[s] \in Times /\ q.depart <= start[s]
        OBVIOUS
    <3> HIDE DEF start
    <3>1. CASE s # q.from
          BY <1>3, <3>1
    <3>2. CASE s = q.from
      <4>1. start[s] = q.depart /\ q.depart <= q.depart
            BY <1>1, <1>4, <3>2
      <4> QED BY <1>4, <4>1
    <3> QED BY <3>1, <3>2
  <2>2. DOMAIN start = Stops
        OBVIOUS
  <2>3. start = [s \in Stops |-> start[s]]
        OBVIOUS
  <2> HIDE DEF start
  <2> QED BY <2>1, <2>3
<1>6. ASSUME NEW s \in reached
      PROVE  /\ start[s] - q.depart \in Nat
             /\ \/ start[s] - q.depart = tt.walk[<<q.from, s>>] /\ tt.walk[<<q.from, s>>] < Inf
                \/ <<s, start[s] - q.depart>> \in q.access
  <2>1. s \in Stops \ {q.from} /\ start[s] < Inf
        OBVIOUS
  <2> HIDE DEF start, reached
  <2>2. PICK d \in secs(s) \ {Inf} : start[s] = q.depart + d
        BY <1>3, <2>1
  <2>3. /\ d \in Nat
        /\ \/ d = tt.walk[<<q.from, s>>] /\ tt.walk[<<q.from, s>>] < Inf
           \/ <<s, d>> \in q.access
    <3> HIDE DEF secs
    <3> QED BY <1>2, <2>1, <2>2
  <2>4. start[s] - q.depart = d
        BY <1>1, <2>2, <2>3
  <2> QED BY <2>3, <2>4
<1>7. /\ best' = start
      /\ arr' = [k \in 0..Rounds |-> IF k = 0 THEN start ELSE [s \in Stops |-> Inf]]
      /\ par' = [k \in 0..Rounds |-> [s \in Stops |->
                  IF k > 0 THEN NoParent
                  ELSE IF s = q.from THEN Origin
                  ELSE IF s \in reached THEN WalkFrom(q.from, start[s] - q.depart)
                  ELSE NoParent]]
      /\ marked' = reached \union (IF q.access = {} THEN {q.from} ELSE {})
      /\ destRound' = IF q.from = q.to \/ q.to \in reached THEN 0 ELSE None
      /\ todo' = IF q.access = {} THEN {} ELSE reached
      BY Zenon DEF Start
<1>8. reached \subseteq Stops \ {q.from}
      OBVIOUS
<1>11. ASSUME NEW s \in Stops \ {q.from}, s \notin reached PROVE start[s] = Inf
  <2>1. ~(start[s] < Inf)
        BY <1>11
  <2>2. start[s] \in Times
        BY <1>5
  <2> HIDE DEF start
  <2>3. start[s] \in Int /\ start[s] <= Inf
        BY <2>2, Constants, Zenon
  <2> QED BY <1>1, <2>1, <2>3
<1>12. ASSUME NEW s \in Stops \ {q.from}, NEW d \in Nat,
              (q.access = {} /\ d = tt.walk[<<q.from, s>>]) \/ <<s, d>> \in q.access
       PROVE  start[s] <= q.depart + d
  <2>1. d \in secs(s)
    <3>1. CASE q.access = {}
          BY <1>12, <3>1
    <3>2. CASE q.access # {}
      <4>1. <<s, d>> \in {f \in q.access : f[1] = s} /\ <<s, d>>[2] = d
            BY <1>12, <3>2
      <4> QED BY <3>2, <4>1
    <3> QED BY <3>1, <3>2
  <2>2. start[s] \in Times
        BY <1>5
  <2>3. d # Inf => start[s] <= q.depart + d
    <3> HIDE DEF start, secs
    <3> QED BY <1>3, <2>1
  <2> HIDE DEF start
  <2>4. start[s] \in Int /\ start[s] <= Inf
        BY <2>2, Constants, Zenon
  <2> QED BY <1>1, <2>3, <2>4
<1> HIDE DEF start, reached
<1>9. /\ marked' \subseteq Stops /\ todo' \subseteq Stops /\ destRound' \in {0, None}
      /\ q.from = q.to => destRound' = 0
      BY <1>1, <1>7, <1>8
<1>10. StartLabels(q, start, reached)
       BY <1>4, <1>5, <1>6, <1>7, <1>8, <1>9, <1>11, <1>12 DEF StartLabels
<1> QED BY <1>10

\* The kinds of parents.
LEMMA ParentKinds ==
    ASSUME NEW p \in ParentSteps
    PROVE  /\ p.kind = "none" <=> p = NoParent
           /\ p.kind = "origin" <=> p = Origin
           /\ p.kind = "walk" => p.from \in Stops /\ p.secs \in Nat /\ p = WalkFrom(p.from, p.secs)
           /\ p.kind = "transit" => /\ p.trip \in Nat /\ p.line \in Nat
                                    /\ p.board \in Nat /\ p.alight \in Nat
                                    /\ p = Ride(p.trip, p.line, p.board, p.alight)
           /\ p.kind = "memo" => /\ p.from \in Stops /\ p.round \in 0..Rounds /\ p.legs \in Legs
                                 /\ p = Memoized(p.from, p.round, p.legs)
<1>1. CASE p \in {NoParent, Origin}
      BY <1>1 DEF NoParent, Origin
<1>2. ASSUME NEW f \in Stops, NEW secs \in Nat, p = WalkFrom(f, secs)
      PROVE  p.kind = "walk" /\ p.from = f /\ p.secs = secs
      BY <1>2 DEF WalkFrom
<1>3. ASSUME NEW t \in Nat, NEW l \in Nat, NEW i \in Nat, NEW j \in Nat, p = Ride(t, l, i, j)
      PROVE  p.kind = "transit" /\ p.trip = t /\ p.line = l /\ p.board = i /\ p.alight = j
      BY <1>3 DEF Ride
<1>4. ASSUME NEW f \in Stops, NEW k \in 0..Rounds, NEW ls \in Legs, p = Memoized(f, k, ls)
      PROVE  p.kind = "memo" /\ p.from = f /\ p.round = k /\ p.legs = ls
      BY <1>4 DEF Memoized
<1>5. NoParent.kind = "none" /\ Origin.kind = "origin"
      BY DEF NoParent, Origin
<1>6. CASE \E f \in Stops, secs \in Nat : p = WalkFrom(f, secs)
      BY <1>2, <1>5, <1>6
<1>7. CASE \E t \in Nat, l \in Nat, i \in Nat, j \in Nat : p = Ride(t, l, i, j)
      BY <1>3, <1>5, <1>7
<1>8. CASE \E f \in Stops, k \in 0..Rounds, ls \in Legs : p = Memoized(f, k, ls)
      BY <1>4, <1>5, <1>8
<1> QED BY <1>1, <1>6, <1>7, <1>8 DEF ParentSteps

\* Suffixes and concatenations of legs.
LEMMA SuffixLegs ==
    ASSUME NEW ls \in Seq(Leg), NEW i \in 1..Len(ls)
    PROVE  LET suffix == SubSeq(ls, i, Len(ls))
           IN  /\ suffix \in Legs
               /\ Len(suffix) = Len(ls) - i + 1
               /\ \A j \in 1..Len(suffix) : suffix[j] = ls[i + j - 1]
<1> DEFINE suffix == SubSeq(ls, i, Len(ls))
<1>1. suffix \in Seq(Leg) /\ Len(suffix) = Len(ls) - i + 1
      OBVIOUS
<1>2. \A j \in 1..Len(suffix) : suffix[j] = ls[i + j - 1]
      OBVIOUS
<1>3. Len(suffix) # 0
      BY <1>1
<1>4. suffix # <<>>
  <2> HIDE DEF suffix
  <2> QED BY <1>3
<1> QED BY <1>1, <1>2, <1>4 DEF Legs

LEMMA JoinedLegs ==
    ASSUME NEW a \in Seq(Leg), NEW b \in Seq(Leg)
    PROVE  /\ a \o b \in Seq(Leg)
           /\ Len(a \o b) = Len(a) + Len(b)
           /\ \A i \in 1..Len(a) : (a \o b)[i] = a[i]
           /\ \A i \in 1..Len(b) : (a \o b)[Len(a) + i] = b[i]
OBVIOUS

LEMMA RecordedTyped ==
    ASSUME Typed, NEW k, NEW time, NEW parent, NEW I, Recorded(k, time, parent, I),
           tt' = tt, round' = round, bestBefore' = bestBefore
    PROVE  /\ best' \in [Stops -> Times]
           /\ arr' \in [0..Rounds -> [Stops -> Times]]
           /\ par' \in [0..Rounds -> [Stops -> ParentSteps]]
           /\ (\A j \in 0..Rounds, s \in Stops : KnownRide(par[j][s]))'
           /\ Falling'
<1>1. k \in 0..Rounds /\ TypeOK /\ Falling /\ I \in SUBSET Stops
      BY Constants DEF Typed, TypeOK, Recorded
<1>2. ASSUME NEW s \in I
      PROVE  /\ time[s] \in Times /\ time[s] <= best[s]
             /\ parent[s] \in ParentSteps /\ KnownRide(parent[s])
  <2>1. time[s] \in Times /\ parent[s] \in ParentSteps /\ KnownRide(parent[s])
        BY DEF Recorded
  <2>2. time[s] \in Int /\ best[s] \in Int
        BY <1>1, <2>1, Constants DEF TypeOK
  <2>3. time[s] < best[s] \/ time[s] = best[s]
        BY DEF Recorded
  <2> QED BY <2>1, <2>2, <2>3
<1>3. Effects(k, time, parent, I)
      BY DEF Recorded
<1> QED BY <1>1, <1>2, <1>3, EffectsTyped

----------------------------------------------------------------------------
(* Types, and what is known of a scan.                                      *)

LEMMA TypedInit == Init => Typed
<1> SUFFICES ASSUME Init PROVE Typed
    OBVIOUS
<1>1. Inf \in Times /\ 0 \in 0..Rounds /\ None \in 0..None /\ Rounds \in Nat
      BY Constants
<1>2. best \in [Stops -> Times] /\ arr \in [0..Rounds -> [Stops -> Times]]
      BY <1>1 DEF Init
<1>3. par \in [0..Rounds -> [Stops -> ParentSteps]]
      BY DEF Init, ParentSteps
<1>4. \A k \in 0..Rounds, s \in Stops : KnownRide(par[k][s])
  <2>1. \A k \in 0..Rounds, s \in Stops : par[k][s] = NoParent
        BY DEF Init
  <2>2. NoParent.kind # "transit"
        BY DEF NoParent
  <2> QED BY <2>1, <2>2 DEF KnownRide
<1>5. phase = "idle" /\ served = 0 /\ round = 0 /\ after = "queue" /\ cache = {} /\ legs = <<>>
      BY DEF Init
<1>6. marked = {} /\ nextMarked = {} /\ frontier = {} /\ todo = {} /\ destRound = None /\ tt \in Timetables
      BY DEF Init
<1>7. TypeOK
      BY <1>1, <1>2, <1>3, <1>4, <1>5, <1>6 DEF TypeOK, Phases
<1> QED BY <1>5, <1>7 DEF Typed, Scanning, Falling

LEMMA TypedStart ==
    ASSUME Typed, NEW q \in Requests(tt), Start(q)
    PROVE  Typed'
<1>1. PICK start, reached : StartLabels(q, start, reached)
      BY Started DEF Typed
<1>2. /\ tt' = tt /\ query' = q /\ served' = served + 1 /\ phase' = "seeds" /\ round' = 0
      /\ legs' = <<>> /\ after' = "queue" /\ cache' = cache
      /\ nextMarked' = nextMarked /\ frontier' = frontier
      BY DEF Start
<1>3. /\ best' \in [Stops -> Times] /\ arr' \in [0..Rounds -> [Stops -> Times]]
  <2>1. Inf \in Times /\ start \in [Stops -> Times]
        BY <1>1, Constants DEF StartLabels
  <2> QED BY <1>1, <2>1 DEF StartLabels
<1>4. ASSUME NEW k \in 0..Rounds, NEW s \in Stops
      PROVE  par'[k][s] \in ParentSteps /\ KnownRide(par[k][s])'
  <2>1. \/ par'[k][s] \in {NoParent, Origin}
        \/ s \in reached /\ par'[k][s] = WalkFrom(q.from, start[s] - q.depart)
        BY <1>1 DEF StartLabels
  <2>2. q.from \in Stops /\ \A u \in reached : start[u] - q.depart \in Nat
        BY <1>1, RaptorAssumption DEF StartLabels, Typed, TypeOK
  <2>3. par'[k][s] \in ParentSteps
        BY <2>1, <2>2 DEF ParentSteps
  <2>4. par'[k][s].kind # "transit"
        BY <2>1 DEF NoParent, Origin, WalkFrom
  <2> QED BY <2>3, <2>4 DEF KnownRide
<1>5. par' \in [0..Rounds -> [Stops -> ParentSteps]]
  <2>1. \A k \in 0..Rounds : par'[k] = [s \in Stops |-> par'[k][s]]
        BY <1>1 DEF StartLabels
  <2>2. par' = [k \in 0..Rounds |-> par'[k]]
        BY <1>1 DEF StartLabels
  <2>3. \A k \in 0..Rounds : par'[k] \in [Stops -> ParentSteps]
        BY <1>4, <2>1
  <2> QED BY <2>2, <2>3
<1>6. marked' \subseteq Stops /\ todo' \subseteq Stops /\ destRound' \in 0..None
      BY <1>1, Constants DEF StartLabels
<1>7. TypeOK'
      BY <1>2, <1>3, <1>4, <1>5, <1>6, Constants DEF Typed, TypeOK, Phases
<1> QED BY <1>2, <1>7 DEF Typed, Scanning, Falling

LEMMA TypedSeeds ==
    ASSUME Typed, WalkFromSeed \/ SeedsDone
    PROVE  Typed'
<1>1. CASE WalkFromSeed
  <2>1. PICK I, time, parent :
              /\ I \in SUBSET Stops
              /\ Recorded(round, time, parent, I)
              /\ destRound' = IF query.to \in I THEN 0 ELSE destRound
              /\ marked' = marked \union I
        BY <1>1, SeedRecords
  <2>2. /\ UNCHANGED <<tt, query, phase, round, bestBefore, nextMarked, frontier, after,
                       cache, legs, at, served>>
        /\ todo' \subseteq todo /\ phase = "seeds"
        BY <1>1 DEF WalkFromSeed, answerVars
  <2>3. destRound' \in 0..None
        BY <2>1, Constants DEF Typed, TypeOK
  <2> QED BY <2>1, <2>2, <2>3, RecordedTyped DEF Typed, TypeOK, Scanning
<1>2. CASE SeedsDone
      BY <1>2 DEF SeedsDone, answerVars, Typed, TypeOK, Phases, Scanning, Falling, KnownRide
<1> QED BY <1>1, <1>2

LEMMA TypedLookahead ==
    ASSUME Typed, Egress \/ Lookahead \/ LookaheadDone
    PROVE  Typed'
<1>1. CASE Egress
  <2>1. /\ UNCHANGED <<tt, query, round, bestBefore, marked, nextMarked, frontier, after,
                       cache, legs, at, served>>
        /\ todo' = LookaheadStops /\ phase' = "lookahead" /\ phase = "egress"
        BY <1>1 DEF Egress, answerVars
  <2>2. /\ todo' \subseteq Stops
        /\ todo' # {} => ~FilterActive /\ Exact
        BY <2>1 DEF LookaheadStops, Typed, TypeOK
  <2>3. /\ best' \in [Stops -> Times]
        /\ arr' \in [0..Rounds -> [Stops -> Times]]
        /\ par' \in [0..Rounds -> [Stops -> ParentSteps]]
        /\ (\A j \in 0..Rounds, s \in Stops : KnownRide(par[j][s]))'
        /\ Falling'
        /\ destRound' \in 0..None
    <3>1. CASE UNCHANGED <<best, arr, par, destRound>>
          BY <2>1, <3>1 DEF Typed, TypeOK, Falling, KnownRide
    <3>2. CASE ~UNCHANGED <<best, arr, par, destRound>>
      <4>1. PICK time, parent :
              /\ Recorded(round, [s \in Stops |-> time], [s \in Stops |-> parent], {query.to})
              /\ destRound' = round
            BY <1>1, <3>2, EgressRecords
      <4>2. destRound' \in 0..None
            BY <4>1, Constants DEF Typed, TypeOK
      <4> QED BY <2>1, <4>1, <4>2, RecordedTyped
    <3> QED BY <3>1, <3>2
  <2>4. FilterActive' = FilterActive /\ Exact' = Exact
        BY <2>1 DEF FilterActive, Exact
  <2> QED BY <2>1, <2>2, <2>3, <2>4 DEF Typed, TypeOK, Phases, Scanning
<1>2. CASE Lookahead
  <2>1. /\ UNCHANGED <<tt, query, phase, round, bestBefore, marked, nextMarked, frontier, after,
                       cache, legs, at, served>>
        /\ todo' \subseteq todo /\ phase = "lookahead"
        BY <1>2 DEF Lookahead, answerVars
  <2>2. /\ best' \in [Stops -> Times]
        /\ arr' \in [0..Rounds -> [Stops -> Times]]
        /\ par' \in [0..Rounds -> [Stops -> ParentSteps]]
        /\ (\A j \in 0..Rounds, s \in Stops : KnownRide(par[j][s]))'
        /\ Falling'
        /\ destRound' \in 0..None
    <3>1. CASE UNCHANGED <<best, arr, par, destRound>>
          BY <2>1, <3>1 DEF Typed, TypeOK, Falling, KnownRide
    <3>2. CASE ~UNCHANGED <<best, arr, par, destRound>>
      <4>1. PICK k, time, parent :
              /\ k \in round..Rounds
              /\ Recorded(k, [s \in Stops |-> time], [s \in Stops |-> parent], {query.to})
              /\ destRound' = k
            BY <1>2, <3>2, LookaheadRecords
      <4>2. destRound' \in 0..None
            BY <4>1, Constants DEF Typed, TypeOK
      <4> QED BY <2>1, <4>1, <4>2, RecordedTyped
    <3> QED BY <3>1, <3>2
  <2>3. FilterActive' = FilterActive /\ Exact' = Exact
        BY <2>1 DEF FilterActive, Exact
  <2> QED BY <2>1, <2>2, <2>3 DEF Typed, TypeOK, Scanning
<1>3. CASE LookaheadDone
  <2>1. UNCHANGED <<tt, query, served>> /\ phase' = after /\ phase = "lookahead" /\ todo = {}
        BY <1>3 DEF LookaheadDone, answerVars
  <2>2. UNCHANGED searchVars /\ UNCHANGED answerVars
        BY <1>3 DEF LookaheadDone
  <2>3. phase' \in {"queue", "relax", "endRound"}
        BY <2>1 DEF Typed, TypeOK
  <2> QED BY <2>1, <2>2, <2>3
          DEF searchVars, answerVars, Typed, TypeOK, Phases, Scanning, Falling, KnownRide
<1> QED BY <1>1, <1>2, <1>3

LEMMA TypedQueue ==
    ASSUME Typed, QueueLines
    PROVE  Typed'
<1>1. /\ UNCHANGED <<tt, query, best, arr, par, marked, frontier, todo, after, destRound,
                     cache, legs, at, served>>
      /\ round' = round + 1 /\ bestBefore' = best /\ nextMarked' = {} /\ scan' = IdleScan
      /\ phase' = "scan" /\ phase = "queue" /\ round < Rounds
      BY DEF QueueLines, answerVars
<1>2. TypeOK /\ round' \in 0..Rounds /\ round' > 0
      BY <1>1, Constants DEF Typed, TypeOK
<1>3. Falling'
  <2> SUFFICES ASSUME NEW s \in Stops PROVE best'[s] <= bestBefore'[s]
      BY DEF Falling
  <2>1. best[s] \in Int
        BY <1>2, Constants DEF TypeOK
  <2> QED BY <1>1, <2>1
<1>4. ASSUME NEW l \in LinesOf(tt), queue'[l] # 0
      PROVE  l \in query.allowed /\ queue'[l] \in DOMAIN tt.path[l]
  <2>1. l \in query.allowed /\ MarkedPositions(l) # {} /\ queue'[l] = MinOf(MarkedPositions(l))
        BY <1>4 DEF QueueLines, QueuedPosition
  <2>2. MarkedPositions(l) \subseteq DOMAIN tt.path[l]
        BY DEF MarkedPositions
  <2>3. MarkedPositions(l) \in SUBSET Int /\ \A p \in MarkedPositions(l) : 1 <= p
        BY <1>2, <2>2, KnownPath
  <2>4. MinOf(MarkedPositions(l)) \in MarkedPositions(l)
        BY <2>1, <2>3, LeastOf
  <2> QED BY <2>1, <2>2, <2>4
<1>5. Scanning'
  <2>1. DOMAIN queue' = LinesOf(tt)
        BY DEF QueueLines
  <2> QED BY <1>1, <1>4, <2>1 DEF Scanning, IdleScan, LinesOf
<1>6. TypeOK'
      BY <1>1, <1>2 DEF TypeOK, Phases, KnownRide
<1> QED BY <1>3, <1>5, <1>6 DEF Typed

LEMMA TypedLine ==
    ASSUME Typed, BeginLine \/ EndLine \/ ScanDone
    PROVE  Typed'
<1>1. CASE BeginLine
  <2>1. PICK l \in LinesOf(tt) : /\ queue[l] > 0
                                 /\ scan' = [IdleScan EXCEPT !.line = l, !.pos = queue[l]]
                                 /\ queue' = [queue EXCEPT ![l] = 0]
        BY <1>1 DEF BeginLine
  <2>2. /\ UNCHANGED <<tt, query, phase, round, best, bestBefore, arr, par, marked, nextMarked,
                       frontier, todo, after, destRound, cache, legs, at, served>>
        /\ phase = "scan"
        BY <1>1 DEF BeginLine, answerVars
  <2>3. TypeOK' /\ Falling'
        BY <2>2 DEF Typed, TypeOK, Falling, KnownRide, FilterActive, Exact
  <2>4. l \in query.allowed /\ queue[l] \in DOMAIN tt.path[l] /\ l \in Nat \ {0}
        BY <2>1, <2>2, KnownPath DEF Typed, Scanning
  <2>5. queue[l] \in 1..(Len(tt.path[l]) + 1)
        BY <2>4, KnownPath DEF Typed
  <2>6. /\ scan'.line = l /\ scan'.pos = queue[l] /\ scan'.trip = NoTrip /\ scan'.chunk = 0
        BY <2>1 DEF IdleScan
  <2>7. ASSUME NEW m \in LinesOf(tt), queue'[m] # 0 PROVE m \in query.allowed /\ queue'[m] \in DOMAIN tt.path[m]
    <3>1. queue'[m] = queue[m]
          BY <2>1, <2>7
    <3> QED BY <2>2, <2>7, <3>1 DEF Typed, Scanning
  <2>8. DOMAIN queue' = LinesOf(tt)
        BY <2>1, <2>2 DEF Typed, Scanning
  <2>9. Scanning'
        BY <2>2, <2>4, <2>5, <2>6, <2>7, <2>8 DEF Scanning, Aboard, InChunk, Path, LinesOf
  <2> QED BY <2>3, <2>9 DEF Typed
<1>2. CASE EndLine
  <2>1. /\ UNCHANGED <<tt, query, phase, round, best, bestBefore, arr, par, marked, nextMarked,
                       frontier, todo, after, queue, destRound, cache, legs, at, served>>
        /\ scan'.line = 0
        BY <1>2 DEF EndLine, answerVars, IdleScan
  <2>2. TypeOK' /\ Falling'
        BY <2>1 DEF Typed, TypeOK, Falling, KnownRide, FilterActive, Exact
  <2> QED BY <2>1, <2>2 DEF Typed, Scanning
<1>3. CASE ScanDone
  <2>1. /\ UNCHANGED <<tt, query, round, best, bestBefore, arr, par, marked, nextMarked,
                       todo, queue, scan, destRound, cache, legs, at, served>>
        /\ phase' = "egress" /\ after' = "relax" /\ frontier' = nextMarked /\ phase = "scan"
        BY <1>3 DEF ScanDone, answerVars
  <2> QED BY <2>1 DEF Typed, TypeOK, Falling, KnownRide, Scanning, Phases
<1> QED BY <1>1, <1>2, <1>3

LEMMA TypedScan ==
    ASSUME Typed, ScanPosition
    PROVE  Typed'
<1>1. /\ UNCHANGED <<tt, query, phase, round, bestBefore, marked, frontier, todo, after, queue,
                     destRound, cache, legs, at, served>>
      /\ phase = "scan" /\ scan.line # 0 /\ scan.pos <= Len(Path)
      BY DEF ScanPosition, answerVars
<1>2. scan.pos \in DOMAIN Path
      BY ScanRecords
<1>3. PICK I, time, parent :
                 /\ I \in SUBSET {Path[scan.pos]}
                 /\ Recorded(round, [s \in Stops |-> time], [s \in Stops |-> parent], I)
                 /\ nextMarked' = nextMarked \union I
      BY ScanRecords
<1>4. PICK bound \in Int :
                 /\ bound <= best[query.to]
                 /\ LET inChunk == scan.chunk > 0 \/ ChunkBegins
                        boarding == IF inChunk THEN {} ELSE Boarding(bound)
                    IN  scan' = [line    |-> scan.line,
                                 pos     |-> scan.pos + 1,
                                 trip    |-> IF boarding = {} THEN scan.trip ELSE CHOOSE t \in boarding : TRUE,
                                 boarded |-> IF boarding = {} THEN scan.boarded ELSE scan.pos,
                                 chunk   |-> IF scan.chunk > 0 THEN scan.chunk - 1
                                             ELSE IF inChunk THEN SvrtWidth - 1 ELSE 0]
      BY ScanRecords
<1>5. TypeOK' /\ Falling'
  <2>1. nextMarked' \subseteq Stops
        BY <1>3 DEF Typed, TypeOK, Recorded
  <2>2. FilterActive' = FilterActive /\ Exact' = Exact
        BY <1>1 DEF FilterActive, Exact
  <2> QED BY <1>1, <1>3, <2>1, <2>2, RecordedTyped DEF Typed, TypeOK
<1>6. /\ scan.line \in query.allowed /\ scan.line \in LinesOf(tt)
      /\ scan.pos \in 1..(Len(Path) + 1) /\ scan.chunk \in Nat /\ Aboard /\ InChunk
      /\ Len(Path) \in Nat /\ DOMAIN Path = 1..Len(Path)
  <2>1. /\ scan.line \in query.allowed
        /\ scan.pos \in 1..(Len(Path) + 1) /\ scan.chunk \in Nat /\ Aboard /\ InChunk
        BY <1>1 DEF Typed, Scanning
  <2>2. scan.line \in LinesOf(tt)
        BY <1>1, <2>1, Serving DEF Typed
  <2> QED BY <2>1, <2>2, KnownPath DEF Typed, Path
<1> DEFINE inChunk == scan.chunk > 0 \/ ChunkBegins
           boarding == IF inChunk THEN {} ELSE Boarding(bound)
<1>7. /\ scan'.line = scan.line /\ scan'.pos = scan.pos + 1
      /\ scan'.trip = IF boarding = {} THEN scan.trip ELSE CHOOSE t \in boarding : TRUE
      /\ scan'.boarded = IF boarding = {} THEN scan.boarded ELSE scan.pos
      /\ scan'.chunk = IF scan.chunk > 0 THEN scan.chunk - 1
                       ELSE IF inChunk THEN SvrtWidth - 1 ELSE 0
      BY <1>4
<1>8. Path' = Path
      BY <1>1, <1>7 DEF Path
<1>9. inChunk => boarding = {}
      OBVIOUS
<1> HIDE DEF inChunk
<1>10. ASSUME boarding # {}
       PROVE  scan'.trip \in Boarding(bound)
  <2>1. (CHOOSE t \in boarding : TRUE) \in boarding /\ boarding = Boarding(bound)
        BY <1>9, <1>10
  <2> HIDE DEF boarding
  <2> QED BY <1>7, <1>10, <2>1
<1> HIDE DEF boarding
<1>11. Aboard'
  <2> SUFFICES ASSUME scan'.trip # NoTrip
               PROVE  /\ scan'.boarded \in 1..(scan'.pos - 1)
                      /\ scan'.trip \in tt.trips[scan.line] \intersect tt.available
                      /\ ~Skipped(tt, scan'.trip, scan'.boarded)
                      /\ Path[scan'.boarded] # query.to
      BY <1>1, <1>7, <1>8 DEF Aboard, Skipped
  <2>1. CASE boarding = {}
    <3>1. scan'.trip = scan.trip /\ scan'.boarded = scan.boarded
          BY <1>7, <2>1
    <3>2. scan.boarded \in 1..(scan.pos - 1)
          BY <1>6, <3>1 DEF Aboard
    <3>3. scan'.boarded \in 1..(scan'.pos - 1)
          BY <1>6, <1>7, <3>1, <3>2
    <3> QED BY <1>6, <3>1, <3>3 DEF Aboard
  <2>2. CASE boarding # {}
    <3>1. scan'.boarded = scan.pos /\ scan'.trip \in Boarding(bound)
          BY <1>7, <1>10, <2>2
    <3>2. /\ scan'.trip \in tt.trips[scan.line] \intersect tt.available
          /\ ~Skipped(tt, scan'.trip, scan.pos)
          /\ Path[scan.pos] # query.to
          BY <1>1, <1>2, <1>4, <3>1, BoardingKnown
    <3>3. scan.pos \in 1..(scan'.pos - 1)
          BY <1>6, <1>7
    <3> QED BY <3>1, <3>2, <3>3
  <2> QED BY <2>1, <2>2
<1>12. scan'.chunk \in Nat
       BY <1>6, <1>7, Constants
<1>13. InChunk'
  <2> SUFFICES ASSUME scan'.chunk > 0
               PROVE  /\ scan'.trip # NoTrip
                      /\ ~Updated(tt, scan'.trip)
                      /\ scan'.pos + scan'.chunk <= Len(Path) + 1
                      /\ \A i \in scan'.pos..(scan'.pos + scan'.chunk - 1) :
                            bestBefore[Path[i]] >= SchedDep(tt, scan'.trip, i)
      BY <1>1, <1>8 DEF InChunk, Updated, SchedDep, Skipped
  <2>0. inChunk
        BY <1>6, <1>7 DEF inChunk
  <2>1. scan'.trip = scan.trip
        BY <1>7, <1>9, <2>0
  <2>2. CASE scan.chunk > 0
    <3>1. scan'.pos = scan.pos + 1 /\ scan'.chunk = scan.chunk - 1
          BY <1>7, <2>2
    <3>2. /\ scan.trip # NoTrip /\ ~Updated(tt, scan.trip)
          /\ scan.pos + scan.chunk <= Len(Path) + 1
          /\ \A i \in scan.pos..(scan.pos + scan.chunk - 1) :
                bestBefore[Path[i]] >= SchedDep(tt, scan.trip, i)
          BY <1>6, <2>2 DEF InChunk
    <3>3. /\ scan.pos \in Int /\ scan.chunk \in Int
          BY <1>6
    <3>4. scan'.pos + scan'.chunk = scan.pos + scan.chunk
          BY <3>1, <3>3
    <3>5. scan'.pos..(scan'.pos + scan'.chunk - 1) \subseteq scan.pos..(scan.pos + scan.chunk - 1)
          BY <3>1, <3>3
    <3> QED BY <2>1, <3>2, <3>4, <3>5
  <2>3. CASE scan.chunk = 0
    <3>1. ChunkBegins
          BY <2>0, <2>3 DEF inChunk
    <3>2. scan'.pos = scan.pos + 1 /\ scan'.chunk = SvrtWidth - 1
          BY <1>7, <2>0, <2>3
    <3>3. /\ scan.trip # NoTrip /\ ~Updated(tt, scan.trip)
          /\ Len(Path) - scan.pos + 1 >= SvrtWidth
          /\ \A i \in scan.pos..(scan.pos + SvrtWidth - 1) :
                bestBefore[Path[i]] >= SchedDep(tt, scan.trip, i)
          BY <3>1 DEF ChunkBegins, NoCatchUp, Path
    <3>4. scan.pos \in Int /\ SvrtWidth \in Int /\ Len(Path) \in Int
          BY <1>6, Constants
    <3>5. scan'.pos + scan'.chunk <= Len(Path) + 1
          BY <3>2, <3>3, <3>4
    <3>6. scan'.pos..(scan'.pos + scan'.chunk - 1) \subseteq scan.pos..(scan.pos + SvrtWidth - 1)
          BY <3>2, <3>4
    <3> QED BY <2>1, <3>3, <3>5, <3>6
  <2> QED BY <1>6, <2>2, <2>3
<1>14. scan'.pos \in 1..(Len(Path) + 1)
       BY <1>1, <1>6, <1>7
<1>15. Scanning'
       BY <1>1, <1>6, <1>7, <1>8, <1>11, <1>12, <1>13, <1>14 DEF Typed, Scanning, LinesOf
<1> QED BY <1>5, <1>15 DEF Typed

LEMMA TypedRound ==
    ASSUME Typed, RelaxTransfers \/ EndRound
    PROVE  Typed'
<1>1. CASE RelaxTransfers
  <2>1. PICK I, time, parent :
              /\ I \in SUBSET Stops
              /\ Recorded(round, time, parent, I)
              /\ nextMarked' = nextMarked \union I
              /\ frontier' = I \ nextMarked
        BY <1>1, RelaxRecords
  <2>2. /\ UNCHANGED <<tt, query, round, bestBefore, marked, todo, destRound,
                       cache, legs, at, served>>
        /\ after' = "endRound" /\ phase' = "egress" /\ phase = "relax"
        BY <1>1 DEF RelaxTransfers, answerVars
  <2> QED BY <2>1, <2>2, RecordedTyped DEF Typed, TypeOK, Phases, Scanning
<1>2. CASE EndRound
  <2>1. /\ UNCHANGED <<tt, query, round, best, bestBefore, arr, par, nextMarked, frontier, todo,
                       after, queue, scan, cache, legs, at, served>>
        /\ marked' = nextMarked /\ phase' = "queue" /\ phase = "endRound"
        BY <1>2 DEF EndRound, answerVars
  <2>2. destRound' \in 0..None
        BY <1>2, Constants DEF EndRound, ReachedIn, Typed, TypeOK
  <2> QED BY <2>1, <2>2 DEF Typed, TypeOK, Falling, KnownRide, Scanning, Phases
<1> QED BY <1>1, <1>2

\* The place the reconstruction stands at, and how it was reached.
LEMMA ParentKnown ==
    ASSUME Typed, phase = "rebuild"
    PROVE  /\ at[1] \in Stops /\ at[2] \in 0..Rounds
           /\ at = <<at[1], at[2]>>
           /\ Parent \in ParentSteps
           /\ KnownRide(Parent)
           /\ arr[at[2]][at[1]] \in Times
BY DEF Typed, TypeOK, Parent

\* Steps that touch neither the search nor the profiles.
LEMMA TypedFrame ==
    ASSUME Typed, UNCHANGED <<tt, query, searchVars, cache, served>>,
           phase' \in {"idle", "rebuild", "failed"}, phase # "idle" \/ phase' = "idle",
           legs' \in Seq(Leg),
           phase' = "rebuild" => destRound # None /\ at' \in Stops \X (0..Rounds)
    PROVE  Typed'
BY DEF searchVars, Typed, TypeOK, Falling, KnownRide, Scanning, Phases, FilterActive, Exact

LEMMA TypedRebuild ==
    ASSUME Typed, RebuildWalk \/ RebuildRide \/ RebuildMemo
    PROVE  Typed'
<1>1. /\ phase = "rebuild" /\ phase' = "rebuild" /\ destRound # None
      /\ UNCHANGED <<tt, query, searchVars, cache, served>>
      BY DEF RebuildWalk, RebuildRide, RebuildMemo, Typed, TypeOK
<1>2. /\ at[1] \in Stops /\ at[2] \in 0..Rounds /\ Parent \in ParentSteps
      /\ KnownRide(Parent) /\ arr[at[2]][at[1]] \in Times /\ legs \in Seq(Leg) /\ TypeOK
      BY <1>1, ParentKnown DEF Typed, TypeOK
<1> SUFFICES legs' \in Seq(Leg) /\ at' \in Stops \X (0..Rounds)
    BY <1>1, TypedFrame
<1>3. CASE RebuildWalk
  <2>1. Parent.from \in Stops /\ Parent.secs \in Nat
        BY <1>2, <1>3, ParentKinds DEF RebuildWalk
  <2>2. arr[at[2]][at[1]] - Parent.secs \in Int
    <3>1. arr[at[2]][at[1]] \in Int
          BY <1>2, Constants, Zenon
    <3> QED BY <2>1, <3>1
  <2> DEFINE leg == [from |-> Parent.from, to |-> at[1], trip |-> NoTrip,
                     dep |-> arr[at[2]][at[1]] - Parent.secs, arr |-> arr[at[2]][at[1]]]
  <2>3. leg \in Leg
        BY <1>2, <2>1, <2>2 DEF Leg, NoTrip
  <2>4. legs' = <<leg>> \o legs /\ at' = <<Parent.from, at[2]>>
        BY <1>3 DEF RebuildWalk
  <2> HIDE DEF leg
  <2> QED BY <1>2, <2>1, <2>3, <2>4
<1>4. CASE RebuildRide
  <2>1. /\ Parent.line \in LinesOf(tt)
        /\ Parent.trip \in tt.trips[Parent.line]
        /\ Parent.board \in DOMAIN tt.path[Parent.line]
        /\ Parent.alight \in DOMAIN tt.path[Parent.line]
        BY <1>2, <1>4 DEF RebuildRide, KnownRide
  <2> DEFINE from == tt.path[Parent.line][Parent.board]
             to == tt.path[Parent.line][Parent.alight]
  <2>2. /\ from \in Stops /\ to \in Stops /\ Parent.trip \in Nat
        /\ Dep(tt, Parent.trip, Parent.board) \in Int
        /\ arr[at[2]][to] \in Times
    <3>1. from \in Stops /\ to \in Stops /\ Parent.trip \in Nat
          BY <1>2, <2>1, KnownPath
    <3>2. Dep(tt, Parent.trip, Parent.board) \in Times
          BY <1>2, <2>1, KnownPath
    <3>3. arr[at[2]][to] \in Times
          BY <1>2, <3>1 DEF TypeOK
    <3> QED BY <3>1, <3>2, <3>3, Constants, Zenon
  <2> DEFINE leg == [from |-> from, to |-> to, trip |-> Parent.trip,
                     dep |-> Dep(tt, Parent.trip, Parent.board), arr |-> arr[at[2]][to]]
  <2>3. leg \in Leg
        BY <2>2 DEF Leg
  <2>4. legs' = <<leg>> \o legs /\ at' = <<from, IF at[2] = 0 THEN 0 ELSE at[2] - 1>>
        BY <1>4 DEF RebuildRide
  <2>5. (IF at[2] = 0 THEN 0 ELSE at[2] - 1) \in 0..Rounds
        BY <1>2, Constants
  <2> HIDE DEF leg, from
  <2> QED BY <1>2, <2>2, <2>3, <2>4, <2>5
<1>5. CASE RebuildMemo
  <2>1. Parent.from \in Stops /\ Parent.round \in 0..Rounds /\ Parent.legs \in Seq(Leg)
        BY <1>2, <1>5, ParentKinds DEF RebuildMemo, Legs
  <2>2. legs' = Parent.legs \o legs /\ at' = <<Parent.from, Parent.round>>
        BY <1>5 DEF RebuildMemo
  <2> QED BY <1>2, <2>1, <2>2
<1> QED BY <1>3, <1>4, <1>5

\* A profile is made for suffixes of the answer.
LEMMA Inserted ==
    ASSUME Typed, Respond
    PROVE  \A p \in cache' \ cache :
              /\ ~FilterActive /\ Exact
              /\ \E i \in 1..Len(legs) :
                    /\ query.access = {} \/ legs[i].from # query.from
                    /\ p = [stop |-> legs[i].from, to |-> query.to,
                            ready |-> legs[i].dep, arrival |-> legs[Len(legs)].arr,
                            legs |-> SubSeq(legs, i, Len(legs))]
<1>1. legs \in Seq(Leg) /\ DOMAIN legs = 1..Len(legs)
      BY DEF Typed, TypeOK
<1> QED BY <1>1 DEF Respond

LEMMA TypedAnswer ==
    ASSUME Typed,
           NoItinerary \/ BeginRebuild \/ RebuildFails \/ Respond \/ RestartAfterFailure
    PROVE  Typed'
<1>1. CASE NoItinerary \/ RebuildFails \/ RestartAfterFailure
  <2>1. /\ UNCHANGED <<tt, query, searchVars, cache, served, legs>>
        /\ phase' \in {"idle", "failed"} /\ (phase = "idle" => phase' = "idle")
        BY <1>1 DEF NoItinerary, RebuildFails, RestartAfterFailure, answerVars
  <2>2. legs' \in Seq(Leg)
        BY <2>1 DEF Typed, TypeOK
  <2> QED BY <2>1, <2>2, TypedFrame
<1>2. CASE BeginRebuild
  <2>1. /\ UNCHANGED <<tt, query, searchVars, cache, served, legs>>
        /\ phase' = "rebuild" /\ phase = "queue" /\ destRound # None
        /\ at' = <<query.to, destRound>>
        BY <1>2 DEF BeginRebuild, SearchDone
  <2>2. legs' \in Seq(Leg)
        BY <2>1 DEF Typed, TypeOK
  <2>3. at' \in Stops \X (0..Rounds)
    <3>1. query.to \in Stops
          BY <2>1, Serving DEF Typed
    <3>2. destRound \in 0..Rounds
          BY <2>1, Constants DEF Typed, TypeOK
    <3> QED BY <2>1, <3>1, <3>2
  <2> QED BY <2>1, <2>2, <2>3, TypedFrame
<1>3. CASE Respond
  <2>1. /\ UNCHANGED <<tt, query, searchVars, served, legs>>
        /\ phase' = "idle" /\ phase = "rebuild"
        BY <1>3 DEF Respond
  <2>2. query.to \in Stops /\ legs \in Seq(Leg)
        BY <2>1, Serving DEF Typed, TypeOK
  <2>3. ASSUME NEW p \in cache' \ cache PROVE p \in Points
    <3>1. PICK i \in 1..Len(legs) :
              p = [stop |-> legs[i].from, to |-> query.to,
                   ready |-> legs[i].dep, arrival |-> legs[Len(legs)].arr,
                   legs |-> SubSeq(legs, i, Len(legs))]
          BY <1>3, <2>3, Inserted
    <3>2. SubSeq(legs, i, Len(legs)) \in Legs
          BY <2>2, SuffixLegs
    <3>3. legs[i] \in Leg /\ legs[Len(legs)] \in Leg
          BY <2>2
    <3>4. legs[i].from \in Stops /\ legs[i].dep \in Int /\ legs[Len(legs)].arr \in Times
          BY <3>3 DEF Leg
    <3> QED BY <2>2, <3>1, <3>2, <3>4 DEF Points
  <2>4. cache' \subseteq Points
        BY <2>3 DEF Typed, TypeOK
  <2> QED BY <2>1, <2>2, <2>4 DEF searchVars, Typed, TypeOK, Falling, KnownRide, Scanning, Phases
<1> QED BY <1>1, <1>2, <1>3

LEMMA TypedStep == Typed /\ [Next]_vars => Typed'
<1> SUFFICES ASSUME Typed, [Next]_vars PROVE Typed'
    OBVIOUS
<1>1. ASSUME NEW q \in Requests(tt), Start(q) PROVE Typed'
      BY <1>1, TypedStart
<1>2. CASE SearchStep
      BY <1>2, TypedSeeds, TypedLookahead, TypedQueue, TypedLine, TypedScan, TypedRound DEF SearchStep
<1>3. CASE AnswerStep
      BY <1>3, TypedRebuild, TypedAnswer DEF AnswerStep
<1>4. CASE UNCHANGED vars
      BY <1>4 DEF vars, searchVars, answerVars, Typed, TypeOK, Falling, KnownRide, Scanning, Aboard,
                  InChunk, Path, FilterActive, Exact
<1> QED BY <1>1, <1>2, <1>3, <1>4 DEF Next

\* The labels, parents, marks, queue, scan and profiles of the search keep their
\* types, and whatever is on board was boarded at a stop of its line.
THEOREM SearchTyped == Spec => []Typed
<1> QED BY TypedInit, TypedStep, PTL DEF Spec

----------------------------------------------------------------------------
(* The temporal index, and SVRT.                                            *)

\* ChronosExact: on a timetable without early trips, find_earliest_trip finds a
\* trip whenever the linear scan of the line would, leaving at the same time.
THEOREM IndexIsExact == Spec => []ChronosExact
<1>1. Typed => ChronosExact
  <2> SUFFICES ASSUME Typed, NoneEarly(tt), phase = "scan", scan.line # 0, scan.pos <= Len(Path)
               PROVE  LET readyAt == bestBefore[Path[scan.pos]]
                          linear == {t \in tt.trips[scan.line] \intersect tt.available :
                              ~Skipped(tt, t, scan.pos) /\ Dep(tt, t, scan.pos) >= readyAt}
                      IN  {Dep(tt, t, scan.pos) : t \in FindEarliestTrip(tt, scan.line, scan.pos, readyAt)}
                             = {d \in {Dep(tt, t, scan.pos) : t \in linear} :
                                  \A t \in linear : d <= Dep(tt, t, scan.pos)}
      BY DEF ChronosExact
  <2>1. /\ WellFormed(tt) /\ scan.line \in LinesOf(tt)
        /\ scan.pos \in DOMAIN tt.path[scan.line]
        /\ bestBefore[Path[scan.pos]] \in Int
    <3>1. /\ scan.line \in LinesOf(tt) /\ WellFormed(tt) /\ TypeOK /\ round > 0
          /\ scan.pos \in 1..(Len(Path) + 1)
          BY Serving DEF Typed, TypeOK, Scanning
    <3>2. /\ Len(Path) \in Nat /\ DOMAIN Path = 1..Len(Path)
          /\ \A p \in DOMAIN Path : Path[p] \in Stops
          BY <3>1, KnownPath DEF Path
    <3>3. scan.pos \in DOMAIN Path
          BY <3>1, <3>2
    <3>4. bestBefore[Path[scan.pos]] \in Times
          BY <3>1, <3>2, <3>3 DEF TypeOK
    <3> QED BY <3>1, <3>3, <3>4, Constants, Zenon DEF Path
  <2>2. FindsFirst(tt, scan.line, scan.pos, bestBefore[Path[scan.pos]])
        BY <2>1, IndexIsScan
  <2> QED BY <2>2 DEF FindsFirst
<1> QED BY <1>1, SearchTyped, PTL

\* The boarding test of a position inside a chunk would find no trip.
LEMMA ChunksSkipNothing == Typed => SvrtSkipsNothing
<1> SUFFICES ASSUME Typed, NoneEarly(tt), phase = "scan", scan.line # 0, scan.pos <= Len(Path),
                    scan.chunk > 0 \/ ChunkBegins,
                    NEW t \in Boarding(best[query.to])
             PROVE  FALSE
    BY DEF SvrtSkipsNothing
<1>1. /\ scan.line \in LinesOf(tt) /\ TypeOK /\ round > 0 /\ query.to \in Stops
      /\ scan.pos \in 1..(Len(Path) + 1) /\ Aboard /\ InChunk /\ scan.chunk \in Nat
      BY Serving DEF Typed, TypeOK, Scanning
<1>2. /\ Len(Path) \in Nat /\ DOMAIN Path = 1..Len(Path)
      /\ \A p \in DOMAIN Path : Path[p] \in Stops
      BY <1>1, KnownPath DEF Path
<1>3. scan.pos \in DOMAIN Path
      BY <1>1, <1>2
<1>4. /\ scan.trip # NoTrip
      /\ ~Updated(tt, scan.trip)
      /\ bestBefore[Path[scan.pos]] >= SchedDep(tt, scan.trip, scan.pos)
  <2>1. CASE scan.chunk > 0
    <3>1. scan.pos \in scan.pos..(scan.pos + scan.chunk - 1)
          BY <1>1, <2>1
    <3> QED BY <1>1, <2>1, <3>1 DEF InChunk
  <2>2. CASE ChunkBegins
    <3>1. scan.pos \in scan.pos..(scan.pos + SvrtWidth - 1)
          BY <1>1, Constants
    <3> QED BY <2>2, <3>1 DEF ChunkBegins, NoCatchUp, Path
  <2> QED BY <2>1, <2>2
<1>5. Dep(tt, scan.trip, scan.pos) = SchedDep(tt, scan.trip, scan.pos)
      BY <1>4 DEF Updated, Dep, SchedDep
<1>6. best[query.to] \in Int /\ best[query.to] <= best[query.to]
  <2>1. best[query.to] \in Times
        BY <1>1 DEF TypeOK
  <2>2. best[query.to] \in Int
        BY <2>1, Constants, Zenon
  <2> QED BY <2>2
<1>7. /\ t \in tt.trips[scan.line]
      /\ bestBefore[Path[scan.pos]] <= Dep(tt, t, scan.pos)
      BY <1>3, <1>6, BoardingKnown
<1>8. Dep(tt, t, scan.pos) < Dep(tt, scan.trip, scan.pos)
      BY <1>4 DEF Boarding
<1>9. /\ Dep(tt, t, scan.pos) \in Int /\ Dep(tt, scan.trip, scan.pos) \in Int
      /\ bestBefore[Path[scan.pos]] \in Int
  <2>1. scan.trip \in tt.trips[scan.line]
        BY <1>1, <1>4 DEF Aboard
  <2>2. Dep(tt, t, scan.pos) \in Times /\ Dep(tt, scan.trip, scan.pos) \in Times
        BY <1>1, <1>3, <1>7, <2>1, KnownPath DEF Path
  <2>3. bestBefore[Path[scan.pos]] \in Times
        BY <1>1, <1>2, <1>3 DEF TypeOK
  <2> QED BY <2>2, <2>3, Constants, Zenon
<1> QED BY <1>4, <1>5, <1>7, <1>8, <1>9

\* SvrtSkipsNothing: on a timetable without early trips, the boarding test of a
\* position inside a chunk, had it been made, would have found no trip that
\* leaves before the one on board.
THEOREM SvrtIsSound == Spec => []SvrtSkipsNothing
<1> QED BY ChunksSkipNothing, SearchTyped, PTL

----------------------------------------------------------------------------
(* Journeys.                                                                *)

\* Legs that follow one another in space and in time.
Chain(ls) ==
    /\ \A i \in 1..Len(ls) : ls[i].dep <= ls[i].arr
    /\ \A i \in 1..(Len(ls) - 1) : ls[i].to = ls[i + 1].from
    /\ \A i, j \in 1..Len(ls) : i < j => ls[i].arr <= ls[j].dep

\* They lead from stop s to stop d.
Journey(ls, s, d) ==
    /\ ls \in Legs
    /\ Chain(ls)
    /\ ls[1].from = s
    /\ ls[Len(ls)].to = d

LEMMA LegsKnown ==
    ASSUME NEW ls \in Legs
    PROVE  /\ ls \in Seq(Leg) /\ Len(ls) \in Nat /\ Len(ls) >= 1 /\ DOMAIN ls = 1..Len(ls)
           /\ 1 \in 1..Len(ls) /\ Len(ls) \in 1..Len(ls)
           /\ \A i \in 1..Len(ls) :
                 /\ ls[i] \in Leg
                 /\ ls[i].from \in Stops /\ ls[i].to \in Stops /\ ls[i].trip \in Nat
                 /\ ls[i].dep \in Int /\ ls[i].arr \in Int /\ ls[i].arr \in Times
<1>1. ls \in Seq(Leg) /\ Len(ls) \in Nat /\ DOMAIN ls = 1..Len(ls) /\ ls # <<>>
      BY DEF Legs
<1>2. Len(ls) >= 1
  <2>1. Len(ls) # 0
        BY <1>1
  <2> QED BY <1>1, <2>1
<1>3. 1 \in 1..Len(ls) /\ Len(ls) \in 1..Len(ls)
      BY <1>1, <1>2
<1>4. ASSUME NEW i \in 1..Len(ls)
      PROVE  /\ ls[i] \in Leg
             /\ ls[i].from \in Stops /\ ls[i].to \in Stops /\ ls[i].trip \in Nat
             /\ ls[i].dep \in Int /\ ls[i].arr \in Int /\ ls[i].arr \in Times
  <2>1. ls[i] \in Leg
        BY <1>1
  <2>2. ls[i].from \in Stops /\ ls[i].to \in Stops /\ ls[i].trip \in Nat
        /\ ls[i].dep \in Int /\ ls[i].arr \in Times
        BY <2>1 DEF Leg
  <2> QED BY <2>1, <2>2, Constants, Zenon
<1> QED BY <1>1, <1>2, <1>3, <1>4

\* A journey arrives no earlier than it leaves, and so does any part of it.
LEMMA JourneyTakesTime ==
    ASSUME NEW ls, NEW s, NEW d, Journey(ls, s, d), NEW i \in 1..Len(ls), NEW j \in 1..Len(ls), i <= j
    PROVE  ls[i].dep <= ls[j].arr
<1>1. ls \in Legs /\ Chain(ls)
      BY DEF Journey
<1>2. /\ ls[i].dep \in Int /\ ls[i].arr \in Int /\ ls[j].dep \in Int /\ ls[j].arr \in Int
      BY <1>1, LegsKnown
<1>3. ls[i].dep <= ls[i].arr /\ ls[j].dep <= ls[j].arr
      BY <1>1 DEF Chain
<1>4. i < j => ls[i].arr <= ls[j].dep
      BY <1>1 DEF Chain
<1>5. CASE i < j
      BY <1>2, <1>3, <1>4, <1>5
<1>6. CASE i = j
      BY <1>3, <1>6
<1>7. i \in Int /\ j \in Int
      OBVIOUS
<1> QED BY <1>5, <1>6, <1>7

\* One leg is a journey.
LEMMA OneLeg ==
    ASSUME NEW leg \in Leg, leg.dep <= leg.arr
    PROVE  Journey(<<leg>>, leg.from, leg.to)
<1> DEFINE ls == <<leg>>
<1>1. ls \in Seq(Leg) /\ Len(ls) = 1 /\ ls[1] = leg
      OBVIOUS
<1>2. ls \in Legs
      BY <1>1 DEF Legs
<1>3. \A i \in 1..Len(ls) : i = 1
      BY <1>1
<1> HIDE DEF ls
<1>4. Chain(ls)
  <2>1. \A i \in 1..Len(ls) : ls[i].dep <= ls[i].arr
        BY <1>1, <1>3
  <2>2. 1..(Len(ls) - 1) = {}
        BY <1>1
  <2>3. \A i, j \in 1..Len(ls) : ~(i < j)
        BY <1>1
  <2> QED BY <2>1, <2>2, <2>3 DEF Chain
<1>5. Journey(ls, leg.from, leg.to)
      BY <1>1, <1>2, <1>4 DEF Journey
<1> QED BY <1>5 DEF ls

\* c leads from s to d by the legs of a, then those of b.
Joins(c, a, b, s, d) ==
    /\ Journey(c, s, d)
    /\ c[1] = a[1]
    /\ c[Len(c)] = b[Len(b)]
    /\ \A i \in 1..Len(c) : \/ i \in 1..Len(a) /\ c[i] = a[i]
                            \/ \E j \in 1..Len(b) : i = Len(a) + j /\ c[i] = b[j]

\* Two journeys, the second leaving where and no earlier than the first arrives.
LEMMA JoinedJourneys ==
    ASSUME NEW a, NEW b, NEW s, NEW m, NEW d, Journey(a, s, m), Journey(b, m, d),
           a[Len(a)].arr <= b[1].dep
    PROVE  Joins(a \o b, a, b, s, d)
<1> DEFINE c == a \o b
           n == Len(a)
           o == Len(b)
<1>1. a \in Legs /\ b \in Legs /\ Chain(a) /\ Chain(b) /\ a[n].to = b[1].from
      BY DEF Journey
<1>2. a \in Seq(Leg) /\ b \in Seq(Leg) /\ n \in Nat /\ o \in Nat /\ n >= 1 /\ o >= 1
      BY <1>1, LegsKnown
<1>3. /\ c \in Seq(Leg) /\ Len(c) = n + o
      /\ \A i \in 1..n : c[i] = a[i]
      /\ \A i \in 1..o : c[n + i] = b[i]
      BY <1>2, JoinedLegs
<1> HIDE DEF c, n, o
<1>4. \A i \in 1..Len(c) : \/ i \in 1..n /\ c[i] = a[i]
                           \/ \E j \in 1..o : i = n + j /\ c[i] = b[j]
  <2> SUFFICES ASSUME NEW i \in 1..Len(c), i \notin 1..n
               PROVE  \E j \in 1..o : i = n + j /\ c[i] = b[j]
      BY <1>3
  <2>1. i - n \in 1..o /\ i = n + (i - n)
        BY <1>2, <1>3
  <2> QED BY <1>3, <2>1
<1>5. c[1] = a[1] /\ c[Len(c)] = b[o]
      BY <1>2, <1>3
<1>6. c \in Legs
  <2>1. Len(c) # 0
        BY <1>2, <1>3
  <2>2. c # <<>>
        BY <2>1
  <2> QED BY <1>3, <2>2 DEF Legs
<1>7. \A i \in 1..Len(c) : c[i].dep <= c[i].arr
      BY <1>1, <1>4 DEF Chain, n, o
<1>8. ASSUME NEW i \in 1..(Len(c) - 1) PROVE c[i].to = c[i + 1].from
  <2>1. CASE i < n
    <3>1. i \in 1..(n - 1) /\ i \in 1..n /\ i + 1 \in 1..n
          BY <1>2, <1>3, <2>1
    <3> QED BY <1>1, <1>3, <3>1 DEF Chain, n
  <2>2. CASE i = n
    <3>1. i \in 1..n /\ i + 1 = n + 1 /\ 1 \in 1..o
          BY <1>2, <2>2
    <3> QED BY <1>1, <1>3, <2>2, <3>1
  <2>3. CASE i > n
    <3> DEFINE j == i - n
    <3>1. j \in 1..(o - 1) /\ j \in 1..o /\ j + 1 \in 1..o /\ i = n + j /\ i + 1 = n + (j + 1)
          BY <1>2, <1>3, <2>3
    <3> HIDE DEF j
    <3> QED BY <1>1, <1>3, <3>1 DEF Chain, o
  <2> QED BY <1>2, <2>1, <2>2, <2>3
<1>9. ASSUME NEW i \in 1..Len(c), NEW j \in 1..Len(c), i < j PROVE c[i].arr <= c[j].dep
  <2>1. CASE i \in 1..n /\ j \in 1..n
        BY <1>1, <1>3, <1>9, <2>1 DEF Chain, n
  <2>2. CASE i \in 1..n /\ j \notin 1..n
    <3>1. PICK k \in 1..o : j = n + k /\ c[j] = b[k]
          BY <1>4, <2>2
    <3>2. c[i] = a[i] /\ n \in 1..n /\ 1 \in 1..o
          BY <1>2, <1>3, <2>2
    <3>3. /\ a[i].arr \in Int /\ a[n].arr \in Int /\ a[n].dep \in Int
          /\ b[1].dep \in Int /\ b[1].arr \in Int /\ b[k].dep \in Int
          BY <1>1, <2>2, <3>1, <3>2, LegsKnown DEF n, o
    <3>4. a[i].arr <= a[n].arr
      <4>1. CASE i = n
            BY <3>3, <4>1
      <4>2. CASE i < n
        <5>1. a[i].arr <= a[n].dep /\ a[n].dep <= a[n].arr
              BY <1>1, <2>2, <3>2, <4>2 DEF Chain, n
        <5> QED BY <3>3, <5>1
      <4> QED BY <1>2, <2>2, <4>1, <4>2
    <3>5. b[1].dep <= b[k].dep
      <4>1. CASE k = 1
            BY <3>3, <4>1
      <4>2. CASE 1 < k
        <5>1. b[1].dep <= b[1].arr /\ b[1].arr <= b[k].dep
              BY <1>1, <3>1, <3>2, <4>2 DEF Chain, o
        <5> QED BY <3>3, <5>1
      <4> QED BY <3>1, <4>1, <4>2
    <3>6. a[n].arr <= b[1].dep
          BY DEF n
    <3> QED BY <3>1, <3>2, <3>3, <3>4, <3>5, <3>6
  <2>3. CASE i \notin 1..n
    <3>1. PICK k \in 1..o : i = n + k /\ c[i] = b[k]
          BY <1>4, <2>3
    <3>2. PICK m2 \in 1..o : j = n + m2 /\ c[j] = b[m2]
      <4>1. j \notin 1..n
            BY <1>2, <1>3, <1>9, <2>3
      <4> QED BY <1>4, <4>1
    <3>3. k < m2
          BY <1>2, <1>9, <3>1, <3>2
    <3> QED BY <1>1, <3>1, <3>2, <3>3 DEF Chain, o
  <2> QED BY <2>1, <2>2, <2>3
<1>10. Journey(c, s, d)
  <2>1. a[1].from = s /\ b[o].to = d
        BY DEF Journey, o
  <2> QED BY <1>5, <1>6, <1>7, <1>8, <1>9, <2>1 DEF Journey, Chain
<1> QED BY <1>4, <1>5, <1>10 DEF c, n, o, Joins

\* Suffixes of a journey are journeys.
LEMMA SuffixJourney ==
    ASSUME NEW ls, NEW s, NEW d, Journey(ls, s, d), NEW i \in 1..Len(ls)
    PROVE  LET suffix == SubSeq(ls, i, Len(ls))
           IN  /\ Journey(suffix, ls[i].from, d)
               /\ suffix[1] = ls[i]
               /\ suffix[Len(suffix)] = ls[Len(ls)]
               /\ \A j \in 1..Len(suffix) : i + j - 1 \in i..Len(ls) /\ suffix[j] = ls[i + j - 1]
<1> DEFINE c == SubSeq(ls, i, Len(ls))
           n == Len(ls)
<1>1. ls \in Legs /\ Chain(ls) /\ ls[n].to = d /\ ls \in Seq(Leg) /\ n \in Nat
      BY LegsKnown DEF Journey
<1>2. c \in Legs /\ Len(c) = n - i + 1 /\ \A j \in 1..Len(c) : c[j] = ls[i + j - 1]
      BY <1>1, SuffixLegs
<1> HIDE DEF c, n
<1>3. i \in 1..n
      BY DEF n
<1>4. \A j \in 1..Len(c) : i + j - 1 \in i..n /\ i + j - 1 \in 1..n /\ c[j] = ls[i + j - 1]
      BY <1>1, <1>2, <1>3
<1>5. c[1] = ls[i] /\ c[Len(c)] = ls[n]
  <2>1. 1 \in 1..Len(c) /\ Len(c) \in 1..Len(c) /\ i + 1 - 1 = i /\ i + Len(c) - 1 = n
        BY <1>1, <1>2, <1>3
  <2>2. c[1] = ls[i + 1 - 1] /\ c[Len(c)] = ls[i + Len(c) - 1]
        BY <1>2, <2>1
  <2> QED BY <2>1, <2>2
<1>6. \A j \in 1..Len(c) : c[j].dep <= c[j].arr
      BY <1>1, <1>4 DEF Chain, n
<1>7. ASSUME NEW j \in 1..(Len(c) - 1) PROVE c[j].to = c[j + 1].from
  <2>1. /\ j \in 1..Len(c) /\ j + 1 \in 1..Len(c) /\ i + j - 1 \in 1..(n - 1)
        /\ i + (j + 1) - 1 = (i + j - 1) + 1
        BY <1>1, <1>2, <1>3
  <2>2. c[j] = ls[i + j - 1] /\ c[j + 1] = ls[(i + j - 1) + 1]
        BY <1>2, <2>1
  <2> QED BY <1>1, <2>1, <2>2 DEF Chain, n
<1>8. ASSUME NEW j \in 1..Len(c), NEW k \in 1..Len(c), j < k PROVE c[j].arr <= c[k].dep
  <2>1. i + j - 1 < i + k - 1
        BY <1>2, <1>3, <1>8
  <2> QED BY <1>1, <1>4, <2>1 DEF Chain, n
<1>9. Journey(c, ls[i].from, d)
      BY <1>1, <1>2, <1>5, <1>6, <1>7, <1>8 DEF Journey, Chain
<1> QED BY <1>4, <1>5, <1>9 DEF c, n

\* The rides of two journeys are those of both.
LEMMA JoinedRides ==
    ASSUME NEW a \in Seq(Leg), NEW b \in Seq(Leg)
    PROVE  TransitLegs(a \o b) = TransitLegs(a) + TransitLegs(b)
<1> DEFINE A == {i \in DOMAIN a : a[i].trip # NoTrip}
           B == {i \in DOMAIN b : b[i].trip # NoTrip}
           c == a \o b
           C == {i \in DOMAIN c : c[i].trip # NoTrip}
           n == Len(a)
           D == {n + i : i \in B}
<1>1. /\ c \in Seq(Leg) /\ Len(c) = n + Len(b) /\ n \in Nat /\ Len(b) \in Nat
      /\ DOMAIN a = 1..n /\ DOMAIN b = 1..Len(b) /\ DOMAIN c = 1..Len(c)
      /\ \A i \in 1..n : c[i] = a[i]
      /\ \A i \in 1..Len(b) : c[n + i] = b[i]
      BY JoinedLegs
<1>2. IsFiniteSet(A) /\ IsFiniteSet(B)
      BY TransitLegsOf
<1> HIDE DEF c, n
<1>3. C = A \union D
  <2>1. ASSUME NEW i \in C PROVE i \in A \union D
    <3>1. i \in 1..(n + Len(b)) /\ c[i].trip # NoTrip
          BY <1>1
    <3>2. CASE i <= n
          BY <1>1, <3>1, <3>2
    <3>3. CASE i > n
      <4>1. i - n \in 1..Len(b) /\ i = n + (i - n)
            BY <1>1, <3>1, <3>3
      <4>2. i - n \in B
            BY <1>1, <3>1, <4>1
      <4> QED BY <4>1, <4>2
    <3> QED BY <1>1, <3>1, <3>2, <3>3
  <2>2. ASSUME NEW i \in A PROVE i \in C
        BY <1>1
  <2>3. ASSUME NEW i \in B PROVE n + i \in C
        BY <1>1
  <2> QED BY <2>1, <2>2, <2>3
<1>4. A \intersect D = {}
      BY <1>1
<1>5. IsFiniteSet(D) /\ Cardinality(D) = Cardinality(B)
  <2> DEFINE f == [i \in B |-> n + i]
  <2>1. f \in Bijection(B, D)
    <3>1. f \in [B -> D]
          OBVIOUS
    <3>2. \A i, j \in B : f[i] = f[j] => i = j
          BY <1>1
    <3>3. \A k \in D : \E i \in B : f[i] = k
          OBVIOUS
    <3> HIDE DEF f, D, B
    <3> QED BY <3>1, <3>2, <3>3 DEF Bijection, Injection, Surjection, IsInjective
  <2>2. ExistsBijection(B, D)
        BY <2>1 DEF ExistsBijection
  <2> HIDE DEF B, D
  <2> QED BY <1>2, <2>2, FS_Bijection
<1>6. Cardinality(C) = Cardinality(A) + Cardinality(B)
  <2> HIDE DEF A, B, C, D
  <2>1. Cardinality(A \union D) = Cardinality(A) + Cardinality(D) - Cardinality({})
        BY <1>2, <1>4, <1>5, FS_Union
  <2>2. Cardinality({}) = 0 /\ Cardinality(A) \in Nat /\ Cardinality(D) \in Nat
        BY <1>2, <1>5, FS_EmptySet, FS_CardinalityType
  <2> QED BY <1>3, <1>5, <2>1, <2>2
<1> QED BY <1>6 DEF TransitLegs, c

LEMMA OneLegRides ==
    ASSUME NEW leg \in Leg
    PROVE  TransitLegs(<<leg>>) = IF leg.trip = NoTrip THEN 0 ELSE 1
<1> DEFINE S == {i \in DOMAIN <<leg>> : <<leg>>[i].trip # NoTrip}
<1>1. DOMAIN <<leg>> = {1} /\ <<leg>>[1] = leg
      OBVIOUS
<1>2. S = IF leg.trip = NoTrip THEN {} ELSE {1}
      BY <1>1
<1>3. Cardinality({}) = 0 /\ Cardinality({1}) = 1
      BY FS_EmptySet, FS_Singleton
<1>4. TransitLegs(<<leg>>) = Cardinality(S)
      BY DEF TransitLegs
<1> HIDE DEF S
<1> QED BY <1>2, <1>3, <1>4

----------------------------------------------------------------------------
(* What the labels of a query mean.                                         *)

\* The timetables whose answers can be travelled.
Calm == NoneEarly(tt) /\ Forward(tt)

\* Legs between real stops, on any line.
RealLeg(leg) == RideLeg(leg, LinesOf(tt)) \/ WalkLeg(leg)

\* Legs that do not begin at a virtual origin.
InnerLeg(leg) == RideLeg(leg, query.allowed) \/ WalkLeg(leg) \/ EgressLeg(leg)

\* The profiles are journeys that can be travelled.
Profiles ==
    \A p \in cache : /\ Journey(p.legs, p.stop, p.to)
                     /\ p.legs[1].dep = p.ready
                     /\ p.legs[Len(p.legs)].arr = p.arrival
                     /\ \A i \in 1..Len(p.legs) : RealLeg(p.legs[i])

\* Parent p and time are those of stop s in round k: the stop before was reached
\* early enough for a walk, a trip or a suffix that arrives at the time.
WalkStep(k, s, time, p) ==
    \E f \in Stops, secs \in Nat :
        /\ p = WalkFrom(f, secs)
        /\ arr[k][f] + secs <= time
        /\ \/ secs = tt.walk[<<f, s>>] /\ secs < Inf
           \/ k = 0 /\ f = query.from /\ <<s, secs>> \in query.access

RideStep(k, s, time, p) ==
    \E l \in query.allowed : \E i, j \in DOMAIN tt.path[l] : \E t \in tt.trips[l] \intersect tt.available :
        /\ p = Ride(t, l, i, j)
        /\ k \in 1..round
        /\ i < j
        /\ tt.path[l][j] = s
        /\ tt.path[l][i] # query.to
        /\ ~Skipped(tt, t, i) /\ ~Skipped(tt, t, j)
        /\ time = Arr(tt, t, j)
        /\ \/ par[k - 1][tt.path[l][i]] = NoParent
           \/ arr[k - 1][tt.path[l][i]] <= Dep(tt, t, i)

MemoStep(k, s, time, p) ==
    \E f \in Stops, r \in 0..round, ls \in Legs :
        /\ p = Memoized(f, r, ls)
        /\ s = query.to
        /\ Journey(ls, f, s)
        /\ arr[r][f] <= ls[1].dep
        /\ time = ls[Len(ls)].arr
        /\ \A i \in 1..Len(ls) : InnerLeg(ls[i])
        /\ r + TransitLegs(ls) <= k

Reached(k, s, time, p) ==
    \/ p = NoParent
    \/ p = Origin /\ k = 0 /\ s = query.from
    \/ WalkStep(k, s, time, p)
    \/ RideStep(k, s, time, p)
    \/ MemoStep(k, s, time, p)

Parents == \A k \in 0..Rounds, s \in Stops : Reached(k, s, arr[k][s], par[k][s])

\* Only the destination is reached in rounds to come.
Later == \A k \in 0..Rounds, s \in Stops \ {query.to} : k > round => par[k][s] = NoParent

Least == \A k \in 0..Rounds, s \in Stops : best[s] <= arr[k][s]

\* A stop reached in the round is reached as early as it ever was, and one
\* reached in the round before is as early as the bound trips are boarded by.
Current ==
    \A s \in Stops \ {query.to} : par[round][s] # NoParent => arr[round][s] <= best[s]
Before ==
    \A s \in Stops \ {query.to} :
        round > 0 /\ par[round - 1][s] # NoParent => arr[round - 1][s] <= bestBefore[s]

\* Nothing is reached before the departure.
NotBefore ==
    served > 0 => /\ \A k \in 0..Rounds, s \in Stops : query.depart <= arr[k][s]
                  /\ \A s \in Stops : query.depart <= best[s]
                  /\ round > 0 => \A s \in Stops : query.depart <= bestBefore[s]

Labelled == Parents /\ Later /\ Least /\ Current /\ Before /\ NotBefore

\* The origin keeps its label.
Rooted ==
    served > 0 => /\ par[0][query.from] = Origin
                  /\ arr[0][query.from] = query.depart
                  /\ round > 0 => query.from \notin nextMarked
                  /\ query.from = query.to => destRound = 0

\* The trip on board leaves no earlier than the stop it was boarded at was reached.
BoardedInTime ==
    phase = "scan" /\ scan.line # 0 /\ scan.trip # NoTrip =>
        bestBefore[Path[scan.boarded]] <= Dep(tt, scan.trip, scan.boarded)

LEMMA LabelsKnown ==
    ASSUME TypeOK
    PROVE  /\ \A k \in 0..Rounds, s \in Stops : arr[k][s] \in Int /\ arr[k][s] \in Times
           /\ \A s \in Stops : best[s] \in Int /\ best[s] \in Times
           /\ round > 0 => \A s \in Stops : bestBefore[s] \in Int
<1>1. /\ \A k \in 0..Rounds, s \in Stops : arr[k][s] \in Times
      /\ \A s \in Stops : best[s] \in Times
      /\ round > 0 => \A s \in Stops : bestBefore[s] \in Times
      BY DEF TypeOK
<1> QED BY <1>1, Constants, Zenon

LEMMA LegsKept ==
    ASSUME tt' = tt, query' = query, NEW leg
    PROVE  /\ RealLeg(leg) => RealLeg(leg)'
           /\ InnerLeg(leg) => InnerLeg(leg)'
           /\ AccessLeg(leg) => AccessLeg(leg)'
<1>2. WalkLeg(leg) => WalkLeg(leg)'
      BY DEF WalkLeg
<1>3. EgressLeg(leg) => EgressLeg(leg)'
      BY DEF EgressLeg
<1>4. AccessLeg(leg) => AccessLeg(leg)'
      BY DEF AccessLeg
<1>5. RideLeg(leg, query.allowed) => RideLeg(leg, query.allowed)'
      BY DEF RideLeg, Skipped, Dep, Arr
<1>6. RideLeg(leg, LinesOf(tt)) => RideLeg(leg, LinesOf(tt))'
      BY DEF RideLeg, Skipped, Dep, Arr, LinesOf
<1> QED BY <1>2, <1>3, <1>4, <1>5, <1>6 DEF RealLeg, InnerLeg

\* A step keeps its meaning when labels fall and rounds past stay.
LEMMA ReachedKept ==
    ASSUME Typed, served > 0, tt' = tt, query' = query, round' \in Nat, round <= round',
           arr' \in [0..Rounds -> [Stops -> Times]],
           \A j \in 0..Rounds, u \in Stops : arr'[j][u] <= arr[j][u],
           \A j \in 0..Rounds, u \in Stops : j < round => par'[j][u] = par[j][u],
           NEW k \in 0..Rounds, NEW s \in Stops, NEW time \in Times, NEW p, Reached(k, s, time, p)
    PROVE  Reached(k, s, time, p)'
<1>1. /\ TypeOK /\ round \in 0..Rounds /\ WellFormed(tt) /\ query.allowed \subseteq LinesOf(tt)
      /\ \A j \in 0..Rounds, u \in Stops : arr[j][u] \in Int
      BY Served, LabelsKnown DEF Typed, TypeOK
<1>2. \A j \in 0..Rounds, u \in Stops : arr'[j][u] \in Int
  <2>1. \A j \in 0..Rounds, u \in Stops : arr'[j][u] \in Times
        OBVIOUS
  <2> QED BY <2>1, Constants, Zenon
<1>3. CASE p = NoParent \/ (p = Origin /\ k = 0 /\ s = query.from)
      BY <1>3 DEF Reached
<1>4. CASE WalkStep(k, s, time, p)
  <2>1. PICK f \in Stops, secs \in Nat :
          /\ p = WalkFrom(f, secs)
          /\ arr[k][f] + secs <= time
          /\ \/ secs = tt.walk[<<f, s>>] /\ secs < Inf
             \/ k = 0 /\ f = query.from /\ <<s, secs>> \in query.access
        BY <1>4 DEF WalkStep
  <2>2. arr'[k][f] + secs <= time
    <3>1. arr'[k][f] <= arr[k][f] /\ arr'[k][f] \in Int /\ arr[k][f] \in Int
          BY <1>1, <1>2
    <3>2. time \in Int
          BY Constants, Zenon
    <3> QED BY <2>1, <3>1, <3>2
  <2>3. WalkStep(k, s, time, p)'
        BY <2>1, <2>2 DEF WalkStep
  <2> QED BY <2>3 DEF Reached
<1>5. CASE RideStep(k, s, time, p)
  <2>1. PICK l \in query.allowed : \E i, j \in DOMAIN tt.path[l] :
          \E t \in tt.trips[l] \intersect tt.available :
            /\ p = Ride(t, l, i, j)
            /\ k \in 1..round
            /\ i < j
            /\ tt.path[l][j] = s
            /\ tt.path[l][i] # query.to
            /\ ~Skipped(tt, t, i) /\ ~Skipped(tt, t, j)
            /\ time = Arr(tt, t, j)
            /\ \/ par[k - 1][tt.path[l][i]] = NoParent
               \/ arr[k - 1][tt.path[l][i]] <= Dep(tt, t, i)
        BY <1>5 DEF RideStep
  <2>2. PICK i \in DOMAIN tt.path[l], j \in DOMAIN tt.path[l], t \in tt.trips[l] \intersect tt.available :
            /\ p = Ride(t, l, i, j)
            /\ k \in 1..round
            /\ i < j
            /\ tt.path[l][j] = s
            /\ tt.path[l][i] # query.to
            /\ ~Skipped(tt, t, i) /\ ~Skipped(tt, t, j)
            /\ time = Arr(tt, t, j)
            /\ \/ par[k - 1][tt.path[l][i]] = NoParent
               \/ arr[k - 1][tt.path[l][i]] <= Dep(tt, t, i)
        BY <2>1
  <2> DEFINE b == tt.path[l][i]
  <2>3. b \in Stops /\ k - 1 \in 0..Rounds /\ k - 1 < round /\ k \in 1..round'
    <3>1. b \in Stops
          BY <1>1, KnownPath
    <3>2. k \in Int /\ round \in Int /\ Rounds \in Int
          BY <1>1, Constants
    <3> QED BY <1>1, <2>2, <3>1, <3>2
  <2>4. Dep(tt, t, i) \in Int
    <3>1. Dep(tt, t, i) \in Times
          BY <1>1, KnownPath
    <3> QED BY <3>1, Constants, Zenon
  <2>5. par'[k - 1][b] = par[k - 1][b] /\ arr'[k - 1][b] <= arr[k - 1][b]
        /\ arr'[k - 1][b] \in Int /\ arr[k - 1][b] \in Int
        BY <1>1, <1>2, <2>3
  <2>6. par'[k - 1][b] = NoParent \/ arr'[k - 1][b] <= Dep(tt, t, i)
    <3> HIDE DEF b
    <3> QED BY <2>2, <2>4, <2>5 DEF b
  <2>7. RideStep(k, s, time, p)'
        BY <2>2, <2>3, <2>6 DEF RideStep, Skipped, Arr, Dep
  <2> QED BY <2>7 DEF Reached
<1>6. CASE MemoStep(k, s, time, p)
  <2>1. PICK f \in Stops, r \in 0..round, ls \in Legs :
          /\ p = Memoized(f, r, ls)
          /\ s = query.to
          /\ Journey(ls, f, s)
          /\ arr[r][f] <= ls[1].dep
          /\ time = ls[Len(ls)].arr
          /\ \A i \in 1..Len(ls) : InnerLeg(ls[i])
          /\ r + TransitLegs(ls) <= k
        BY <1>6 DEF MemoStep
  <2>2. r \in 0..Rounds /\ r \in 0..round'
        BY <1>1, Constants
  <2>3. arr'[r][f] <= ls[1].dep
    <3>1. arr'[r][f] <= arr[r][f] /\ arr'[r][f] \in Int /\ arr[r][f] \in Int /\ ls[1].dep \in Int
          BY <1>1, <1>2, <2>2, LegsKnown
    <3> QED BY <2>1, <3>1
  <2>4. \A i \in 1..Len(ls) : InnerLeg(ls[i])'
        BY <2>1, LegsKept
  <2>5. MemoStep(k, s, time, p)'
        BY <2>1, <2>2, <2>3, <2>4 DEF MemoStep, Journey, Chain, TransitLegs
  <2> QED BY <2>5 DEF Reached
<1> QED BY <1>3, <1>4, <1>5, <1>6 DEF Reached

\* Recorded steps that are meant so, none before the departure.
Meant(k, time, parent, I) ==
    \A s \in I : Reached(k, s, time[s], parent[s]) /\ query.depart <= time[s]

LEMMA RecordedLabels ==
    ASSUME Typed, Labelled, Rooted, served > 0, UNCHANGED <<tt, query, round, bestBefore, served>>,
           NEW k, NEW time, NEW parent, NEW I, Recorded(k, time, parent, I), Meant(k, time, parent, I)
    PROVE  /\ Labelled'
           /\ par'[0][query.from] = Origin /\ arr'[0][query.from] = query.depart
           /\ query.from \notin I
<1>1. /\ TypeOK /\ round \in 0..Rounds /\ k \in round..Rounds /\ k \in 0..Rounds /\ Rounds \in Nat
      /\ query.from \in Stops /\ query.to \in Stops /\ query.depart \in Nat /\ 0 \in 0..Rounds
      BY Served, Constants DEF Typed, TypeOK, Recorded
<1>2. /\ \A j \in 0..Rounds, s \in Stops : arr[j][s] \in Int
      /\ \A s \in Stops : best[s] \in Int
      /\ round > 0 => \A s \in Stops : bestBefore[s] \in Int
      BY <1>1, LabelsKnown
<1>3. /\ best' \in [Stops -> Times]
      /\ arr' \in [0..Rounds -> [Stops -> Times]]
      BY RecordedTyped
<1>4. /\ I \subseteq Stops
      /\ k = round \/ I \subseteq {query.to}
      /\ \A s \in Stops : best'[s] = IF s \in I THEN time[s] ELSE best[s]
      /\ \A j \in 0..Rounds, s \in Stops :
            /\ arr'[j][s] = IF j = k /\ s \in I THEN time[s] ELSE arr[j][s]
            /\ par'[j][s] = IF j = k /\ s \in I THEN parent[s] ELSE par[j][s]
      BY DEF Recorded, Effects
<1>5. \A s \in I : /\ time[s] \in Int /\ time[s] \in Times
                   /\ \/ time[s] < best[s]
                      \/ s = query.to /\ time[s] = best[s] /\ k < destRound
  <2>1. \A s \in I : time[s] \in Times
        BY DEF Recorded
  <2>2. \A s \in I : time[s] \in Int
        BY <2>1, Constants, Zenon
  <2> QED BY <2>1, <2>2 DEF Recorded
<1>6. ASSUME NEW s \in I, NEW j \in 0..Rounds PROVE time[s] <= best[s] /\ time[s] <= arr[j][s]
  <2>1. best[s] <= arr[j][s] /\ arr[j][s] \in Int /\ best[s] \in Int /\ time[s] \in Int
        BY <1>2, <1>4, <1>5 DEF Labelled, Least
  <2> QED BY <1>5, <2>1
<1>7. ASSUME NEW j \in 0..Rounds, NEW s \in Stops
      PROVE  arr'[j][s] <= arr[j][s] /\ arr'[j][s] \in Times
  <2>1. arr[j][s] <= arr[j][s]
        BY <1>2
  <2> QED BY <1>3, <1>4, <1>6, <2>1
<1>8. query.from \notin I
  <2> SUFFICES ASSUME query.from \in I PROVE FALSE
      OBVIOUS
  <2>1. arr[0][query.from] = query.depart
        BY DEF Rooted
  <2>2. best[query.from] <= query.depart
        BY <1>1, <2>1 DEF Labelled, Least
  <2>3. query.depart <= time[query.from]
        BY DEF Meant
  <2>4. ~(time[query.from] < best[query.from])
        BY <1>1, <1>2, <1>5, <2>2, <2>3
  <2>5. query.from = query.to /\ k < destRound
        BY <1>5, <2>4
  <2>6. destRound = 0
        BY <2>5 DEF Rooted
  <2> QED BY <1>1, <2>5, <2>6
<1>9. par'[0][query.from] = Origin /\ arr'[0][query.from] = query.depart
      BY <1>1, <1>4, <1>8 DEF Rooted
<1>10. Parents'
  <2> SUFFICES ASSUME NEW j \in 0..Rounds, NEW s \in Stops
               PROVE  Reached(j, s, arr[j][s], par[j][s])'
      BY DEF Parents
  <2>1. PICK t, p : t = arr'[j][s] /\ p = par'[j][s]
        OBVIOUS
  <2>2. Reached(j, s, t, p)
    <3>1. CASE j = k /\ s \in I
      <4>1. t = time[s] /\ p = parent[s]
            BY <1>4, <2>1, <3>1
      <4> QED BY <3>1, <4>1 DEF Meant
    <3>2. CASE ~(j = k /\ s \in I)
      <4>1. t = arr[j][s] /\ p = par[j][s]
            BY <1>4, <2>1, <3>2
      <4> QED BY <4>1 DEF Labelled, Parents
    <3> QED BY <3>1, <3>2
  <2>3. t \in Times
        BY <1>7, <2>1
  <2>4. round' \in Nat /\ round <= round'
        BY <1>1
  <2>5. \A i \in 0..Rounds, u \in Stops : arr'[i][u] <= arr[i][u]
        BY <1>7
  <2>6. \A i \in 0..Rounds, u \in Stops : i < round => par'[i][u] = par[i][u]
        BY <1>1, <1>4
  <2>7. Reached(j, s, t, p)'
        BY <1>3, <2>2, <2>3, <2>4, <2>5, <2>6, ReachedKept
  <2> QED BY <2>1, <2>7
<1>11. Later'
  <2> SUFFICES ASSUME NEW j \in 0..Rounds, NEW s \in Stops \ {query.to}, j > round
               PROVE  par'[j][s] = NoParent
      BY DEF Later
  <2>1. ~(j = k /\ s \in I)
        BY <1>1, <1>4
  <2> QED BY <1>4, <2>1 DEF Labelled, Later
<1>12. Least'
  <2> SUFFICES ASSUME NEW j \in 0..Rounds, NEW s \in Stops PROVE best'[s] <= arr'[j][s]
      BY DEF Least
  <2>1. CASE s \in I
    <3>1. best'[s] = time[s] /\ arr'[j][s] = IF j = k THEN time[s] ELSE arr[j][s]
          BY <1>4, <2>1
    <3>2. time[s] <= time[s] /\ time[s] <= arr[j][s]
          BY <1>5, <1>6, <2>1
    <3> QED BY <3>1, <3>2
  <2>2. CASE s \notin I
        BY <1>4, <2>2 DEF Labelled, Least
  <2> QED BY <2>1, <2>2
<1>13. Current'
  <2> SUFFICES ASSUME NEW s \in Stops \ {query.to}, par'[round][s] # NoParent
               PROVE  arr'[round][s] <= best'[s]
      BY DEF Current
  <2>1. CASE s \in I
    <3>1. k = round /\ best'[s] = time[s] /\ arr'[round][s] = time[s]
          BY <1>1, <1>4, <2>1
    <3>2. time[s] <= time[s]
          BY <1>5, <2>1
    <3> QED BY <3>1, <3>2
  <2>2. CASE s \notin I
        BY <1>1, <1>4, <2>2 DEF Labelled, Current
  <2> QED BY <2>1, <2>2
<1>14. Before'
  <2> SUFFICES ASSUME NEW s \in Stops \ {query.to}, round > 0, par'[round - 1][s] # NoParent
               PROVE  arr'[round - 1][s] <= bestBefore[s]
      BY DEF Before
  <2>1. round - 1 \in 0..Rounds /\ round - 1 # k
        BY <1>1
  <2>2. arr'[round - 1][s] = arr[round - 1][s] /\ par'[round - 1][s] = par[round - 1][s]
        BY <1>4, <2>1
  <2> QED BY <2>2 DEF Labelled, Before
<1>15. NotBefore'
  <2>1. \A j \in 0..Rounds, s \in Stops : query.depart <= arr'[j][s]
        BY <1>4 DEF Meant, Labelled, NotBefore
  <2>2. \A s \in Stops : query.depart <= best'[s]
        BY <1>4 DEF Meant, Labelled, NotBefore
  <2> QED BY <2>1, <2>2 DEF Labelled, NotBefore
<1> QED BY <1>8, <1>9, <1>10, <1>11, <1>12, <1>13, <1>14, <1>15 DEF Labelled

\* Walks, rides and suffixes are recorded as what they are.
LEMMA WalkMeant ==
    ASSUME Typed, Labelled, served > 0, NEW k \in 0..Rounds, NEW s \in Stops, NEW time, NEW p,
           WalkRecord(k, time, p, s)
    PROVE  Reached(k, s, time, p) /\ query.depart <= time
<1>1. PICK f \in Stops, secs \in Nat :
        /\ p = WalkFrom(f, secs)
        /\ secs = tt.walk[<<f, s>>] /\ secs < Inf
        /\ time = arr[k][f] + secs
      BY DEF WalkRecord
<1>2. arr[k][f] \in Int /\ query.depart <= arr[k][f] /\ query.depart \in Int
      BY Served, LabelsKnown DEF Typed, Labelled, NotBefore
<1>3. arr[k][f] + secs <= time /\ query.depart <= time
      BY <1>1, <1>2
<1> QED BY <1>1, <1>3 DEF Reached, WalkStep

LEMMA RideMeant ==
    ASSUME Typed, Calm, Labelled, BoardedInTime, phase = "scan", scan.line # 0,
           NEW time, NEW p, RideRecord(time, p)
    PROVE  Reached(round, Path[scan.pos], time, p) /\ query.depart <= time
<1>1. /\ TypeOK /\ served > 0 /\ round > 0 /\ round \in 0..Rounds
      /\ scan.line \in query.allowed /\ scan.line \in LinesOf(tt) /\ Aboard /\ query.depart \in Int
      BY Served DEF Typed, TypeOK, Scanning
<1> DEFINE t == scan.trip
           i == scan.boarded
           j == scan.pos
           b == Path[i]
<1>2. /\ t # NoTrip /\ ~Skipped(tt, t, j) /\ j \in DOMAIN Path
      /\ time = Arr(tt, t, j)
      /\ p = Ride(t, scan.line, i, j)
      BY DEF RideRecord
<1>3. /\ t \in tt.trips[scan.line] \intersect tt.available
      /\ i \in 1..(j - 1) /\ ~Skipped(tt, t, i) /\ b # query.to
      BY <1>1, <1>2 DEF Aboard
<1>4. /\ DOMAIN Path = 1..Len(Path) /\ Len(Path) \in Nat
      /\ \A x \in DOMAIN Path : /\ Path[x] \in Stops
                                /\ Dep(tt, t, x) \in Times /\ Arr(tt, t, x) \in Times
      BY <1>1, <1>3, KnownPath DEF Path
<1>5. i \in DOMAIN Path /\ i < j /\ b \in Stops
      BY <1>2, <1>3, <1>4
<1>6. bestBefore[b] <= Dep(tt, t, i)
      BY <1>2 DEF BoardedInTime
<1>7. bestBefore[b] \in Int /\ Dep(tt, t, i) \in Int /\ Arr(tt, t, j) \in Int
  <2>1. Dep(tt, t, i) \in Times /\ Arr(tt, t, j) \in Times
        BY <1>2, <1>4, <1>5
  <2> QED BY <1>1, <1>5, <2>1, LabelsKnown, Constants, Zenon
<1>8. Dep(tt, t, i) <= Arr(tt, t, j)
      BY <1>1, <1>2, <1>3, <1>5 DEF Calm, Forward, Path
<1>9. query.depart <= bestBefore[b]
      BY <1>1, <1>5 DEF Labelled, NotBefore
<1>10. query.depart <= time
       BY <1>1, <1>2, <1>6, <1>7, <1>8, <1>9
<1>11. par[round - 1][b] = NoParent \/ arr[round - 1][b] <= Dep(tt, t, i)
  <2>1. CASE par[round - 1][b] # NoParent
    <3>1. arr[round - 1][b] <= bestBefore[b]
          BY <1>1, <1>3, <1>5, <2>1 DEF Labelled, Before
    <3>2. round - 1 \in 0..Rounds
          BY <1>1, Constants
    <3>3. arr[round - 1][b] \in Int
          BY <1>1, <1>5, <3>2, LabelsKnown
    <3> QED BY <1>6, <1>7, <3>1, <3>3
  <2> QED BY <2>1
<1>12. round \in 1..round
       BY <1>1
<1> HIDE DEF t, i, j
<1>13. RideStep(round, Path[j], time, p)
       BY <1>1, <1>2, <1>3, <1>5, <1>11, <1>12 DEF RideStep, Path
<1> QED BY <1>10, <1>13 DEF Reached, j

LEMMA MemoMeant ==
    ASSUME Typed, Labelled, Profiles, phase # "idle", NEW k, NEW time, NEW p, MemoRecord(k, time, p)
    PROVE  Reached(k, query.to, time, p) /\ query.depart <= time
<1>1. /\ TypeOK /\ served > 0 /\ round \in 0..Rounds /\ query.depart \in Int /\ query.to \in Stops
      /\ round \in 0..round /\ query.egress \in SUBSET (Stops \X Nat)
      BY Serving, Constants DEF Typed, TypeOK
<1>2. PICK f \in Stops, ls \in Legs :
        /\ p = Memoized(f, round, ls)
        /\ \/ \E e \in query.egress :
                 /\ f = e[1]
                 /\ ls = <<[from |-> f, to |-> query.to, trip |-> NoTrip,
                            dep |-> arr[round][f], arr |-> time]>>
                 /\ time = arr[round][f] + e[2]
                 /\ k = round
           \/ \E q \in cache :
                 /\ ~FilterActive
                 /\ Exact
                 /\ q.stop = f /\ q.to = query.to /\ q.legs = ls
                 /\ arr[round][f] <= q.ready
                 /\ time = q.arrival
                 /\ k = round + TransitLegs(ls)
      BY DEF MemoRecord
<1>3. /\ Journey(ls, f, query.to)
      /\ arr[round][f] <= ls[1].dep
      /\ time = ls[Len(ls)].arr
      /\ \A i \in 1..Len(ls) : InnerLeg(ls[i])
      /\ round + TransitLegs(ls) <= k
  <2>1. CASE \E e \in query.egress :
                 /\ f = e[1]
                 /\ ls = <<[from |-> f, to |-> query.to, trip |-> NoTrip,
                            dep |-> arr[round][f], arr |-> time]>>
                 /\ time = arr[round][f] + e[2]
                 /\ k = round
    <3>1. PICK e \in query.egress :
                 /\ f = e[1]
                 /\ ls = <<[from |-> f, to |-> query.to, trip |-> NoTrip,
                            dep |-> arr[round][f], arr |-> time]>>
                 /\ time = arr[round][f] + e[2]
                 /\ k = round
          BY <2>1
    <3> DEFINE leg == [from |-> f, to |-> query.to, trip |-> NoTrip,
                       dep |-> arr[round][f], arr |-> time]
    <3>2. /\ leg.from = f /\ leg.to = query.to /\ leg.trip = NoTrip
          /\ leg.dep = arr[round][f] /\ leg.arr = time /\ ls = <<leg>>
          BY <3>1
    <3> HIDE DEF leg
    <3>3. Len(ls) = 1 /\ ls[1] = leg /\ 1 \in 1..Len(ls)
          BY <3>2
    <3>4. leg \in Leg
          BY <3>3, LegsKnown
    <3>5. arr[round][f] \in Int /\ e[2] \in Nat /\ e = <<f, e[2]>>
          BY <1>1, <3>1, LabelsKnown
    <3>6. leg.dep <= leg.arr /\ leg.arr - leg.dep = e[2] /\ leg.dep <= leg.dep
          BY <3>1, <3>2, <3>5
    <3>7. Journey(ls, f, query.to)
          BY <3>2, <3>4, <3>6, OneLeg
    <3>8. EgressLeg(leg)
          BY <3>2, <3>5, <3>6 DEF EgressLeg
    <3>9. \A i \in 1..Len(ls) : InnerLeg(ls[i])
          BY <3>3, <3>8 DEF InnerLeg
    <3>10. TransitLegs(ls) = 0
           BY <3>2, <3>4, OneLegRides
    <3>11. round + TransitLegs(ls) <= k
           BY <1>1, <3>1, <3>10
    <3> QED BY <3>2, <3>3, <3>6, <3>7, <3>9, <3>11
  <2>2. CASE \E q \in cache :
                 /\ ~FilterActive
                 /\ Exact
                 /\ q.stop = f /\ q.to = query.to /\ q.legs = ls
                 /\ arr[round][f] <= q.ready
                 /\ time = q.arrival
                 /\ k = round + TransitLegs(ls)
    <3>1. PICK q \in cache :
                 /\ ~FilterActive
                 /\ q.stop = f /\ q.to = query.to /\ q.legs = ls
                 /\ arr[round][f] <= q.ready
                 /\ time = q.arrival
                 /\ k = round + TransitLegs(ls)
          BY <2>2
    <3>2. /\ Journey(ls, f, query.to) /\ ls[1].dep = q.ready /\ ls[Len(ls)].arr = time
          /\ \A i \in 1..Len(ls) : RealLeg(ls[i])
          BY <3>1 DEF Profiles
    <3>3. \A i \in 1..Len(ls) : InnerLeg(ls[i])
          BY <3>1, <3>2 DEF FilterActive, RealLeg, InnerLeg
    <3>4. TransitLegs(ls) \in Nat
          BY LegsKnown, TransitLegsOf
    <3>5. round + TransitLegs(ls) <= k
          BY <1>1, <3>1, <3>4
    <3> QED BY <3>1, <3>2, <3>3, <3>5
  <2> QED BY <1>2, <2>1, <2>2
<1>4. Reached(k, query.to, time, p)
      BY <1>1, <1>2, <1>3 DEF Reached, MemoStep
<1>5. query.depart <= time
  <2>1. /\ Len(ls) \in Nat /\ 1 \in 1..Len(ls) /\ Len(ls) \in 1..Len(ls) /\ 1 <= Len(ls)
        /\ ls[1].dep \in Int /\ ls[Len(ls)].arr \in Int
        BY LegsKnown
  <2>2. ls[1].dep <= ls[Len(ls)].arr
        BY <1>3, <2>1, JourneyTakesTime
  <2>3. query.depart <= arr[round][f] /\ arr[round][f] \in Int
        BY <1>1, LabelsKnown DEF Labelled, NotBefore
  <2> QED BY <1>1, <1>3, <2>1, <2>2, <2>3
<1> QED BY <1>4, <1>5

----------------------------------------------------------------------------
(* The search keeps the labels meant.                                       *)

\* What is left to rebuild leads to the first leg rebuilt.
Rest ==
    /\ phase \notin {"idle", "rebuild", "failed"} => legs = <<>>
    /\ phase = "rebuild" =>
        IF legs = <<>> THEN at = <<query.to, destRound>>
        ELSE /\ Journey(legs, at[1], query.to)
             /\ legs[Len(legs)].arr = arr[destRound][query.to]
             /\ Parent # NoParent => arr[at[2]][at[1]] <= legs[1].dep
             /\ \A i \in 1..Len(legs) : \/ InnerLeg(legs[i])
                                        \/ i = 1 /\ at = <<query.from, 0>> /\ AccessLeg(legs[i])
             /\ TransitLegs(legs) + at[2] <= destRound

Answers == IF phase = "idle" THEN Feasible ELSE answer = NoAnswer

Sounds == Labelled /\ Rooted /\ BoardedInTime /\ Profiles /\ Rest /\ Answers

Sound == Calm => Sounds

LEMMA LabelledFrame ==
    ASSUME UNCHANGED <<tt, query, served, round, best, bestBefore, arr, par>>, Labelled
    PROVE  Labelled'
<1>1. Later' /\ Least' /\ Current' /\ Before' /\ NotBefore'
      BY DEF Labelled, Later, Least, Current, Before, NotBefore
<1>2. Parents'
  <2> SUFFICES ASSUME NEW k \in 0..Rounds, NEW s \in Stops
               PROVE  Reached(k, s, arr[k][s], par[k][s])'
      BY DEF Parents
  <2>1. PICK t, p : t = arr[k][s] /\ p = par[k][s]
        OBVIOUS
  <2>2. Reached(k, s, t, p)
        BY <2>1 DEF Labelled, Parents
  <2>3. WalkStep(k, s, t, p) => WalkStep(k, s, t, p)'
        BY DEF WalkStep
  <2>4. ASSUME RideStep(k, s, t, p) PROVE RideStep(k, s, t, p)'
    <3>1. PICK l \in query.allowed : \E i, j \in DOMAIN tt.path[l] :
            \E r \in tt.trips[l] \intersect tt.available :
              /\ p = Ride(r, l, i, j)
              /\ k \in 1..round
              /\ i < j
              /\ tt.path[l][j] = s
              /\ tt.path[l][i] # query.to
              /\ ~Skipped(tt, r, i) /\ ~Skipped(tt, r, j)
              /\ t = Arr(tt, r, j)
              /\ \/ par[k - 1][tt.path[l][i]] = NoParent
                 \/ arr[k - 1][tt.path[l][i]] <= Dep(tt, r, i)
          BY <2>4 DEF RideStep
    <3> QED BY <3>1 DEF RideStep, Skipped, Arr, Dep
  <2>5. MemoStep(k, s, t, p) => MemoStep(k, s, t, p)'
        BY LegsKept DEF MemoStep
  <2>6. Reached(k, s, t, p)'
        BY <2>2, <2>3, <2>4, <2>5 DEF Reached
  <2> QED BY <2>1, <2>6
<1> QED BY <1>1, <1>2 DEF Labelled

LEMMA ProfilesFrame ==
    ASSUME tt' = tt, cache' = cache, Profiles
    PROVE  Profiles'
<1> SUFFICES ASSUME NEW p \in cache
             PROVE  /\ Journey(p.legs, p.stop, p.to)
                    /\ p.legs[1].dep = p.ready
                    /\ p.legs[Len(p.legs)].arr = p.arrival
                    /\ \A i \in 1..Len(p.legs) : RealLeg(p.legs[i])'
    BY DEF Profiles
<1>1. /\ Journey(p.legs, p.stop, p.to)
      /\ p.legs[1].dep = p.ready
      /\ p.legs[Len(p.legs)].arr = p.arrival
      /\ \A i \in 1..Len(p.legs) : RealLeg(p.legs[i])
      BY DEF Profiles
<1>2. ASSUME NEW leg, RealLeg(leg) PROVE RealLeg(leg)'
      BY <1>2 DEF RealLeg, RideLeg, WalkLeg, Skipped, Dep, Arr, LinesOf
<1> QED BY <1>1, <1>2

LEMMA SoundInit == Init => Sounds
<1> SUFFICES ASSUME Init PROVE Sounds
    OBVIOUS
<1>1. /\ phase = "idle" /\ served = 0 /\ round = 0 /\ cache = {} /\ answer = NoAnswer
      /\ best = [s \in Stops |-> Inf]
      /\ arr = [k \in 0..Rounds |-> [s \in Stops |-> Inf]]
      /\ par = [k \in 0..Rounds |-> [s \in Stops |-> NoParent]]
      BY DEF Init
<1>2. Parents
      BY <1>1 DEF Parents, Reached
<1>3. Later /\ Least /\ Current /\ Before /\ NotBefore
  <2>1. 0 \in 0..Rounds /\ Inf <= Inf
        BY Constants
  <2> QED BY <1>1, <2>1 DEF Later, Least, Current, Before, NotBefore
<1>4. Rooted /\ BoardedInTime /\ Profiles /\ Rest /\ Answers
      BY <1>1 DEF Rooted, BoardedInTime, Profiles, Rest, Answers, Feasible, Answered
<1> QED BY <1>2, <1>3, <1>4 DEF Sounds, Labelled

LEMMA SoundStart ==
    ASSUME Typed, Sounds, NEW q \in Requests(tt), Start(q)
    PROVE  Sounds'
<1>1. PICK start, reached : StartLabels(q, start, reached)
      BY Started DEF Typed
<1>2. /\ tt' = tt /\ query' = q /\ served' = served + 1 /\ phase' = "seeds" /\ round' = 0
      /\ legs' = <<>> /\ cache' = cache /\ answer' = NoAnswer
      BY DEF Start
<1>3. /\ q.from \in Stops /\ q.depart \in Int /\ q.depart <= Inf /\ Inf \in Int
      /\ 0 \in 0..Rounds
      BY RaptorAssumption, Constants DEF Typed, TypeOK
<1>4. /\ start \in [Stops -> Times] /\ reached \subseteq Stops \ {q.from}
      /\ start[q.from] = q.depart
      /\ \A s \in Stops : start[s] \in Int /\ start[s] <= Inf /\ q.depart <= start[s]
  <2>1. /\ start \in [Stops -> Times] /\ start[q.from] = q.depart
        /\ reached \subseteq Stops \ {q.from} /\ \A s \in Stops : q.depart <= start[s]
        BY <1>1 DEF StartLabels
  <2>2. \A s \in Stops : start[s] \in Times
        BY <2>1
  <2> QED BY <2>1, <2>2, Constants
<1>5. /\ \A s \in Stops : best'[s] = start[s]
      /\ \A k \in 0..Rounds, s \in Stops :
            /\ arr'[k][s] = IF k = 0 THEN start[s] ELSE Inf
            /\ par'[k][s] = IF k > 0 THEN NoParent
                            ELSE IF s = q.from THEN Origin
                            ELSE IF s \in reached THEN WalkFrom(q.from, start[s] - q.depart)
                            ELSE NoParent
      BY <1>1 DEF StartLabels
<1>6. Parents'
  <2> SUFFICES ASSUME NEW k \in 0..Rounds, NEW s \in Stops
               PROVE  Reached(k, s, arr[k][s], par[k][s])'
      BY DEF Parents
  <2>1. CASE k > 0 \/ (s # q.from /\ s \notin reached)
        BY <1>5, <2>1 DEF Reached
  <2>2. CASE k = 0 /\ s = q.from
        BY <1>2, <1>5, <2>2 DEF Reached
  <2>3. CASE k = 0 /\ s # q.from /\ s \in reached
    <3> DEFINE secs == start[s] - q.depart
    <3>1. /\ secs \in Nat
          /\ \/ secs = tt.walk[<<q.from, s>>] /\ tt.walk[<<q.from, s>>] < Inf
             \/ <<s, secs>> \in q.access
          BY <1>1, <2>3 DEF StartLabels
    <3>2. par'[k][s] = WalkFrom(q.from, secs) /\ arr'[k][s] = start[s] /\ arr'[k][q.from] = q.depart
          BY <1>3, <1>4, <1>5, <2>3
    <3>3. arr'[k][q.from] + secs <= arr'[k][s]
          BY <1>3, <1>4, <3>2
    <3> HIDE DEF secs
    <3>4. WalkStep(k, s, arr[k][s], par[k][s])'
          BY <1>2, <1>3, <2>3, <3>1, <3>2, <3>3 DEF WalkStep
    <3> QED BY <3>4 DEF Reached
  <2>4. k > 0 \/ k = 0
        BY Constants
  <2> QED BY <2>1, <2>2, <2>3, <2>4
<1>7. Later' /\ Before' /\ BoardedInTime'
      BY <1>2, <1>5 DEF Later, Before, BoardedInTime
<1>8. Least' /\ Current' /\ NotBefore'
  <2>1. \A k \in 0..Rounds, s \in Stops : /\ best'[s] <= arr'[k][s]
                                          /\ q.depart <= arr'[k][s]
                                          /\ q.depart <= best'[s]
    <3> SUFFICES ASSUME NEW k \in 0..Rounds, NEW s \in Stops
                 PROVE  /\ best'[s] <= arr'[k][s]
                        /\ q.depart <= arr'[k][s]
                        /\ q.depart <= best'[s]
        OBVIOUS
    <3>1. start[s] <= start[s]
          BY <1>4
    <3> QED BY <1>3, <1>4, <1>5, <3>1
  <2>2. \A s \in Stops : arr'[0][s] <= best'[s]
    <3>1. \A s \in Stops : start[s] <= start[s]
          BY <1>4
    <3> QED BY <1>3, <1>5, <3>1
  <2> QED BY <1>2, <1>3, <2>1, <2>2 DEF Least, Current, NotBefore
<1>9. Rooted'
      BY <1>1, <1>2, <1>3, <1>4, <1>5 DEF Rooted, StartLabels
<1>10. Profiles'
       BY <1>2, ProfilesFrame DEF Sounds
<1>11. Rest' /\ Answers'
       BY <1>2 DEF Rest, Answers
<1> QED BY <1>6, <1>7, <1>8, <1>9, <1>10, <1>11 DEF Sounds, Labelled

LEMMA SearchFrame ==
    ASSUME Sounds, UNCHANGED <<tt, query, answerVars>>,
           phase \notin {"idle", "rebuild", "failed"}, phase' \notin {"idle", "rebuild", "failed"}
    PROVE  Profiles' /\ Rest' /\ Answers'
<1>1. Profiles'
      BY ProfilesFrame DEF Sounds, answerVars
<1> QED BY <1>1 DEF Sounds, Rest, Answers, answerVars

LEMMA RecordedSounds ==
    ASSUME Typed, Sounds, phase # "idle", UNCHANGED <<tt, query, round, bestBefore, served>>,
           NEW k, NEW time, NEW parent, NEW I, Recorded(k, time, parent, I), Meant(k, time, parent, I),
           nextMarked' \subseteq nextMarked \union I,
           destRound' # destRound => query.to \in I
    PROVE  Labelled' /\ Rooted'
<1>1. served > 0
      BY Serving DEF Typed
<1>2. /\ Labelled'
      /\ par'[0][query.from] = Origin /\ arr'[0][query.from] = query.depart
      /\ query.from \notin I
      BY <1>1, RecordedLabels DEF Sounds
<1> QED BY <1>2 DEF Sounds, Rooted

LEMMA SoundSeeds ==
    ASSUME Typed, Sounds, WalkFromSeed \/ SeedsDone
    PROVE  Sounds'
<1>1. CASE WalkFromSeed
  <2>1. PICK I, time, parent :
              /\ I \in SUBSET Stops
              /\ Recorded(round, time, parent, I)
              /\ \A s \in I : WalkRecord(round, time[s], parent[s], s) /\ time[s] < best[s]
              /\ destRound' = IF query.to \in I THEN 0 ELSE destRound
        BY <1>1, SeedRecords
  <2>2. /\ UNCHANGED <<tt, query, phase, round, bestBefore, nextMarked, served, answerVars>>
        /\ phase = "seeds"
        BY <1>1 DEF WalkFromSeed, answerVars
  <2>3. Meant(round, time, parent, I)
        BY <2>1, <2>2, Serving, WalkMeant DEF Typed, Sounds, Meant
  <2>4. Labelled' /\ Rooted'
        BY <2>1, <2>2, <2>3, RecordedSounds
  <2>5. BoardedInTime' /\ Profiles' /\ Rest' /\ Answers'
        BY <2>2, SearchFrame DEF BoardedInTime
  <2> QED BY <2>4, <2>5 DEF Sounds
<1>2. CASE SeedsDone
  <2>1. /\ UNCHANGED <<tt, query, served, round, best, bestBefore, arr, par, nextMarked, destRound,
                       answerVars>>
        /\ phase = "seeds" /\ phase' = "egress"
        BY <1>2 DEF SeedsDone, answerVars
  <2>2. Labelled' /\ Profiles' /\ Rest' /\ Answers'
        BY <2>1, LabelledFrame, SearchFrame DEF Sounds
  <2>3. Rooted' /\ BoardedInTime'
        BY <2>1 DEF Sounds, Rooted, BoardedInTime
  <2> QED BY <2>2, <2>3 DEF Sounds
<1> QED BY <1>1, <1>2

LEMMA SoundLookahead ==
    ASSUME Typed, Sounds, Egress \/ Lookahead
    PROVE  Sounds'
<1>1. /\ UNCHANGED <<tt, query, round, bestBefore, nextMarked, served, answerVars>>
      /\ phase \in {"egress", "lookahead"} /\ phase' = "lookahead"
      BY DEF Egress, Lookahead, answerVars
<1>2. BoardedInTime' /\ Profiles' /\ Rest' /\ Answers'
      BY <1>1, SearchFrame DEF BoardedInTime
<1>3. CASE UNCHANGED <<best, arr, par, destRound>>
  <2>1. Labelled'
        BY <1>1, <1>3, LabelledFrame DEF Sounds
  <2>2. Rooted'
        BY <1>1, <1>3 DEF Sounds, Rooted
  <2> QED BY <1>2, <2>1, <2>2 DEF Sounds
<1>4. CASE ~UNCHANGED <<best, arr, par, destRound>>
  <2>1. PICK k, time, parent :
              /\ Recorded(k, [s \in Stops |-> time], [s \in Stops |-> parent], {query.to})
              /\ MemoRecord(k, time, parent)
        BY <1>4, EgressRecords, LookaheadRecords
  <2>2. query.to \in Stops
        BY <1>1, Serving DEF Typed
  <2>3. Meant(k, [s \in Stops |-> time], [s \in Stops |-> parent], {query.to})
        BY <1>1, <2>1, <2>2, MemoMeant DEF Sounds, Meant
  <2>4. Labelled' /\ Rooted'
        BY <1>1, <2>1, <2>3, RecordedSounds
  <2> QED BY <1>2, <2>4 DEF Sounds
<1> QED BY <1>3, <1>4

LEMMA SoundLookaheadDone ==
    ASSUME Typed, Sounds, LookaheadDone
    PROVE  Sounds'
<1>1. /\ UNCHANGED <<tt, query, served, round, best, bestBefore, arr, par, nextMarked, destRound,
                     answerVars>>
      /\ phase = "lookahead" /\ phase' \in {"queue", "relax", "endRound"}
  <2>1. phase = "lookahead" /\ phase' = after /\ UNCHANGED <<tt, query, searchVars, answerVars>>
        BY DEF LookaheadDone
  <2> QED BY <2>1 DEF searchVars, answerVars, Typed, TypeOK
<1>2. Labelled' /\ Profiles' /\ Rest' /\ Answers'
      BY <1>1, LabelledFrame, SearchFrame DEF Sounds
<1>3. Rooted' /\ BoardedInTime'
      BY <1>1 DEF Sounds, Rooted, BoardedInTime
<1> QED BY <1>2, <1>3 DEF Sounds

LEMMA SoundQueue ==
    ASSUME Typed, Sounds, QueueLines
    PROVE  Sounds'
<1>1. /\ UNCHANGED <<tt, query, served, best, arr, par, destRound, answerVars>>
      /\ phase = "queue" /\ phase' = "scan" /\ round' = round + 1 /\ round < Rounds
      /\ bestBefore' = best /\ nextMarked' = {} /\ scan' = IdleScan
      BY DEF QueueLines, answerVars
<1>2. /\ TypeOK /\ served > 0 /\ round \in Nat /\ round + 1 \in 0..Rounds /\ Rounds \in Nat
      /\ \A k \in 0..Rounds, s \in Stops : arr[k][s] \in Int /\ arr[k][s] \in Times
      BY <1>1, Serving, LabelsKnown, Constants DEF Typed
<1>3. Parents'
  <2> SUFFICES ASSUME NEW k \in 0..Rounds, NEW s \in Stops
               PROVE  Reached(k, s, arr[k][s], par[k][s])'
      BY DEF Parents
  <2>1. PICK t, p : t = arr[k][s] /\ p = par[k][s]
        OBVIOUS
  <2>2. Reached(k, s, t, p) /\ t \in Times
        BY <1>2, <2>1 DEF Sounds, Labelled, Parents
  <2>3. /\ round' \in Nat /\ round <= round'
        /\ arr' \in [0..Rounds -> [Stops -> Times]]
        /\ \A j \in 0..Rounds, u \in Stops : arr'[j][u] <= arr[j][u]
        /\ \A j \in 0..Rounds, u \in Stops : j < round => par'[j][u] = par[j][u]
    <3>1. \A j \in 0..Rounds, u \in Stops : arr[j][u] <= arr[j][u]
          BY <1>2
    <3> QED BY <1>1, <1>2, <3>1 DEF TypeOK
  <2>4. Reached(k, s, t, p)'
        BY <1>1, <1>2, <2>2, <2>3, ReachedKept
  <2> QED BY <1>1, <2>1, <2>4
<1>4. Later' /\ Least'
      BY <1>1, <1>2 DEF Sounds, Labelled, Later, Least
<1>5. Current'
  <2>1. \A s \in Stops \ {query.to} : par[round + 1][s] = NoParent
    <3>1. round + 1 > round
          BY <1>2
    <3> QED BY <1>2, <3>1 DEF Sounds, Labelled, Later
  <2> QED BY <1>1, <2>1 DEF Current
<1>6. Before'
  <2> SUFFICES ASSUME NEW s \in Stops \ {query.to}, par[(round + 1) - 1][s] # NoParent
               PROVE  arr[(round + 1) - 1][s] <= best[s]
      BY <1>1 DEF Before
  <2>1. (round + 1) - 1 = round
        BY <1>2
  <2>2. par[round][s] # NoParent
        BY <2>1
  <2>3. arr[round][s] <= best[s]
        BY <2>2 DEF Sounds, Labelled, Current
  <2> QED BY <2>1, <2>3
<1>7. NotBefore' /\ Rooted' /\ BoardedInTime'
      BY <1>1 DEF Sounds, Labelled, NotBefore, Rooted, BoardedInTime, IdleScan
<1>8. Profiles' /\ Rest' /\ Answers'
      BY <1>1, SearchFrame
<1> QED BY <1>3, <1>4, <1>5, <1>6, <1>7, <1>8 DEF Sounds, Labelled

LEMMA SoundLine ==
    ASSUME Typed, Sounds, BeginLine \/ EndLine \/ ScanDone
    PROVE  Sounds'
<1>1. /\ UNCHANGED <<tt, query, served, round, best, bestBefore, arr, par, nextMarked, destRound,
                     answerVars>>
      /\ phase = "scan" /\ phase' \in {"scan", "egress"}
      /\ phase' = "scan" => scan'.line = 0 \/ scan'.trip = NoTrip
  <2>1. CASE BeginLine
        BY <2>1 DEF BeginLine, IdleScan, answerVars
  <2>2. CASE EndLine
        BY <2>2 DEF EndLine, IdleScan, answerVars
  <2>3. CASE ScanDone
        BY <2>3 DEF ScanDone, answerVars
  <2> QED BY <2>1, <2>2, <2>3
<1>2. Labelled' /\ Profiles' /\ Rest' /\ Answers'
      BY <1>1, LabelledFrame, SearchFrame DEF Sounds
<1>3. Rooted' /\ BoardedInTime'
      BY <1>1 DEF Sounds, Rooted, BoardedInTime
<1> QED BY <1>2, <1>3 DEF Sounds

LEMMA SoundScan ==
    ASSUME Typed, Calm, Sounds, ScanPosition
    PROVE  Sounds'
<1>1. /\ UNCHANGED <<tt, query, phase, round, bestBefore, destRound, served, answerVars>>
      /\ phase = "scan" /\ scan.line # 0
      BY DEF ScanPosition, answerVars
<1>2. scan.pos \in DOMAIN Path
      BY ScanRecords
<1>3. PICK I, time, parent :
                 /\ I \in SUBSET {Path[scan.pos]}
                 /\ Recorded(round, [s \in Stops |-> time], [s \in Stops |-> parent], I)
                 /\ I # {} => RideRecord(time, parent)
                 /\ nextMarked' = nextMarked \union I
      BY ScanRecords
<1>4. Meant(round, [s \in Stops |-> time], [s \in Stops |-> parent], I)
  <2> SUFFICES ASSUME NEW s \in I
               PROVE  Reached(round, s, time, parent) /\ query.depart <= time
      BY <1>3 DEF Meant, Recorded
  <2>1. s = Path[scan.pos] /\ RideRecord(time, parent)
        BY <1>3
  <2> QED BY <1>1, <2>1, RideMeant DEF Sounds
<1>5. Labelled' /\ Rooted'
      BY <1>1, <1>3, <1>4, RecordedSounds
<1>6. BoardedInTime'
  <2>1. PICK bound \in Int :
                 /\ bound <= best[query.to]
                 /\ LET inChunk == scan.chunk > 0 \/ ChunkBegins
                        boarding == IF inChunk THEN {} ELSE Boarding(bound)
                    IN  scan' = [line    |-> scan.line,
                                 pos     |-> scan.pos + 1,
                                 trip    |-> IF boarding = {} THEN scan.trip ELSE CHOOSE t \in boarding : TRUE,
                                 boarded |-> IF boarding = {} THEN scan.boarded ELSE scan.pos,
                                 chunk   |-> IF scan.chunk > 0 THEN scan.chunk - 1
                                             ELSE IF inChunk THEN SvrtWidth - 1 ELSE 0]
        BY ScanRecords
  <2> DEFINE inChunk == scan.chunk > 0 \/ ChunkBegins
             boarding == IF inChunk THEN {} ELSE Boarding(bound)
  <2>2. /\ scan'.line = scan.line
        /\ scan'.trip = IF boarding = {} THEN scan.trip ELSE CHOOSE t \in boarding : TRUE
        /\ scan'.boarded = IF boarding = {} THEN scan.boarded ELSE scan.pos
        BY <2>1
  <2>3. boarding \subseteq Boarding(bound)
        OBVIOUS
  <2> HIDE DEF boarding, inChunk
  <2>4. CASE boarding = {}
    <3>1. scan'.line = scan.line /\ scan'.trip = scan.trip /\ scan'.boarded = scan.boarded
          BY <2>2, <2>4
    <3> QED BY <1>1, <3>1 DEF Sounds, BoardedInTime, Path, Dep
  <2>5. CASE boarding # {}
    <3>1. scan'.trip \in Boarding(bound) /\ scan'.boarded = scan.pos
          BY <2>2, <2>3, <2>5
    <3>2. bestBefore[Path[scan.pos]] <= Dep(tt, scan'.trip, scan.pos)
          BY <1>1, <1>2, <2>1, <3>1, BoardingKnown DEF Calm
    <3> QED BY <1>1, <2>2, <3>1, <3>2 DEF BoardedInTime, Path, Dep
  <2> QED BY <2>4, <2>5
<1>7. Profiles' /\ Rest' /\ Answers'
      BY <1>1, SearchFrame
<1> QED BY <1>5, <1>6, <1>7 DEF Sounds

LEMMA SoundRound ==
    ASSUME Typed, Sounds, RelaxTransfers \/ EndRound
    PROVE  Sounds'
<1>1. CASE RelaxTransfers
  <2>1. PICK I, time, parent :
              /\ I \in SUBSET Stops
              /\ Recorded(round, time, parent, I)
              /\ \A s \in I : WalkRecord(round, time[s], parent[s], s)
              /\ nextMarked' = nextMarked \union I
        BY <1>1, RelaxRecords
  <2>2. /\ UNCHANGED <<tt, query, round, bestBefore, destRound, served, answerVars>>
        /\ phase = "relax" /\ phase' = "egress"
        BY <1>1 DEF RelaxTransfers, answerVars
  <2>3. Meant(round, time, parent, I)
        BY <2>1, <2>2, Serving, WalkMeant DEF Typed, Sounds, Meant
  <2>4. Labelled' /\ Rooted'
        BY <2>1, <2>2, <2>3, RecordedSounds
  <2>5. BoardedInTime' /\ Profiles' /\ Rest' /\ Answers'
        BY <2>2, SearchFrame DEF BoardedInTime
  <2> QED BY <2>4, <2>5 DEF Sounds
<1>2. CASE EndRound
  <2>1. /\ UNCHANGED <<tt, query, served, round, best, bestBefore, arr, par, nextMarked, answerVars>>
        /\ destRound' = IF query.to \in nextMarked THEN round ELSE destRound
        /\ phase = "endRound" /\ phase' = "queue"
        BY <1>2 DEF EndRound, ReachedIn, answerVars
  <2>2. Labelled' /\ Profiles' /\ Rest' /\ Answers'
        BY <2>1, LabelledFrame, SearchFrame DEF Sounds
  <2>3. round > 0
        BY <2>1 DEF Typed, TypeOK
  <2>4. Rooted' /\ BoardedInTime'
        BY <2>1, <2>3 DEF Sounds, Rooted, BoardedInTime
  <2> QED BY <2>2, <2>4 DEF Sounds
<1> QED BY <1>1, <1>2

----------------------------------------------------------------------------
(* The answer.                                                              *)

LEMMA ParentMeant ==
    ASSUME Typed, Sounds, phase = "rebuild"
    PROVE  LET time == arr[at[2]][at[1]]
           IN  /\ Parent.kind = "walk" => WalkStep(at[2], at[1], time, Parent)
               /\ Parent.kind = "transit" => RideStep(at[2], at[1], time, Parent)
               /\ Parent.kind = "memo" => MemoStep(at[2], at[1], time, Parent)
               /\ Parent = Origin => at = <<query.from, 0>>
<1>1. at[1] \in Stops /\ at[2] \in 0..Rounds /\ at = <<at[1], at[2]>>
      BY ParentKnown
<1>2. PICK k, s, time, p : k = at[2] /\ s = at[1] /\ time = arr[k][s] /\ p = Parent
      OBVIOUS
<1>3. Reached(k, s, time, p)
      BY <1>1, <1>2 DEF Sounds, Labelled, Parents, Parent
<1>4. /\ NoParent.kind = "none" /\ Origin.kind = "origin"
      /\ WalkStep(k, s, time, p) => p.kind = "walk"
      /\ RideStep(k, s, time, p) => p.kind = "transit"
      /\ MemoStep(k, s, time, p) => p.kind = "memo"
  <2>1. WalkStep(k, s, time, p) => p.kind = "walk"
        BY DEF WalkStep, WalkFrom
  <2>2. RideStep(k, s, time, p) => p.kind = "transit"
        BY DEF RideStep, Ride
  <2>3. MemoStep(k, s, time, p) => p.kind = "memo"
        BY DEF MemoStep, Memoized
  <2> QED BY <2>1, <2>2, <2>3 DEF NoParent, Origin
<1>5. /\ p.kind = "walk" => WalkStep(k, s, time, p)
      /\ p.kind = "transit" => RideStep(k, s, time, p)
      /\ p.kind = "memo" => MemoStep(k, s, time, p)
      /\ p = Origin => k = 0 /\ s = query.from
      BY <1>3, <1>4 DEF Reached
<1> QED BY <1>1, <1>2, <1>5

\* Some legs put before those rebuilt so far.
LEMMA Prepended ==
    ASSUME Typed, Sounds, phase = "rebuild", phase' = "rebuild", ~AtOrigin,
           UNCHANGED <<tt, query, arr, par, destRound>>,
           NEW a, NEW f \in Stops, NEW r \in 0..Rounds, Journey(a, f, at[1]),
           a[Len(a)].arr = arr[at[2]][at[1]], Parent # NoParent,
           legs' = a \o legs, at' = <<f, r>>,
           par[r][f] # NoParent => arr[r][f] <= a[1].dep,
           \A i \in 1..Len(a) : \/ InnerLeg(a[i])
                                \/ i = 1 /\ <<f, r>> = <<query.from, 0>> /\ AccessLeg(a[i]),
           TransitLegs(a) + r <= at[2]
    PROVE  Rest'
<1>1. /\ TypeOK /\ legs \in Seq(Leg) /\ a \in Legs /\ a \in Seq(Leg) /\ Len(a) \in Nat
      /\ at[2] \in 0..Rounds /\ destRound \in Int /\ at = <<at[1], at[2]>>
  <2>1. a \in Legs /\ TypeOK /\ legs \in Seq(Leg) /\ destRound \in 0..None
        BY DEF Typed, TypeOK, Journey
  <2>2. a \in Seq(Leg) /\ Len(a) \in Nat
        BY <2>1, LegsKnown
  <2>3. at[2] \in 0..Rounds /\ at = <<at[1], at[2]>>
        BY ParentKnown
  <2> QED BY <2>1, <2>2, <2>3
<1>2. a # <<>> /\ 1 \in 1..Len(a)
      BY <1>1, LegsKnown DEF Legs
<1>3. CASE legs = <<>>
  <2>1. legs' = a
        BY <1>1, <1>3
  <2>2. at = <<query.to, destRound>>
        BY <1>3 DEF Sounds, Rest
  <2>3. at[1] = query.to /\ at[2] = destRound
        BY <2>2
  <2>4. \A i \in 1..Len(a) : \/ InnerLeg(a[i])'
                             \/ i = 1 /\ at' = <<query.from, 0>> /\ AccessLeg(a[i])'
        BY LegsKept
  <2>5. Parent' = par[r][f] /\ at'[1] = f /\ at'[2] = r
        BY DEF Parent
  <2> QED BY <1>2, <2>1, <2>3, <2>4, <2>5 DEF Rest, TransitLegs
<1>4. CASE legs # <<>>
  <2>0. PICK c : c = a \o legs
        OBVIOUS
  <2>1. /\ Journey(legs, at[1], query.to)
        /\ legs[Len(legs)].arr = arr[destRound][query.to]
        /\ arr[at[2]][at[1]] <= legs[1].dep
        /\ \A i \in 1..Len(legs) : InnerLeg(legs[i])
        /\ TransitLegs(legs) + at[2] <= destRound
    <3>1. at # <<query.from, 0>>
          BY DEF AtOrigin
    <3> QED BY <1>4, <3>1 DEF Sounds, Rest
  <2>2. /\ Journey(c, f, query.to)
        /\ c[1] = a[1]
        /\ c[Len(c)] = legs[Len(legs)]
        /\ \A i \in 1..Len(c) : \/ i \in 1..Len(a) /\ c[i] = a[i]
                                \/ \E j \in 1..Len(legs) : i = Len(a) + j /\ c[i] = legs[j]
    <3>1. a[Len(a)].arr <= legs[1].dep
          BY <2>1
    <3>2. Joins(a \o legs, a, legs, f, query.to)
          BY <2>1, <3>1, JoinedJourneys
    <3> QED BY <2>0, <3>2 DEF Joins
  <2>3. TransitLegs(c) = TransitLegs(a) + TransitLegs(legs)
        BY <1>1, <2>0, JoinedRides
  <2>4. TransitLegs(c) + r <= destRound
    <3>1. TransitLegs(a) \in Nat /\ TransitLegs(legs) \in Nat
          BY <1>1, TransitLegsOf
    <3> QED BY <1>1, <2>1, <2>3, <3>1
  <2>5. c # <<>>
        BY <2>2 DEF Journey, Legs
  <2>6. ASSUME NEW i \in 1..Len(c)
        PROVE  \/ InnerLeg(c[i])
               \/ i = 1 /\ <<f, r>> = <<query.from, 0>> /\ AccessLeg(c[i])
    <3>1. CASE i \in 1..Len(a) /\ c[i] = a[i]
          BY <3>1
    <3>2. CASE \E j \in 1..Len(legs) : i = Len(a) + j /\ c[i] = legs[j]
          BY <2>1, <3>2
    <3> QED BY <2>2, <3>1, <3>2
  <2>7. \A i \in 1..Len(c) : \/ InnerLeg(c[i])'
                             \/ i = 1 /\ at' = <<query.from, 0>> /\ AccessLeg(c[i])'
    <3> SUFFICES ASSUME NEW i \in 1..Len(c)
                 PROVE  \/ InnerLeg(c[i])'
                        \/ i = 1 /\ at' = <<query.from, 0>> /\ AccessLeg(c[i])'
        OBVIOUS
    <3>1. PICK leg : leg = c[i]
          OBVIOUS
    <3>2. /\ InnerLeg(leg) => InnerLeg(leg)'
          /\ AccessLeg(leg) => AccessLeg(leg)'
          BY LegsKept
    <3> QED BY <2>6, <3>1, <3>2
  <2>8. Parent' = par[r][f] /\ at'[1] = f /\ at'[2] = r
        BY DEF Parent
  <2>9. legs' = c
        BY <2>0
  <2>10. /\ arr'[destRound'][query'.to] = arr[destRound][query.to]
         /\ TransitLegs(legs)' = TransitLegs(c)
         /\ Parent' # NoParent => arr'[r][f] <= c[1].dep
         BY <2>2, <2>8, <2>9 DEF TransitLegs
  <2> QED BY <2>1, <2>2, <2>4, <2>5, <2>7, <2>8, <2>9, <2>10 DEF Rest
<1> QED BY <1>3, <1>4

LEMMA RestWalk ==
    ASSUME Typed, Sounds, RebuildWalk
    PROVE  Rest'
<1>1. /\ phase = "rebuild" /\ phase' = "rebuild" /\ ~AtOrigin /\ Parent.kind = "walk"
      /\ UNCHANGED <<tt, query, arr, par, destRound>>
      BY DEF RebuildWalk, searchVars
<1> DEFINE time == arr[at[2]][at[1]]
           leg == [from |-> Parent.from, to |-> at[1], trip |-> NoTrip,
                   dep |-> time - Parent.secs, arr |-> time]
<1>2. legs' = <<leg>> \o legs /\ at' = <<Parent.from, at[2]>>
      BY DEF RebuildWalk
<1>3. /\ TypeOK /\ at[1] \in Stops /\ at[2] \in 0..Rounds /\ Parent \in ParentSteps
      /\ time \in Times
      BY <1>1, ParentKnown DEF Typed
<1>4. PICK f \in Stops, secs \in Nat :
        /\ Parent = WalkFrom(f, secs)
        /\ arr[at[2]][f] + secs <= time
        /\ \/ secs = tt.walk[<<f, at[1]>>] /\ secs < Inf
           \/ at[2] = 0 /\ f = query.from /\ <<at[1], secs>> \in query.access
      BY <1>1, ParentMeant DEF WalkStep
<1>5. Parent.from = f /\ Parent.secs = secs /\ Parent # NoParent
      BY <1>4 DEF WalkFrom, NoParent
<1>6. arr[at[2]][f] \in Int /\ time \in Int
      BY <1>3, LabelsKnown
<1>7. /\ leg.from = f /\ leg.to = at[1] /\ leg.trip = NoTrip
      /\ leg.dep = time - secs /\ leg.arr = time
      BY <1>5
<1>8. leg \in Leg
  <2>1. time - secs \in Int
        BY <1>6
  <2> QED BY <1>3, <1>5, <2>1 DEF Leg, NoTrip
<1> HIDE DEF leg, time
<1>9. /\ leg.dep <= leg.arr /\ leg.arr - leg.dep = secs /\ arr[at[2]][f] <= leg.dep
      BY <1>4, <1>6, <1>7
<1>10. Journey(<<leg>>, f, at[1])
       BY <1>7, <1>8, <1>9, OneLeg
<1>11. InnerLeg(leg) \/ (<<f, at[2]>> = <<query.from, 0>> /\ AccessLeg(leg))
  <2>1. CASE secs = tt.walk[<<f, at[1]>>] /\ secs < Inf
    <3>1. secs # Inf
          BY <2>1, Constants
    <3> QED BY <1>7, <1>9, <2>1, <3>1 DEF InnerLeg, WalkLeg
  <2>2. CASE at[2] = 0 /\ f = query.from /\ <<at[1], secs>> \in query.access
        BY <1>7, <1>9, <2>2 DEF AccessLeg
  <2> QED BY <1>4, <2>1, <2>2
<1>12. TransitLegs(<<leg>>) + at[2] <= at[2]
  <2>1. TransitLegs(<<leg>>) = 0
        BY <1>7, <1>8, OneLegRides
  <2> QED BY <1>3, <2>1
<1> DEFINE a == <<leg>>
<1>13. Len(a) = 1 /\ a[1] = leg /\ \A i \in 1..Len(a) : i = 1
       OBVIOUS
<1>14. /\ Journey(a, f, at[1]) /\ legs' = a \o legs /\ TransitLegs(a) + at[2] <= at[2]
       BY <1>2, <1>10, <1>12
<1> HIDE DEF a
<1>15. a[Len(a)].arr = arr[at[2]][at[1]]
       BY <1>7, <1>13 DEF time
<1>16. arr[at[2]][f] <= a[1].dep
       BY <1>9, <1>13
<1>17. \A i \in 1..Len(a) : \/ InnerLeg(a[i])
                            \/ i = 1 /\ <<f, at[2]>> = <<query.from, 0>> /\ AccessLeg(a[i])
       BY <1>11, <1>13
<1> QED BY <1>1, <1>2, <1>3, <1>5, <1>14, <1>15, <1>16, <1>17, Prepended

LEMMA RestRide ==
    ASSUME Typed, Calm, Sounds, RebuildRide
    PROVE  Rest'
<1>1. /\ phase = "rebuild" /\ phase' = "rebuild" /\ ~AtOrigin /\ Parent.kind = "transit"
      /\ UNCHANGED <<tt, query, arr, par, destRound>>
      BY DEF RebuildRide, searchVars
<1>2. /\ TypeOK /\ at[1] \in Stops /\ at[2] \in 0..Rounds /\ arr[at[2]][at[1]] \in Times
      /\ query.allowed \subseteq LinesOf(tt)
      BY <1>1, ParentKnown, Serving DEF Typed
<1>3. PICK l \in query.allowed : \E i, j \in DOMAIN tt.path[l] :
          \E t \in tt.trips[l] \intersect tt.available :
            /\ Parent = Ride(t, l, i, j)
            /\ at[2] \in 1..round
            /\ i < j
            /\ tt.path[l][j] = at[1]
            /\ ~Skipped(tt, t, i) /\ ~Skipped(tt, t, j)
            /\ arr[at[2]][at[1]] = Arr(tt, t, j)
            /\ \/ par[at[2] - 1][tt.path[l][i]] = NoParent
               \/ arr[at[2] - 1][tt.path[l][i]] <= Dep(tt, t, i)
      BY <1>1, ParentMeant DEF RideStep
<1>4. PICK i \in DOMAIN tt.path[l], j \in DOMAIN tt.path[l], t \in tt.trips[l] \intersect tt.available :
            /\ Parent = Ride(t, l, i, j)
            /\ at[2] \in 1..round
            /\ i < j
            /\ tt.path[l][j] = at[1]
            /\ ~Skipped(tt, t, i) /\ ~Skipped(tt, t, j)
            /\ arr[at[2]][at[1]] = Arr(tt, t, j)
            /\ \/ par[at[2] - 1][tt.path[l][i]] = NoParent
               \/ arr[at[2] - 1][tt.path[l][i]] <= Dep(tt, t, i)
      BY <1>3
<1> DEFINE f == tt.path[l][i]
           leg == [from |-> f, to |-> at[1], trip |-> t, dep |-> Dep(tt, t, i), arr |-> arr[at[2]][at[1]]]
<1>5. /\ Parent.line = l /\ Parent.trip = t /\ Parent.board = i /\ Parent.alight = j
      /\ Parent # NoParent
      BY <1>4 DEF Ride, NoParent
<1>6. /\ at[2] # 0 /\ at[2] \in Int /\ at[2] - 1 \in 0..Rounds
      BY <1>2, <1>4, Constants
<1>7. legs' = <<leg>> \o legs /\ at' = <<f, at[2] - 1>>
      BY <1>4, <1>5, <1>6 DEF RebuildRide
<1>8. f \in Stops /\ t \in Nat /\ t # NoTrip /\ Dep(tt, t, i) \in Times /\ Arr(tt, t, j) \in Times
      BY <1>2, KnownPath DEF NoTrip
<1>9. Dep(tt, t, i) \in Int /\ Arr(tt, t, j) \in Int
      BY <1>8, Constants, Zenon
<1>10. leg \in Leg
       BY <1>2, <1>8, <1>9 DEF Leg
<1>11. /\ leg.from = f /\ leg.to = at[1] /\ leg.trip = t
       /\ leg.dep = Dep(tt, t, i) /\ leg.arr = Arr(tt, t, j) /\ leg.arr = arr[at[2]][at[1]]
       BY <1>4
<1> HIDE DEF leg
<1>12. leg.dep <= leg.arr
       BY <1>2, <1>4, <1>11 DEF Calm, Forward
<1>13. Journey(<<leg>>, f, at[1])
  <2> HIDE DEF f
  <2> QED BY <1>10, <1>11, <1>12, OneLeg
<1>14. InnerLeg(leg)
  <2>1. RideLeg(leg, query.allowed)
        BY <1>4, <1>11 DEF RideLeg
  <2> QED BY <2>1 DEF InnerLeg
<1>15. TransitLegs(<<leg>>) + (at[2] - 1) <= at[2]
  <2>1. TransitLegs(<<leg>>) = 1
        BY <1>8, <1>10, <1>11, OneLegRides
  <2> QED BY <1>6, <2>1
<1> DEFINE a == <<leg>>
<1>16. Len(a) = 1 /\ a[1] = leg /\ \A x \in 1..Len(a) : x = 1
       OBVIOUS
<1>17. /\ Journey(a, f, at[1]) /\ legs' = a \o legs /\ TransitLegs(a) + (at[2] - 1) <= at[2]
       BY <1>7, <1>13, <1>15
<1> HIDE DEF a
<1>18. a[Len(a)].arr = arr[at[2]][at[1]]
       BY <1>11, <1>16
<1>19. par[at[2] - 1][f] # NoParent => arr[at[2] - 1][f] <= a[1].dep
       BY <1>4, <1>11, <1>16
<1>20. \A x \in 1..Len(a) : InnerLeg(a[x])
       BY <1>14, <1>16
<1> HIDE DEF f
<1> QED BY <1>1, <1>5, <1>6, <1>7, <1>8, <1>17, <1>18, <1>19, <1>20, Prepended

LEMMA RestMemo ==
    ASSUME Typed, Sounds, RebuildMemo
    PROVE  Rest'
<1>1. /\ phase = "rebuild" /\ phase' = "rebuild" /\ ~AtOrigin /\ Parent.kind = "memo"
      /\ UNCHANGED <<tt, query, arr, par, destRound>>
      BY DEF RebuildMemo, searchVars
<1>2. round \in 0..Rounds /\ at[2] \in 0..Rounds /\ Rounds \in Nat
      BY <1>1, ParentKnown, Constants DEF Typed, TypeOK
<1>3. PICK f \in Stops, r \in 0..round, ls \in Legs :
        /\ Parent = Memoized(f, r, ls)
        /\ at[1] = query.to
        /\ Journey(ls, f, at[1])
        /\ arr[r][f] <= ls[1].dep
        /\ arr[at[2]][at[1]] = ls[Len(ls)].arr
        /\ \A i \in 1..Len(ls) : InnerLeg(ls[i])
        /\ r + TransitLegs(ls) <= at[2]
      BY <1>1, ParentMeant DEF MemoStep
<1>4. Parent.from = f /\ Parent.round = r /\ Parent.legs = ls /\ Parent # NoParent
      BY <1>3 DEF Memoized, NoParent
<1>5. legs' = ls \o legs /\ at' = <<f, r>>
      BY <1>4 DEF RebuildMemo
<1>6. r \in 0..Rounds /\ TransitLegs(ls) + r <= at[2]
  <2>1. TransitLegs(ls) \in Nat
        BY LegsKnown, TransitLegsOf
  <2> QED BY <1>2, <1>3, <2>1
<1> QED BY <1>1, <1>3, <1>4, <1>5, <1>6, Prepended

LEMMA AnswerFrame ==
    ASSUME Sounds, UNCHANGED <<tt, query, searchVars, served>>, phase' # "scan"
    PROVE  Labelled' /\ Rooted' /\ BoardedInTime'
<1>1. UNCHANGED <<tt, query, served, round, best, bestBefore, arr, par, nextMarked, destRound>>
      BY DEF searchVars
<1>2. Labelled'
      BY <1>1, LabelledFrame DEF Sounds
<1> QED BY <1>1, <1>2 DEF Sounds, Rooted, BoardedInTime

LEMMA SoundRebuild ==
    ASSUME Typed, Calm, Sounds, RebuildWalk \/ RebuildRide \/ RebuildMemo
    PROVE  Sounds'
<1>1. /\ UNCHANGED <<tt, query, searchVars, served, cache, answer>>
      /\ phase = "rebuild" /\ phase' = "rebuild"
      BY DEF RebuildWalk, RebuildRide, RebuildMemo
<1>2. Labelled' /\ Rooted' /\ BoardedInTime'
      BY <1>1, AnswerFrame
<1>3. Profiles' /\ Answers'
      BY <1>1, ProfilesFrame DEF Sounds, Answers
<1>4. Rest'
      BY RestWalk, RestRide, RestMemo
<1> QED BY <1>2, <1>3, <1>4 DEF Sounds

\* The legs rebuilt up to the origin are what the answer promises.
LEMMA Complete ==
    ASSUME Typed, Sounds, phase = "rebuild", AtOrigin, legs # <<>>
    PROVE  /\ Journey(legs, query.from, query.to)
           /\ query.depart <= legs[1].dep
           /\ legs[Len(legs)].arr = arr[destRound][query.to]
           /\ \A i \in 1..Len(legs) : InnerLeg(legs[i]) \/ (i = 1 /\ AccessLeg(legs[i]))
           /\ TransitLegs(legs) <= Rounds
<1>1. /\ Journey(legs, at[1], query.to)
      /\ legs[Len(legs)].arr = arr[destRound][query.to]
      /\ Parent # NoParent => arr[at[2]][at[1]] <= legs[1].dep
      /\ \A i \in 1..Len(legs) : \/ InnerLeg(legs[i])
                                 \/ i = 1 /\ at = <<query.from, 0>> /\ AccessLeg(legs[i])
      /\ TransitLegs(legs) + at[2] <= destRound
      BY DEF Sounds, Rest
<1>2. at = <<query.from, 0>>
      BY ParentMeant DEF AtOrigin
<1>3. at[1] = query.from /\ at[2] = 0
      BY <1>2
<1>4. Parent = Origin /\ arr[at[2]][at[1]] = query.depart
      BY <1>3, Serving DEF Typed, Sounds, Rooted, Parent
<1>5. Origin # NoParent
      BY DEF Origin, NoParent
<1>6. TransitLegs(legs) <= Rounds
  <2>1. TransitLegs(legs) \in Nat /\ legs \in Seq(Leg) /\ destRound \in 0..Rounds /\ Rounds \in Nat
    <3>1. legs \in Seq(Leg) /\ destRound \in 0..None /\ destRound # None
          BY DEF Typed, TypeOK
    <3>2. destRound \in 0..Rounds
          BY <3>1, Constants
    <3> QED BY <3>1, <3>2, TransitLegsOf, Constants
  <2> QED BY <1>1, <1>3, <2>1
<1> QED BY <1>1, <1>3, <1>4, <1>5, <1>6

LEMMA SoundRespond ==
    ASSUME Typed, Sounds, Respond
    PROVE  Sounds'
<1>1. /\ UNCHANGED <<tt, query, searchVars, served, legs>>
      /\ phase = "rebuild" /\ phase' = "idle" /\ AtOrigin
      /\ answer' = [arrival |-> arr[destRound][query.to], legs |-> legs]
      BY DEF Respond
<1>2. Labelled' /\ Rooted' /\ BoardedInTime' /\ Rest'
      BY <1>1, AnswerFrame DEF Rest
<1>3. Answers'
  <2> SUFFICES ASSUME legs # <<>> PROVE Feasible'
      BY <1>1 DEF Answers, Feasible
  <2>1. PICK ls : ls = legs
        OBVIOUS
  <2>2. /\ Journey(ls, query.from, query.to)
        /\ query.depart <= ls[1].dep
        /\ ls[Len(ls)].arr = arr[destRound][query.to]
        /\ \A i \in 1..Len(ls) : InnerLeg(ls[i]) \/ AccessLeg(ls[i])
        /\ TransitLegs(ls) <= Rounds
        BY <1>1, <2>1, Complete
  <2>3. /\ answer'.legs = ls /\ answer'.arrival = arr[destRound][query.to]
        /\ query' = query
        BY <1>1, <2>1
  <2>4. Len(ls) \in Nat /\ \A i \in 1..Len(ls) : ls[i].dep \in Int
        BY <2>2, LegsKnown DEF Journey
  <2>5. /\ ls[1].from = query.from /\ ls[1].dep >= query.depart
        /\ ls[Len(ls)].to = query.to
    <3>1. ls[1].from = query.from /\ ls[Len(ls)].to = query.to /\ ls \in Legs
          BY <2>2 DEF Journey
    <3>2. ls[1].dep \in Int /\ query.depart \in Int
          BY <1>1, <3>1, LegsKnown, Serving DEF Typed
    <3> QED BY <2>2, <3>1, <3>2
  <2>6. /\ \A i \in 1..Len(ls) : ls[i].dep <= ls[i].arr
        /\ \A i \in 1..(Len(ls) - 1) : ls[i].to = ls[i + 1].from /\ ls[i].arr <= ls[i + 1].dep
    <3>1. Chain(ls)
          BY <2>2 DEF Journey
    <3>2. ASSUME NEW i \in 1..(Len(ls) - 1) PROVE i \in 1..Len(ls) /\ i + 1 \in 1..Len(ls) /\ i < i + 1
          BY <2>4
    <3> QED BY <3>1, <3>2 DEF Chain
  <2>7. ASSUME NEW i \in 1..Len(ls)
        PROVE  \/ RideLeg(ls[i], query.allowed)' \/ WalkLeg(ls[i])'
               \/ AccessLeg(ls[i])' \/ EgressLeg(ls[i])'
    <3>1. PICK leg : leg = ls[i]
          OBVIOUS
    <3>2. InnerLeg(leg)' \/ AccessLeg(leg)'
          BY <1>1, <2>2, <3>1, LegsKept
    <3> QED BY <3>1, <3>2 DEF InnerLeg
  <2>8. TransitLegs(answer.legs)' <= Rounds
        BY <2>2, <2>3 DEF TransitLegs
  <2> QED BY <2>2, <2>3, <2>5, <2>6, <2>7, <2>8 DEF Feasible
<1>4. Profiles'
  <2> SUFFICES ASSUME NEW p \in cache'
               PROVE  /\ Journey(p.legs, p.stop, p.to)
                      /\ p.legs[1].dep = p.ready
                      /\ p.legs[Len(p.legs)].arr = p.arrival
                      /\ \A i \in 1..Len(p.legs) : RealLeg(p.legs[i])'
      BY DEF Profiles
  <2>1. CASE p \in cache
    <3>1. /\ Journey(p.legs, p.stop, p.to)
          /\ p.legs[1].dep = p.ready
          /\ p.legs[Len(p.legs)].arr = p.arrival
          /\ \A i \in 1..Len(p.legs) : RealLeg(p.legs[i])
          BY <2>1 DEF Sounds, Profiles
    <3> QED BY <1>1, <3>1, LegsKept
  <2>2. CASE p \notin cache
    <3>1. PICK ls : ls = legs
          OBVIOUS
    <3>2. /\ ~FilterActive /\ Exact
          /\ \E i \in 1..Len(ls) :
                /\ query.access = {} \/ ls[i].from # query.from
                /\ p = [stop |-> ls[i].from, to |-> query.to,
                        ready |-> ls[i].dep, arrival |-> ls[Len(ls)].arr,
                        legs |-> SubSeq(ls, i, Len(ls))]
          BY <2>2, <3>1, Inserted
    <3>3. PICK i \in 1..Len(ls) :
                /\ query.access = {} \/ ls[i].from # query.from
                /\ p = [stop |-> ls[i].from, to |-> query.to,
                        ready |-> ls[i].dep, arrival |-> ls[Len(ls)].arr,
                        legs |-> SubSeq(ls, i, Len(ls))]
          BY <3>2
    <3>4. /\ Journey(ls, query.from, query.to)
          /\ \A j \in 1..Len(ls) : InnerLeg(ls[j]) \/ (j = 1 /\ AccessLeg(ls[j]))
      <4>1. ls # <<>>
            BY <3>3
      <4> QED BY <1>1, <3>1, <4>1, Complete
    <3>5. /\ Journey(p.legs, p.stop, p.to)
          /\ p.legs[1] = ls[i]
          /\ p.legs[Len(p.legs)] = ls[Len(ls)]
          /\ \A j \in 1..Len(p.legs) : i + j - 1 \in i..Len(ls) /\ p.legs[j] = ls[i + j - 1]
          BY <3>3, <3>4, SuffixJourney
    <3>6. p.legs[1].dep = p.ready /\ p.legs[Len(p.legs)].arr = p.arrival
          BY <3>3, <3>5
    <3>7. ASSUME NEW j \in i..Len(ls) PROVE RealLeg(ls[j])
      <4>1. j \in 1..Len(ls) /\ (j = 1 => i = 1)
            BY <3>4, LegsKnown DEF Journey
      <4>2. ~(j = 1 /\ AccessLeg(ls[j]))
            BY <3>3, <4>1 DEF AccessLeg
      <4>3. ~EgressLeg(ls[j])
            BY <3>2 DEF Exact, EgressLeg
      <4> QED BY <3>2, <3>4, <4>1, <4>2, <4>3 DEF InnerLeg, RealLeg, FilterActive
    <3>8. \A j \in 1..Len(p.legs) : RealLeg(p.legs[j])
          BY <3>5, <3>7
    <3> QED BY <1>1, <3>5, <3>6, <3>8, LegsKept
  <2> QED BY <2>1, <2>2
<1> QED BY <1>2, <1>3, <1>4 DEF Sounds

LEMMA SoundAnswer ==
    ASSUME Typed, Calm, Sounds, AnswerStep
    PROVE  Sounds'
<1>1. CASE NoItinerary \/ RebuildFails \/ RestartAfterFailure
  <2>1. /\ UNCHANGED <<tt, query, searchVars, served, cache, answer>>
        /\ phase # "idle" /\ phase' \in {"idle", "failed"}
    <3>1. CASE NoItinerary
          BY <3>1 DEF NoItinerary, SearchDone, answerVars
    <3>2. CASE RebuildFails
          BY <3>2 DEF RebuildFails, answerVars
    <3>3. CASE RestartAfterFailure
          BY <3>3 DEF RestartAfterFailure, answerVars
    <3> QED BY <1>1, <3>1, <3>2, <3>3
  <2>2. Labelled' /\ Rooted' /\ BoardedInTime' /\ Profiles' /\ Rest'
        BY <2>1, AnswerFrame, ProfilesFrame DEF Sounds, Rest
  <2>3. answer' = NoAnswer
        BY <2>1 DEF Sounds, Answers
  <2>4. Answers'
        BY <2>3 DEF Answers, Feasible, NoAnswer
  <2> QED BY <2>2, <2>4 DEF Sounds
<1>2. CASE BeginRebuild
  <2>1. /\ UNCHANGED <<tt, query, searchVars, served, cache, answer, legs, destRound>>
        /\ phase = "queue" /\ phase' = "rebuild" /\ at' = <<query.to, destRound>>
        BY <1>2 DEF BeginRebuild, SearchDone, searchVars
  <2>2. Labelled' /\ Rooted' /\ BoardedInTime' /\ Profiles'
        BY <2>1, AnswerFrame, ProfilesFrame DEF Sounds
  <2>3. Rest' /\ Answers'
        BY <2>1 DEF Sounds, Rest, Answers
  <2> QED BY <2>2, <2>3 DEF Sounds
<1>3. CASE RebuildWalk \/ RebuildRide \/ RebuildMemo
      BY <1>3, SoundRebuild
<1>4. CASE Respond
      BY <1>4, SoundRespond
<1> QED BY <1>1, <1>2, <1>3, <1>4 DEF AnswerStep

LEMMA SoundStutter ==
    ASSUME Sounds, UNCHANGED vars
    PROVE  Sounds'
<1>1. UNCHANGED <<tt, query, phase, round, best, bestBefore, arr, par, nextMarked, scan, destRound,
                  at, legs, answer, cache, served>>
      BY DEF vars, searchVars, answerVars
<1>2. Labelled' /\ Profiles'
      BY <1>1, LabelledFrame, ProfilesFrame DEF Sounds
<1>3. Rooted' /\ BoardedInTime'
  <2>1. Rooted'
        BY <1>1 DEF Sounds, Rooted
  <2>2. BoardedInTime'
        BY <1>1 DEF Sounds, BoardedInTime, Path, Dep
  <2> QED BY <2>1, <2>2
<1>5. Answers'
  <2>1. Feasible => Feasible'
    <3> SUFFICES ASSUME Feasible, Answered', answer.legs # <<>> PROVE Feasible'
        BY <1>1 DEF Feasible
    <3>1. Answered
          BY <1>1 DEF Answered
    <3>2. \A leg : \/ RideLeg(leg, query.allowed) \/ WalkLeg(leg) \/ AccessLeg(leg) \/ EgressLeg(leg)
                  => (RideLeg(leg, query.allowed) \/ WalkLeg(leg) \/ AccessLeg(leg) \/ EgressLeg(leg))'
          BY <1>1, LegsKept DEF InnerLeg
    <3>3. (TransitLegs(answer.legs) <= Rounds) => (TransitLegs(answer.legs) <= Rounds)'
          BY <1>1 DEF TransitLegs
    <3>4. PICK ls : ls = answer.legs
          OBVIOUS
    <3>5. /\ ls[1].from = query.from /\ ls[1].dep >= query.depart
          /\ ls[Len(ls)].to = query.to /\ ls[Len(ls)].arr = answer.arrival
          /\ \A i \in 1..Len(ls) : ls[i].dep <= ls[i].arr
          /\ \A i \in 1..(Len(ls) - 1) : ls[i].to = ls[i + 1].from /\ ls[i].arr <= ls[i + 1].dep
          BY <3>1, <3>4 DEF Feasible
    <3>6. \A i \in 1..Len(ls) :
             (\/ RideLeg(ls[i], query.allowed) \/ WalkLeg(ls[i]) \/ AccessLeg(ls[i]) \/ EgressLeg(ls[i]))'
          BY <3>1, <3>2, <3>4 DEF Feasible
    <3>7. (TransitLegs(answer.legs) <= Rounds)'
          BY <3>1, <3>3 DEF Feasible
    <3> QED BY <1>1, <3>4, <3>5, <3>6, <3>7 DEF Feasible
  <2> QED BY <1>1, <2>1 DEF Sounds, Answers
<1>4. Rest'
  <2>1. \A leg : /\ InnerLeg(leg) => InnerLeg(leg)'
                 /\ AccessLeg(leg) => AccessLeg(leg)'
        BY <1>1, LegsKept
  <2> QED BY <1>1, <2>1 DEF Sounds, Rest, Parent, TransitLegs
<1> QED BY <1>2, <1>3, <1>4, <1>5 DEF Sounds

LEMMA SoundStep == Typed /\ Sound /\ [Next]_vars => Sound'
<1> SUFFICES ASSUME Typed, Sound, [Next]_vars, Calm' PROVE Sounds'
    BY DEF Sound
<1>1. tt' = tt
  <2>1. ASSUME NEW q \in Requests(tt), Start(q) PROVE tt' = tt
        BY <2>1 DEF Start
  <2>2. CASE SearchStep
        BY <2>2 DEF SearchStep, WalkFromSeed, SeedsDone, Egress, Lookahead, LookaheadDone, QueueLines,
                    BeginLine, ScanPosition, EndLine, ScanDone, RelaxTransfers, EndRound
  <2>3. CASE AnswerStep
        BY <2>3 DEF AnswerStep, NoItinerary, BeginRebuild, RebuildWalk, RebuildRide, RebuildMemo,
                    RebuildFails, Respond, RestartAfterFailure
  <2>4. CASE UNCHANGED vars
        BY <2>4 DEF vars
  <2> QED BY <2>1, <2>2, <2>3, <2>4 DEF Next
<1>2. Calm
      BY <1>1 DEF Calm, NoneEarly, Forward, LinesOf, Dep, Arr, SchedDep
<1>3. Sounds
      BY <1>2 DEF Sound
<1>4. ASSUME NEW q \in Requests(tt), Start(q) PROVE Sounds'
      BY <1>3, <1>4, SoundStart
<1>5. CASE SearchStep
      BY <1>2, <1>3, <1>5, SoundSeeds, SoundLookahead, SoundLookaheadDone, SoundQueue, SoundLine,
         SoundScan, SoundRound DEF SearchStep
<1>6. CASE AnswerStep
      BY <1>2, <1>3, <1>6, SoundAnswer
<1>7. CASE UNCHANGED vars
      BY <1>3, <1>7, SoundStutter
<1> QED BY <1>4, <1>5, <1>6, <1>7 DEF Next

\* Feasible: where no trip runs early and none arrives before it has left, every
\* answer can be travelled within the transfer limit, those chained to memoized
\* suffixes and those between virtual ends included.
THEOREM AnswersAreTravelled == Spec => [](NoneEarly(tt) /\ Forward(tt) => Feasible)
<1>1. Init => Sound
      BY SoundInit DEF Sound
<1>2. Sound => (NoneEarly(tt) /\ Forward(tt) => Feasible)
  <2>1. ASSUME Sounds PROVE Feasible
        BY <2>1 DEF Sounds, Answers, Feasible, Answered
  <2> QED BY <2>1 DEF Sound, Calm
<1> QED BY <1>1, <1>2, SearchTyped, SoundStep, PTL DEF Spec

----------------------------------------------------------------------------
(* The reference: what can be reached.                                      *)

LEMMA UpTo ==
    ASSUME NEW N \in Nat, NEW S, 0 \in S, \A p \in 1..N : p - 1 \in S => p \in S
    PROVE  0..N \subseteq S
<1> DEFINE T == (0..N) \ S
<1>1. SUFFICES ASSUME T # {} PROVE FALSE
      OBVIOUS
<1>2. T \in SUBSET Int /\ 0 \in Int /\ \A x \in T : 0 <= x
      OBVIOUS
<1>3. MinOf(T) \in T /\ \A y \in T : MinOf(T) <= y
  <2> HIDE DEF T
  <2> QED BY <1>1, <1>2, LeastOf
<1> QED BY <1>3

\* A function defined from each number to the next exists.
Unrolls(N, S, first, g) == \E f \in [0..N -> S] : f[0] = first /\ \A p \in 1..N : f[p] = g[f[p - 1]]

LEMMA StepByStep ==
    ASSUME NEW N \in Nat, NEW S, NEW first \in S, NEW g \in [S -> S]
    PROVE  Unrolls(N, S, first, g)
<1> DEFINE Good(n, f) == f[0] = first /\ \A p \in 1..n : f[p] = g[f[p - 1]]
           T == {n \in 0..N : \E f \in [0..n -> S] : Good(n, f)}
<1>1. 0 \in T
  <2> DEFINE f == [p \in 0..0 |-> first]
  <2>1. f \in [0..0 -> S] /\ Good(0, f)
        OBVIOUS
  <2> HIDE DEF f
  <2> QED BY <2>1
<1>2. ASSUME NEW n \in 1..N, n - 1 \in T PROVE n \in T
  <2>1. PICK f \in [0..(n - 1) -> S] : Good(n - 1, f)
        BY <1>2
  <2> DEFINE h == [p \in 0..n |-> IF p = n THEN g[f[n - 1]] ELSE f[p]]
  <2>2. n - 1 \in 0..(n - 1) /\ \A p \in 0..n : p # n => p \in 0..(n - 1)
        OBVIOUS
  <2>3. h \in [0..n -> S]
        BY <2>2
  <2>4. h[0] = first
        BY <2>1
  <2>5. ASSUME NEW p \in 1..n PROVE h[p] = g[h[p - 1]]
    <3>1. h[p - 1] = f[p - 1]
          OBVIOUS
    <3>2. CASE p = n
          BY <3>1, <3>2
    <3>3. CASE p # n
          BY <2>1, <3>1, <3>3
    <3> QED BY <3>2, <3>3
  <2> HIDE DEF h
  <2> QED BY <2>3, <2>4, <2>5
<1>3. 0..N \subseteq T
  <2> HIDE DEF T
  <2> QED BY <1>1, <1>2, UpTo
<1> QED BY <1>3 DEF Unrolls

\* Sets that grow from step to step are within the last.
LEMMA Growing ==
    ASSUME NEW N \in Nat, NEW c, \A j \in 1..N : c[j - 1] \subseteq c[j]
    PROVE  \A j \in 0..N : c[j] \subseteq c[N]
<1> DEFINE S == {d \in 0..N : c[N - d] \subseteq c[N]}
<1>1. 0 \in S
      OBVIOUS
<1>2. ASSUME NEW d \in 1..N, d - 1 \in S PROVE d \in S
  <2>1. N - d + 1 \in 1..N /\ (N - d + 1) - 1 = N - d /\ N - (d - 1) = N - d + 1
        OBVIOUS
  <2>2. c[N - d] \subseteq c[N - d + 1] /\ c[N - d + 1] \subseteq c[N]
        BY <1>2, <2>1
  <2> QED BY <2>2
<1>3. 0..N \subseteq S
  <2> HIDE DEF S
  <2> QED BY <1>1, <1>2, UpTo
<1> QED
  <2> TAKE j \in 0..N
  <2>1. N - j \in 0..N /\ N - (N - j) = j
        OBVIOUS
  <2>2. N - j \in S
        BY <1>3, <2>1
  <2> QED BY <2>1, <2>2

\* Where one may be, and when.
Places == Stops \X {time \in Int : -Inf <= time}

LEMMA PlacesOf ==
    ASSUME WellFormed(tt)
    PROVE  /\ \A p \in Places : p[1] \in Stops /\ p[2] \in Int /\ -Inf <= p[2] /\ p = <<p[1], p[2]>>
           /\ \A s \in Stops, time \in Int : -Inf <= time => <<s, time>> \in Places
           /\ \A s \in Stops, u \in Stops : tt.walk[<<s, u>>] \in Nat
<1>1. \A s \in Stops, u \in Stops : <<s, u>> \in Stops \X Stops
      OBVIOUS
<1>2. tt.walk \in [Stops \X Stops -> 0..Inf] /\ 0..Inf \subseteq Nat
      BY Constants DEF WellFormed
<1> QED BY <1>1, <1>2 DEF Places

LEMMA WalkedOnceOf ==
    ASSUME WellFormed(tt), NEW P \in SUBSET Places
    PROVE  /\ WalkedOnce(P) \in SUBSET Places
           /\ P \subseteq WalkedOnce(P)
           /\ \A p \in P, s \in Stops : tt.walk[<<p[1], s>>] < Inf
                 => <<s, p[2] + tt.walk[<<p[1], s>>]>> \in WalkedOnce(P)
<1> DEFINE From(p) == {<<s, p[2] + tt.walk[<<p[1], s>>]>> : s \in {u \in Stops : tt.walk[<<p[1], u>>] < Inf}}
<1>1. WalkedOnce(P) = P \union UNION {From(p) : p \in P}
      BY DEF WalkedOnce
<1>2. ASSUME NEW p \in P, NEW s \in Stops
      PROVE  <<s, p[2] + tt.walk[<<p[1], s>>]>> \in Places
  <2>1. p[1] \in Stops /\ p[2] \in Int /\ -Inf <= p[2]
        BY PlacesOf
  <2>2. tt.walk[<<p[1], s>>] \in Nat
        BY <2>1, PlacesOf
  <2>3. p[2] + tt.walk[<<p[1], s>>] \in Int /\ -Inf <= p[2] + tt.walk[<<p[1], s>>]
        BY <2>1, <2>2, Constants
  <2> QED BY <2>3, PlacesOf
<1>3. \A p \in P : From(p) \subseteq Places
      BY <1>2
<1>4. \A p \in P, s \in Stops : tt.walk[<<p[1], s>>] < Inf
                 => <<s, p[2] + tt.walk[<<p[1], s>>]>> \in From(p)
      OBVIOUS
<1> HIDE DEF From
<1> QED BY <1>1, <1>3, <1>4

\* Walking n times in a row, walk by walk.
Walking(P, n, c) ==
    /\ c \in [0..n -> SUBSET Places]
    /\ c[0] = P
    /\ \A j \in 1..n : c[j] = WalkedOnce(c[j - 1])
    /\ Walked(P, n) = c[n]

LEMMA WalkedSteps ==
    ASSUME WellFormed(tt), NEW P \in SUBSET Places, NEW n \in Nat
    PROVE  \E c : Walking(P, n, c)
<1> DEFINE S == SUBSET Places
           g == [Q \in S |-> WalkedOnce(Q)]
           by == CHOOSE by : by = [j \in 0..n |-> IF j = 0 THEN P ELSE WalkedOnce(by[j - 1])]
<1>1. g \in [S -> S]
      BY WalkedOnceOf
<1>2. Unrolls(n, S, P, g)
  <2>1. P \in S
        OBVIOUS
  <2> HIDE DEF S, g
  <2> QED BY <1>1, <2>1, StepByStep
<1>3. PICK f \in [0..n -> S] : f[0] = P /\ \A j \in 1..n : f[j] = g[f[j - 1]]
      BY <1>2 DEF Unrolls
<1>4. ASSUME NEW j \in 1..n PROVE f[j] = WalkedOnce(f[j - 1])
  <2>1. j - 1 \in 0..n
        OBVIOUS
  <2>2. f[j - 1] \in S
        BY <2>1
  <2> QED BY <1>3, <2>2
<1>5. f = [j \in 0..n |-> IF j = 0 THEN P ELSE WalkedOnce(f[j - 1])]
      BY <1>3, <1>4
<1>6. by = [j \in 0..n |-> IF j = 0 THEN P ELSE WalkedOnce(by[j - 1])]
      BY <1>5
<1> HIDE DEF by
<1>7. by[0] = P /\ \A j \in 1..n : by[j] = WalkedOnce(by[j - 1])
      BY <1>6
<1>8. \A j \in 0..n : by[j] \in S
  <2> DEFINE T == {j \in 0..n : by[j] \in S}
  <2>1. 0 \in T
        BY <1>7
  <2>2. \A j \in 1..n : j - 1 \in T => j \in T
        BY <1>7, WalkedOnceOf
  <2>3. 0..n \subseteq T
    <3> HIDE DEF T
    <3> QED BY <2>1, <2>2, UpTo
  <2> QED BY <2>3
<1>9. by \in [0..n -> S]
      BY <1>6, <1>8
<1>10. Walked(P, n) = by[n]
       BY DEF Walked, by
<1> QED BY <1>7, <1>9, <1>10 DEF Walking

LEMMA WalkedOf ==
    ASSUME WellFormed(tt), NEW P \in SUBSET Places, NEW n \in Nat
    PROVE  Walked(P, n) \in SUBSET Places
<1>1. PICK c : Walking(P, n, c)
      BY WalkedSteps
<1> QED BY <1>1 DEF Walking

LEMMA RodeOf ==
    ASSUME WellFormed(tt), NEW lines \in SUBSET LinesOf(tt), NEW P \in SUBSET Places
    PROVE  /\ Rode(lines, P) \in SUBSET Places
           /\ \A l \in lines : \A t \in tt.trips[l] \intersect tt.available, i, j \in DOMAIN tt.path[l] :
                 /\ i < j
                 /\ ~Skipped(tt, t, i) /\ ~Skipped(tt, t, j)
                 /\ \E p \in P : p[1] = tt.path[l][i] /\ p[2] <= Dep(tt, t, i)
                 => <<tt.path[l][j], Arr(tt, t, j)>> \in Rode(lines, P)
<1> DEFINE Alights(l, t) ==
               {j \in DOMAIN tt.path[l] :
                        /\ ~Skipped(tt, t, j)
                        /\ \E i \in 1..(j - 1) : /\ ~Skipped(tt, t, i)
                                                /\ \E p \in P : /\ p[1] = tt.path[l][i]
                                                                /\ p[2] <= Dep(tt, t, i)}
           Trip(l, t) == {<<tt.path[l][j], Arr(tt, t, j)>> : j \in Alights(l, t)}
           Line(l) == UNION {Trip(l, t) : t \in tt.trips[l] \intersect tt.available}
<1>1. Rode(lines, P) = UNION {Line(l) : l \in lines}
      BY DEF Rode
<1>2. ASSUME NEW l \in lines, NEW t \in tt.trips[l], NEW j \in DOMAIN tt.path[l]
      PROVE  <<tt.path[l][j], Arr(tt, t, j)>> \in Places
  <2>1. tt.path[l][j] \in Stops /\ Arr(tt, t, j) \in Times
        BY DEF WellFormed, LinesOf, Arr
  <2>2. Arr(tt, t, j) \in Int /\ -Inf <= Arr(tt, t, j)
        BY <2>1, Constants
  <2> QED BY <2>1, <2>2, PlacesOf
<1>3. \A l \in lines : Line(l) \subseteq Places
      BY <1>2
<1>4. ASSUME NEW l \in lines, NEW t \in tt.trips[l] \intersect tt.available,
             NEW i \in DOMAIN tt.path[l], NEW j \in DOMAIN tt.path[l],
             i < j, ~Skipped(tt, t, i), ~Skipped(tt, t, j),
             \E p \in P : p[1] = tt.path[l][i] /\ p[2] <= Dep(tt, t, i)
      PROVE  <<tt.path[l][j], Arr(tt, t, j)>> \in Line(l)
  <2>1. i \in 1..(j - 1)
        BY <1>4 DEF WellFormed, LinesOf
  <2>2. j \in Alights(l, t)
        BY <1>4, <2>1
  <2>3. <<tt.path[l][j], Arr(tt, t, j)>> \in Trip(l, t)
        BY <2>2
  <2> HIDE DEF Trip
  <2> QED BY <2>3
<1> HIDE DEF Line
<1> QED BY <1>1, <1>3, <1>4

\* Where a request begins.
Origins(q) == {<<q.from, q.depart>>} \union {<<e[1], q.depart + e[2]>> : e \in q.access}

LEMMA OriginsOf ==
    ASSUME TypeOK, served > 0
    PROVE  Origins(query) \in SUBSET Places
<1>1. /\ query.from \in Stops /\ query.depart \in Nat /\ query.access \in SUBSET (Stops \X Nat)
      /\ WellFormed(tt)
      BY Served
<1>2. ASSUME NEW e \in query.access PROVE <<e[1], query.depart + e[2]>> \in Places
  <2>1. e[1] \in Stops /\ e[2] \in Nat
        BY <1>1
  <2>2. query.depart + e[2] \in Int /\ -Inf <= query.depart + e[2]
        BY <1>1, <2>1, Constants
  <2> QED BY <1>1, <2>1, <2>2, PlacesOf
<1>3. <<query.from, query.depart>> \in Places
  <2>1. query.depart \in Int /\ -Inf <= query.depart
        BY <1>1, Constants
  <2> QED BY <1>1, <2>1, PlacesOf
<1> QED BY <1>2, <1>3 DEF Origins

\* The points reached in k rounds, round by round.
LEMMA PointsSteps ==
    ASSUME TypeOK, served > 0, NEW n \in Nat
    PROVE  \E by \in [0..Rounds -> SUBSET Places] :
              /\ by[0] = Walked(Origins(query), n)
              /\ \A k \in 1..Rounds :
                    by[k] = by[k - 1] \union Walked(Rode(query.allowed, by[k - 1]), n)
              /\ PointsWithin(query, n) = by[Rounds]
<1> DEFINE S == SUBSET Places
           first == Walked(Origins(query), n)
           Onward(Q) == Q \union Walked(Rode(query.allowed, Q), n)
           g == [Q \in S |-> Onward(Q)]
           by == CHOOSE by : by = [k \in 0..Rounds |-> IF k = 0 THEN first ELSE Onward(by[k - 1])]
<1>1. WellFormed(tt) /\ query.allowed \in SUBSET LinesOf(tt) /\ Rounds \in Nat
      BY Served, Constants
<1>2. first \in S
      BY <1>1, OriginsOf, WalkedOf
<1>3. ASSUME NEW Q \in S PROVE Onward(Q) \in S
  <2>1. Rode(query.allowed, Q) \in SUBSET Places
        BY <1>1, RodeOf
  <2>2. Walked(Rode(query.allowed, Q), n) \in SUBSET Places
        BY <1>1, <2>1, WalkedOf
  <2> QED BY <2>2
<1> HIDE DEF Onward, first
<1>4. g \in [S -> S]
      BY <1>3
<1>5. Unrolls(Rounds, S, first, g)
  <2> HIDE DEF S, g
  <2> QED BY <1>1, <1>2, <1>4, StepByStep
<1>6. PICK f \in [0..Rounds -> S] : f[0] = first /\ \A k \in 1..Rounds : f[k] = g[f[k - 1]]
      BY <1>5 DEF Unrolls
<1>7. ASSUME NEW k \in 1..Rounds PROVE f[k] = Onward(f[k - 1])
  <2>1. k - 1 \in 0..Rounds
        BY <1>1
  <2>2. f[k - 1] \in S
        BY <2>1
  <2> QED BY <1>6, <2>2
<1>8. f = [k \in 0..Rounds |-> IF k = 0 THEN first ELSE Onward(f[k - 1])]
      BY <1>1, <1>6, <1>7
<1>9. by = [k \in 0..Rounds |-> IF k = 0 THEN first ELSE Onward(by[k - 1])]
      BY <1>8
<1> HIDE DEF by
<1>10. by[0] = first /\ \A k \in 1..Rounds : by[k] = Onward(by[k - 1])
       BY <1>1, <1>9
<1>11. \A k \in 0..Rounds : by[k] \in S
  <2> DEFINE T == {k \in 0..Rounds : by[k] \in S}
  <2>1. 0 \in T
        BY <1>1, <1>2, <1>10
  <2>2. \A k \in 1..Rounds : k - 1 \in T => k \in T
        BY <1>3, <1>10
  <2>3. 0..Rounds \subseteq T
    <3> HIDE DEF T
    <3> QED BY <1>1, <2>1, <2>2, UpTo
  <2> QED BY <2>3
<1>12. by \in [0..Rounds -> S]
       BY <1>9, <1>11
<1>13. PointsWithin(query, n) = by[Rounds]
       BY DEF PointsWithin, by, Onward, first, Origins
<1> QED BY <1>10, <1>12, <1>13 DEF Onward, first

\* The reference is no later than any point at the destination, or at the last
\* stop before a virtual one.
LEMMA EarliestIsLeast ==
    ASSUME TypeOK, served > 0, NEW n \in Nat
    PROVE  /\ EarliestWithin(query, n) \in Int /\ EarliestWithin(query, n) <= Inf
           /\ \A p \in PointsWithin(query, n) : p[1] = query.to => EarliestWithin(query, n) <= p[2]
           /\ \A p \in PointsWithin(query, n), e \in query.egress :
                 p[1] = e[1] => EarliestWithin(query, n) <= p[2] + e[2]
<1> DEFINE P == PointsWithin(query, n)
           Ends(p) == {p[2] + e[2] : e \in {f \in query.egress : f[1] = p[1]}}
           T == {p[2] : p \in {o \in P : o[1] = query.to}} \union UNION {Ends(p) : p \in P}
<1>1. P \in SUBSET Places
      BY PointsSteps, Constants
<1>2. EarliestWithin(query, n) = Earliest(T)
      BY DEF EarliestWithin
<1>3. ASSUME NEW p \in P, NEW e \in query.egress
      PROVE  p[2] + e[2] \in Int /\ -Inf <= p[2] + e[2]
  <2>1. p[2] \in Int /\ -Inf <= p[2] /\ e[2] \in Nat /\ Inf \in Nat
        BY <1>1, Served, PlacesOf, Constants
  <2> QED BY <2>1
<1>4. \A p \in P : p[2] \in Int /\ -Inf <= p[2]
      BY <1>1, Served, PlacesOf
<1>5. \A x \in T : x \in Int /\ -Inf <= x
      BY <1>3, <1>4
<1>6. /\ \A p \in P : p[1] = query.to => p[2] \in T
      /\ \A p \in P, e \in query.egress : p[1] = e[1] => p[2] + e[2] \in T
      OBVIOUS
<1>7. /\ Earliest(T) \in Times
      /\ \A x \in T : Earliest(T) <= x
  <2> HIDE DEF T
  <2> QED BY <1>5, EarliestOf
<1> HIDE DEF T
<1> QED BY <1>2, <1>6, <1>7, Constants

\* Point p is reached from the points of P by j walks of n.
After(P, n, j, p) == \E c : Walking(P, n, c) /\ p \in c[j]

LEMMA AfterWalks ==
    ASSUME WellFormed(tt), NEW P \in SUBSET Places, NEW n \in Nat
    PROVE  /\ \A p \in P : After(P, n, 0, p)
           /\ \A p : \A j \in 0..n : After(P, n, j, p) => p \in Walked(P, n) /\ p \in Places
           /\ \A p, s : \A j \in 0..n :
                 j < n /\ s \in Stops /\ After(P, n, j, p) /\ tt.walk[<<p[1], s>>] < Inf
                 => After(P, n, j + 1, <<s, p[2] + tt.walk[<<p[1], s>>]>>)
<1>1. \A p \in P : After(P, n, 0, p)
  <2>1. \E c : Walking(P, n, c)
        BY WalkedSteps
  <2> QED BY <2>1 DEF After, Walking
<1>2. ASSUME NEW j \in 0..n, NEW p, After(P, n, j, p)
      PROVE  p \in Walked(P, n) /\ p \in Places
  <2>1. PICK c : Walking(P, n, c) /\ p \in c[j]
        BY <1>2 DEF After
  <2>2. \A i \in 1..n : c[i - 1] \in SUBSET Places
    <3>1. \A i \in 1..n : i - 1 \in 0..n
          OBVIOUS
    <3> QED BY <2>1, <3>1 DEF Walking
  <2>3. \A i \in 1..n : c[i - 1] \subseteq c[i]
        BY <2>1, <2>2, WalkedOnceOf DEF Walking
  <2>4. c[j] \subseteq c[n]
        BY <2>3, Growing
  <2> QED BY <2>1, <2>4 DEF Walking
<1>3. ASSUME NEW j \in 0..n, NEW p, NEW s \in Stops, j < n,
             After(P, n, j, p), tt.walk[<<p[1], s>>] < Inf
      PROVE  After(P, n, j + 1, <<s, p[2] + tt.walk[<<p[1], s>>]>>)
  <2>1. PICK c : Walking(P, n, c) /\ p \in c[j]
        BY <1>3 DEF After
  <2>2. j + 1 \in 1..n /\ (j + 1) - 1 = j
        BY <1>3
  <2>3. c[j + 1] = WalkedOnce(c[j]) /\ c[j] \in SUBSET Places
        BY <2>1, <2>2 DEF Walking
  <2>4. <<s, p[2] + tt.walk[<<p[1], s>>]>> \in c[j + 1]
        BY <1>3, <2>1, <2>3, WalkedOnceOf
  <2> QED BY <2>1, <2>4 DEF After
<1> QED BY <1>1, <1>2, <1>3

\* The rides among the first legs.
Rides(ls, i) == Cardinality({x \in 1..i : ls[x].trip # NoTrip})

LEMMA RidesOf ==
    ASSUME NEW ls \in Legs
    PROVE  /\ Rides(ls, 0) = 0
           /\ \A i \in 0..Len(ls) : Rides(ls, i) \in Nat /\ Rides(ls, i) <= TransitLegs(ls)
           /\ \A i \in 1..Len(ls) :
                 Rides(ls, i) = IF ls[i].trip = NoTrip THEN Rides(ls, i - 1) ELSE Rides(ls, i - 1) + 1
<1> DEFINE R(i) == {x \in 1..i : ls[x].trip # NoTrip}
<1>1. Len(ls) \in Nat /\ DOMAIN ls = 1..Len(ls)
      BY LegsKnown
<1>2. ASSUME NEW i \in 0..Len(ls) PROVE IsFiniteSet(R(i))
  <2>1. IsFiniteSet(1..i)
        BY <1>1, FS_Interval
  <2> QED BY <2>1, FS_Subset
<1>3. R(0) = {}
      OBVIOUS
<1>4. ASSUME NEW i \in 0..Len(ls)
      PROVE  Rides(ls, i) \in Nat /\ Rides(ls, i) <= TransitLegs(ls)
  <2>1. IsFiniteSet(R(Len(ls))) /\ TransitLegs(ls) = Cardinality(R(Len(ls)))
        BY <1>1, <1>2 DEF TransitLegs
  <2>2. R(i) \subseteq R(Len(ls))
        BY <1>1
  <2>3. Cardinality(R(i)) <= Cardinality(R(Len(ls))) /\ Cardinality(R(i)) \in Nat
    <3> HIDE DEF R
    <3> QED BY <1>2, <2>1, <2>2, FS_Subset, FS_CardinalityType
  <2> QED BY <2>1, <2>3 DEF Rides
<1>5. ASSUME NEW i \in 1..Len(ls)
      PROVE  Rides(ls, i) = IF ls[i].trip = NoTrip THEN Rides(ls, i - 1) ELSE Rides(ls, i - 1) + 1
  <2>1. i - 1 \in 0..Len(ls) /\ 1..i = (1..(i - 1)) \union {i} /\ i \notin 1..(i - 1)
        BY <1>1
  <2>2. CASE ls[i].trip = NoTrip
    <3>1. R(i) = R(i - 1)
          BY <2>1, <2>2
    <3> QED BY <2>2, <3>1 DEF Rides
  <2>3. CASE ls[i].trip # NoTrip
    <3>1. R(i) = R(i - 1) \union {i} /\ i \notin R(i - 1)
          BY <2>1, <2>3
    <3>2. IsFiniteSet(R(i - 1))
          BY <1>2, <2>1
    <3>3. Cardinality(R(i)) = Cardinality(R(i - 1)) + 1
      <4> HIDE DEF R
      <4> QED BY <3>1, <3>2, FS_AddElement
    <3> QED BY <2>3, <3>3 DEF Rides
  <2> QED BY <2>2, <2>3
<1>6. Rides(ls, 0) = 0
      BY <1>3, FS_EmptySet DEF Rides
<1> QED BY <1>4, <1>5, <1>6

\* A journey that is feasible within the transfer limit arrives no earlier than
\* the reference.
LEMMA Travelling ==
    ASSUME TypeOK, served > 0, NEW ls \in Legs,
           ls[1].from = query.from, query.depart <= ls[1].dep, ls[Len(ls)].to = query.to,
           \A i \in 1..Len(ls) : ls[i].dep <= ls[i].arr,
           \A i \in 1..(Len(ls) - 1) : ls[i].to = ls[i + 1].from /\ ls[i].arr <= ls[i + 1].dep,
           \A i \in 1..Len(ls) : \/ RideLeg(ls[i], query.allowed) \/ WalkLeg(ls[i])
                                 \/ AccessLeg(ls[i]) \/ EgressLeg(ls[i]),
           TransitLegs(ls) <= Rounds
    PROVE  EarliestWithin(query, Len(ls)) <= ls[Len(ls)].arr
<1> DEFINE n == Len(ls)
           least == EarliestWithin(query, n)
           stop(i) == IF i = 0 THEN query.from ELSE ls[i].to
           time(i) == IF i = 0 THEN query.depart ELSE ls[i].arr
<1>1. /\ n \in Nat /\ n >= 1 /\ Rounds \in Nat /\ WellFormed(tt) /\ query.depart \in Nat
      /\ \A i \in 1..n : /\ ls[i] \in Leg /\ ls[i].to \in Stops /\ ls[i].from \in Stops
                         /\ ls[i].dep \in Int /\ ls[i].arr \in Int
  <2>1. n \in Nat /\ n >= 1 /\ \A i \in 1..n : ls[i] \in Leg
        BY LegsKnown
  <2>2. \A x \in Times : x \in Int
        BY Constants
  <2> QED BY <2>1, <2>2, Constants, Served DEF Leg
<1>2. /\ least \in Int
      /\ \A p \in PointsWithin(query, n) : p[1] = query.to => least <= p[2]
      /\ \A p \in PointsWithin(query, n), e \in query.egress : p[1] = e[1] => least <= p[2] + e[2]
      BY <1>1, EarliestIsLeast
<1>3. PICK by \in [0..Rounds -> SUBSET Places] :
              /\ by[0] = Walked(Origins(query), n)
              /\ \A k \in 1..Rounds :
                    by[k] = by[k - 1] \union Walked(Rode(query.allowed, by[k - 1]), n)
              /\ PointsWithin(query, n) = by[Rounds]
      BY <1>1, PointsSteps
<1> DEFINE start(k) == IF k = 0 THEN Origins(query) ELSE Rode(query.allowed, by[k - 1])
<1>4. ASSUME NEW k \in 0..Rounds
      PROVE  start(k) \in SUBSET Places /\ Walked(start(k), n) \subseteq by[k] /\ by[k] \subseteq by[Rounds]
  <2>1. ASSUME k = 0 PROVE start(k) \in SUBSET Places /\ Walked(start(k), n) \subseteq by[k]
        BY <1>3, <2>1, OriginsOf
  <2>2. ASSUME k # 0 PROVE start(k) \in SUBSET Places /\ Walked(start(k), n) \subseteq by[k]
    <3>1. k \in 1..Rounds /\ k - 1 \in 0..Rounds
          BY <1>1, <2>2
    <3>2. by[k - 1] \in SUBSET Places /\ query.allowed \in SUBSET LinesOf(tt)
          BY <1>3, <3>1, Served
    <3>3. Rode(query.allowed, by[k - 1]) \in SUBSET Places
          BY <1>1, <3>2, RodeOf
    <3>4. start(k) = Rode(query.allowed, by[k - 1])
          BY <2>2
    <3>5. Walked(Rode(query.allowed, by[k - 1]), n) \subseteq by[k]
          BY <1>3, <3>1
    <3> QED BY <3>3, <3>4, <3>5
  <2>3. by[k] \subseteq by[Rounds]
    <3>1. \A j \in 1..Rounds : by[j - 1] \subseteq by[j]
          BY <1>3
    <3> QED BY <1>1, <3>1, Growing
  <2> QED BY <2>1, <2>2, <2>3
<1> HIDE DEF start
<1> DEFINE There(i) == \E k \in 0..Rounds, j \in 0..i, p \in Places :
                          /\ k <= Rides(ls, i)
                          /\ After(start(k), n, j, p)
                          /\ p[1] = stop(i)
                          /\ p[2] <= time(i)
           Claim(i) == query.depart <= time(i) /\ (least <= time(i) \/ There(i))
           T == {i \in 0..n : Claim(i)}
<1>5. 0 \in T
  <2>1. <<query.from, query.depart>> \in start(0)
        BY DEF start, Origins
  <2>2. 0 \in 0..Rounds /\ start(0) \in SUBSET Places
        BY <1>1, <1>4
  <2>3. After(start(0), n, 0, <<query.from, query.depart>>)
        BY <1>1, <2>1, <2>2, AfterWalks
  <2>4. There(0)
        BY <1>1, <2>1, <2>2, <2>3, RidesOf
  <2> QED BY <1>1, <2>4
<1>6. ASSUME NEW i \in 1..n, i - 1 \in T PROVE i \in T
  <2> DEFINE leg == ls[i]
  <2>1. /\ i - 1 \in 0..n /\ i \in 0..n
        /\ leg \in Leg /\ leg.to \in Stops /\ leg.from \in Stops /\ leg.dep \in Int /\ leg.arr \in Int
        /\ stop(i) = leg.to /\ time(i) = leg.arr
        /\ time(i - 1) \in Int
        BY <1>1
  <2>2. leg.from = stop(i - 1) /\ time(i - 1) <= leg.dep /\ leg.dep <= leg.arr
    <3>1. CASE i = 1
          BY <1>1, <3>1
    <3>2. CASE i # 1
      <4>1. i - 1 \in 1..(n - 1) /\ (i - 1) + 1 = i /\ i - 1 # 0
            BY <1>1, <3>2
      <4> QED BY <4>1
    <3> QED BY <3>1, <3>2
  <2>3. query.depart <= leg.dep /\ query.depart <= leg.arr
        BY <1>1, <1>6, <2>1, <2>2
  <2> HIDE DEF stop, time
  <2>4. CASE least <= time(i - 1)
    <3>1. least <= time(i)
          BY <1>2, <2>1, <2>2, <2>4
    <3> QED BY <2>1, <2>3, <3>1
  <2>5. CASE There(i - 1)
    <3>1. PICK k \in 0..Rounds, j \in 0..(i - 1), p \in Places :
                          /\ k <= Rides(ls, i - 1)
                          /\ After(start(k), n, j, p)
                          /\ p[1] = stop(i - 1)
                          /\ p[2] <= time(i - 1)
          BY <2>5
    <3>2. p[2] \in Int /\ p[1] = leg.from /\ p[2] <= leg.dep
          BY <1>1, <2>1, <2>2, <3>1, PlacesOf
    <3>3. j \in 0..n /\ j < n /\ j + 1 \in 0..i /\ 0 \in 0..i
          BY <1>1
    <3>4. start(k) \in SUBSET Places /\ p \in by[k] /\ p \in PointsWithin(query, n)
          BY <1>1, <1>3, <1>4, <3>1, <3>3, AfterWalks
    <3>5. Rides(ls, i - 1) \in Nat /\ Rides(ls, i - 1) <= Rides(ls, i) /\ Rides(ls, i) <= Rounds
          /\ Rides(ls, i) \in Nat
      <4>1. /\ Rides(ls, i - 1) \in Nat /\ Rides(ls, i) \in Nat /\ Rides(ls, i) <= TransitLegs(ls)
            /\ Rides(ls, i) = IF ls[i].trip = NoTrip THEN Rides(ls, i - 1) ELSE Rides(ls, i - 1) + 1
            BY <2>1, RidesOf
      <4>2. TransitLegs(ls) \in Nat
            BY TransitLegsOf DEF Legs
      <4> QED BY <1>1, <4>1, <4>2
    <3>6. CASE WalkLeg(leg)
      <4>1. leg.arr - leg.dep = tt.walk[<<leg.from, leg.to>>] /\ tt.walk[<<leg.from, leg.to>>] < Inf
        <5>1. tt.walk[<<leg.from, leg.to>>] \in 0..Inf
              BY <1>1, <2>1 DEF WellFormed
        <5>2. leg.arr - leg.dep = tt.walk[<<leg.from, leg.to>>] /\ tt.walk[<<leg.from, leg.to>>] # Inf
              BY <3>6 DEF WalkLeg
        <5> QED BY <5>1, <5>2, Constants
      <4> DEFINE o == <<leg.to, p[2] + tt.walk[<<p[1], leg.to>>]>>
      <4>2. After(start(k), n, j + 1, o)
            BY <1>1, <2>1, <3>1, <3>2, <3>3, <3>4, <4>1, AfterWalks
      <4>3. tt.walk[<<leg.from, leg.to>>] \in Nat
            BY <1>1, <2>1, PlacesOf
      <4>4. o[2] <= leg.arr
            BY <2>1, <3>2, <4>1, <4>3
      <4>5. o \in Places
        <5>1. j + 1 \in 0..n
              BY <1>1, <3>3
        <5> HIDE DEF o
        <5> QED BY <1>1, <3>4, <4>2, <5>1, AfterWalks
      <4>6. k <= Rides(ls, i) /\ o[1] = stop(i) /\ o[2] <= time(i)
            BY <2>1, <3>1, <3>5, <4>4
      <4> HIDE DEF o
      <4>7. There(i)
            BY <3>3, <4>2, <4>5, <4>6
      <4> QED BY <2>1, <2>3, <4>7
    <3>7. CASE RideLeg(leg, query.allowed)
      <4>1. PICK l \in query.allowed : \E a, b \in DOMAIN tt.path[l] :
               /\ a < b /\ leg.from = tt.path[l][a] /\ leg.to = tt.path[l][b]
               /\ leg.trip \in tt.trips[l] \intersect tt.available
               /\ ~Skipped(tt, leg.trip, a) /\ ~Skipped(tt, leg.trip, b)
               /\ leg.dep = Dep(tt, leg.trip, a) /\ leg.arr = Arr(tt, leg.trip, b)
            BY <3>7 DEF RideLeg
      <4>2. l \in LinesOf(tt) /\ leg.trip \in Nat \ {0} /\ query.allowed \in SUBSET LinesOf(tt)
        <5>1. l \in LinesOf(tt) /\ query.allowed \in SUBSET LinesOf(tt)
              BY <4>1, Served
        <5>2. tt.trips[l] \subseteq Nat \ {0}
              BY <1>1, <5>1 DEF WellFormed, LinesOf
        <5> QED BY <4>1, <5>1, <5>2
      <4>3. <<leg.to, leg.arr>> \in Rode(query.allowed, by[k])
        <5>1. PICK a \in DOMAIN tt.path[l], b \in DOMAIN tt.path[l] :
               /\ a < b /\ leg.from = tt.path[l][a] /\ leg.to = tt.path[l][b]
               /\ leg.trip \in tt.trips[l] \intersect tt.available
               /\ ~Skipped(tt, leg.trip, a) /\ ~Skipped(tt, leg.trip, b)
               /\ leg.dep = Dep(tt, leg.trip, a) /\ leg.arr = Arr(tt, leg.trip, b)
              BY <4>1
        <5>2. by[k] \in SUBSET Places
              BY <1>3
        <5>3. \E o \in by[k] : o[1] = tt.path[l][a] /\ o[2] <= Dep(tt, leg.trip, a)
              BY <3>2, <3>4, <5>1
        <5>4. <<tt.path[l][b], Arr(tt, leg.trip, b)>> \in Rode(query.allowed, by[k])
              BY <1>1, <4>2, <5>1, <5>2, <5>3, RodeOf
        <5> QED BY <5>1, <5>4
      <4>4. Rides(ls, i) = Rides(ls, i - 1) + 1
            BY <4>2, RidesOf DEF NoTrip
      <4>5. k + 1 \in 0..Rounds /\ k + 1 <= Rides(ls, i) /\ (k + 1) - 1 = k /\ k + 1 # 0
            BY <1>1, <3>1, <3>5, <4>4
      <4>6. <<leg.to, leg.arr>> \in start(k + 1) /\ start(k + 1) \in SUBSET Places
            BY <1>4, <4>3, <4>5 DEF start
      <4>7. After(start(k + 1), n, 0, <<leg.to, leg.arr>>)
            BY <1>1, <4>6, AfterWalks
      <4>8. There(i)
        <5> DEFINE o == <<leg.to, leg.arr>>
        <5>1. o \in Places /\ o[1] = stop(i) /\ o[2] <= time(i) /\ After(start(k + 1), n, 0, o)
              BY <2>1, <4>6, <4>7
        <5> HIDE DEF o
        <5> QED BY <3>3, <4>5, <5>1
      <4> QED BY <2>1, <2>3, <4>8
    <3>8. CASE AccessLeg(leg)
      <4> DEFINE o == <<leg.to, query.depart + (leg.arr - leg.dep)>>
      <4>1. o \in start(0)
            BY <3>8 DEF AccessLeg, start, Origins
      <4>2. 0 \in 0..Rounds /\ start(0) \in SUBSET Places
            BY <1>1, <1>4
      <4>3. o[1] = stop(i) /\ o[2] <= time(i)
            BY <1>1, <2>1, <2>3
      <4> HIDE DEF o
      <4>4. After(start(0), n, 0, o) /\ o \in Places
            BY <1>1, <4>1, <4>2, AfterWalks
      <4>5. There(i)
            BY <3>3, <3>5, <4>2, <4>3, <4>4
      <4> QED BY <2>1, <2>3, <4>5
    <3>9. CASE EgressLeg(leg)
      <4> DEFINE e == <<leg.from, leg.arr - leg.dep>>
      <4>1. e \in query.egress /\ e[1] = p[1] /\ e[2] = leg.arr - leg.dep
            BY <3>2, <3>9 DEF EgressLeg
      <4> HIDE DEF e
      <4>2. least <= p[2] + e[2]
            BY <1>2, <3>4, <4>1
      <4>3. least <= time(i)
            BY <1>2, <2>1, <3>2, <4>1, <4>2
      <4> QED BY <2>1, <2>3, <4>3
    <3> QED BY <3>6, <3>7, <3>8, <3>9
  <2> QED BY <1>6, <2>4, <2>5
<1>7. n \in T
  <2>1. 0..n \subseteq T
    <3> HIDE DEF T
    <3> QED BY <1>1, <1>5, <1>6, UpTo
  <2> QED BY <1>1, <2>1
<1>8. stop(n) = query.to /\ time(n) = ls[n].arr
      BY <1>1
<1> HIDE DEF stop, time
<1>9. CASE There(n)
  <2>1. PICK k \in 0..Rounds, j \in 0..n, p \in Places :
                          /\ After(start(k), n, j, p)
                          /\ p[1] = stop(n)
                          /\ p[2] <= time(n)
        BY <1>9
  <2>2. p \in PointsWithin(query, n)
        BY <1>1, <1>3, <1>4, <2>1, AfterWalks
  <2>3. least <= p[2] /\ p[2] \in Int
        BY <1>1, <1>2, <1>8, <2>1, <2>2, PlacesOf
  <2> QED BY <1>1, <1>2, <1>8, <2>1, <2>3
<1> QED BY <1>7, <1>8, <1>9

\* An answer without legs is none, or the departure itself.
Stays ==
    /\ answer.legs \in Seq(Leg)
    /\ answer.legs = <<>> => \/ answer.arrival = Inf
                             \/ query.from = query.to /\ answer.arrival = query.depart

LEMMA StaysInit == Init => Stays
<1>1. NoAnswer.legs \in Seq(Leg) /\ NoAnswer.arrival = Inf
      BY DEF NoAnswer
<1> QED BY <1>1 DEF Init, Stays

LEMMA StaysStep == Typed /\ Sound /\ (Calm => Stays) /\ [Next]_vars => (Calm => Stays)'
<1> SUFFICES ASSUME Typed, Sound, Calm => Stays, [Next]_vars, Calm' PROVE Stays'
    OBVIOUS
<1>1. CASE answer' = NoAnswer
  <2>1. NoAnswer.legs \in Seq(Leg) /\ NoAnswer.arrival = Inf
        BY DEF NoAnswer
  <2> QED BY <1>1, <2>1 DEF Stays
<1>2. ASSUME UNCHANGED <<tt, query, answer>> PROVE Stays'
  <2>1. Calm
        BY <1>2 DEF Calm, NoneEarly, Forward, LinesOf, Dep, Arr, SchedDep
  <2> QED BY <1>2, <2>1 DEF Stays
<1>3. CASE Respond
  <2>1. /\ UNCHANGED <<tt, query>> /\ phase = "rebuild" /\ AtOrigin
        /\ answer' = [arrival |-> arr[destRound][query.to], legs |-> legs]
        BY <1>3 DEF Respond
  <2>2. Calm
        BY <2>1 DEF Calm, NoneEarly, Forward, LinesOf, Dep, Arr, SchedDep
  <2>3. Sounds
        BY <2>2 DEF Sound
  <2>4. legs \in Seq(Leg)
        BY DEF Typed, TypeOK
  <2>5. ASSUME legs = <<>> PROVE query.from = query.to /\ arr[destRound][query.to] = query.depart
    <3>1. at = <<query.to, destRound>>
          BY <2>1, <2>3, <2>5 DEF Sounds, Rest
    <3>2. at = <<query.from, 0>>
          BY <2>1, <2>3, ParentMeant DEF AtOrigin
    <3>3. query.to = query.from /\ destRound = 0
          BY <3>1, <3>2
    <3> QED BY <2>1, <2>3, <3>3, Serving DEF Typed, Sounds, Rooted
  <2> QED BY <2>1, <2>4, <2>5 DEF Stays
<1>4. ASSUME NEW q \in Requests(tt), Start(q) PROVE Stays'
  <2>1. answer' = NoAnswer
        BY <1>4 DEF Start
  <2> QED BY <1>1, <2>1
<1>5. CASE SearchStep
  <2>1. UNCHANGED <<tt, query, answer>>
        BY <1>5 DEF SearchStep, WalkFromSeed, SeedsDone, Egress, Lookahead, LookaheadDone, QueueLines,
                    BeginLine, ScanPosition, EndLine, ScanDone, RelaxTransfers, EndRound, answerVars
  <2> QED BY <1>2, <2>1
<1>6. CASE AnswerStep /\ ~Respond
  <2>1. UNCHANGED <<tt, query, answer>>
        BY <1>6 DEF AnswerStep, NoItinerary, BeginRebuild, RebuildWalk, RebuildRide, RebuildMemo,
                    RebuildFails, RestartAfterFailure, answerVars
  <2> QED BY <1>2, <2>1
<1>7. CASE UNCHANGED vars
  <2>1. UNCHANGED <<tt, query, answer>>
        BY <1>7 DEF vars, answerVars
  <2> QED BY <1>2, <2>1
<1> QED BY <1>3, <1>4, <1>5, <1>6, <1>7 DEF Next

LEMMA TooGood ==
    ASSUME Typed, Sound, Calm => Stays
    PROVE  NeverTooGood
<1> SUFFICES ASSUME Answered, NoneEarly(tt), Forward(tt)
             PROVE  answer.arrival >= EarliestWithin(query, Len(answer.legs))
    BY DEF NeverTooGood
<1>1. Calm /\ Stays /\ Sounds /\ TypeOK /\ served > 0
      BY DEF Calm, Sound, Typed, Answered
<1>2. PICK ls : ls = answer.legs
      OBVIOUS
<1>3. ls \in Seq(Leg) /\ Len(ls) \in Nat
      BY <1>1, <1>2 DEF Stays
<1>4. CASE ls = <<>>
  <2>1. /\ EarliestWithin(query, Len(ls)) \in Int /\ EarliestWithin(query, Len(ls)) <= Inf
        /\ \A p \in PointsWithin(query, Len(ls)) :
               p[1] = query.to => EarliestWithin(query, Len(ls)) <= p[2]
        BY <1>1, <1>3, EarliestIsLeast
  <2>2. CASE answer.arrival = Inf
        BY <1>2, <2>1, <2>2, Constants
  <2>3. CASE query.from = query.to /\ answer.arrival = query.depart
    <3> DEFINE o == <<query.from, query.depart>>
    <3>1. PICK by \in [0..Rounds -> SUBSET Places] :
              /\ by[0] = Walked(Origins(query), Len(ls))
              /\ \A k \in 1..Rounds :
                    by[k] = by[k - 1] \union Walked(Rode(query.allowed, by[k - 1]), Len(ls))
              /\ PointsWithin(query, Len(ls)) = by[Rounds]
          BY <1>1, <1>3, PointsSteps
    <3>2. Rounds \in Nat /\ WellFormed(tt) /\ Origins(query) \in SUBSET Places
          BY <1>1, Served, OriginsOf, Constants
    <3>3. o \in Origins(query)
          BY DEF Origins
    <3>4. o \in Walked(Origins(query), Len(ls))
      <4>1. 0 \in 0..Len(ls)
            BY <1>3
      <4> HIDE DEF o
      <4> QED BY <1>3, <3>2, <3>3, <4>1, AfterWalks
    <3>5. by[0] \subseteq by[Rounds]
      <4>1. 0 \in 0..Rounds /\ \A k \in 1..Rounds : by[k - 1] \subseteq by[k]
            BY <3>1, <3>2
      <4> QED BY <3>2, <4>1, Growing
    <3>6. o \in PointsWithin(query, Len(ls))
          BY <3>1, <3>4, <3>5
    <3>7. EarliestWithin(query, Len(ls)) <= query.depart
          BY <2>1, <2>3, <3>6
    <3>8. query.depart \in Int
          BY <1>1, Served
    <3> QED BY <1>2, <2>1, <2>3, <3>7, <3>8
  <2> QED BY <1>1, <1>2, <1>4, <2>2, <2>3 DEF Stays
<1>5. CASE ls # <<>>
  <2>1. /\ ls[1].from = query.from /\ ls[1].dep >= query.depart
        /\ ls[Len(ls)].to = query.to /\ ls[Len(ls)].arr = answer.arrival
        /\ \A i \in 1..Len(ls) : ls[i].dep <= ls[i].arr
        /\ \A i \in 1..(Len(ls) - 1) : ls[i].to = ls[i + 1].from /\ ls[i].arr <= ls[i + 1].dep
        /\ \A i \in 1..Len(ls) : \/ RideLeg(ls[i], query.allowed) \/ WalkLeg(ls[i])
                                 \/ AccessLeg(ls[i]) \/ EgressLeg(ls[i])
        /\ TransitLegs(ls) <= Rounds
    <3>1. Feasible
          BY <1>1 DEF Sounds, Answers, Answered
    <3> QED BY <1>2, <1>5, <3>1 DEF Feasible
  <2>2. ls \in Legs
        BY <1>3, <1>5 DEF Legs
  <2>3. query.depart <= ls[1].dep
    <3>1. query.depart \in Int /\ ls[1].dep \in Int
          BY <1>1, <2>2, LegsKnown, Served
    <3> QED BY <2>1, <3>1
  <2>4. EarliestWithin(query, Len(ls)) <= ls[Len(ls)].arr
        BY <1>1, <2>1, <2>2, <2>3, Travelling
  <2>5. EarliestWithin(query, Len(ls)) \in Int /\ ls[Len(ls)].arr \in Int
        BY <1>1, <1>3, <2>2, EarliestIsLeast, LegsKnown, Constants
  <2> QED BY <1>2, <2>1, <2>4, <2>5
<1> QED BY <1>4, <1>5

\* NeverTooGood: where no trip runs early and none arrives before it has left, no
\* answer arrives before the earliest arrival there is, whatever profiles it was
\* made from and whatever filter or virtual ends it has.
THEOREM NoneTooGood == Spec => []NeverTooGood
<1>1. Init => Sound /\ (Calm => Stays)
      BY SoundInit, StaysInit DEF Sound
<1>2. Typed /\ Sound /\ (Calm => Stays) => NeverTooGood
      BY TooGood
<1> QED BY <1>1, <1>2, SearchTyped, SoundStep, StaysStep, PTL DEF Spec

----------------------------------------------------------------------------
(* Why the search explores enough: every ride from a stop no longer marked  *)
(* has been taken (Explored), and every label leads back to one (Known), so *)
(* a journey that was found can be rebuilt.                                 *)

\* The stages between two rounds, and those of a round.
Between == \/ phase \in {"seeds", "queue"}
           \/ phase \in {"egress", "lookahead"} /\ after = "queue"
InRound == \/ phase \in {"scan", "relax", "endRound"}
           \/ phase \in {"egress", "lookahead"} /\ after # "queue"

\* To arrive at the stop then would improve neither it nor the destination.
Settled(s, time) == best[s] <= time \/ best[query.to] <= time

\* The trip may be boarded there, when ready then, and calls at a later position.
Rideable(t, l, i, j, ready) ==
    /\ t \in tt.trips[l] \intersect tt.available
    /\ i < j
    /\ ~Skipped(tt, t, i) /\ ~Skipped(tt, t, j)
    /\ ready <= Dep(tt, t, i)

\* No ride from the position, ready then, improves anything.
RiddenAt(l, i, ready) ==
    \A t, j : j \in DOMAIN tt.path[l] /\ Rideable(t, l, i, j, ready)
                 => Settled(tt.path[l][j], Arr(tt, t, j))
Ridden(s, ready) ==
    \A l \in query.allowed : \A i \in DOMAIN tt.path[l] : tt.path[l][i] = s => RiddenAt(l, i, ready)

----------------------------------------------------------------------------
(* Every ride from a stop that is not marked has been taken.                *)

RidesTaken == Between => \A s \in Stops \ marked : Ridden(s, best[s])

\* While the lines are scanned, by the bounds of the round.
RidesBefore == phase = "scan" => \A s \in Stops \ marked : Ridden(s, bestBefore[s])

\* In a round only marked stops are improved.
OnlyMarked == InRound => \A s \in Stops \ {query.to} : s \notin nextMarked => best[s] = bestBefore[s]

\* Lines not queued need no scan, and those queued none before the position.
LinesAhead ==
    phase = "scan" =>
        \A l \in query.allowed : \A i \in DOMAIN tt.path[l] :
            l # scan.line /\ (queue[l] = 0 \/ i < queue[l]) => RiddenAt(l, i, bestBefore[tt.path[l][i]])

\* A ride from a position scanned improves nothing, or the trip on board does as well.
Carried(t, j) ==
    /\ j >= scan.pos
    /\ scan.trip # NoTrip
    /\ ~Skipped(tt, scan.trip, j)
    /\ Arr(tt, scan.trip, j) <= Arr(tt, t, j)
LineScanned ==
    phase = "scan" /\ scan.line # 0 =>
        /\ queue[scan.line] = 0
        /\ \A i \in DOMAIN Path : \A t, j :
              i < scan.pos /\ j \in DOMAIN Path /\ Rideable(t, scan.line, i, j, bestBefore[Path[i]])
                 => Settled(Path[j], Arr(tt, t, j)) \/ Carried(t, j)

\* Every ride of the round has been taken.
AllScanned ==
    InRound /\ phase # "scan" =>
        \A l \in query.allowed : \A i \in DOMAIN tt.path[l] : RiddenAt(l, i, bestBefore[tt.path[l][i]])

Explored == RidesTaken /\ RidesBefore /\ OnlyMarked /\ LinesAhead /\ LineScanned /\ AllScanned

----------------------------------------------------------------------------
(* Every label leads back to one.                                           *)

Unreached == \A k \in 0..Rounds, s \in Stops : par[k][s] = NoParent => arr[k][s] = Inf

\* Marked stops have a label of the round they were marked in.
MarkedReached ==
    /\ Between => \A s \in marked : par[round][s] # NoParent
    /\ InRound => /\ \A s \in marked : par[round - 1][s] # NoParent
                  /\ \A s \in nextMarked : par[round][s] # NoParent

DestinationReached == destRound # None => par[destRound][query.to] # NoParent

LeadsBack(k, p) ==
    /\ p.kind = "walk" => par[k][p.from] # NoParent
    /\ p.kind = "transit" => k > 0 /\ par[k - 1][tt.path[p.line][p.board]] # NoParent
    /\ p.kind = "memo" => par[p.round][p.from] # NoParent
AllLead == \A k \in 0..Rounds, s \in Stops : LeadsBack(k, par[k][s])

Rebuilding == phase # "failed" /\ (phase = "rebuild" => Parent # NoParent)

Known == Unreached /\ MarkedReached /\ DestinationReached /\ AllLead /\ Rebuilding

Leading == Regular(tt) => Explored /\ Known

----------------------------------------------------------------------------
(* What keeps.                                                              *)

\* The bounds of one query only fall.
Falls ==
    /\ tt' = tt /\ query' = query
    /\ best' \in [Stops -> Times]
    /\ \A s \in Stops : best'[s] <= best[s]

LEMMA Regularly == Regular(tt) => Calm /\ NoneEarly(tt) /\ Forward(tt) /\ NoneOvertaken(tt)
BY DEF Regular, Calm

\* A ride takes no time backwards.
LEMMA RideTimes ==
    ASSUME TypeOK, NEW l \in LinesOf(tt), NEW i \in DOMAIN tt.path[l], NEW j \in DOMAIN tt.path[l],
           NEW ready \in Int, NEW t, Rideable(t, l, i, j, ready)
    PROVE  /\ t \in tt.trips[l] /\ tt.path[l][i] \in Stops /\ tt.path[l][j] \in Stops
           /\ Dep(tt, t, i) \in Int /\ Arr(tt, t, j) \in Int
           /\ Forward(tt) => Dep(tt, t, i) <= Arr(tt, t, j) /\ ready <= Arr(tt, t, j)
<1>1. /\ t \in tt.trips[l] /\ tt.path[l][i] \in Stops /\ tt.path[l][j] \in Stops
      /\ Dep(tt, t, i) \in Times /\ Arr(tt, t, j) \in Times
      BY KnownPath DEF Rideable
<1>2. Dep(tt, t, i) \in Int /\ Arr(tt, t, j) \in Int
      BY <1>1, Constants, Zenon
<1>3. Forward(tt) => Dep(tt, t, i) <= Arr(tt, t, j)
      BY <1>1 DEF Forward, Rideable
<1> QED BY <1>1, <1>2, <1>3 DEF Rideable

LEMMA SettledKept ==
    ASSUME TypeOK, served > 0, Falls, NEW s \in Stops, NEW time \in Int, Settled(s, time)
    PROVE  Settled(s, time)'
<1>1. query.to \in Stops
      BY Served
<1>2. /\ best[s] \in Times /\ best'[s] \in Times /\ best[query.to] \in Times /\ best'[query.to] \in Times
      BY <1>1 DEF TypeOK, Falls
<1>3. /\ best[s] \in Int /\ best'[s] \in Int /\ best[query.to] \in Int /\ best'[query.to] \in Int
      BY <1>2, Constants, Zenon
<1>4. best'[s] <= best[s] /\ best'[query.to] <= best[query.to] /\ query' = query
      BY <1>1 DEF Falls
<1> QED BY <1>3, <1>4 DEF Settled

LEMMA RiddenAtKept ==
    ASSUME TypeOK, served > 0, Falls, NEW l \in LinesOf(tt), NEW i \in DOMAIN tt.path[l],
           NEW ready \in Int, RiddenAt(l, i, ready)
    PROVE  RiddenAt(l, i, ready)'
<1> SUFFICES ASSUME NEW t, NEW j \in DOMAIN tt.path[l], Rideable(t, l, i, j, ready)
             PROVE  Settled(tt.path[l][j], Arr(tt, t, j))'
    BY DEF RiddenAt, Rideable, Skipped, Dep, Falls
<1>1. Settled(tt.path[l][j], Arr(tt, t, j))
      BY DEF RiddenAt
<1>2. tt.path[l][j] \in Stops /\ Arr(tt, t, j) \in Int
      BY RideTimes
<1>3. PICK s, time : s = tt.path[l][j] /\ time = Arr(tt, t, j)
      OBVIOUS
<1>4. Settled(s, time)'
      BY <1>1, <1>2, <1>3, SettledKept
<1>5. (tt.path[l][j])' = s /\ Arr(tt, t, j)' = time
      BY <1>3 DEF Falls, Arr
<1> QED BY <1>4, <1>5 DEF Settled

LEMMA RiddenKept ==
    ASSUME TypeOK, served > 0, Falls, NEW s, NEW ready \in Int, Ridden(s, ready)
    PROVE  Ridden(s, ready)'
<1> SUFFICES ASSUME NEW l \in query.allowed, NEW i \in DOMAIN tt.path[l], tt.path[l][i] = s
             PROVE  RiddenAt(l, i, ready)'
    BY DEF Ridden, Falls
<1>1. RiddenAt(l, i, ready) /\ l \in LinesOf(tt)
      BY Served DEF Ridden
<1> QED BY <1>1, RiddenAtKept

\* Rides from a stop reached no earlier than the destination.
LEMMA RiddenLate ==
    ASSUME TypeOK, served > 0, Falls, Forward(tt), NEW l \in LinesOf(tt), NEW i \in DOMAIN tt.path[l],
           NEW ready \in Int, best'[query.to] <= ready
    PROVE  RiddenAt(l, i, ready)'
<1> SUFFICES ASSUME NEW t, NEW j \in DOMAIN tt.path[l], Rideable(t, l, i, j, ready)
             PROVE  Settled(tt.path[l][j], Arr(tt, t, j))'
    BY DEF RiddenAt, Rideable, Skipped, Dep, Falls
<1>1. ready <= Arr(tt, t, j) /\ Arr(tt, t, j) \in Int
      BY RideTimes
<1>2. best'[query.to] \in Int
  <2>1. best'[query.to] \in Times
        BY Served DEF Falls
  <2> QED BY <2>1, Constants, Zenon
<1>3. best'[query.to] <= Arr(tt, t, j)
      BY <1>1, <1>2
<1> QED BY <1>3 DEF Settled, Falls, Arr

LEMMA RecordedFalls ==
    ASSUME Typed, served > 0, UNCHANGED <<tt, query, round, bestBefore>>,
           NEW k, NEW time, NEW parent, NEW I, Recorded(k, time, parent, I)
    PROVE  /\ Falls
           /\ \A s \in Stops \ I : best'[s] = best[s]
           /\ \A j \in 0..Rounds, s \in Stops : s \notin I \/ j # k => par'[j][s] = par[j][s] /\ arr'[j][s] = arr[j][s]
           /\ \A s \in I : s \in Stops /\ best'[s] = time[s] /\ arr'[k][s] = time[s] /\ par'[k][s] = parent[s]
<1>1. /\ k \in 0..Rounds /\ TypeOK /\ Falling /\ I \in SUBSET Stops /\ Effects(k, time, parent, I)
      BY Constants DEF Typed, TypeOK, Recorded
<1>2. best' \in [Stops -> Times]
      BY RecordedTyped
<1>3. ASSUME NEW s \in Stops PROVE best'[s] <= best[s]
  <2>1. best[s] \in Int
        BY <1>1, LabelsKnown
  <2>2. best'[s] = IF s \in I THEN time[s] ELSE best[s]
        BY <1>1 DEF Effects
  <2>3. s \in I => time[s] \in Times /\ time[s] <= best[s]
    <3>1. s \in I => time[s] \in Times /\ (time[s] < best[s] \/ time[s] = best[s])
          BY DEF Recorded
    <3>2. s \in I => time[s] \in Int
          BY <3>1, Constants, Zenon
    <3> QED BY <2>1, <3>1, <3>2
  <2> QED BY <2>1, <2>2, <2>3
<1>4. Falls
      BY <1>2, <1>3 DEF Falls
<1>5. \A s \in Stops : best'[s] = IF s \in I THEN time[s] ELSE best[s]
      BY <1>1 DEF Effects
<1>6. \A j \in 0..Rounds, s \in Stops :
          /\ arr'[j][s] = IF j = k /\ s \in I THEN time[s] ELSE arr[j][s]
          /\ par'[j][s] = IF j = k /\ s \in I THEN parent[s] ELSE par[j][s]
      BY <1>1 DEF Effects
<1> QED BY <1>1, <1>4, <1>5, <1>6

LEMMA SteadyFalls ==
    ASSUME TypeOK, UNCHANGED <<tt, query, best>>
    PROVE  Falls
<1>1. \A s \in Stops : best[s] <= best[s]
      BY LabelsKnown
<1> QED BY <1>1 DEF Falls, TypeOK

----------------------------------------------------------------------------
(* The steps of the search explore.                                         *)

LEMMA ExploredStart ==
    ASSUME Typed, Regular(tt), NEW q \in Requests(tt), Start(q)
    PROVE  Explored'
<1>1. /\ query' = q /\ tt' = tt /\ phase' = "seeds" /\ TypeOK
      /\ \A s \in Stops : s \notin marked' =>
            (s = q.from /\ q.access # {}) \/ ~(best'[s] < Inf)
      BY DEF Start, Typed
<1>2. PICK start, reached : StartLabels(q, start, reached)
      BY <1>1, Started
<1>3. /\ \A s \in Stops : best'[s] \in Int /\ best'[s] <= Inf
      /\ q.to \in Stops /\ q.allowed \subseteq LinesOf(tt)
      /\ q.access # {} => VirtualOrigin(tt, q)
  <2>1. \A s \in Stops : best'[s] \in Times
        BY <1>2 DEF StartLabels
  <2>2. \A s \in Stops : best'[s] \in Int /\ best'[s] <= Inf
        BY <2>1, Constants, Zenon
  <2>3. q.to \in Stops /\ q.allowed \subseteq LinesOf(tt) /\ (q.access # {} => VirtualOrigin(tt, q))
        BY <1>1, RaptorAssumption DEF TypeOK
  <2> QED BY <2>2, <2>3
<1>4. RidesTaken'
  <2> SUFFICES ASSUME NEW s \in Stops, s \notin marked',
                      NEW l \in q.allowed, NEW i \in DOMAIN tt.path[l], tt.path[l][i] = s,
                      NEW t, NEW j \in DOMAIN tt.path[l], Rideable(t, l, i, j, best'[s])
               PROVE  best'[q.to] <= Arr(tt, t, j)
      BY <1>1 DEF RidesTaken, Ridden, RiddenAt, Rideable, Skipped, Dep, Arr, Settled
  <2>1. CASE s = q.from /\ q.access # {}
    <3>1. l \in LinesOf(tt)
          BY <1>3
    <3> QED BY <1>3, <2>1, <3>1 DEF VirtualOrigin
  <2>2. CASE ~(best'[s] < Inf)
    <3>1. best'[s] <= Arr(tt, t, j) /\ Arr(tt, t, j) \in Int
          BY <1>1, <1>3, RideTimes, Regularly
    <3> QED BY <1>3, <2>2, <3>1, Constants
  <2> QED BY <1>1, <2>1, <2>2
<1> QED BY <1>1, <1>4 DEF Explored, RidesBefore, OnlyMarked, LinesAhead, LineScanned, AllScanned, InRound

LEMMA RidesTakenKept ==
    ASSUME Typed, served > 0, Regular(tt), RidesTaken, Between, Falls,
           \A s \in Stops : s \notin marked' =>
                s \notin marked /\ (best'[s] = best[s] \/ s = query.to)
    PROVE  RidesTaken'
<1> SUFFICES ASSUME NEW s \in Stops, s \notin marked' PROVE Ridden(s, best[s])'
    BY DEF RidesTaken
<1>1. TypeOK /\ best[s] \in Int /\ best'[s] \in Int
  <2>1. best[s] \in Times /\ best'[s] \in Times
        BY DEF Typed, TypeOK, Falls
  <2> QED BY <2>1, Constants, Zenon DEF Typed
<1>2. PICK ready : ready = best'[s]
      OBVIOUS
<1>3. Ridden(s, ready)'
  <2>1. CASE best'[s] = best[s]
    <3>1. Ridden(s, ready)
          BY <1>2, <2>1 DEF RidesTaken
    <3> QED BY <1>1, <1>2, <3>1, RiddenKept
  <2>2. CASE s = query.to
    <3> SUFFICES ASSUME NEW l \in query.allowed, NEW i \in DOMAIN tt.path[l]
                 PROVE  RiddenAt(l, i, ready)'
        BY DEF Ridden, Falls
    <3>1. l \in LinesOf(tt) /\ best'[query.to] <= ready
          BY <1>1, <1>2, <2>2, Served
    <3> QED BY <1>1, <1>2, <3>1, RiddenLate, Regularly
  <2> QED BY <2>1, <2>2
<1> QED BY <1>2, <1>3 DEF Ridden, RiddenAt, Rideable, Skipped, Dep

LEMMA ExploredSeeds ==
    ASSUME Typed, Regular(tt), Explored, WalkFromSeed \/ SeedsDone
    PROVE  Explored'
<1>1. /\ TypeOK /\ served > 0 /\ phase = "seeds" /\ after = "queue" /\ after' = "queue"
      /\ UNCHANGED <<tt, query>> /\ phase' \in {"seeds", "egress"} /\ Between /\ Between' /\ RidesTaken
  <2>1. phase = "seeds" /\ UNCHANGED <<tt, query, after>> /\ phase' \in {"seeds", "egress"}
        BY DEF WalkFromSeed, SeedsDone
  <2>2. TypeOK /\ served > 0 /\ after = "queue"
        BY <2>1 DEF Typed, TypeOK
  <2> QED BY <2>1, <2>2 DEF Between, Explored
<1>2. /\ Falls
      /\ \A s \in Stops : s \notin marked' => s \notin marked /\ best'[s] = best[s]
  <2>1. CASE WalkFromSeed
    <3>1. PICK I, time, parent :
              /\ I \in SUBSET Stops
              /\ Recorded(round, time, parent, I)
              /\ marked' = marked \union I
          BY <2>1, SeedRecords
    <3>2. UNCHANGED <<tt, query, round, bestBefore>>
          BY <2>1 DEF WalkFromSeed
    <3>3. Falls /\ \A s \in Stops \ I : best'[s] = best[s]
          BY <1>1, <3>1, <3>2, RecordedFalls
    <3> QED BY <3>1, <3>3
  <2>2. CASE SeedsDone
    <3>1. UNCHANGED <<tt, query, best, marked>>
          BY <2>2 DEF SeedsDone
    <3> QED BY <1>1, <3>1, SteadyFalls
  <2> QED BY <2>1, <2>2
<1>3. RidesTaken'
      BY <1>1, <1>2, RidesTakenKept
<1>4. ~InRound' /\ phase' # "scan"
      BY <1>1 DEF InRound
<1> QED BY <1>3, <1>4 DEF Explored, RidesBefore, OnlyMarked, LinesAhead, LineScanned, AllScanned

LEMMA AllScannedKept ==
    ASSUME Typed, served > 0, AllScanned, InRound, phase # "scan", Falls, round > 0, bestBefore' = bestBefore
    PROVE  AllScanned'
<1> SUFFICES ASSUME NEW l \in query.allowed, NEW i \in DOMAIN tt.path[l]
             PROVE  RiddenAt(l, i, bestBefore[tt.path[l][i]])'
    BY DEF AllScanned, Falls
<1>1. TypeOK /\ l \in LinesOf(tt)
      BY Served DEF Typed
<1>2. PICK ready : ready = bestBefore[tt.path[l][i]]
      OBVIOUS
<1>3. ready \in Int
      BY <1>1, <1>2, LabelsKnown, KnownPath
<1>4. RiddenAt(l, i, ready)'
  <2>1. RiddenAt(l, i, ready)
        BY <1>2 DEF AllScanned
  <2> QED BY <1>1, <1>3, <2>1, RiddenAtKept
<1>5. ready = bestBefore'[tt'.path[l][i]]
      BY <1>2 DEF Falls
<1> QED BY <1>4, <1>5 DEF RiddenAt, Rideable, Skipped, Dep

\* An edge or a profile improves the destination only.
LEMMA ProfileFalls ==
    ASSUME Typed, Egress \/ Lookahead
    PROVE  /\ Falls /\ \A s \in Stops \ {query.to} : best'[s] = best[s]
           /\ UNCHANGED <<tt, query, round, bestBefore, marked, nextMarked, after>>
           /\ phase \in {"egress", "lookahead"} /\ phase' = "lookahead"
           /\ TypeOK /\ served > 0
<1>1. /\ UNCHANGED <<tt, query, round, bestBefore, marked, nextMarked, after>>
      /\ phase \in {"egress", "lookahead"} /\ phase' = "lookahead"
      BY DEF Egress, Lookahead
<1>2. TypeOK /\ served > 0
      BY <1>1, Serving DEF Typed
<1>3. CASE UNCHANGED <<best, arr, par, destRound>>
      BY <1>1, <1>2, <1>3, SteadyFalls
<1>4. CASE ~UNCHANGED <<best, arr, par, destRound>>
  <2>1. PICK k, time, parent :
              Recorded(k, [s \in Stops |-> time], [s \in Stops |-> parent], {query.to})
        BY <1>4, EgressRecords, LookaheadRecords
  <2>2. Falls /\ \A s \in Stops \ {query.to} : best'[s] = best[s]
        BY <1>1, <1>2, <2>1, RecordedFalls
  <2> QED BY <1>1, <1>2, <2>2
<1> QED BY <1>3, <1>4

LEMMA ExploredLookahead ==
    ASSUME Typed, Regular(tt), Explored, Egress \/ Lookahead \/ LookaheadDone
    PROVE  Explored'
<1>1. /\ TypeOK /\ served > 0 /\ Falls /\ \A s \in Stops \ {query.to} : best'[s] = best[s]
      /\ UNCHANGED <<tt, query, round, bestBefore, marked, nextMarked, after>>
      /\ phase \in {"egress", "lookahead"} /\ phase' \in {"lookahead", "queue", "relax", "endRound"}
      /\ phase' = "lookahead" \/ phase' = after
  <2>1. CASE Egress \/ Lookahead
        BY <2>1, ProfileFalls
  <2>2. CASE LookaheadDone
    <3>1. /\ phase = "lookahead" /\ phase' = after /\ UNCHANGED <<tt, query, searchVars>>
          BY <2>2 DEF LookaheadDone
    <3>2. TypeOK /\ served > 0
          BY <3>1, Serving DEF Typed
    <3>3. Falls
          BY <3>1, <3>2, SteadyFalls DEF searchVars
    <3> QED BY <3>1, <3>2, <3>3 DEF searchVars, TypeOK
  <2> QED BY <2>1, <2>2
<1>2. CASE after = "queue"
  <2>1. Between /\ ~InRound' /\ phase' # "scan"
        BY <1>1, <1>2 DEF Between, InRound
  <2>2. RidesTaken'
        BY <1>1, <2>1, RidesTakenKept DEF Explored
  <2> QED BY <2>1, <2>2 DEF Explored, RidesBefore, OnlyMarked, LinesAhead, LineScanned, AllScanned
<1>3. CASE after # "queue"
  <2>1. InRound /\ ~Between' /\ phase # "scan" /\ phase' # "scan" /\ round > 0
        BY <1>1, <1>3 DEF Between, InRound, TypeOK
  <2>2. AllScanned'
        BY <1>1, <2>1, AllScannedKept DEF Explored
  <2>3. OnlyMarked'
        BY <1>1, <2>1 DEF Explored, OnlyMarked
  <2> QED BY <2>1, <2>2, <2>3 DEF Explored, RidesTaken, RidesBefore, LinesAhead, LineScanned
<1> QED BY <1>2, <1>3

LEMMA ExploredQueue ==
    ASSUME Typed, Regular(tt), Explored, QueueLines
    PROVE  Explored'
<1>1. /\ phase = "queue" /\ phase' = "scan" /\ bestBefore' = best /\ nextMarked' = {}
      /\ UNCHANGED <<tt, query, best, marked>> /\ scan'.line = 0
      /\ \A l \in LinesOf(tt) :
            queue'[l] = IF l \in query.allowed /\ MarkedPositions(l) # {} THEN QueuedPosition(l) ELSE 0
      BY DEF QueueLines, IdleScan
<1>2. /\ TypeOK /\ served > 0 /\ Falls /\ query.allowed \subseteq LinesOf(tt) /\ query.to \in Stops
      /\ \A s \in Stops : best[s] \in Int
      BY <1>1, Serving, SteadyFalls, LabelsKnown DEF Typed
<1>3. \A s \in Stops \ marked : Ridden(s, best[s])
      BY <1>1 DEF Explored, RidesTaken, Between
<1>4. RidesBefore'
  <2> SUFFICES ASSUME NEW s \in Stops \ marked PROVE Ridden(s, bestBefore[s])'
      BY <1>1 DEF RidesBefore
  <2>1. PICK ready : ready = best[s]
        OBVIOUS
  <2>2. Ridden(s, ready)'
        BY <1>2, <1>3, <2>1, RiddenKept
  <2> QED BY <1>1, <2>1, <2>2 DEF Ridden, RiddenAt, Rideable, Skipped, Dep
<1>5. ASSUME NEW l \in query.allowed, NEW i \in DOMAIN tt.path[l], queue'[l] = 0 \/ i < queue'[l]
      PROVE  RiddenAt(l, i, bestBefore[tt.path[l][i]])'
  <2>1. l \in LinesOf(tt) /\ tt.path[l][i] \in Stops
        BY <1>2, KnownPath
  <2>2. i \notin MarkedPositions(l)
    <3> SUFFICES ASSUME i \in MarkedPositions(l) PROVE FALSE
        OBVIOUS
    <3>1. queue'[l] = MinOf(MarkedPositions(l))
          BY <1>1, <2>1 DEF QueuedPosition
    <3>2. /\ MarkedPositions(l) \in SUBSET Int /\ MarkedPositions(l) # {}
          /\ \A x \in MarkedPositions(l) : 1 <= x
          BY <1>2, <2>1, KnownPath DEF MarkedPositions
    <3>3. MinOf(MarkedPositions(l)) \in MarkedPositions(l) /\ MinOf(MarkedPositions(l)) <= i
          BY <3>2, LeastOf
    <3>4. i \in Int /\ queue'[l] \in Int /\ 1 <= queue'[l]
          BY <3>1, <3>2, <3>3
    <3> QED BY <1>5, <3>1, <3>3, <3>4
  <2>3. PICK ready : ready = best[tt.path[l][i]]
        OBVIOUS
  <2>4. RiddenAt(l, i, ready)'
    <3>1. CASE tt.path[l][i] \notin marked
      <4>1. RiddenAt(l, i, ready)
            BY <1>3, <2>1, <2>3, <3>1 DEF Ridden
      <4> QED BY <1>2, <2>1, <2>3, <4>1, RiddenAtKept
    <3>2. CASE tt.path[l][i] \in marked
      <4>1. ~(ready < best[query.to])
            BY <2>2, <2>3, <3>2 DEF MarkedPositions
      <4>2. best'[query.to] <= ready /\ ready \in Int
            BY <1>1, <1>2, <2>1, <2>3, <4>1
      <4> QED BY <1>2, <2>1, <4>2, RiddenLate, Regularly
    <3> QED BY <3>1, <3>2
  <2>5. bestBefore'[tt'.path[l][i]] = ready
        BY <1>1, <2>3
  <2> QED BY <2>4, <2>5 DEF RiddenAt, Rideable, Skipped, Dep
<1>6. LinesAhead'
      BY <1>1, <1>5 DEF LinesAhead
<1>7. RidesTaken' /\ OnlyMarked' /\ LineScanned' /\ AllScanned'
      BY <1>1 DEF RidesTaken, Between, OnlyMarked, LineScanned, AllScanned
<1> QED BY <1>4, <1>6, <1>7 DEF Explored

LEMMA RiddenSteady ==
    ASSUME UNCHANGED <<tt, query, best>>, NEW l, NEW i, NEW ready, RiddenAt(l, i, ready)
    PROVE  RiddenAt(l, i, ready)'
BY DEF RiddenAt, Rideable, Settled, Skipped, Dep, Arr

LEMMA ExploredLine ==
    ASSUME Typed, Regular(tt), Explored, BeginLine \/ EndLine \/ ScanDone
    PROVE  Explored'
<1>1. /\ phase = "scan" /\ UNCHANGED <<tt, query, best, bestBefore, marked, nextMarked>>
      /\ TypeOK /\ served > 0 /\ query.allowed \subseteq LinesOf(tt) /\ Scanning
  <2>1. phase = "scan" /\ UNCHANGED <<tt, query, best, bestBefore, marked, nextMarked>>
        BY DEF BeginLine, EndLine, ScanDone
  <2> QED BY <2>1, Serving DEF Typed
<1>2. \A l \in query.allowed : \A i \in DOMAIN tt.path[l] :
          l # scan.line /\ (queue[l] = 0 \/ i < queue[l]) => RiddenAt(l, i, bestBefore[tt.path[l][i]])
      BY <1>1 DEF Explored, LinesAhead
<1>3. OnlyMarked'
      BY <1>1 DEF Explored, OnlyMarked, InRound
<1>4. phase' = "scan" => RidesBefore'
      BY <1>1, RiddenSteady DEF Explored, RidesBefore, Ridden
<1>5. CASE BeginLine
  <2>1. PICK m \in LinesOf(tt) : /\ queue[m] > 0
                                 /\ scan' = [IdleScan EXCEPT !.line = m, !.pos = queue[m]]
                                 /\ queue' = [queue EXCEPT ![m] = 0]
        BY <1>5 DEF BeginLine
  <2>2. /\ phase' = "scan" /\ scan.line = 0 /\ scan'.line = m /\ scan'.pos = queue[m]
        /\ queue'[m] = 0 /\ \A l \in LinesOf(tt) : l # m => queue'[l] = queue[l]
    <3>1. scan'.line = m /\ scan'.pos = queue[m]
          BY <2>1 DEF IdleScan
    <3>2. DOMAIN queue = LinesOf(tt)
          BY <1>1 DEF Scanning
    <3>3. queue'[m] = 0 /\ \A l \in LinesOf(tt) : l # m => queue'[l] = queue[l]
          BY <2>1, <3>2
    <3> QED BY <1>1, <1>5, <3>1, <3>3 DEF BeginLine
  <2>3. m \in query.allowed /\ \A l \in query.allowed : l # 0
    <3>1. \A l \in LinesOf(tt) : l # 0
          BY <1>1, KnownPath
    <3>2. queue[m] # 0
          BY <2>1
    <3> QED BY <1>1, <2>1, <3>1, <3>2 DEF Scanning
  <2>4. LinesAhead'
    <3> SUFFICES ASSUME NEW l \in query.allowed, NEW i \in DOMAIN tt.path[l], l # m,
                        queue[l] = 0 \/ i < queue[l]
                 PROVE  RiddenAt(l, i, bestBefore[tt.path[l][i]])'
        BY <1>1, <2>2 DEF LinesAhead
    <3>1. RiddenAt(l, i, bestBefore[tt.path[l][i]])
          BY <1>2, <2>2, <2>3
    <3> QED BY <1>1, <3>1 DEF RiddenAt, Rideable, Settled, Skipped, Dep, Arr
  <2>5. LineScanned'
    <3>2. ASSUME NEW i \in DOMAIN tt.path[m], NEW t, NEW j \in DOMAIN tt.path[m], i < queue[m],
                 Rideable(t, m, i, j, bestBefore[tt.path[m][i]])
          PROVE  Settled(tt.path[m][j], Arr(tt, t, j))
      <4>1. RiddenAt(m, i, bestBefore[tt.path[m][i]])
            BY <1>2, <2>2, <2>3, <3>2
      <4> QED BY <3>2, <4>1 DEF RiddenAt
    <3> QED BY <1>1, <2>2, <3>2 DEF LineScanned, Path, Rideable, Settled, Skipped, Dep, Arr
  <2>6. RidesTaken' /\ AllScanned'
        BY <2>2 DEF RidesTaken, Between, AllScanned
  <2> QED BY <1>3, <1>4, <2>2, <2>4, <2>5, <2>6 DEF Explored
<1>6. CASE EndLine
  <2>1. /\ phase' = "scan" /\ scan.line # 0 /\ scan.pos > Len(Path) /\ scan'.line = 0
        /\ queue' = queue
        BY <1>1, <1>6 DEF EndLine, IdleScan
  <2>2. scan.line \in query.allowed /\ scan.line \in LinesOf(tt) /\ scan.pos \in Nat
    <3>1. scan.line \in query.allowed /\ scan.pos \in 1..(Len(Path) + 1)
          BY <1>1, <2>1 DEF Scanning
    <3> QED BY <1>1, <3>1
  <2>3. Len(Path) \in Nat /\ DOMAIN Path = 1..Len(Path)
        BY <1>1, <2>2, KnownPath DEF Path
  <2>4. ASSUME NEW i \in DOMAIN Path PROVE RiddenAt(scan.line, i, bestBefore[Path[i]])
    <3> SUFFICES ASSUME NEW t, NEW j \in DOMAIN Path, Rideable(t, scan.line, i, j, bestBefore[Path[i]])
                 PROVE  Settled(Path[j], Arr(tt, t, j))
        BY DEF RiddenAt, Path
    <3>1. i < scan.pos /\ ~(j >= scan.pos)
          BY <2>1, <2>2, <2>3
    <3> QED BY <1>1, <2>1, <3>1 DEF Explored, LineScanned, Carried
  <2>5. LinesAhead'
    <3> SUFFICES ASSUME NEW l \in query.allowed, NEW i \in DOMAIN tt.path[l], queue[l] = 0 \/ i < queue[l]
                 PROVE  RiddenAt(l, i, bestBefore[tt.path[l][i]])'
        BY <1>1, <2>1 DEF LinesAhead
    <3>1. RiddenAt(l, i, bestBefore[tt.path[l][i]])
          BY <1>2, <2>4 DEF Path
    <3> QED BY <1>1, <3>1 DEF RiddenAt, Rideable, Settled, Skipped, Dep, Arr
  <2>6. RidesTaken' /\ LineScanned' /\ AllScanned'
        BY <2>1 DEF RidesTaken, Between, LineScanned, AllScanned
  <2> QED BY <1>3, <1>4, <2>1, <2>5, <2>6 DEF Explored
<1>7. CASE ScanDone
  <2>1. /\ phase' = "egress" /\ after' = "relax" /\ scan.line = 0
        /\ \A l \in LinesOf(tt) : queue[l] = 0
        BY <1>7 DEF ScanDone
  <2>2. AllScanned'
    <3> SUFFICES ASSUME NEW l \in query.allowed, NEW i \in DOMAIN tt.path[l]
                 PROVE  RiddenAt(l, i, bestBefore[tt.path[l][i]])'
        BY <1>1 DEF AllScanned
    <3>1. l # 0 /\ queue[l] = 0
          BY <1>1, <2>1, KnownPath
    <3>2. RiddenAt(l, i, bestBefore[tt.path[l][i]])
          BY <1>2, <2>1, <3>1
    <3> QED BY <1>1, <3>2 DEF RiddenAt, Rideable, Settled, Skipped, Dep, Arr
  <2>3. RidesTaken' /\ RidesBefore' /\ LinesAhead' /\ LineScanned'
        BY <2>1 DEF RidesTaken, Between, RidesBefore, LinesAhead, LineScanned
  <2> QED BY <1>3, <2>2, <2>3 DEF Explored
<1> QED BY <1>5, <1>6, <1>7

LEMMA ExploredRound ==
    ASSUME Typed, Regular(tt), Explored, RelaxTransfers \/ EndRound
    PROVE  Explored'
<1>1. /\ TypeOK /\ served > 0 /\ InRound /\ phase # "scan" /\ round > 0 /\ query.to \in Stops
      /\ query.allowed \subseteq LinesOf(tt)
      /\ UNCHANGED <<tt, query, round, bestBefore>>
  <2>1. phase \in {"relax", "endRound"} /\ UNCHANGED <<tt, query, round, bestBefore>>
        BY DEF RelaxTransfers, EndRound
  <2> QED BY <2>1, Serving DEF Typed, TypeOK, InRound
<1>2. CASE RelaxTransfers
  <2>1. PICK I, time, parent :
              /\ I \in SUBSET Stops
              /\ Recorded(round, time, parent, I)
              /\ nextMarked' = nextMarked \union I
        BY <1>2, RelaxRecords
  <2>2. Falls /\ \A s \in Stops \ I : best'[s] = best[s]
        BY <1>1, <2>1, RecordedFalls
  <2>3. phase' = "egress" /\ after' = "endRound"
        BY <1>2 DEF RelaxTransfers
  <2>4. AllScanned'
        BY <1>1, <2>2, AllScannedKept DEF Explored
  <2>5. OnlyMarked'
        BY <1>1, <2>1, <2>2 DEF Explored, OnlyMarked
  <2>6. RidesTaken' /\ RidesBefore' /\ LinesAhead' /\ LineScanned'
        BY <2>3 DEF RidesTaken, Between, RidesBefore, LinesAhead, LineScanned
  <2> QED BY <2>4, <2>5, <2>6 DEF Explored
<1>3. CASE EndRound
  <2>1. /\ phase' = "queue" /\ marked' = nextMarked /\ UNCHANGED <<tt, query, best>>
        BY <1>3 DEF EndRound
  <2>2. Falls
        BY <1>1, <2>1, SteadyFalls
  <2>3. RidesTaken'
    <3> SUFFICES ASSUME NEW s \in Stops, s \notin nextMarked, NEW l \in query.allowed,
                        NEW i \in DOMAIN tt.path[l], tt.path[l][i] = s
                 PROVE  RiddenAt(l, i, best[s])'
        BY <2>1 DEF RidesTaken, Ridden
    <3>1. l \in LinesOf(tt)
          BY <1>1
    <3>2. PICK ready : ready = best[s]
          OBVIOUS
    <3>3. RiddenAt(l, i, ready)'
      <4>1. CASE s = query.to
        <5>1. ready \in Int /\ best'[query.to] <= ready
              BY <1>1, <2>1, <3>2, <4>1, LabelsKnown
        <5> QED BY <1>1, <2>2, <3>1, <5>1, RiddenLate, Regularly
      <4>2. CASE s # query.to
        <5>1. ready = bestBefore[tt.path[l][i]]
              BY <1>1, <3>2, <4>2 DEF Explored, OnlyMarked
        <5>2. RiddenAt(l, i, ready)
              BY <1>1, <5>1 DEF Explored, AllScanned
        <5> QED BY <2>1, <5>2, RiddenSteady
      <4> QED BY <4>1, <4>2
    <3> QED BY <2>1, <3>2, <3>3 DEF RiddenAt, Rideable, Skipped, Dep
  <2>4. ~InRound' /\ phase' # "scan"
        BY <2>1 DEF InRound
  <2> QED BY <2>3, <2>4 DEF Explored, RidesBefore, OnlyMarked, LinesAhead, LineScanned, AllScanned
<1> QED BY <1>2, <1>3

\* The trip the index finds leaves no later than one the position may be left by.
LEMMA FirstToBoard ==
    ASSUME Typed, Regular(tt), phase = "scan", scan.line # 0, scan.pos \in DOMAIN Path,
           NEW t, NEW j \in DOMAIN Path, Rideable(t, scan.line, scan.pos, j, bestBefore[Path[scan.pos]]),
           NEW bound \in Int, bound <= best[query.to], bestBefore[Path[scan.pos]] < bound
    PROVE  /\ \A u \in Boarding(bound) : Dep(tt, u, scan.pos) <= Dep(tt, t, scan.pos)
           /\ Boarding(bound) = {} =>
                 scan.trip # NoTrip /\ Dep(tt, scan.trip, scan.pos) <= Dep(tt, t, scan.pos)
<1> DEFINE p == scan.pos
           readyAt == bestBefore[Path[p]]
           linear == {u \in tt.trips[scan.line] \intersect tt.available :
                         ~Skipped(tt, u, p) /\ Dep(tt, u, p) >= readyAt}
           found == FindEarliestTrip(tt, scan.line, p, readyAt)
<1>1. /\ TypeOK /\ served > 0 /\ round > 0 /\ WellFormed(tt) /\ scan.line \in LinesOf(tt)
      /\ p \in DOMAIN tt.path[scan.line] /\ query.to \in Stops
  <2>1. TypeOK /\ Scanning /\ round > 0
        BY DEF Typed, TypeOK
  <2> QED BY <2>1, Serving DEF Scanning, Path
<1>2. \A u \in tt.trips[scan.line] : Dep(tt, u, p) \in Int /\ -Inf <= Dep(tt, u, p)
  <2>1. \A u \in tt.trips[scan.line] : Dep(tt, u, p) \in Times
        BY <1>1, KnownPath
  <2> QED BY <2>1, Constants, Zenon
<1>3. readyAt \in Int /\ best[query.to] \in Int /\ best[query.to] <= Inf
  <2>1. Path[p] \in Stops
        BY <1>1, KnownPath DEF Path
  <2>2. best[query.to] \in Times
        BY <1>1 DEF TypeOK
  <2>3. best[query.to] \in Int /\ best[query.to] <= Inf
        BY <2>2, Constants, Zenon
  <2> QED BY <1>1, <2>1, <2>3, LabelsKnown
<1>4. readyAt <= Dep(tt, t, p) /\ t \in linear
  <2>1. t \in tt.trips[scan.line] \intersect tt.available /\ ~Skipped(tt, t, p) /\ readyAt <= Dep(tt, t, p)
        BY DEF Rideable
  <2> HIDE DEF readyAt
  <2> QED BY <1>2, <1>3, <2>1
<1>5. {Dep(tt, u, p) : u \in found}
        = {d \in {Dep(tt, u, p) : u \in linear} : \A u \in linear : d <= Dep(tt, u, p)}
  <2>1. FindsFirst(tt, scan.line, p, readyAt)
        BY <1>1, <1>3, IndexIsScan, Regularly
  <2> QED BY <2>1 DEF FindsFirst
<1>6. \A u \in found : Dep(tt, u, p) <= Dep(tt, t, p)
  <2> HIDE DEF linear, found
  <2> QED BY <1>4, <1>5
<1>7. PICK c \in found : TRUE
  <2> DEFINE deps == {Dep(tt, u, p) : u \in linear}
  <2>1. deps \in SUBSET Int /\ deps # {} /\ -Inf \in Int /\ \A d \in deps : -Inf <= d
        BY <1>2, <1>4, Constants
  <2>2. MinOf(deps) \in deps /\ \A d \in deps : MinOf(deps) <= d
    <3> HIDE DEF deps
    <3> QED BY <2>1, LeastOf
  <2>3. MinOf(deps) \in {Dep(tt, u, p) : u \in found}
    <3>1. \A u \in linear : MinOf(deps) <= Dep(tt, u, p)
          BY <2>2
    <3> QED BY <1>5, <2>2, <3>1
  <2> QED BY <2>3
<1>8. Boarding(bound) = {u \in found : scan.trip = NoTrip \/ Dep(tt, u, p) < Dep(tt, scan.trip, p)}
  <2>1. ~(readyAt >= Inf) /\ ~(readyAt >= bound)
        BY <1>3, Constants
  <2> QED BY <2>1 DEF Boarding
<1>9. Boarding(bound) = {} => scan.trip # NoTrip /\ Dep(tt, scan.trip, p) <= Dep(tt, c, p)
  <2> SUFFICES ASSUME Boarding(bound) = {} PROVE scan.trip # NoTrip /\ Dep(tt, scan.trip, p) <= Dep(tt, c, p)
      OBVIOUS
  <2>1. scan.trip # NoTrip /\ ~(Dep(tt, c, p) < Dep(tt, scan.trip, p))
    <3> HIDE DEF found, p
    <3> QED BY <1>7, <1>8
  <2>2. Dep(tt, scan.trip, p) \in Int
    <3>1. scan.trip \in tt.trips[scan.line]
          BY <1>1, <2>1 DEF Typed, Scanning, Aboard
    <3> QED BY <1>2, <3>1
  <2>3. Dep(tt, c, p) \in Int
    <3>1. c \in tt.trips[scan.line]
          BY <1>7 DEF FindEarliestTrip, Window
    <3> QED BY <1>2, <3>1
  <2> QED BY <2>1, <2>2, <2>3
<1>10. Boarding(bound) = {} => Dep(tt, scan.trip, p) <= Dep(tt, t, p)
  <2> SUFFICES ASSUME Boarding(bound) = {} PROVE Dep(tt, scan.trip, p) <= Dep(tt, t, p)
      OBVIOUS
  <2>1. Dep(tt, scan.trip, p) <= Dep(tt, c, p) /\ Dep(tt, c, p) <= Dep(tt, t, p)
        BY <1>6, <1>7, <1>9
  <2>2. scan.trip \in tt.trips[scan.line] /\ c \in tt.trips[scan.line] /\ t \in tt.trips[scan.line]
        BY <1>1, <1>4, <1>7, <1>9 DEF Typed, Scanning, Aboard, FindEarliestTrip, Window
  <2>3. Dep(tt, scan.trip, p) \in Int /\ Dep(tt, c, p) \in Int /\ Dep(tt, t, p) \in Int
        BY <1>2, <2>2
  <2> QED BY <2>1, <2>3
<1> QED BY <1>6, <1>8, <1>9, <1>10

LEMMA ExploredScan ==
    ASSUME Typed, Regular(tt), Explored, ScanPosition
    PROVE  Explored'
<1>1. /\ phase = "scan" /\ phase' = "scan" /\ scan.line # 0
      /\ UNCHANGED <<tt, query, round, bestBefore, marked, queue>>
      BY DEF ScanPosition
<1>2. /\ TypeOK /\ served > 0 /\ round > 0 /\ query.allowed \subseteq LinesOf(tt) /\ query.to \in Stops
      /\ Scanning /\ scan.line \in query.allowed /\ scan.line \in LinesOf(tt)
  <2>1. TypeOK /\ Scanning /\ round > 0
        BY <1>1 DEF Typed, TypeOK
  <2> QED BY <1>1, <2>1, Serving DEF Scanning
<1>3. scan.pos \in DOMAIN Path /\ Path[scan.pos] \in Stops /\ scan.pos \in Nat
      /\ Path = tt.path[scan.line] /\ DOMAIN Path = 1..Len(Path) /\ Len(Path) \in Nat
  <2>1. scan.pos \in DOMAIN Path
        BY ScanRecords
  <2> QED BY <1>2, <2>1, KnownPath DEF Path
<1>4. PICK I, time, parent :
           /\ I \in SUBSET {Path[scan.pos]}
           /\ Recorded(round, [s \in Stops |-> time], [s \in Stops |-> parent], I)
           /\ I # {} => RideRecord(time, parent)
           /\ I = {} /\ scan.trip # NoTrip /\ ~Skipped(tt, scan.trip, scan.pos) =>
                        \/ best[Path[scan.pos]] <= Arr(tt, scan.trip, scan.pos)
                        \/ best[query.to] <= Arr(tt, scan.trip, scan.pos)
           /\ nextMarked' = nextMarked \union I
      BY ScanRecords
<1>5. PICK bound \in Int :
           /\ bound <= best[query.to] /\ bound = best'[query.to]
           /\ LET inChunk == scan.chunk > 0 \/ ChunkBegins
                  boarding == IF inChunk THEN {} ELSE Boarding(bound)
              IN  scan' = [line    |-> scan.line,
                           pos     |-> scan.pos + 1,
                           trip    |-> IF boarding = {} THEN scan.trip ELSE CHOOSE t \in boarding : TRUE,
                           boarded |-> IF boarding = {} THEN scan.boarded ELSE scan.pos,
                           chunk   |-> IF scan.chunk > 0 THEN scan.chunk - 1
                                       ELSE IF inChunk THEN SvrtWidth - 1 ELSE 0]
      BY ScanRecords
<1>6. /\ Falls
      /\ \A s \in Stops \ I : best'[s] = best[s]
      /\ \A s \in I : s \in Stops /\ best'[s] = time
  <2>1. /\ Falls
        /\ \A s \in Stops \ I : best'[s] = best[s]
        /\ \A s \in I : s \in Stops /\ best'[s] = [u \in Stops |-> time][s]
        BY <1>1, <1>2, <1>4, RecordedFalls
  <2> QED BY <2>1
<1>7. /\ scan'.line = scan.line /\ scan'.pos = scan.pos + 1
      /\ \/ scan'.trip = scan.trip /\ (scan.chunk > 0 \/ ChunkBegins \/ Boarding(bound) = {})
         \/ scan'.trip \in Boarding(bound)
      BY <1>5
<1>8. OnlyMarked'
  <2> SUFFICES ASSUME NEW s \in Stops \ {query.to}, s \notin nextMarked' PROVE best'[s] = bestBefore[s]
      BY <1>1 DEF OnlyMarked
  <2> QED BY <1>1, <1>4, <1>6 DEF Explored, OnlyMarked, InRound
<1>9. RidesBefore'
  <2> SUFFICES ASSUME NEW s \in Stops \ marked PROVE Ridden(s, bestBefore[s])'
      BY <1>1 DEF RidesBefore
  <2>1. PICK ready : ready = bestBefore[s]
        OBVIOUS
  <2>2. ready \in Int /\ Ridden(s, ready)
        BY <1>1, <1>2, <2>1, LabelsKnown DEF Explored, RidesBefore
  <2>3. Ridden(s, ready)'
        BY <1>2, <1>6, <2>2, RiddenKept
  <2> QED BY <1>1, <2>1, <2>3 DEF Ridden, RiddenAt, Rideable, Skipped, Dep
<1>10. LinesAhead'
  <2> SUFFICES ASSUME NEW l \in query.allowed, NEW i \in DOMAIN tt.path[l], l # scan.line,
                      queue[l] = 0 \/ i < queue[l]
               PROVE  RiddenAt(l, i, bestBefore[tt.path[l][i]])'
      BY <1>1, <1>7 DEF LinesAhead
  <2>1. PICK ready : ready = bestBefore[tt.path[l][i]]
        OBVIOUS
  <2>2. RiddenAt(l, i, ready)
        BY <1>1, <2>1 DEF Explored, LinesAhead
  <2>3. ready \in Int
        BY <1>2, <2>1, LabelsKnown, KnownPath
  <2>4. RiddenAt(l, i, ready)'
        BY <1>2, <1>6, <2>2, <2>3, RiddenAtKept
  <2>5. ready = bestBefore'[tt'.path[l][i]]
        BY <1>1, <2>1
  <2> QED BY <2>4, <2>5 DEF RiddenAt, Rideable, Skipped, Dep
<1>11. ASSUME NEW i \in DOMAIN Path, NEW t, NEW j \in DOMAIN Path, i < scan.pos + 1,
              Rideable(t, scan.line, i, j, bestBefore[Path[i]])
       PROVE  Settled(Path[j], Arr(tt, t, j))' \/ Carried(t, j)'
  <2>1. /\ t \in tt.trips[scan.line] /\ Path[i] \in Stops /\ Path[j] \in Stops
        /\ Arr(tt, t, j) \in Int /\ bestBefore[Path[i]] \in Int /\ i \in Nat /\ j \in Nat
    <3>1. i \in DOMAIN tt.path[scan.line] /\ j \in DOMAIN tt.path[scan.line]
          BY <1>3
    <3>2. bestBefore[Path[i]] \in Int
          BY <1>2, <1>3, <3>1, KnownPath, LabelsKnown
    <3>3. Rideable(t, scan.line, i, j, bestBefore[Path[i]])
          BY <1>11
    <3>4. /\ t \in tt.trips[scan.line] /\ tt.path[scan.line][i] \in Stops
          /\ tt.path[scan.line][j] \in Stops /\ Arr(tt, t, j) \in Int
          BY <1>2, <3>1, <3>2, <3>3, RideTimes
    <3>5. i \in Nat /\ j \in Nat
          BY <1>3
    <3> QED BY <1>3, <3>2, <3>4, <3>5
  <2>2. scan.trip # NoTrip =>
            /\ scan.trip \in tt.trips[scan.line] \intersect tt.available
            /\ \A q \in DOMAIN Path : Arr(tt, scan.trip, q) \in Int
    <3> SUFFICES ASSUME scan.trip # NoTrip
                 PROVE  /\ scan.trip \in tt.trips[scan.line] \intersect tt.available
                        /\ \A q \in DOMAIN Path : Arr(tt, scan.trip, q) \in Int
        OBVIOUS
    <3>1. scan.trip \in tt.trips[scan.line] \intersect tt.available
          BY <1>1, <1>2 DEF Scanning, Aboard
    <3>2. \A q \in DOMAIN Path : Arr(tt, scan.trip, q) \in Times
          BY <1>2, <1>3, <3>1, KnownPath
    <3>3. \A q \in DOMAIN Path : Arr(tt, scan.trip, q) \in Int
          BY <3>2, Constants, Zenon
    <3> QED BY <3>1, <3>3
  <2>3. scan'.trip # scan.trip =>
            /\ scan'.trip \in Boarding(bound) /\ scan'.trip \in tt.trips[scan.line] \intersect tt.available
            /\ scan'.trip # NoTrip
            /\ scan.trip # NoTrip => Dep(tt, scan'.trip, scan.pos) <= Dep(tt, scan.trip, scan.pos)
    <3> SUFFICES ASSUME scan'.trip # scan.trip
                 PROVE  /\ scan'.trip \in Boarding(bound)
                        /\ scan'.trip \in tt.trips[scan.line] \intersect tt.available
                        /\ scan'.trip # NoTrip
                        /\ scan.trip # NoTrip => Dep(tt, scan'.trip, scan.pos) <= Dep(tt, scan.trip, scan.pos)
        OBVIOUS
    <3>1. PICK u : u = scan'.trip
          OBVIOUS
    <3>2. u \in Boarding(bound)
          BY <1>7, <3>1
    <3>3. u \in tt.trips[scan.line] \intersect tt.available
          BY <1>1, <1>3, <1>5, <3>2, BoardingKnown
    <3>4. u # NoTrip
          BY <1>2, <3>3, KnownPath DEF NoTrip
    <3>5. ASSUME scan.trip # NoTrip PROVE Dep(tt, u, scan.pos) <= Dep(tt, scan.trip, scan.pos)
      <4>1. Dep(tt, u, scan.pos) < Dep(tt, scan.trip, scan.pos)
            BY <3>2, <3>5 DEF Boarding
      <4>2. Dep(tt, u, scan.pos) \in Times /\ Dep(tt, scan.trip, scan.pos) \in Times
            BY <1>2, <1>3, <2>2, <3>3, <3>5, KnownPath
      <4>3. Dep(tt, u, scan.pos) \in Int /\ Dep(tt, scan.trip, scan.pos) \in Int
            BY <4>2, Constants, Zenon
      <4> QED BY <4>1, <4>3
    <3> QED BY <3>1, <3>2, <3>3, <3>4, <3>5
  <2>4. CASE i < scan.pos
    <3>1. Settled(Path[j], Arr(tt, t, j)) \/ Carried(t, j)
          BY <1>1, <1>11, <2>4 DEF Explored, LineScanned
    <3>2. CASE Settled(Path[j], Arr(tt, t, j))
      <4>1. PICK s, a : s = Path[j] /\ a = Arr(tt, t, j)
            OBVIOUS
      <4>2. Settled(s, a)'
            BY <1>2, <1>6, <2>1, <3>2, <4>1, SettledKept
      <4>3. Path' = Path /\ Arr(tt, t, j)' = Arr(tt, t, j)
            BY <1>1, <1>7 DEF Path, Arr
      <4> QED BY <4>1, <4>2, <4>3 DEF Settled
    <3>3. CASE Carried(t, j)
      <4>0. /\ j >= scan.pos /\ scan.trip # NoTrip /\ ~Skipped(tt, scan.trip, j)
            /\ Arr(tt, scan.trip, j) <= Arr(tt, t, j) /\ Arr(tt, scan.trip, j) \in Int
            BY <2>2, <3>3 DEF Carried
      <4>1. CASE j = scan.pos
        <5>1. best'[Path[j]] <= Arr(tt, scan.trip, j) \/ best'[query.to] <= Arr(tt, scan.trip, j)
          <6>1. CASE I = {}
            <7>1. Settled(Path[j], Arr(tt, scan.trip, j))
                  BY <1>4, <4>0, <4>1, <6>1 DEF Settled
            <7>2. PICK s, a : s = Path[j] /\ a = Arr(tt, scan.trip, j)
                  OBVIOUS
            <7>3. Settled(s, a)'
                  BY <1>2, <1>6, <2>1, <4>0, <7>1, <7>2, SettledKept
            <7> QED BY <1>1, <7>2, <7>3 DEF Settled
          <6>2. CASE I # {}
            <7>1. I = {Path[j]} /\ time = Arr(tt, scan.trip, j)
                  BY <1>4, <4>1, <6>2 DEF RideRecord
            <7> QED BY <1>6, <4>0, <7>1
          <6> QED BY <6>1, <6>2
        <5>2. best'[Path[j]] \in Int /\ best'[query.to] \in Int
          <6>1. best'[Path[j]] \in Times /\ best'[query.to] \in Times
                BY <1>2, <1>6, <2>1 DEF Falls
          <6> QED BY <6>1, Constants, Zenon
        <5>3. best'[Path[j]] <= Arr(tt, t, j) \/ best'[query.to] <= Arr(tt, t, j)
              BY <2>1, <4>0, <5>1, <5>2
        <5> QED BY <1>1, <1>7, <5>3 DEF Settled, Path, Arr
      <4>2. CASE j # scan.pos
        <5>1. j >= scan.pos + 1
              BY <1>3, <2>1, <4>0, <4>2
        <5>2. /\ scan'.trip # NoTrip /\ ~Skipped(tt, scan'.trip, j)
              /\ Arr(tt, scan'.trip, j) <= Arr(tt, t, j)
          <6>1. CASE scan'.trip = scan.trip
                BY <4>0, <6>1
          <6>2. CASE scan'.trip # scan.trip
            <7>1. PICK u : u = scan'.trip
                  OBVIOUS
            <7>2. /\ u \in tt.trips[scan.line] \intersect tt.available
                  /\ u # NoTrip /\ Dep(tt, u, scan.pos) <= Dep(tt, scan.trip, scan.pos)
                  BY <2>3, <4>0, <6>2, <7>1
            <7>3. scan.pos < j
                  BY <1>3, <2>1, <5>1
            <7>4. ~Skipped(tt, u, j) /\ Arr(tt, u, j) <= Arr(tt, scan.trip, j)
                  BY <1>2, <1>3, <2>2, <4>0, <7>2, <7>3, Regularly DEF NoneOvertaken
            <7>5. Arr(tt, u, j) \in Times
                  BY <1>2, <1>3, <7>2, KnownPath
            <7>6. Arr(tt, u, j) \in Int
                  BY <7>5, Constants, Zenon
            <7>7. Arr(tt, u, j) <= Arr(tt, t, j)
                  BY <2>1, <4>0, <7>4, <7>6
            <7> QED BY <7>1, <7>2, <7>4, <7>7
          <6> QED BY <6>1, <6>2
        <5> QED BY <1>1, <1>7, <5>1, <5>2 DEF Carried, Skipped, Arr
      <4> QED BY <4>1, <4>2
    <3> QED BY <3>1, <3>2, <3>3
  <2>5. CASE ~(i < scan.pos)
    <3>0. i = scan.pos /\ j > scan.pos /\ Rideable(t, scan.line, scan.pos, j, bestBefore[Path[scan.pos]])
          BY <1>3, <1>11, <2>1, <2>5 DEF Rideable
    <3>1. CASE bound <= bestBefore[Path[scan.pos]]
      <4>1. PICK ready : ready = bestBefore[Path[scan.pos]]
            OBVIOUS
      <4>2. PICK l : l = scan.line
            OBVIOUS
      <4>3. best'[query.to] <= ready /\ ready \in Int /\ i \in DOMAIN tt.path[l] /\ l \in LinesOf(tt)
            BY <1>2, <1>3, <1>5, <2>1, <3>0, <3>1, <4>1, <4>2
      <4>4. RiddenAt(l, i, ready)'
            BY <1>2, <1>6, <4>3, RiddenLate, Regularly
      <4>5. Rideable(t, l, i, j, ready) /\ Path = tt.path[l] /\ Path' = tt.path[l]
            BY <1>1, <1>7, <3>0, <4>1, <4>2 DEF Path
      <4>6. Rideable(t, l, i, j, ready)'
            BY <1>1, <4>5 DEF Rideable, Skipped, Dep
      <4> QED BY <1>1, <4>4, <4>5, <4>6 DEF RiddenAt
    <3>2. CASE ~(bound <= bestBefore[Path[scan.pos]])
      <4>1. /\ bestBefore[Path[scan.pos]] < bound /\ bestBefore[Path[scan.pos]] < best[query.to]
            /\ best[query.to] \in Int /\ best[query.to] <= best[query.to]
            BY <1>2, <1>5, <2>1, <3>0, <3>2, LabelsKnown
      <4>2. PICK u : u = scan'.trip
            OBVIOUS
      <4>3. /\ u # NoTrip /\ u \in tt.trips[scan.line] \intersect tt.available
            /\ Dep(tt, u, scan.pos) <= Dep(tt, t, scan.pos)
        <5>1. CASE u \in Boarding(bound)
          <6>1. Dep(tt, u, scan.pos) <= Dep(tt, t, scan.pos)
                BY <1>1, <1>3, <1>5, <3>0, <4>1, <5>1, FirstToBoard
          <6>2. u \in tt.trips[scan.line] \intersect tt.available
                BY <1>1, <1>3, <1>5, <5>1, BoardingKnown
          <6>3. u # NoTrip
                BY <1>2, <6>2, KnownPath DEF NoTrip
          <6> QED BY <6>1, <6>2, <6>3
        <5>2. CASE u \notin Boarding(bound)
          <6>1. u = scan.trip /\ (scan.chunk > 0 \/ ChunkBegins \/ Boarding(bound) = {})
                BY <1>7, <4>2, <5>2
          <6>2. Boarding(bound) = {} \/ Boarding(best[query.to]) = {}
            <7>1. SvrtSkipsNothing
                  BY ChunksSkipNothing
            <7>2. scan.pos <= Len(Path)
                  BY <1>3
            <7> QED BY <1>1, <6>1, <7>1, <7>2, Regularly DEF SvrtSkipsNothing
          <6>3. scan.trip # NoTrip /\ Dep(tt, scan.trip, scan.pos) <= Dep(tt, t, scan.pos)
                BY <1>1, <1>3, <1>5, <3>0, <4>1, <6>2, FirstToBoard
          <6> QED BY <2>2, <6>1, <6>3
        <5> QED BY <5>1, <5>2
      <4>4. ~Skipped(tt, u, j) /\ Arr(tt, u, j) <= Arr(tt, t, j)
        <5>1. t \in tt.trips[scan.line] \intersect tt.available /\ ~Skipped(tt, t, j) /\ scan.pos < j
              BY <3>0 DEF Rideable
        <5> QED BY <1>2, <1>3, <4>3, <5>1, Regularly DEF NoneOvertaken
      <4>5. j >= scan.pos + 1
            BY <1>3, <2>1, <3>0
      <4> QED BY <1>1, <1>7, <4>2, <4>3, <4>4, <4>5 DEF Carried, Skipped, Arr
    <3> QED BY <1>5, <2>1, <3>0, <3>1, <3>2
  <2> QED BY <2>4, <2>5
<1>12. LineScanned'
  <2>1. queue'[scan'.line] = 0
        BY <1>1, <1>7 DEF Explored, LineScanned
  <2>2. Path' = Path
        BY <1>1, <1>7 DEF Path
  <2> SUFFICES ASSUME NEW i \in DOMAIN Path, NEW t, NEW j \in DOMAIN Path, i < scan.pos + 1,
                      Rideable(t, scan.line, i, j, bestBefore[Path[i]])
               PROVE  Settled(Path[j], Arr(tt, t, j))' \/ Carried(t, j)'
      BY <1>1, <1>7, <2>1, <2>2 DEF LineScanned, Rideable, Skipped, Dep
  <2> QED BY <1>11
<1>13. RidesTaken' /\ AllScanned'
       BY <1>1 DEF RidesTaken, Between, AllScanned
<1> QED BY <1>8, <1>9, <1>10, <1>12, <1>13 DEF Explored

LEMMA ExploredStep ==
    ASSUME Typed, Regular(tt), Explored, [Next]_vars
    PROVE  Explored'
<1>1. ASSUME NEW q \in Requests(tt), Start(q) PROVE Explored'
      BY <1>1, ExploredStart
<1>2. CASE SearchStep
      BY <1>2, ExploredSeeds, ExploredLookahead, ExploredQueue, ExploredLine, ExploredScan, ExploredRound
      DEF SearchStep
<1>3. CASE AnswerStep
  <2>1. phase' \in {"idle", "rebuild", "failed"}
    <3>1. CASE NoItinerary \/ BeginRebuild
          BY <3>1 DEF NoItinerary, BeginRebuild
    <3>2. CASE RebuildWalk \/ RebuildRide \/ RebuildMemo \/ RebuildFails
          BY <3>2 DEF RebuildWalk, RebuildRide, RebuildMemo, RebuildFails
    <3>3. CASE Respond \/ RestartAfterFailure
          BY <3>3 DEF Respond, RestartAfterFailure
    <3> QED BY <1>3, <3>1, <3>2, <3>3 DEF AnswerStep
  <2>2. ~Between' /\ ~InRound' /\ phase' # "scan"
        BY <2>1 DEF Between, InRound
  <2> QED BY <2>2 DEF Explored, RidesTaken, RidesBefore, OnlyMarked, LinesAhead, LineScanned, AllScanned
<1>4. CASE UNCHANGED vars
  <2>1. UNCHANGED <<tt, query, phase, best, bestBefore, marked, nextMarked, after, queue, scan>>
        BY <1>4 DEF vars, searchVars
  <2>2. Between' = Between /\ InRound' = InRound
        BY <2>1 DEF Between, InRound
  <2>3. RidesTaken' /\ RidesBefore' /\ LinesAhead' /\ AllScanned'
        BY <2>1, <2>2 DEF Explored, RidesTaken, RidesBefore, LinesAhead, AllScanned, Ridden, RiddenAt,
                          Rideable, Settled, Skipped, Dep, Arr
  <2>4. OnlyMarked'
        BY <2>1, <2>2 DEF Explored, OnlyMarked
  <2>5. LineScanned'
        BY <2>1 DEF Explored, LineScanned, Path, Carried, Rideable, Settled, Skipped, Dep, Arr
  <2> QED BY <2>3, <2>4, <2>5 DEF Explored
<1> QED BY <1>1, <1>2, <1>3, <1>4 DEF Next

----------------------------------------------------------------------------
(* The steps of the search keep the labels leading back.                    *)

LEMMA LeadsBackKept ==
    ASSUME TypeOK, tt' = tt,
           \A j \in 0..Rounds, s \in Stops : par[j][s] # NoParent => par'[j][s] # NoParent,
           NEW k \in 0..Rounds, NEW p \in ParentSteps, KnownRide(p), LeadsBack(k, p)
    PROVE  LeadsBack(k, p)'
<1>1. p.kind = "walk" => par'[k][p.from] # NoParent
      BY ParentKinds DEF LeadsBack
<1>2. p.kind = "transit" => k > 0 /\ par'[k - 1][tt.path[p.line][p.board]] # NoParent
  <2> SUFFICES ASSUME p.kind = "transit"
               PROVE  k > 0 /\ par'[k - 1][tt.path[p.line][p.board]] # NoParent
      OBVIOUS
  <2>1. p.line \in LinesOf(tt) /\ p.board \in DOMAIN tt.path[p.line]
        BY DEF KnownRide
  <2>2. tt.path[p.line][p.board] \in Stops
        BY <2>1, KnownPath
  <2>3. k > 0 /\ k - 1 \in 0..Rounds /\ par[k - 1][tt.path[p.line][p.board]] # NoParent
        BY Constants DEF LeadsBack
  <2> QED BY <2>2, <2>3
<1>3. p.kind = "memo" => par'[p.round][p.from] # NoParent
      BY ParentKinds DEF LeadsBack
<1> QED BY <1>1, <1>2, <1>3 DEF LeadsBack

LEMMA KnownRecorded ==
    ASSUME Typed, served > 0, Unreached, AllLead, UNCHANGED <<tt, query, round, bestBefore>>,
           NEW k, NEW time, NEW parent, NEW I, Recorded(k, time, parent, I),
           \A s \in I : parent[s].kind \in {"walk", "transit", "memo"} /\ LeadsBack(k, parent[s])
    PROVE  /\ Unreached' /\ AllLead'
           /\ \A j \in 0..Rounds, s \in Stops : par[j][s] # NoParent => par'[j][s] # NoParent
           /\ \A s \in I : par'[k][s] # NoParent
<1>1. /\ TypeOK /\ k \in 0..Rounds /\ I \subseteq Stops
      /\ \A s \in I : parent[s] \in ParentSteps /\ KnownRide(parent[s])
      BY Constants DEF Typed, TypeOK, Recorded
<1>2. /\ \A j \in 0..Rounds, s \in Stops : s \notin I \/ j # k => par'[j][s] = par[j][s] /\ arr'[j][s] = arr[j][s]
      /\ \A s \in I : s \in Stops /\ par'[k][s] = parent[s]
      BY RecordedFalls
<1>3. \A s \in I : parent[s] # NoParent
  <2>1. NoParent.kind = "none"
        BY DEF NoParent
  <2> QED BY <2>1
<1>4. /\ \A s \in I : par'[k][s] # NoParent
      /\ \A j \in 0..Rounds, s \in Stops : par[j][s] # NoParent => par'[j][s] # NoParent
      BY <1>2, <1>3
<1>5. Unreached'
      BY <1>2, <1>3 DEF Unreached
<1>6. AllLead'
  <2> SUFFICES ASSUME NEW j \in 0..Rounds, NEW s \in Stops PROVE LeadsBack(j, par[j][s])'
      BY DEF AllLead
  <2>1. PICK p : p = par'[j][s]
        OBVIOUS
  <2>2. p \in ParentSteps /\ KnownRide(p) /\ LeadsBack(j, p)
    <3>1. CASE s \in I /\ j = k
          BY <1>1, <1>2, <2>1, <3>1
    <3>2. CASE ~(s \in I /\ j = k)
      <4>1. p = par[j][s]
            BY <1>2, <2>1, <3>2
      <4> QED BY <1>1, <4>1 DEF AllLead, TypeOK
    <3> QED BY <3>1, <3>2
  <2>3. LeadsBack(j, p)'
        BY <1>1, <1>4, <2>2, LeadsBackKept
  <2> QED BY <2>1, <2>3 DEF LeadsBack
<1> QED BY <1>4, <1>5, <1>6

LEMMA KnownFrame ==
    ASSUME UNCHANGED <<tt, arr, par>>
    PROVE  /\ Unreached => Unreached'
           /\ AllLead => AllLead'
BY DEF Unreached, AllLead, LeadsBack

\* A walk begins at a stop with a label of the round.
LEMMA WalkLeads ==
    ASSUME TypeOK, Unreached, NEW k \in 0..Rounds, NEW s \in Stops, NEW time, NEW parent,
           WalkRecord(k, time, parent, s), time < best[s], time \in Times
    PROVE  parent.kind = "walk" /\ LeadsBack(k, parent)
<1>1. PICK f \in Stops, secs \in Nat :
        /\ parent = WalkFrom(f, secs)
        /\ time = arr[k][f] + secs
  <2>1. PICK f \in Stops, secs \in Nat :
          /\ parent = WalkFrom(f, secs)
          /\ secs = tt.walk[<<f, s>>] /\ secs < Inf
          /\ time = arr[k][f] + secs
        BY DEF WalkRecord
  <2> QED BY <2>1
<1>2. arr[k][f] \in Int /\ best[s] \in Int /\ best[s] <= Inf /\ time \in Int /\ Inf \in Int
  <2>1. best[s] \in Times
        BY DEF TypeOK
  <2>2. best[s] \in Int /\ best[s] <= Inf /\ time \in Int /\ Inf \in Int
        BY <2>1, Constants, Zenon
  <2> QED BY <2>2, LabelsKnown
<1>3. arr[k][f] # Inf
      BY <1>1, <1>2
<1>4. parent.kind = "walk" /\ parent.from = f
      BY <1>1 DEF WalkFrom
<1> QED BY <1>3, <1>4 DEF Unreached, LeadsBack

LEMMA MemoLeads ==
    ASSUME TypeOK, served > 0, Unreached, NEW k, NEW time, NEW parent, MemoRecord(k, time, parent)
    PROVE  parent.kind = "memo" /\ LeadsBack(k, parent)
<1>1. PICK f \in Stops, ls \in Legs : parent = Memoized(f, round, ls) /\ arr[round][f] < Inf
      BY DEF MemoRecord
<1>2. round \in 0..Rounds /\ arr[round][f] # Inf
      BY <1>1, Constants DEF TypeOK
<1>3. parent.kind = "memo" /\ parent.from = f /\ parent.round = round
      BY <1>1 DEF Memoized
<1> QED BY <1>2, <1>3 DEF Unreached, LeadsBack

\* A trip that improves a stop was boarded where the round before arrived.
LEMMA RideLeads ==
    ASSUME Typed, Explored, MarkedReached, BoardedInTime, phase = "scan", scan.line # 0,
           NEW time, NEW parent, RideRecord(time, parent),
           time < best[Path[scan.pos]], time < best[query.to]
    PROVE  parent.kind = "transit" /\ LeadsBack(round, parent)
<1>1. /\ scan.trip # NoTrip /\ ~Skipped(tt, scan.trip, scan.pos) /\ scan.pos \in DOMAIN Path
      /\ time = Arr(tt, scan.trip, scan.pos)
      /\ parent = Ride(scan.trip, scan.line, scan.boarded, scan.pos)
      BY DEF RideRecord
<1>2. /\ TypeOK /\ Scanning /\ round > 0 /\ query.allowed \subseteq LinesOf(tt) /\ query.to \in Stops
      BY Serving DEF Typed, TypeOK
<1>3. /\ scan.line \in query.allowed /\ scan.line \in LinesOf(tt)
      /\ scan.boarded \in 1..(scan.pos - 1) /\ scan.pos \in 1..(Len(Path) + 1)
      /\ scan.trip \in tt.trips[scan.line] \intersect tt.available
      /\ ~Skipped(tt, scan.trip, scan.boarded)
      BY <1>1, <1>2 DEF Scanning, Aboard
<1>4. /\ DOMAIN Path = 1..Len(Path) /\ Len(Path) \in Nat /\ scan.boarded \in DOMAIN Path
      /\ scan.boarded < scan.pos /\ Path[scan.boarded] \in Stops /\ Path[scan.pos] \in Stops
      /\ Path = tt.path[scan.line]
  <2>1. DOMAIN Path = 1..Len(Path) /\ Len(Path) \in Nat /\ \A p \in DOMAIN Path : Path[p] \in Stops
        BY <1>2, <1>3, KnownPath DEF Path
  <2>2. scan.boarded \in DOMAIN Path /\ scan.boarded < scan.pos
        BY <1>3, <2>1
  <2> QED BY <1>1, <2>1, <2>2 DEF Path
<1>5. Path[scan.boarded] \in marked
  <2> SUFFICES ASSUME Path[scan.boarded] \notin marked PROVE FALSE
      OBVIOUS
  <2>1. Rideable(scan.trip, scan.line, scan.boarded, scan.pos, bestBefore[Path[scan.boarded]])
        BY <1>1, <1>3, <1>4 DEF Rideable, BoardedInTime
  <2>2. Ridden(Path[scan.boarded], bestBefore[Path[scan.boarded]])
        BY <1>4 DEF Explored, RidesBefore
  <2>3. Settled(Path[scan.pos], time)
        BY <1>1, <1>3, <1>4, <2>1, <2>2 DEF Ridden, RiddenAt
  <2>4. best[Path[scan.pos]] \in Int /\ best[query.to] \in Int /\ time \in Int
    <3>1. time \in Times
          BY <1>1, <1>2, <1>3, <1>4, KnownPath
    <3>2. time \in Int
          BY <3>1, Constants, Zenon
    <3> QED BY <1>2, <1>4, <3>2, LabelsKnown
  <2> QED BY <2>3, <2>4 DEF Settled
<1>6. par[round - 1][Path[scan.boarded]] # NoParent
      BY <1>5 DEF MarkedReached, InRound
<1>7. /\ parent.kind = "transit" /\ parent.line = scan.line /\ parent.board = scan.boarded
      BY <1>1 DEF Ride
<1> QED BY <1>2, <1>4, <1>6, <1>7 DEF LeadsBack

LEMMA KnownStart ==
    ASSUME Typed, NEW q \in Requests(tt), Start(q)
    PROVE  Known'
<1>1. PICK start, reached : StartLabels(q, start, reached)
      BY Started DEF Typed
<1>2. /\ tt' = tt /\ query' = q /\ phase' = "seeds" /\ round' = 0 /\ q.from \in Stops /\ q.to \in Stops
      BY RaptorAssumption DEF Start, Typed, TypeOK
<1>3. \A k \in 0..Rounds, s \in Stops :
        /\ par'[k][s] = IF k > 0 THEN NoParent
                        ELSE IF s = q.from THEN Origin
                        ELSE IF s \in reached THEN WalkFrom(q.from, start[s] - q.depart)
                        ELSE NoParent
        /\ arr'[k][s] = IF k = 0 THEN start[s] ELSE Inf
      BY <1>1 DEF StartLabels
<1>4. /\ reached \subseteq Stops \ {q.from}
      /\ \A s \in Stops \ {q.from} : s \notin reached => start[s] = Inf
      /\ marked' = reached \union (IF q.access = {} THEN {q.from} ELSE {})
      /\ destRound' = IF q.from = q.to \/ q.to \in reached THEN 0 ELSE None
      BY <1>1 DEF StartLabels
<1>5. Origin # NoParent /\ \A secs : WalkFrom(q.from, secs) # NoParent
  <2>1. Origin.kind = "origin" /\ NoParent.kind = "none" /\ \A secs : WalkFrom(q.from, secs).kind = "walk"
        BY DEF Origin, NoParent, WalkFrom
  <2> QED BY <2>1
<1>6. 0 \in 0..Rounds /\ \A k \in 0..Rounds : k > 0 \/ k = 0
      BY Constants
<1>7. \A s \in reached \union {q.from} : s \in Stops /\ par'[0][s] # NoParent
      BY <1>2, <1>3, <1>4, <1>5, <1>6
<1>8. Unreached'
  <2> SUFFICES ASSUME NEW k \in 0..Rounds, NEW s \in Stops, par'[k][s] = NoParent PROVE arr'[k][s] = Inf
      BY DEF Unreached
  <2>1. CASE k > 0
        BY <1>3, <2>1
  <2>2. CASE k = 0
    <3>1. s # q.from /\ s \notin reached
          BY <1>7, <2>2
    <3> QED BY <1>3, <1>4, <2>2, <3>1
  <2> QED BY <1>6, <2>1, <2>2
<1>9. MarkedReached'
  <2>1. \A s \in marked' : par'[0][s] # NoParent
        BY <1>4, <1>7
  <2> QED BY <1>2, <2>1 DEF MarkedReached, Between, InRound
<1>10. DestinationReached'
  <2>1. destRound' # None => destRound' = 0 /\ q.to \in reached \union {q.from}
        BY <1>4
  <2> QED BY <1>2, <1>7, <2>1 DEF DestinationReached, None
<1>11. AllLead'
  <2> SUFFICES ASSUME NEW k \in 0..Rounds, NEW s \in Stops PROVE LeadsBack(k, par[k][s])'
      BY DEF AllLead
  <2>1. PICK p : p = par'[k][s]
        OBVIOUS
  <2>2. \/ p.kind \in {"none", "origin"}
        \/ k = 0 /\ p.kind = "walk" /\ p.from = q.from
    <3>1. \/ p \in {NoParent, Origin}
          \/ k = 0 /\ \E secs : p = WalkFrom(q.from, secs)
          BY <1>3, <1>6, <2>1
    <3> QED BY <3>1 DEF NoParent, Origin, WalkFrom
  <2>3. LeadsBack(k, p)'
        BY <1>7, <2>2 DEF LeadsBack
  <2> QED BY <2>1, <2>3 DEF LeadsBack
<1>12. Rebuilding'
       BY <1>2 DEF Rebuilding
<1> QED BY <1>8, <1>9, <1>10, <1>11, <1>12 DEF Known

LEMMA KnownSeeds ==
    ASSUME Typed, Known, WalkFromSeed \/ SeedsDone
    PROVE  Known'
<1>1. CASE WalkFromSeed
  <2>1. PICK I, time, parent :
              /\ I \in SUBSET Stops
              /\ Recorded(round, time, parent, I)
              /\ \A s \in I : WalkRecord(round, time[s], parent[s], s) /\ time[s] < best[s]
              /\ destRound' = IF query.to \in I THEN 0 ELSE destRound
              /\ marked' = marked \union I
        BY <1>1, SeedRecords
  <2>2. /\ phase = "seeds" /\ phase' = "seeds" /\ UNCHANGED <<tt, query, round, bestBefore>>
        /\ TypeOK /\ served > 0 /\ round = 0 /\ query.to \in Stops /\ 0 \in 0..Rounds
    <3>1. phase = "seeds" /\ phase' = "seeds" /\ UNCHANGED <<tt, query, round, bestBefore>>
          BY <1>1 DEF WalkFromSeed
    <3> QED BY <3>1, Serving DEF Typed, TypeOK
  <2>3. \A s \in I : parent[s].kind \in {"walk", "transit", "memo"} /\ LeadsBack(round, parent[s])
        BY <2>1, <2>2, WalkLeads DEF Known, Recorded
  <2>4. /\ Unreached' /\ AllLead'
        /\ \A j \in 0..Rounds, s \in Stops : par[j][s] # NoParent => par'[j][s] # NoParent
        /\ \A s \in I : par'[round][s] # NoParent
        BY <2>1, <2>2, <2>3, KnownRecorded DEF Known
  <2>5. MarkedReached'
    <3>1. marked \subseteq Stops /\ \A s \in marked : par[0][s] # NoParent
          BY <2>2 DEF Known, MarkedReached, Between, TypeOK
    <3>2. \A s \in marked' : par'[0][s] # NoParent
          BY <2>1, <2>2, <2>4, <3>1
    <3> QED BY <2>2, <3>2 DEF MarkedReached, Between, InRound
  <2>6. DestinationReached'
    <3>1. query.to \notin I /\ destRound # None => destRound \in 0..Rounds
          BY <2>2, Constants DEF TypeOK
    <3> QED BY <2>1, <2>2, <2>4, <3>1 DEF Known, DestinationReached, None
  <2> QED BY <2>2, <2>4, <2>5, <2>6 DEF Known, Rebuilding
<1>2. CASE SeedsDone
  <2>1. /\ phase = "seeds" /\ phase' = "egress" /\ after' = "queue"
        /\ UNCHANGED <<tt, query, round, arr, par, marked, destRound>>
        BY <1>2 DEF SeedsDone, Typed, TypeOK
  <2>2. MarkedReached' /\ DestinationReached'
        BY <2>1 DEF Known, MarkedReached, DestinationReached, Between, InRound
  <2> QED BY <2>1, <2>2, KnownFrame DEF Known, Rebuilding
<1> QED BY <1>1, <1>2

LEMMA KnownLookahead ==
    ASSUME Typed, Known, Egress \/ Lookahead \/ LookaheadDone
    PROVE  Known'
<1>1. /\ phase \in {"egress", "lookahead"} /\ phase' \in {"lookahead", "queue", "relax", "endRound"}
      /\ phase' = "lookahead" \/ phase' = after
      /\ UNCHANGED <<tt, query, round, bestBefore, marked, nextMarked, after>>
      /\ after \in {"queue", "relax", "endRound"} /\ (after # "queue" => round > 0)
      /\ TypeOK /\ served > 0 /\ round \in 0..Rounds /\ query.to \in Stops
  <2>1. TypeOK
        BY DEF Typed
  <2>2. phase \in {"egress", "lookahead"}
        BY DEF Egress, Lookahead, LookaheadDone
  <2>3. served > 0 /\ round \in 0..Rounds /\ query.to \in Stops
        BY <2>1, <2>2, Serving
  <2>4. /\ phase' = "lookahead" \/ phase' = after
        /\ UNCHANGED <<tt, query, round, bestBefore, marked, nextMarked, after>>
        BY DEF Egress, Lookahead, LookaheadDone, searchVars
  <2> QED BY <2>1, <2>2, <2>3, <2>4 DEF TypeOK
<1>2. (Between' <=> Between) /\ (InRound' <=> InRound)
      BY <1>1 DEF Between, InRound
<1>3. /\ Unreached' /\ AllLead' /\ DestinationReached'
      /\ \A j \in 0..Rounds, s \in Stops : par[j][s] # NoParent => par'[j][s] # NoParent
  <2>1. CASE UNCHANGED <<best, arr, par, destRound>>
        BY <1>1, <2>1, KnownFrame DEF Known, DestinationReached
  <2>2. CASE ~UNCHANGED <<best, arr, par, destRound>>
    <3>1. PICK k, time, parent :
                 /\ k \in 0..Rounds
                 /\ Recorded(k, [s \in Stops |-> time], [s \in Stops |-> parent], {query.to})
                 /\ MemoRecord(k, time, parent)
                 /\ destRound' = k
      <4>1. CASE Egress
            BY <1>1, <2>2, <4>1, EgressRecords
      <4>2. CASE Lookahead
        <5>1. \A k \in round..Rounds : k \in 0..Rounds
              BY <1>1, Constants
        <5> QED BY <2>2, <4>2, <5>1, LookaheadRecords
      <4>3. CASE LookaheadDone
            BY <2>2, <4>3 DEF LookaheadDone, searchVars
      <4> QED BY <4>1, <4>2, <4>3
    <3>2. parent.kind = "memo" /\ LeadsBack(k, parent)
          BY <1>1, <3>1, MemoLeads DEF Known
    <3>3. PICK times, steps : times = [s \in Stops |-> time] /\ steps = [s \in Stops |-> parent]
          OBVIOUS
    <3>4. \A s \in {query.to} : steps[s].kind \in {"walk", "transit", "memo"} /\ LeadsBack(k, steps[s])
          BY <1>1, <3>2, <3>3
    <3>5. Recorded(k, times, steps, {query.to})
          BY <3>1, <3>3
    <3>6. /\ Unreached' /\ AllLead'
          /\ \A j \in 0..Rounds, s \in Stops : par[j][s] # NoParent => par'[j][s] # NoParent
          /\ \A s \in {query.to} : par'[k][s] # NoParent
          BY <1>1, <3>4, <3>5, KnownRecorded DEF Known
    <3> QED BY <1>1, <3>1, <3>6 DEF DestinationReached
  <2> QED BY <2>1, <2>2
<1>4. MarkedReached'
  <2>1. marked \subseteq Stops /\ nextMarked \subseteq Stops
        BY <1>1 DEF TypeOK
  <2>2. CASE Between
        BY <1>1, <1>2, <1>3, <2>1, <2>2 DEF Known, MarkedReached, Between, InRound
  <2>3. CASE InRound
    <3>1. round - 1 \in 0..Rounds
          BY <1>1, <2>3, Constants DEF InRound
    <3>2. ~Between'
          BY <1>1, <1>2, <2>3 DEF Between, InRound
    <3> QED BY <1>1, <1>2, <1>3, <2>1, <2>3, <3>1, <3>2 DEF Known, MarkedReached
  <2> QED BY <1>2, <2>2, <2>3 DEF MarkedReached
<1>5. Rebuilding'
      BY <1>1 DEF Rebuilding
<1> QED BY <1>3, <1>4, <1>5 DEF Known

LEMMA KnownRound ==
    ASSUME Typed, Known, Explored, BoardedInTime,
           QueueLines \/ BeginLine \/ EndLine \/ ScanPosition \/ ScanDone \/ RelaxTransfers \/ EndRound
    PROVE  Known'
<1>1. CASE QueueLines
  <2>1. /\ phase = "queue" /\ phase' = "scan" /\ round' = round + 1 /\ nextMarked' = {}
        /\ UNCHANGED <<tt, query, arr, par, marked, destRound>>
        BY <1>1 DEF QueueLines
  <2>2. round' - 1 = round
        BY <2>1 DEF Typed, TypeOK
  <2>3. MarkedReached'
        BY <2>1, <2>2 DEF Known, MarkedReached, Between, InRound
  <2>4. DestinationReached'
        BY <2>1 DEF Known, DestinationReached
  <2> QED BY <2>1, <2>3, <2>4, KnownFrame DEF Known, Rebuilding
<1>2. CASE BeginLine \/ EndLine \/ ScanDone
  <2>1. /\ phase = "scan" /\ phase' \in {"scan", "egress"} /\ (phase' = "egress" => after' = "relax")
        /\ UNCHANGED <<tt, query, round, arr, par, marked, nextMarked, destRound>>
        BY <1>2 DEF BeginLine, EndLine, ScanDone
  <2>2. InRound /\ InRound' /\ ~Between'
        BY <2>1 DEF InRound, Between
  <2>3. MarkedReached' /\ DestinationReached'
        BY <2>1, <2>2 DEF Known, MarkedReached, DestinationReached
  <2> QED BY <2>1, <2>3, KnownFrame DEF Known, Rebuilding
<1>3. CASE ScanPosition \/ RelaxTransfers
  <2>1. /\ phase \in {"scan", "relax"} /\ phase' \in {"scan", "egress"} /\ (phase' = "egress" => after' = "endRound")
        /\ UNCHANGED <<tt, query, round, bestBefore, marked, destRound>>
        /\ InRound /\ InRound' /\ ~Between'
    <3>1. /\ phase \in {"scan", "relax"} /\ phase' \in {"scan", "egress"} /\ (phase' = "egress" => after' = "endRound")
          /\ UNCHANGED <<tt, query, round, bestBefore, marked, destRound>>
          BY <1>3 DEF ScanPosition, RelaxTransfers
    <3> QED BY <3>1 DEF InRound, Between
  <2>2. /\ TypeOK /\ served > 0 /\ round \in 0..Rounds /\ round - 1 \in 0..Rounds /\ query.to \in Stops
        /\ marked \subseteq Stops /\ nextMarked \subseteq Stops
    <3>1. TypeOK /\ phase # "idle"
          BY <2>1 DEF Typed
    <3>2. served > 0 /\ round \in 0..Rounds /\ query.to \in Stops
          BY <3>1, Serving
    <3>3. round > 0
          BY <2>1, <3>1 DEF TypeOK
    <3> QED BY <3>1, <3>2, <3>3, Constants DEF TypeOK
  <2>3. PICK I, time, parent :
              /\ I \in SUBSET Stops
              /\ Recorded(round, time, parent, I)
              /\ \A s \in I : parent[s].kind \in {"walk", "transit", "memo"} /\ LeadsBack(round, parent[s])
              /\ nextMarked' = nextMarked \union I
    <3>1. CASE RelaxTransfers
      <4>1. PICK I, time, parent :
              /\ I \in SUBSET Stops
              /\ Recorded(round, time, parent, I)
              /\ \A s \in I : WalkRecord(round, time[s], parent[s], s) /\ time[s] < best[s]
              /\ nextMarked' = nextMarked \union I
            BY <3>1, RelaxRecords
      <4>2. \A s \in I : parent[s].kind \in {"walk", "transit", "memo"} /\ LeadsBack(round, parent[s])
            BY <2>2, <4>1, WalkLeads DEF Known, Recorded
      <4> QED BY <4>1, <4>2
    <3>2. CASE ScanPosition
      <4>1. PICK I, time, parent :
              /\ I \in SUBSET {Path[scan.pos]}
              /\ Recorded(round, [s \in Stops |-> time], [s \in Stops |-> parent], I)
              /\ I # {} => /\ RideRecord(time, parent)
                           /\ time < best[Path[scan.pos]] /\ time < best[query.to]
              /\ nextMarked' = nextMarked \union I
            BY <3>2, ScanRecords
      <4>2. PICK times, steps : times = [s \in Stops |-> time] /\ steps = [s \in Stops |-> parent]
            OBVIOUS
      <4>3. I \in SUBSET Stops /\ Recorded(round, times, steps, I)
            BY <4>1, <4>2 DEF Recorded
      <4>4. ASSUME NEW s \in I PROVE steps[s].kind \in {"walk", "transit", "memo"} /\ LeadsBack(round, steps[s])
        <5>1. phase = "scan" /\ scan.line # 0
              BY <3>2 DEF ScanPosition
        <5>2. parent.kind = "transit" /\ LeadsBack(round, parent)
              BY <4>1, <5>1, RideLeads DEF Known
        <5> QED BY <4>2, <4>3, <5>2
      <4> QED BY <4>1, <4>3, <4>4
    <3> QED BY <1>3, <3>1, <3>2
  <2>4. /\ Unreached' /\ AllLead'
        /\ \A j \in 0..Rounds, s \in Stops : par[j][s] # NoParent => par'[j][s] # NoParent
        /\ \A s \in I : par'[round][s] # NoParent
        BY <2>1, <2>2, <2>3, KnownRecorded DEF Known
  <2>5. MarkedReached'
        BY <2>1, <2>2, <2>3, <2>4 DEF Known, MarkedReached
  <2>6. DestinationReached'
    <3>1. destRound # None => destRound \in 0..Rounds
          BY <2>2, Constants DEF TypeOK
    <3> QED BY <2>1, <2>2, <2>4, <3>1 DEF Known, DestinationReached, None
  <2> QED BY <2>1, <2>4, <2>5, <2>6 DEF Known, Rebuilding
<1>4. CASE EndRound
  <2>1. /\ phase = "endRound" /\ phase' = "queue" /\ marked' = nextMarked /\ destRound' = ReachedIn
        /\ UNCHANGED <<tt, query, round, arr, par>>
        BY <1>4 DEF EndRound
  <2>2. \A s \in nextMarked : par[round][s] # NoParent
        BY <2>1 DEF Known, MarkedReached, InRound
  <2>3. MarkedReached'
        BY <2>1, <2>2 DEF MarkedReached, Between, InRound
  <2>4. DestinationReached'
        BY <2>1, <2>2 DEF Known, DestinationReached, ReachedIn, None
  <2> QED BY <2>1, <2>3, <2>4, KnownFrame DEF Known, Rebuilding
<1> QED BY <1>1, <1>2, <1>3, <1>4

LEMMA KnownAnswer ==
    ASSUME Typed, Known, AnswerStep
    PROVE  Known'
<1>1. /\ UNCHANGED <<tt, query, round, arr, par, destRound>>
      /\ phase' \in {"idle", "rebuild", "failed"} /\ phase \in {"queue", "rebuild"}
  <2>1. CASE NoItinerary \/ BeginRebuild
        BY <2>1 DEF NoItinerary, BeginRebuild, SearchDone, searchVars
  <2>2. CASE RebuildWalk \/ RebuildRide \/ RebuildMemo \/ RebuildFails
        BY <2>2 DEF RebuildWalk, RebuildRide, RebuildMemo, RebuildFails, searchVars
  <2>3. CASE Respond
        BY <2>3 DEF Respond, searchVars
  <2>4. CASE RestartAfterFailure
        BY <2>4 DEF RestartAfterFailure, Known, Rebuilding
  <2> QED BY <2>1, <2>2, <2>3, <2>4 DEF AnswerStep
<1>2. Unreached' /\ AllLead' /\ DestinationReached' /\ MarkedReached'
  <2>1. MarkedReached'
        BY <1>1 DEF MarkedReached, Between, InRound
  <2> QED BY <1>1, <2>1, KnownFrame DEF Known, DestinationReached
<1>3. phase = "rebuild" => /\ at[1] \in Stops /\ at[2] \in 0..Rounds /\ Parent # NoParent
                           /\ Parent \in ParentSteps /\ KnownRide(Parent) /\ LeadsBack(at[2], Parent)
  <2> SUFFICES ASSUME phase = "rebuild"
               PROVE  /\ at[1] \in Stops /\ at[2] \in 0..Rounds /\ Parent # NoParent
                      /\ Parent \in ParentSteps /\ KnownRide(Parent) /\ LeadsBack(at[2], Parent)
      OBVIOUS
  <2>1. at \in Stops \X (0..Rounds) /\ TypeOK
        BY DEF Typed, TypeOK
  <2>2. at[1] \in Stops /\ at[2] \in 0..Rounds
        BY <2>1
  <2> QED BY <2>1, <2>2 DEF Known, AllLead, Rebuilding, Parent, TypeOK
<1>4. Rebuilding'
  <2>1. CASE NoItinerary \/ Respond \/ RestartAfterFailure
        BY <2>1 DEF NoItinerary, Respond, RestartAfterFailure, Rebuilding
  <2>2. CASE BeginRebuild
    <3>1. destRound # None /\ phase' = "rebuild" /\ at' = <<query.to, destRound>>
          BY <2>2 DEF BeginRebuild
    <3> QED BY <1>1, <3>1 DEF Known, DestinationReached, Rebuilding, Parent
  <2>3. CASE RebuildWalk
    <3>1. phase' = "rebuild" /\ phase = "rebuild" /\ Parent.kind = "walk" /\ at' = <<Parent.from, at[2]>>
          BY <2>3 DEF RebuildWalk
    <3>2. par[at[2]][Parent.from] # NoParent
          BY <1>3, <3>1 DEF LeadsBack
    <3> QED BY <1>1, <3>1, <3>2 DEF Rebuilding, Parent
  <2>4. CASE RebuildRide
    <3>1. /\ phase' = "rebuild" /\ phase = "rebuild" /\ Parent.kind = "transit"
          /\ at' = <<tt.path[Parent.line][Parent.board], IF at[2] = 0 THEN 0 ELSE at[2] - 1>>
          BY <2>4 DEF RebuildRide
    <3>2. at[2] > 0 /\ par[at[2] - 1][tt.path[Parent.line][Parent.board]] # NoParent
          BY <1>3, <3>1 DEF LeadsBack
    <3>3. at'[1] = tt.path[Parent.line][Parent.board] /\ at'[2] = at[2] - 1
      <4>1. at[2] # 0
            BY <1>3, <3>1, <3>2, Constants
      <4> QED BY <3>1, <4>1
    <3> QED BY <1>1, <3>1, <3>2, <3>3 DEF Rebuilding, Parent
  <2>5. CASE RebuildMemo
    <3>1. /\ phase' = "rebuild" /\ phase = "rebuild" /\ Parent.kind = "memo"
          /\ at' = <<Parent.from, Parent.round>>
          BY <2>5 DEF RebuildMemo
    <3>2. par[Parent.round][Parent.from] # NoParent
          BY <1>3, <3>1 DEF LeadsBack
    <3> QED BY <1>1, <3>1, <3>2 DEF Rebuilding, Parent
  <2>6. CASE RebuildFails
    <3>1. phase = "rebuild" /\ Parent = NoParent
          BY <2>6 DEF RebuildFails
    <3> QED BY <1>3, <3>1
  <2> QED BY <2>1, <2>2, <2>3, <2>4, <2>5, <2>6 DEF AnswerStep
<1> QED BY <1>2, <1>4 DEF Known

LEMMA LeadingInit == Init => Explored /\ Known
<1> SUFFICES ASSUME Init PROVE Explored /\ Known
    OBVIOUS
<1>1. /\ phase = "idle" /\ destRound = None
      /\ \A k \in 0..Rounds, s \in Stops : par[k][s] = NoParent /\ arr[k][s] = Inf
      BY DEF Init
<1>2. NoParent.kind = "none"
      BY DEF NoParent
<1>3. ~Between /\ ~InRound
      BY <1>1 DEF Between, InRound
<1>4. Explored
      BY <1>1, <1>3 DEF Explored, RidesTaken, RidesBefore, OnlyMarked, LinesAhead, LineScanned, AllScanned
<1>5. Known
  <2>1. AllLead
        BY <1>1, <1>2 DEF AllLead, LeadsBack
  <2> QED BY <1>1, <1>3, <2>1 DEF Known, Unreached, MarkedReached, DestinationReached, Rebuilding
<1> QED BY <1>4, <1>5

\* The timetable of a run stays.
LEMMA TimetableStays == [Next]_vars => tt' = tt
<1>1. ASSUME NEW q \in Requests(tt), Start(q) PROVE tt' = tt
      BY <1>1 DEF Start
<1>2. CASE SearchStep
      BY <1>2 DEF SearchStep, WalkFromSeed, SeedsDone, Egress, Lookahead, LookaheadDone, QueueLines,
                  BeginLine, ScanPosition, EndLine, ScanDone, RelaxTransfers, EndRound
<1>3. CASE AnswerStep
      BY <1>3 DEF AnswerStep, NoItinerary, BeginRebuild, RebuildWalk, RebuildRide, RebuildMemo,
                  RebuildFails, Respond, RestartAfterFailure
<1>4. CASE UNCHANGED vars
      BY <1>4 DEF vars
<1> QED BY <1>1, <1>2, <1>3, <1>4 DEF Next

LEMMA LeadingStep == Typed /\ Sound /\ Leading /\ [Next]_vars => Leading'
<1> SUFFICES ASSUME Typed, Sound, Leading, [Next]_vars, Regular(tt)' PROVE Explored' /\ Known'
    BY DEF Leading
<1>1. Regular(tt)
      BY TimetableStays DEF Regular, NoneEarly, Forward, NoneOvertaken, LinesOf, Skipped, Dep, Arr, SchedDep
<1>2. Explored /\ Known /\ BoardedInTime
  <2>1. Explored /\ Known
        BY <1>1 DEF Leading
  <2>2. BoardedInTime
        BY <1>1, Regularly DEF Sound, Sounds
  <2> QED BY <2>1, <2>2
<1>3. Explored'
      BY <1>1, <1>2, ExploredStep
<1>4. ASSUME NEW q \in Requests(tt), Start(q) PROVE Known'
      BY <1>4, KnownStart
<1>5. CASE SearchStep
      BY <1>2, <1>3, <1>5, KnownSeeds, KnownLookahead, KnownRound DEF SearchStep
<1>6. CASE AnswerStep
      BY <1>2, <1>3, <1>6, KnownAnswer
<1>7. CASE UNCHANGED vars
  <2>1. UNCHANGED <<tt, query, phase, round, arr, par, marked, nextMarked, after, destRound, at>>
        BY <1>7 DEF vars, searchVars, answerVars
  <2>2. Between' = Between /\ InRound' = InRound
        BY <2>1 DEF Between, InRound
  <2>3. MarkedReached' /\ DestinationReached' /\ Rebuilding'
        BY <1>2, <2>1, <2>2 DEF Known, MarkedReached, DestinationReached, Rebuilding, Parent
  <2> QED BY <1>2, <1>3, <2>1, <2>3, KnownFrame DEF Known
<1> QED BY <1>3, <1>4, <1>5, <1>6, <1>7 DEF Next

\* Rebuildable: where no trip is early or overtaken, a journey that was found can
\* be rebuilt from the parents.
THEOREM JourneysRebuild == Spec => []Rebuildable
<1>1. Init => Typed /\ Sound /\ Leading
      BY TypedInit, SoundInit, LeadingInit DEF Sound, Leading
<1>2. Typed /\ Sound /\ Leading /\ [Next]_vars => (Typed /\ Sound /\ Leading)'
      BY TypedStep, SoundStep, LeadingStep
<1>3. Leading => Rebuildable
      BY DEF Leading, Known, Rebuilding, Rebuildable
<1> QED BY <1>1, <1>2, <1>3, PTL DEF Spec

----------------------------------------------------------------------------
(* More walks in a row lead nowhere sooner.                                 *)

\* Points at no time before the day begins.
Onward == Stops \X Nat

\* No point of P that is in time is sooner than all of Q at its stop.
Matched(P, Q) == \A p \in P : Inf <= p[2] \/ \E o \in Q : o[1] = p[1] /\ o[2] <= p[2]

LEMMA OnwardOf ==
    /\ Onward \subseteq Places
    /\ \A p \in Onward : p[1] \in Stops /\ p[2] \in Nat /\ p = <<p[1], p[2]>>
    /\ \A s \in Stops, time \in Nat : <<s, time>> \in Onward
<1>1. ASSUME NEW p \in Onward PROVE p \in Places
  <2>1. p[1] \in Stops /\ p[2] \in Nat /\ p = <<p[1], p[2]>> /\ Inf \in Nat
        BY Constants DEF Onward
  <2>2. p[2] \in {time \in Int : -Inf <= time}
        BY <2>1
  <2> QED BY <2>1, <2>2 DEF Places
<1> QED BY <1>1 DEF Onward

LEMMA WalkedOnceFrom ==
    ASSUME NEW P, NEW p \in WalkedOnce(P)
    PROVE  \/ p \in P
           \/ \E o \in P : \E s \in Stops :
                 tt.walk[<<o[1], s>>] < Inf /\ p = <<s, o[2] + tt.walk[<<o[1], s>>]>>
<1> DEFINE From(o) == {<<s, o[2] + tt.walk[<<o[1], s>>]>> : s \in {u \in Stops : tt.walk[<<o[1], u>>] < Inf}}
<1>1. WalkedOnce(P) = P \union UNION {From(o) : o \in P}
      BY DEF WalkedOnce
<1>2. \A o \in P : p \in From(o) =>
          \E s \in Stops : tt.walk[<<o[1], s>>] < Inf /\ p = <<s, o[2] + tt.walk[<<o[1], s>>]>>
      OBVIOUS
<1> HIDE DEF From
<1> QED BY <1>1, <1>2

LEMMA RodeFrom ==
    ASSUME WellFormed(tt), NEW lines \in SUBSET LinesOf(tt), NEW P, NEW p \in Rode(lines, P)
    PROVE  \E l \in lines : \E t \in tt.trips[l] \intersect tt.available : \E i, j \in DOMAIN tt.path[l] :
              /\ i < j
              /\ ~Skipped(tt, t, i) /\ ~Skipped(tt, t, j)
              /\ p = <<tt.path[l][j], Arr(tt, t, j)>>
              /\ \E o \in P : o[1] = tt.path[l][i] /\ o[2] <= Dep(tt, t, i)
<1> DEFINE Alights(l, t) ==
               {j \in DOMAIN tt.path[l] :
                        /\ ~Skipped(tt, t, j)
                        /\ \E i \in 1..(j - 1) : /\ ~Skipped(tt, t, i)
                                                /\ \E o \in P : /\ o[1] = tt.path[l][i]
                                                                /\ o[2] <= Dep(tt, t, i)}
           Trip(l, t) == {<<tt.path[l][j], Arr(tt, t, j)>> : j \in Alights(l, t)}
           Line(l) == UNION {Trip(l, t) : t \in tt.trips[l] \intersect tt.available}
<1>1. Rode(lines, P) = UNION {Line(l) : l \in lines}
      BY DEF Rode
<1>2. PICK l \in lines : p \in Line(l)
  <2> HIDE DEF Line
  <2> QED BY <1>1
<1>3. PICK t \in tt.trips[l] \intersect tt.available : p \in Trip(l, t)
  <2> HIDE DEF Trip
  <2> QED BY <1>2
<1>4. PICK j \in Alights(l, t) : p = <<tt.path[l][j], Arr(tt, t, j)>>
      BY <1>3
<1>5. PICK i \in 1..(j - 1) : /\ ~Skipped(tt, t, i)
                              /\ \E o \in P : o[1] = tt.path[l][i] /\ o[2] <= Dep(tt, t, i)
      BY <1>4
<1>6. j \in DOMAIN tt.path[l] /\ ~Skipped(tt, t, j)
      BY <1>4
<1>7. i \in DOMAIN tt.path[l] /\ i < j
  <2>1. DOMAIN tt.path[l] = 1..Len(tt.path[l]) /\ Len(tt.path[l]) \in Nat
        BY DEF WellFormed, LinesOf
  <2> HIDE DEF Alights
  <2> QED BY <1>5, <1>6, <2>1
<1> HIDE DEF Alights
<1> QED BY <1>4, <1>5, <1>6, <1>7

\* Walking and riding lead on.
LEMMA OnwardWalked ==
    ASSUME WellFormed(tt), NEW P \in SUBSET Onward
    PROVE  WalkedOnce(P) \in SUBSET Onward
<1> SUFFICES ASSUME NEW p \in WalkedOnce(P) PROVE p \in Onward
    OBVIOUS
<1>1. CASE p \in P
      BY <1>1
<1>2. ASSUME NEW o \in P, NEW s \in Stops, p = <<s, o[2] + tt.walk[<<o[1], s>>]>> PROVE p \in Onward
  <2>1. o[1] \in Stops /\ o[2] \in Nat
        BY OnwardOf
  <2>2. tt.walk[<<o[1], s>>] \in Nat
        BY <2>1, PlacesOf
  <2>3. o[2] + tt.walk[<<o[1], s>>] \in Nat
        BY <2>1, <2>2
  <2> QED BY <1>2, <2>3, OnwardOf
<1>3. p \in P \/ \E o \in P : \E s \in Stops : p = <<s, o[2] + tt.walk[<<o[1], s>>]>>
      BY WalkedOnceFrom
<1> QED BY <1>1, <1>2, <1>3

LEMMA OnwardRode ==
    ASSUME WellFormed(tt), Forward(tt), NEW lines \in SUBSET LinesOf(tt), NEW P \in SUBSET Onward
    PROVE  Rode(lines, P) \in SUBSET Onward
<1> SUFFICES ASSUME NEW p \in Rode(lines, P) PROVE p \in Onward
    OBVIOUS
<1>1. PICK l \in lines : \E t \in tt.trips[l] \intersect tt.available : \E i, j \in DOMAIN tt.path[l] :
              /\ i < j
              /\ p = <<tt.path[l][j], Arr(tt, t, j)>>
              /\ \E o \in P : o[1] = tt.path[l][i] /\ o[2] <= Dep(tt, t, i)
      BY RodeFrom
<1>2. PICK t \in tt.trips[l] \intersect tt.available : \E i, j \in DOMAIN tt.path[l] :
              /\ i < j
              /\ p = <<tt.path[l][j], Arr(tt, t, j)>>
              /\ \E o \in P : o[1] = tt.path[l][i] /\ o[2] <= Dep(tt, t, i)
      BY <1>1
<1>3. PICK i \in DOMAIN tt.path[l], j \in DOMAIN tt.path[l] :
              /\ i < j
              /\ p = <<tt.path[l][j], Arr(tt, t, j)>>
              /\ \E o \in P : o[1] = tt.path[l][i] /\ o[2] <= Dep(tt, t, i)
      BY <1>2
<1>4. PICK o \in P : o[1] = tt.path[l][i] /\ o[2] <= Dep(tt, t, i)
      BY <1>3
<1>5. /\ l \in LinesOf(tt) /\ t \in tt.trips[l] /\ o[2] \in Nat
      /\ tt.path[l][j] \in Stops /\ Dep(tt, t, i) \in Times /\ Arr(tt, t, j) \in Times
  <2>1. l \in LinesOf(tt) /\ t \in tt.trips[l] /\ o[2] \in Nat
        BY <1>4, OnwardOf
  <2>2. tt.path[l][j] \in Stops /\ tt.actual[t][i] \in Times \X Times /\ tt.actual[t][j] \in Times \X Times
        BY <2>1 DEF WellFormed, LinesOf
  <2> QED BY <2>1, <2>2 DEF Dep, Arr
<1>6. Dep(tt, t, i) \in Int /\ Arr(tt, t, j) \in Int
      BY <1>5, Constants, Zenon
<1>7. Dep(tt, t, i) <= Arr(tt, t, j)
      BY <1>3, <1>5 DEF Forward
<1>8. Arr(tt, t, j) \in Nat
      BY <1>4, <1>5, <1>6, <1>7
<1> QED BY <1>3, <1>5, <1>8, OnwardOf

LEMMA WalkedAtOnce ==
    ASSUME WellFormed(tt), NEW P \in SUBSET Places
    PROVE  Walked(P, 1) = WalkedOnce(P)
<1>1. PICK c : Walking(P, 1, c)
      BY WalkedSteps
<1>2. c[0] = P /\ Walked(P, 1) = c[1]
      BY <1>1 DEF Walking
<1>3. c[1] = WalkedOnce(c[0])
  <2>1. \A j \in 1..1 : c[j] = WalkedOnce(c[j - 1])
        BY <1>1 DEF Walking
  <2>2. 1 \in 1..1 /\ 1 - 1 = 0
        OBVIOUS
  <2> QED BY <2>1, <2>2
<1> QED BY <1>2, <1>3

\* One walk does what several do.
LEMMA MatchedWalk ==
    ASSUME WellFormed(tt), Closed(tt), NEW P \in SUBSET Onward, NEW Q \in SUBSET Onward,
           Matched(P, WalkedOnce(Q))
    PROVE  Matched(WalkedOnce(P), WalkedOnce(Q))
<1> SUFFICES ASSUME NEW p \in WalkedOnce(P), p \notin P, ~(Inf <= p[2])
             PROVE  \E o \in WalkedOnce(Q) : o[1] = p[1] /\ o[2] <= p[2]
    BY DEF Matched
<1>1. PICK r \in P : \E s \in Stops :
          tt.walk[<<r[1], s>>] < Inf /\ p = <<s, r[2] + tt.walk[<<r[1], s>>]>>
      BY WalkedOnceFrom
<1>2. PICK s \in Stops : tt.walk[<<r[1], s>>] < Inf /\ p = <<s, r[2] + tt.walk[<<r[1], s>>]>>
      BY <1>1
<1>3. r[1] \in Stops /\ r[2] \in Nat /\ tt.walk[<<r[1], s>>] \in Nat /\ Inf \in Nat
  <2>1. r[1] \in Stops /\ r[2] \in Nat
        BY OnwardOf
  <2> QED BY <2>1, PlacesOf, Constants
<1>4. p[1] = s /\ p[2] = r[2] + tt.walk[<<r[1], s>>] /\ ~(Inf <= r[2])
      BY <1>2, <1>3
<1>5. PICK o \in WalkedOnce(Q) : o[1] = r[1] /\ o[2] <= r[2]
      BY <1>4 DEF Matched
<1>6. o[2] \in Nat /\ Q \in SUBSET Places
      BY OnwardWalked, OnwardOf
<1>7. CASE o \in Q
  <2>1. <<s, o[2] + tt.walk[<<o[1], s>>]>> \in WalkedOnce(Q)
        BY <1>2, <1>5, <1>6, <1>7, WalkedOnceOf
  <2> QED BY <1>3, <1>4, <1>5, <1>6, <2>1
<1>8. ASSUME NEW g \in Q, NEW u \in Stops, o = <<u, g[2] + tt.walk[<<g[1], u>>]>>
      PROVE  \E x \in WalkedOnce(Q) : x[1] = p[1] /\ x[2] <= p[2]
  <2>1. g[1] \in Stops /\ g[2] \in Nat /\ u = r[1] /\ o[2] = g[2] + tt.walk[<<g[1], u>>]
        BY <1>5, <1>8, OnwardOf
  <2>2. tt.walk[<<g[1], u>>] \in Nat /\ tt.walk[<<g[1], s>>] \in Nat
        BY <2>1, PlacesOf
  <2>3. CASE g[1] = s
    <3>1. g \in WalkedOnce(Q)
          BY <1>6, WalkedOnceOf
    <3>2. g[2] <= p[2]
          BY <1>3, <1>4, <1>5, <2>1, <2>2
    <3> QED BY <1>4, <2>3, <3>1, <3>2
  <2>4. CASE g[1] # s
    <3>1. tt.walk[<<g[1], s>>] <= tt.walk[<<g[1], u>>] + tt.walk[<<r[1], s>>]
          BY <2>1, <2>4 DEF Closed
    <3>2. g[2] + tt.walk[<<g[1], s>>] <= p[2]
          BY <1>3, <1>4, <1>5, <2>1, <2>2, <3>1
    <3>3. tt.walk[<<g[1], s>>] < Inf
          BY <1>3, <1>4, <2>1, <2>2, <3>2
    <3>4. <<s, g[2] + tt.walk[<<g[1], s>>]>> \in WalkedOnce(Q)
          BY <1>6, <3>3, WalkedOnceOf
    <3> QED BY <1>4, <3>2, <3>4
  <2> QED BY <2>3, <2>4
<1>9. o \in Q \/ \E g \in Q : \E u \in Stops : o = <<u, g[2] + tt.walk[<<g[1], u>>]>>
      BY WalkedOnceFrom
<1> QED BY <1>7, <1>8, <1>9

LEMMA MatchedWalks ==
    ASSUME WellFormed(tt), Closed(tt), NEW P \in SUBSET Onward, NEW Q \in SUBSET Onward, Matched(P, Q),
           NEW n \in Nat
    PROVE  /\ Matched(Walked(P, n), Walked(Q, 1))
           /\ Walked(P, n) \in SUBSET Onward
           /\ Walked(Q, 1) \in SUBSET Onward
<1>1. P \in SUBSET Places /\ Q \in SUBSET Places
      BY OnwardOf
<1>2. Walked(Q, 1) = WalkedOnce(Q) /\ WalkedOnce(Q) \in SUBSET Onward /\ Q \subseteq WalkedOnce(Q)
      BY <1>1, WalkedAtOnce, OnwardWalked, WalkedOnceOf
<1>3. PICK c : Walking(P, n, c)
      BY <1>1, WalkedSteps
<1> DEFINE T == {j \in 0..n : c[j] \in SUBSET Onward /\ Matched(c[j], WalkedOnce(Q))}
<1>4. 0 \in T
  <2>1. c[0] = P
        BY <1>3 DEF Walking
  <2>2. Matched(P, WalkedOnce(Q))
        BY <1>2 DEF Matched
  <2> QED BY <2>1, <2>2
<1>5. ASSUME NEW j \in 1..n, j - 1 \in T PROVE j \in T
  <2>1. c[j] = WalkedOnce(c[j - 1]) /\ c[j - 1] \in SUBSET Onward /\ Matched(c[j - 1], WalkedOnce(Q))
        BY <1>3, <1>5 DEF Walking
  <2>2. c[j] \in SUBSET Onward /\ Matched(c[j], WalkedOnce(Q))
        BY <2>1, OnwardWalked, MatchedWalk
  <2> QED BY <2>2
<1>6. n \in T
  <2>1. 0..n \subseteq T
    <3> HIDE DEF T
    <3> QED BY <1>4, <1>5, UpTo
  <2> QED BY <2>1
<1>7. Walked(P, n) = c[n]
      BY <1>3 DEF Walking
<1> QED BY <1>2, <1>6, <1>7

LEMMA MatchedRides ==
    ASSUME WellFormed(tt), Forward(tt), NEW lines \in SUBSET LinesOf(tt),
           NEW P \in SUBSET Onward, NEW Q \in SUBSET Onward, Matched(P, Q)
    PROVE  Matched(Rode(lines, P), Rode(lines, Q))
<1> SUFFICES ASSUME NEW p \in Rode(lines, P), ~(Inf <= p[2])
             PROVE  p \in Rode(lines, Q) /\ p[2] <= p[2]
    BY DEF Matched
<1>1. PICK l \in lines : \E t \in tt.trips[l] \intersect tt.available : \E i, j \in DOMAIN tt.path[l] :
              /\ i < j
              /\ ~Skipped(tt, t, i) /\ ~Skipped(tt, t, j)
              /\ p = <<tt.path[l][j], Arr(tt, t, j)>>
              /\ \E o \in P : o[1] = tt.path[l][i] /\ o[2] <= Dep(tt, t, i)
      BY RodeFrom
<1>2. PICK t \in tt.trips[l] \intersect tt.available : \E i, j \in DOMAIN tt.path[l] :
              /\ i < j
              /\ ~Skipped(tt, t, i) /\ ~Skipped(tt, t, j)
              /\ p = <<tt.path[l][j], Arr(tt, t, j)>>
              /\ \E o \in P : o[1] = tt.path[l][i] /\ o[2] <= Dep(tt, t, i)
      BY <1>1
<1>3. PICK i \in DOMAIN tt.path[l], j \in DOMAIN tt.path[l] :
              /\ i < j
              /\ ~Skipped(tt, t, i) /\ ~Skipped(tt, t, j)
              /\ p = <<tt.path[l][j], Arr(tt, t, j)>>
              /\ \E o \in P : o[1] = tt.path[l][i] /\ o[2] <= Dep(tt, t, i)
      BY <1>2
<1>4. PICK o \in P : o[1] = tt.path[l][i] /\ o[2] <= Dep(tt, t, i)
      BY <1>3
<1>5. /\ l \in LinesOf(tt) /\ t \in tt.trips[l] /\ o[2] \in Nat /\ Inf \in Nat
      /\ Dep(tt, t, i) \in Int /\ Arr(tt, t, j) \in Int
  <2>1. l \in LinesOf(tt) /\ t \in tt.trips[l] /\ o[2] \in Nat
        BY <1>4, OnwardOf
  <2>2. tt.actual[t][i] \in Times \X Times /\ tt.actual[t][j] \in Times \X Times
        BY <2>1 DEF WellFormed, LinesOf
  <2>3. Dep(tt, t, i) \in Times /\ Arr(tt, t, j) \in Times
        BY <2>2 DEF Dep, Arr
  <2> QED BY <2>1, <2>3, Constants, Zenon
<1>6. Dep(tt, t, i) <= Arr(tt, t, j)
      BY <1>3, <1>5 DEF Forward
<1>7. p[2] = Arr(tt, t, j) /\ ~(Inf <= o[2])
      BY <1>3, <1>4, <1>5, <1>6
<1>8. PICK x \in Q : x[1] = o[1] /\ x[2] <= o[2]
      BY <1>7 DEF Matched
<1>9. x[1] = tt.path[l][i] /\ x[2] <= Dep(tt, t, i)
  <2>1. x[2] \in Nat
        BY OnwardOf
  <2> QED BY <1>4, <1>5, <1>8, <2>1
<1>10. Q \in SUBSET Places
       BY OnwardOf
<1>11. p \in Rode(lines, Q)
       BY <1>3, <1>9, <1>10, RodeOf
<1> QED BY <1>5, <1>7, <1>11

\* The requests begin no earlier than the day.
LEMMA OnwardOrigins ==
    ASSUME TypeOK, served > 0
    PROVE  Origins(query) \in SUBSET Onward
<1>1. query.from \in Stops /\ query.depart \in Nat /\ query.access \in SUBSET (Stops \X Nat)
      BY Served
<1>2. ASSUME NEW e \in query.access PROVE <<e[1], query.depart + e[2]>> \in Onward
  <2>1. e[1] \in Stops /\ query.depart + e[2] \in Nat
        BY <1>1
  <2> QED BY <2>1, OnwardOf
<1> QED BY <1>1, <1>2, OnwardOf DEF Origins

\* The points reached round by round, with so many walks in a row.
Reaching(by, n) ==
    /\ by \in [0..Rounds -> SUBSET Places]
    /\ by[0] = Walked(Origins(query), n)
    /\ \A k \in 1..Rounds : by[k] = by[k - 1] \union Walked(Rode(query.allowed, by[k - 1]), n)

LEMMA MatchedPoints ==
    ASSUME TypeOK, served > 0, Forward(tt), Closed(tt), NEW n \in Nat,
           NEW by, Reaching(by, n), NEW one, Reaching(one, 1)
    PROVE  Matched(by[Rounds], one[Rounds])
<1>1. /\ WellFormed(tt) /\ query.allowed \in SUBSET LinesOf(tt) /\ Rounds \in Nat
      /\ Origins(query) \in SUBSET Onward
      BY Served, OnwardOrigins, Constants
<1> DEFINE T == {k \in 0..Rounds : /\ by[k] \in SUBSET Onward /\ one[k] \in SUBSET Onward
                                   /\ Matched(by[k], one[k])}
<1>2. 0 \in T
  <2>1. \A p \in Origins(query) : p[2] \in Nat
        BY <1>1, OnwardOf
  <2>2. Matched(Origins(query), Origins(query))
        BY <2>1 DEF Matched
  <2>3. by[0] = Walked(Origins(query), n) /\ one[0] = Walked(Origins(query), 1)
        BY DEF Reaching
  <2>4. by[0] \in SUBSET Onward /\ one[0] \in SUBSET Onward /\ Matched(by[0], one[0])
        BY <1>1, <2>2, <2>3, MatchedWalks
  <2> QED BY <1>1, <2>4
<1>3. ASSUME NEW k \in 1..Rounds, k - 1 \in T PROVE k \in T
  <2>1. PICK P, Q : P = by[k - 1] /\ Q = one[k - 1]
        OBVIOUS
  <2>2. P \in SUBSET Onward /\ Q \in SUBSET Onward /\ Matched(P, Q)
        BY <1>3, <2>1
  <2>3. /\ Rode(query.allowed, P) \in SUBSET Onward /\ Rode(query.allowed, Q) \in SUBSET Onward
        /\ Matched(Rode(query.allowed, P), Rode(query.allowed, Q))
        BY <1>1, <2>2, OnwardRode, MatchedRides
  <2>4. /\ Matched(Walked(Rode(query.allowed, P), n), Walked(Rode(query.allowed, Q), 1))
        /\ Walked(Rode(query.allowed, P), n) \in SUBSET Onward
        /\ Walked(Rode(query.allowed, Q), 1) \in SUBSET Onward
        BY <1>1, <2>3, MatchedWalks
  <2>5. /\ by[k] = P \union Walked(Rode(query.allowed, P), n)
        /\ one[k] = Q \union Walked(Rode(query.allowed, Q), 1)
        BY <2>1 DEF Reaching
  <2>6. Matched(by[k], one[k])
        BY <2>2, <2>4, <2>5 DEF Matched
  <2> QED BY <2>2, <2>4, <2>5, <2>6
<1>4. Rounds \in T
  <2>1. 0..Rounds \subseteq T
    <3> HIDE DEF T
    <3> QED BY <1>1, <1>2, <1>3, UpTo
  <2> QED BY <1>1, <2>1
<1> QED BY <1>4

\* The reference is never, or the time of a point at the destination, or of one at
\* the stop before a virtual destination.
LEMMA EarliestIsReached ==
    ASSUME TypeOK, served > 0, NEW n \in Nat
    PROVE  \/ EarliestWithin(query, n) = Inf
           \/ \E p \in PointsWithin(query, n) : p[1] = query.to /\ EarliestWithin(query, n) = p[2]
           \/ \E p \in PointsWithin(query, n) : \E e \in query.egress :
                 p[1] = e[1] /\ EarliestWithin(query, n) = p[2] + e[2]
<1> DEFINE P == PointsWithin(query, n)
           Ends(p) == {p[2] + e[2] : e \in {f \in query.egress : f[1] = p[1]}}
           T == {p[2] : p \in {o \in P : o[1] = query.to}} \union UNION {Ends(p) : p \in P}
<1>1. P \in SUBSET Places
      BY PointsSteps, Constants
<1>2. EarliestWithin(query, n) = Earliest(T)
      BY DEF EarliestWithin
<1>3. ASSUME NEW p \in P, NEW e \in query.egress
      PROVE  p[2] + e[2] \in Int /\ -Inf <= p[2] + e[2]
  <2>1. p[2] \in Int /\ -Inf <= p[2] /\ e[2] \in Nat /\ Inf \in Nat
        BY <1>1, Served, PlacesOf, Constants
  <2> QED BY <2>1
<1>4. \A p \in P : p[2] \in Int /\ -Inf <= p[2]
      BY <1>1, Served, PlacesOf
<1>5. \A x \in T : x \in Int /\ -Inf <= x
      BY <1>3, <1>4
<1>6. Earliest(T) \in T \union {Inf}
  <2> HIDE DEF T
  <2> QED BY <1>5, EarliestOf
<1>7. CASE Earliest(T) = Inf
      BY <1>2, <1>7
<1>8. CASE Earliest(T) \in {p[2] : p \in {o \in P : o[1] = query.to}}
      BY <1>2, <1>8
<1>9. CASE Earliest(T) \in UNION {Ends(p) : p \in P}
  <2>1. PICK p \in P : Earliest(T) \in Ends(p)
    <3> HIDE DEF Ends, P
    <3> QED BY <1>9
  <2>2. PICK e \in query.egress : e[1] = p[1] /\ Earliest(T) = p[2] + e[2]
    <3> HIDE DEF P
    <3> QED BY <2>1
  <2> QED BY <1>2, <2>2
<1> HIDE DEF Ends, P
<1> QED BY <1>6, <1>7, <1>8, <1>9

\* Where the transfers make up for every walk of several, walking more often in a
\* row arrives nowhere sooner.
LEMMA DetoursAreLonger ==
    ASSUME TypeOK, served > 0, Forward(tt), Closed(tt), NEW n \in Nat
    PROVE  EarliestWithin(query, 1) <= EarliestWithin(query, n)
<1>1. PICK by : Reaching(by, n) /\ PointsWithin(query, n) = by[Rounds]
      BY PointsSteps DEF Reaching
<1>2. PICK one : Reaching(one, 1) /\ PointsWithin(query, 1) = one[Rounds]
      BY PointsSteps DEF Reaching
<1>3. Matched(PointsWithin(query, n), PointsWithin(query, 1))
      BY <1>1, <1>2, MatchedPoints
<1>4. /\ PointsWithin(query, n) \in SUBSET Places /\ PointsWithin(query, 1) \in SUBSET Places
      /\ Inf \in Nat /\ \A e \in query.egress : e[2] \in Nat
      BY <1>1, <1>2, Served, Constants DEF Reaching
<1>5. /\ EarliestWithin(query, 1) \in Int /\ EarliestWithin(query, 1) <= Inf
      /\ EarliestWithin(query, n) \in Int
      BY EarliestIsLeast
<1>6. CASE EarliestWithin(query, n) = Inf
      BY <1>5, <1>6
<1>7. ASSUME NEW p \in PointsWithin(query, n), p[1] = query.to, EarliestWithin(query, n) = p[2]
      PROVE  EarliestWithin(query, 1) <= EarliestWithin(query, n)
  <2>1. CASE Inf <= p[2]
        BY <1>4, <1>5, <1>7, <2>1
  <2>2. ASSUME NEW o \in PointsWithin(query, 1), o[1] = p[1], o[2] <= p[2]
        PROVE  EarliestWithin(query, 1) <= EarliestWithin(query, n)
    <3>1. EarliestWithin(query, 1) <= o[2]
          BY <1>7, <2>2, EarliestIsLeast
    <3>2. o[2] \in Int
          BY <1>4, Served, PlacesOf
    <3> QED BY <1>5, <1>7, <2>2, <3>1, <3>2
  <2> QED BY <1>3, <2>1, <2>2 DEF Matched
<1>8. ASSUME NEW p \in PointsWithin(query, n), NEW e \in query.egress, p[1] = e[1],
             EarliestWithin(query, n) = p[2] + e[2]
      PROVE  EarliestWithin(query, 1) <= EarliestWithin(query, n)
  <2>0. e[2] \in Nat /\ p[2] \in Int
        BY <1>4, Served, PlacesOf
  <2>1. CASE Inf <= p[2]
        BY <1>4, <1>5, <1>8, <2>0, <2>1
  <2>2. ASSUME NEW o \in PointsWithin(query, 1), o[1] = p[1], o[2] <= p[2]
        PROVE  EarliestWithin(query, 1) <= EarliestWithin(query, n)
    <3>1. EarliestWithin(query, 1) <= o[2] + e[2]
          BY <1>8, <2>2, EarliestIsLeast
    <3>2. o[2] \in Int
          BY <1>4, Served, PlacesOf
    <3> QED BY <1>5, <1>8, <2>0, <2>2, <3>1, <3>2
  <2> QED BY <1>3, <2>1, <2>2 DEF Matched
<1> QED BY <1>6, <1>7, <1>8, EarliestIsReached

----------------------------------------------------------------------------
(* The first search explores all there is.                                  *)

First == served = 1 /\ Regular(tt) /\ Closed(tt) /\ ConnectorsApart

\* The first search finds no profiles.
Empty == /\ served = 0 => cache = {} /\ phase = "idle"
         /\ served = 1 /\ phase # "idle" => cache = {}

\* Point p is point o, or one walk from it.
WalkedTo(p, o) ==
    \/ p = o
    \/ \E s \in Stops : tt.walk[<<o[1], s>>] < Inf /\ p = <<s, o[2] + tt.walk[<<o[1], s>>]>>

\* Point r is one ride from point o.
RiddenTo(r, o) ==
    \E l \in query.allowed : \E t : \E i, j \in DOMAIN tt.path[l] :
        /\ Rideable(t, l, i, j, o[2])
        /\ o[1] = tt.path[l][i]
        /\ r = <<tt.path[l][j], Arr(tt, t, j)>>

\* Points that can be reached in so many rounds.
Tour(by) ==
    /\ by \in [0..Rounds -> SUBSET Places]
    /\ \A p \in by[0] : \/ WalkedTo(p, <<query.from, query.depart>>)
                        \/ \E e \in query.access : WalkedTo(p, <<e[1], query.depart + e[2]>>)
    /\ \A k \in 1..Rounds : \A p \in by[k] :
          \/ p \in by[k - 1]
          \/ \E o \in by[k - 1] : \E r \in Places : RiddenTo(r, o) /\ WalkedTo(p, r)

\* Nothing that can be reached makes an earlier arrival.
NoLater(time) ==
    /\ time <= Inf
    /\ \A by : Tour(by) =>
          \A p \in by[Rounds] : /\ p[1] = query.to => time <= p[2]
                                /\ \A e \in query.egress : e[1] = p[1] => time <= p[2] + e[2]

\* Stops whose walks, and whose connectors, are still to be taken.
Unwalked(s) == \/ phase = "seeds" /\ s \in todo
               \/ phase \in {"scan", "relax"} /\ s \in nextMarked
               \/ phase \in {"egress", "lookahead"} /\ after = "relax" /\ s \in nextMarked
WalksTaken == \A s, v \in Stops : ~Unwalked(s) => Settled(v, best[s] + tt.walk[<<s, v>>])

Unlinked(s) == \/ phase = "seeds" /\ s \in marked
               \/ phase = "egress" /\ s \in frontier
               \/ phase = "scan" /\ s \in nextMarked
LinksTaken == \A e \in query.egress : ~Unlinked(e[1]) => best[query.to] <= best[e[1]] + e[2]

\* The stops a stage works on are among those marked.
Fronts == /\ phase = "seeds" => todo \subseteq marked
          /\ phase = "egress" /\ after = "queue" => frontier \subseteq marked
          /\ phase = "egress" /\ after # "queue" => frontier \subseteq nextMarked
          /\ phase = "relax" \/ (phase \in {"egress", "lookahead"} /\ after = "relax")
                => frontier = nextMarked

Departed == /\ Settled(query.from, query.depart)
            /\ \A e \in query.access : Settled(e[1], query.depart + e[2])

\* The answer takes the bound of the destination.
Destined == IF InRound /\ query.to \in nextMarked THEN arr[round][query.to] = best[query.to]
            ELSE IF destRound = None THEN best[query.to] = Inf
            ELSE arr[destRound][query.to] = best[query.to]

\* The bounds b are as early as the points of P, or the destination is.
Covered(P, b) == \A p \in P : b[p[1]] <= p[2] \/ best[query.to] <= p[2]
Covers == \A by : Tour(by) => /\ Between /\ phase # "seeds" => Covered(by[round], best)
                              /\ InRound => Covered(by[round - 1], bestBefore)

Toured == WalksTaken /\ LinksTaken /\ Fronts /\ Departed /\ Destined /\ Covers

Best ==
    /\ Empty
    /\ First =>
        /\ Between \/ InRound => Toured
        /\ phase = "rebuild" => /\ destRound # None /\ arr[destRound][query.to] = best[query.to]
                                /\ NoLater(best[query.to])
        /\ phase = "idle" => NoLater(answer.arrival)

LEMMA TourKept ==
    ASSUME tt' = tt, query' = query, NEW by
    PROVE  Tour(by)' <=> Tour(by)
<1>1. \A p, o : WalkedTo(p, o)' <=> WalkedTo(p, o)
      BY DEF WalkedTo
<1>2. \A r, o : RiddenTo(r, o)' <=> RiddenTo(r, o)
      BY DEF RiddenTo, Rideable, Skipped, Dep, Arr
<1> QED BY <1>1, <1>2 DEF Tour

LEMMA ReachingTours ==
    ASSUME TypeOK, served > 0, NEW by, Reaching(by, 1)
    PROVE  Tour(by)
<1>1. /\ WellFormed(tt) /\ query.allowed \in SUBSET LinesOf(tt) /\ Rounds \in Nat
      /\ Origins(query) \in SUBSET Places
      BY Served, OriginsOf, Constants
<1>2. ASSUME NEW P, NEW p \in WalkedOnce(P) PROVE \E o \in P : WalkedTo(p, o)
  <2>1. p \in P \/ \E o \in P : \E s \in Stops :
                 tt.walk[<<o[1], s>>] < Inf /\ p = <<s, o[2] + tt.walk[<<o[1], s>>]>>
        BY WalkedOnceFrom
  <2> QED BY <2>1 DEF WalkedTo
<1>3. ASSUME NEW p \in by[0]
      PROVE  \/ WalkedTo(p, <<query.from, query.depart>>)
             \/ \E e \in query.access : WalkedTo(p, <<e[1], query.depart + e[2]>>)
  <2>1. p \in WalkedOnce(Origins(query))
        BY <1>1, WalkedAtOnce DEF Reaching
  <2>2. PICK o \in Origins(query) : WalkedTo(p, o)
        BY <1>2, <2>1
  <2>3. o = <<query.from, query.depart>> \/ \E e \in query.access : o = <<e[1], query.depart + e[2]>>
        BY DEF Origins
  <2> QED BY <2>2, <2>3
<1>4. ASSUME NEW k \in 1..Rounds, NEW p \in by[k], p \notin by[k - 1]
      PROVE  \E o \in by[k - 1] : \E r \in Places : RiddenTo(r, o) /\ WalkedTo(p, r)
  <2>1. k - 1 \in 0..Rounds
        BY <1>1
  <2>2. PICK P : P = by[k - 1]
        OBVIOUS
  <2>3. P \in SUBSET Places /\ Rode(query.allowed, P) \in SUBSET Places
        BY <1>1, <2>1, <2>2, RodeOf DEF Reaching
  <2>4. p \in WalkedOnce(Rode(query.allowed, P))
        BY <1>1, <1>4, <2>2, <2>3, WalkedAtOnce DEF Reaching
  <2>5. PICK r \in Rode(query.allowed, P) : WalkedTo(p, r)
        BY <1>2, <2>4
  <2>6. PICK l \in query.allowed : \E t \in tt.trips[l] \intersect tt.available : \E i, j \in DOMAIN tt.path[l] :
              /\ i < j
              /\ ~Skipped(tt, t, i) /\ ~Skipped(tt, t, j)
              /\ r = <<tt.path[l][j], Arr(tt, t, j)>>
              /\ \E o \in P : o[1] = tt.path[l][i] /\ o[2] <= Dep(tt, t, i)
        BY <1>1, RodeFrom
  <2>7. PICK t \in tt.trips[l] \intersect tt.available : \E i, j \in DOMAIN tt.path[l] :
              /\ i < j
              /\ ~Skipped(tt, t, i) /\ ~Skipped(tt, t, j)
              /\ r = <<tt.path[l][j], Arr(tt, t, j)>>
              /\ \E o \in P : o[1] = tt.path[l][i] /\ o[2] <= Dep(tt, t, i)
        BY <2>6
  <2>8. PICK i \in DOMAIN tt.path[l], j \in DOMAIN tt.path[l] :
              /\ i < j
              /\ ~Skipped(tt, t, i) /\ ~Skipped(tt, t, j)
              /\ r = <<tt.path[l][j], Arr(tt, t, j)>>
              /\ \E o \in P : o[1] = tt.path[l][i] /\ o[2] <= Dep(tt, t, i)
        BY <2>7
  <2>9. PICK o \in P : o[1] = tt.path[l][i] /\ o[2] <= Dep(tt, t, i)
        BY <2>8
  <2>10. RiddenTo(r, o)
         BY <2>8, <2>9 DEF RiddenTo, Rideable
  <2> QED BY <2>2, <2>3, <2>5, <2>10
<1> QED BY <1>3, <1>4 DEF Tour, Reaching

\* Nothing later than what can be reached is nothing later than the reference.
LEMMA NoLaterIsLeast ==
    ASSUME TypeOK, served > 0, NEW time \in Int, NoLater(time)
    PROVE  time <= EarliestWithin(query, 1)
<1>1. PICK by : Reaching(by, 1) /\ PointsWithin(query, 1) = by[Rounds]
      BY PointsSteps DEF Reaching
<1>2. Tour(by)
      BY <1>1, ReachingTours
<1>3. \A p \in PointsWithin(query, 1) : /\ p[1] = query.to => time <= p[2]
                                        /\ \A e \in query.egress : e[1] = p[1] => time <= p[2] + e[2]
      BY <1>1, <1>2 DEF NoLater
<1>4. time <= Inf
      BY DEF NoLater
<1> QED BY <1>3, <1>4, EarliestIsReached

LEMMA NoLaterKept ==
    ASSUME tt' = tt, query' = query, NEW time, NoLater(time)
    PROVE  NoLater(time)'
<1>1. \A by : Tour(by)' => Tour(by)
      BY TourKept
<1> QED BY <1>1 DEF NoLater

----------------------------------------------------------------------------
(* What has been taken settles what can be reached.                         *)

LEMMA BestKnown ==
    ASSUME Typed, served > 0, Labelled
    PROVE  /\ query.to \in Stops /\ query.from \in Stops /\ query.depart \in Nat /\ Inf \in Nat
           /\ \A s \in Stops : best[s] \in Nat /\ best[s] <= Inf
           /\ \A k \in 0..Rounds, s \in Stops : arr[k][s] \in Nat /\ arr[k][s] <= Inf /\ best[s] <= arr[k][s]
           /\ \A s, v \in Stops : tt.walk[<<s, v>>] \in Nat
           /\ query.egress \in SUBSET (Stops \X Nat) /\ query.access \in SUBSET (Stops \X Nat)
           /\ \A e \in query.egress : e[1] \in Stops /\ e[2] \in Nat
           /\ \A e \in query.access : e[1] \in Stops /\ e[2] \in Nat
<1>1. /\ WellFormed(tt) /\ query.from \in Stops /\ query.to \in Stops /\ query.depart \in Nat
      /\ query.egress \in SUBSET (Stops \X Nat) /\ query.access \in SUBSET (Stops \X Nat)
      BY Served DEF Typed
<1>2. ASSUME NEW x \in Times, query.depart <= x PROVE x \in Nat /\ x <= Inf
  <2>1. x \in Int /\ x <= Inf
        BY Constants
  <2> QED BY <1>1, <1>2, <2>1
<1>3. \A s \in Stops : best[s] \in Times /\ query.depart <= best[s]
      BY DEF Typed, TypeOK, Labelled, NotBefore
<1>4. \A k \in 0..Rounds, s \in Stops : arr[k][s] \in Times /\ query.depart <= arr[k][s] /\ best[s] <= arr[k][s]
      BY DEF Typed, TypeOK, Labelled, NotBefore, Least
<1> QED BY <1>1, <1>2, <1>3, <1>4, PlacesOf, Constants

LEMMA WalkSettles ==
    ASSUME Typed, served > 0, Labelled, NEW o, o[1] \in Stops, o[2] \in Int, Settled(o[1], o[2]),
           \A v \in Stops : Settled(v, best[o[1]] + tt.walk[<<o[1], v>>]),
           NEW p, WalkedTo(p, o)
    PROVE  Settled(p[1], p[2])
<1>1. CASE p = o
      BY <1>1
<1>2. ASSUME NEW s \in Stops, p = <<s, o[2] + tt.walk[<<o[1], s>>]>> PROVE Settled(p[1], p[2])
  <2>1. /\ best[s] \in Nat /\ best[o[1]] \in Nat /\ best[query.to] \in Nat /\ tt.walk[<<o[1], s>>] \in Nat
        BY BestKnown
  <2>2. p[1] = s /\ p[2] = o[2] + tt.walk[<<o[1], s>>]
        BY <1>2
  <2>3. Settled(s, best[o[1]] + tt.walk[<<o[1], s>>])
        OBVIOUS
  <2> QED BY <2>1, <2>2, <2>3 DEF Settled
<1> QED BY <1>1, <1>2 DEF WalkedTo

LEMMA RideSettles ==
    ASSUME Typed, served > 0, Labelled, Forward(tt), NEW b, \A s \in Stops : b[s] \in Int,
           \A l \in query.allowed : \A i \in DOMAIN tt.path[l] : RiddenAt(l, i, b[tt.path[l][i]]),
           NEW o \in Places, b[o[1]] <= o[2] \/ best[query.to] <= o[2], NEW r, RiddenTo(r, o)
    PROVE  r[1] \in Stops /\ r[2] \in Int /\ Settled(r[1], r[2])
<1>1. PICK l \in query.allowed : \E t : \E i, j \in DOMAIN tt.path[l] :
        /\ Rideable(t, l, i, j, o[2])
        /\ o[1] = tt.path[l][i]
        /\ r = <<tt.path[l][j], Arr(tt, t, j)>>
      BY DEF RiddenTo
<1>2. PICK t, i, j :
        /\ i \in DOMAIN tt.path[l] /\ j \in DOMAIN tt.path[l]
        /\ Rideable(t, l, i, j, o[2])
        /\ o[1] = tt.path[l][i]
        /\ r = <<tt.path[l][j], Arr(tt, t, j)>>
      BY <1>1
<1>3. TypeOK /\ WellFormed(tt) /\ l \in LinesOf(tt) /\ o[2] \in Int /\ o[1] \in Stops
      BY Served, PlacesOf DEF Typed
<1>4. /\ tt.path[l][j] \in Stops /\ Dep(tt, t, i) \in Int /\ Arr(tt, t, j) \in Int
      /\ o[2] <= Arr(tt, t, j)
      BY <1>2, <1>3, RideTimes
<1>5. r[1] = tt.path[l][j] /\ r[2] = Arr(tt, t, j)
      BY <1>2
<1>6. CASE b[o[1]] <= o[2]
  <2>1. Rideable(t, l, i, j, b[tt.path[l][i]])
        BY <1>2, <1>3, <1>4, <1>6 DEF Rideable
  <2> QED BY <1>2, <1>4, <1>5, <2>1 DEF RiddenAt
<1>7. CASE best[query.to] <= o[2]
  <2>1. best[query.to] \in Nat
        BY BestKnown
  <2> QED BY <1>3, <1>4, <1>5, <1>7, <2>1 DEF Settled
<1> QED BY <1>6, <1>7

\* One round more is covered when its rides and its walks have been taken.
LEMMA CoveredRound ==
    ASSUME Typed, served > 0, Labelled, Forward(tt), NEW by, Tour(by), NEW k \in 1..Rounds,
           NEW b, \A s \in Stops : b[s] \in Int /\ best[s] <= b[s],
           Covered(by[k - 1], b),
           \A l \in query.allowed : \A i \in DOMAIN tt.path[l] : RiddenAt(l, i, b[tt.path[l][i]]),
           \A s, v \in Stops : Settled(v, best[s] + tt.walk[<<s, v>>])
    PROVE  Covered(by[k], best)
<1>1. WellFormed(tt) /\ k - 1 \in 0..Rounds /\ by[k - 1] \in SUBSET Places /\ by[k] \in SUBSET Places
      BY Served, Constants DEF Typed, Tour
<1> SUFFICES ASSUME NEW p \in by[k] PROVE Settled(p[1], p[2])
    BY DEF Covered, Settled
<1>2. CASE p \in by[k - 1]
  <2>1. b[p[1]] <= p[2] \/ best[query.to] <= p[2]
        BY <1>2 DEF Covered
  <2>2. p[1] \in Stops /\ p[2] \in Int /\ best[p[1]] \in Nat
        BY <1>1, PlacesOf, BestKnown
  <2> QED BY <2>1, <2>2 DEF Settled
<1>3. ASSUME NEW o \in by[k - 1], NEW r \in Places, RiddenTo(r, o), WalkedTo(p, r)
      PROVE  Settled(p[1], p[2])
  <2>1. b[o[1]] <= o[2] \/ best[query.to] <= o[2]
        BY DEF Covered
  <2>2. r[1] \in Stops /\ r[2] \in Int /\ Settled(r[1], r[2])
        BY <1>1, <1>3, <2>1, RideSettles
  <2>3. \A v \in Stops : Settled(v, best[r[1]] + tt.walk[<<r[1], v>>])
        BY <2>2
  <2> QED BY <1>3, <2>2, <2>3, WalkSettles
<1>4. p \in by[k - 1] \/ \E o \in by[k - 1] : \E r \in Places : RiddenTo(r, o) /\ WalkedTo(p, r)
      BY DEF Tour
<1> QED BY <1>2, <1>3, <1>4

----------------------------------------------------------------------------
(* What keeps as the bounds fall.                                           *)

\* A marked stop is reached, in its round, when the bound says.
LEMMA MarkedCurrent ==
    ASSUME Typed, served > 0, Labelled, Known, NEW s \in Stops \ {query.to},
           (Between /\ s \in marked) \/ (InRound /\ s \in nextMarked)
    PROVE  arr[round][s] = best[s]
<1>1. par[round][s] # NoParent
      BY DEF Known, MarkedReached
<1>2. round \in 0..Rounds
      BY DEF Typed, TypeOK
<1>3. arr[round][s] <= best[s]
      BY <1>1 DEF Labelled, Current
<1>4. arr[round][s] \in Nat /\ best[s] \in Nat /\ best[s] <= arr[round][s]
      BY <1>2, BestKnown
<1> QED BY <1>3, <1>4

LEMMA FallenKnown ==
    ASSUME Typed, served > 0, Falls
    PROVE  \A s \in Stops : best'[s] \in Int /\ best[s] \in Int /\ best'[s] <= best[s]
<1>1. \A s \in Stops : best'[s] \in Times /\ best[s] \in Times /\ best'[s] <= best[s]
      BY DEF Typed, TypeOK, Falls
<1> QED BY <1>1, Constants, Zenon

LEMMA WalksStay ==
    ASSUME Typed, served > 0, Labelled, WalksTaken, Falls,
           \A x \in Stops \ {query.to} : ~Unwalked(x)' =>
                \/ ~Unwalked(x) /\ best'[x] = best[x]
                \/ \A v \in Stops : \/ best'[v] <= best'[x] + tt.walk[<<x, v>>]
                                    \/ best'[query.to] <= best'[x] + tt.walk[<<x, v>>]
    PROVE  WalksTaken'
<1>1. query' = query /\ tt' = tt /\ query.to \in Stops
      BY BestKnown DEF Falls
<1> SUFFICES ASSUME NEW x \in Stops, NEW v \in Stops, ~Unwalked(x)'
             PROVE  \/ best'[v] <= best'[x] + tt.walk[<<x, v>>]
                    \/ best'[query.to] <= best'[x] + tt.walk[<<x, v>>]
    BY <1>1 DEF WalksTaken, Settled
<1>2. best[x] \in Nat /\ best'[x] \in Int /\ tt.walk[<<x, v>>] \in Nat
      BY BestKnown, FallenKnown
<1>3. CASE x = query.to
      BY <1>2, <1>3
<1>4. CASE x # query.to /\ ~Unwalked(x) /\ best'[x] = best[x]
  <2>1. PICK time : time = best[x] + tt.walk[<<x, v>>]
        OBVIOUS
  <2>2. Settled(v, time) /\ time \in Int
        BY <1>2, <1>4, <2>1 DEF WalksTaken
  <2>3. Settled(v, time)'
        BY <2>2, SettledKept DEF Typed
  <2> QED BY <1>1, <1>4, <2>1, <2>3 DEF Settled
<1> QED BY <1>3, <1>4

LEMMA LinksStay ==
    ASSUME Typed, served > 0, Labelled, LinksTaken, Falls,
           \A e \in query.egress : e[1] # query.to /\ ~Unlinked(e[1])' =>
                \/ ~Unlinked(e[1]) /\ best'[e[1]] = best[e[1]]
                \/ best'[query.to] <= best'[e[1]] + e[2]
    PROVE  LinksTaken'
<1>1. query' = query /\ query.to \in Stops
      BY BestKnown DEF Falls
<1> SUFFICES ASSUME NEW e \in query.egress, ~Unlinked(e[1])' PROVE best'[query.to] <= best'[e[1]] + e[2]
    BY <1>1 DEF LinksTaken
<1>2. /\ e[1] \in Stops /\ e[2] \in Nat /\ best'[e[1]] \in Int /\ best'[query.to] \in Int
      /\ best[query.to] \in Int /\ best[e[1]] \in Int /\ best'[query.to] <= best[query.to]
      BY <1>1, BestKnown, FallenKnown
<1>3. CASE e[1] = query.to
      BY <1>2, <1>3
<1>4. CASE ~Unlinked(e[1]) /\ best'[e[1]] = best[e[1]]
      BY <1>2, <1>4 DEF LinksTaken
<1> QED BY <1>3, <1>4

LEMMA DepartedStays ==
    ASSUME Typed, served > 0, Labelled, Departed, Falls
    PROVE  Departed'
<1>1. query' = query /\ TypeOK
      BY DEF Falls, Typed
<1>2. ASSUME NEW s \in Stops, NEW time \in Int, Settled(s, time)
      PROVE  best'[s] <= time \/ best'[query.to] <= time
      BY <1>1, <1>2, SettledKept DEF Settled
<1>3. /\ query.from \in Stops /\ query.depart \in Int
      /\ \A e \in query.access : e[1] \in Stops /\ query.depart + e[2] \in Int
      BY BestKnown
<1> QED BY <1>1, <1>2, <1>3 DEF Departed, Settled

LEMMA CoversStay ==
    ASSUME Typed, served > 0, Labelled, Covers, Falls, UNCHANGED <<round, bestBefore>>,
           Between' /\ phase' # "seeds" => Between /\ phase # "seeds",
           InRound' => InRound /\ round > 0
    PROVE  Covers'
<1> SUFFICES ASSUME NEW by, Tour(by)'
             PROVE  /\ Between' /\ phase' # "seeds" => Covered(by[round], best)'
                    /\ InRound' => Covered(by[round - 1], bestBefore)'
    BY DEF Covers
<1>1. Tour(by) /\ query' = query /\ TypeOK /\ round \in 0..Rounds /\ query.to \in Stops
      BY TourKept, BestKnown DEF Falls, Typed, TypeOK
<1>2. CASE Between' /\ phase' # "seeds"
  <2>1. Covered(by[round], best) /\ by[round] \in SUBSET Places /\ ~InRound'
        BY <1>1, <1>2 DEF Covers, Tour, Between, InRound
  <2>2. ASSUME NEW p \in by[round] PROVE best'[p[1]] <= p[2] \/ best'[query.to] <= p[2]
    <3>1. p[1] \in Stops /\ p[2] \in Int
          BY <1>1, <2>1, Served, PlacesOf
    <3>2. best[p[1]] <= p[2] \/ best[query.to] <= p[2]
          BY <2>1 DEF Covered
    <3> QED BY <1>1, <3>1, <3>2, FallenKnown
  <2> QED BY <1>1, <2>1, <2>2 DEF Covered
<1>3. CASE InRound'
  <2>1. /\ Covered(by[round - 1], bestBefore) /\ by[round - 1] \in SUBSET Places
        /\ ~(Between' /\ phase' # "seeds")
    <3>1. InRound /\ round > 0 /\ round - 1 \in 0..Rounds
          BY <1>1, <1>3, Constants
    <3>2. Covered(by[round - 1], bestBefore)
          BY <1>1, <3>1 DEF Covers
    <3>3. by[round - 1] \in SUBSET Places
          BY <1>1, <3>1 DEF Tour
    <3>4. ~(Between' /\ phase' # "seeds")
          BY <1>3 DEF Between, InRound
    <3> QED BY <3>2, <3>3, <3>4
  <2>2. ASSUME NEW p \in by[round - 1] PROVE bestBefore[p[1]] <= p[2] \/ best'[query.to] <= p[2]
    <3>1. p[1] \in Stops /\ p[2] \in Int
          BY <1>1, <2>1, Served, PlacesOf
    <3>2. bestBefore[p[1]] <= p[2] \/ best[query.to] <= p[2]
          BY <2>1 DEF Covered
    <3> QED BY <1>1, <3>1, <3>2, FallenKnown
  <2> QED BY <1>1, <2>1, <2>2 DEF Covered
<1> QED BY <1>2, <1>3

----------------------------------------------------------------------------
(* Walks, recorded.                                                         *)

LEMMA WalksLeast ==
    ASSUME WellFormed(tt), NEW from \in SUBSET Stops, NEW a \in [Stops -> Times], NEW s \in Stops,
           NEW f \in from, tt.walk[<<f, s>>] < Inf
    PROVE  WalkTimes(from, a)[s] <= a[f] + tt.walk[<<f, s>>]
<1> DEFINE near == {g \in from : tt.walk[<<g, s>>] < Inf}
           times == {a[g] + tt.walk[<<g, s>>] : g \in near}
<1>1. \A g \in from : tt.walk[<<g, s>>] \in Nat /\ a[g] \in Int /\ -Inf <= a[g]
  <2>1. \A g \in from : a[g] \in Times
        OBVIOUS
  <2>2. \A g \in from : a[g] \in Int /\ -Inf <= a[g]
        BY <2>1, Constants, Zenon
  <2>3. \A g \in from : tt.walk[<<g, s>>] \in Nat
        BY PlacesOf
  <2> QED BY <2>2, <2>3
<1>2. times \in SUBSET Int /\ \A x \in times : -Inf <= x
  <2>1. ASSUME NEW g \in near
        PROVE  a[g] + tt.walk[<<g, s>>] \in Int /\ -Inf <= a[g] + tt.walk[<<g, s>>]
    <3>1. a[g] \in Int /\ -Inf <= a[g] /\ tt.walk[<<g, s>>] \in Nat /\ Inf \in Int
          BY <1>1, Constants
    <3> QED BY <3>1
  <2> QED BY <2>1
<1>3. WalkTimes(from, a)[s] = Earliest(times)
      BY DEF WalkTimes
<1>4. a[f] + tt.walk[<<f, s>>] \in times
      OBVIOUS
<1> HIDE DEF times, near
<1>5. PICK x : x = a[f] + tt.walk[<<f, s>>]
      OBVIOUS
<1>6. Earliest(times) <= x
      BY <1>2, <1>4, <1>5, EarliestOf
<1> QED BY <1>3, <1>5, <1>6

\* Walking from stops settles their walks, and those of the stops it improves.
LEMMA WalksSettle ==
    ASSUME Typed, served > 0, Labelled, Closed(tt), UNCHANGED <<tt, query, round, bestBefore>>,
           NEW from \in SUBSET Stops, NEW I \in SUBSET Stops,
           \A s \in Stops : s \in I <=> WalkTimes(from, arr[round])[s] < best[s],
           Record(round, WalkTimes(from, arr[round]), WalkParents(from, arr[round]), I)
    PROVE  /\ Falls
           /\ \A s \in Stops \ I : /\ best'[s] = best[s]
                                   /\ \A k \in 0..Rounds : arr'[k][s] = arr[k][s]
           /\ \A f \in from, v \in Stops : best'[v] <= arr[round][f] + tt.walk[<<f, v>>]
           /\ \A s \in I : /\ arr'[round][s] = best'[s]
                           /\ \E f \in Stops \ {s} : tt.walk[<<f, s>>] < Inf
                           /\ \A v \in Stops : best'[v] <= best'[s] + tt.walk[<<s, v>>]
<1> DEFINE a == arr[round]
           time == WalkTimes(from, a)
           parent == WalkParents(from, a)
<1>1. /\ WellFormed(tt) /\ round \in 0..Rounds /\ a \in [Stops -> Times]
      BY Served DEF Typed, TypeOK
<1>2. /\ \A s \in Stops : best[s] \in Nat /\ best[s] <= Inf /\ a[s] \in Nat /\ best[s] <= a[s]
      /\ \A s, v \in Stops : tt.walk[<<s, v>>] \in Nat
      /\ Inf \in Nat
      BY <1>1, BestKnown
<1>3. \A s \in Stops : time[s] \in Int /\ time[s] \in Times
  <2>1. \A s \in Stops : time[s] \in Times
        BY <1>1, WalksKnown
  <2> HIDE DEF time
  <2> QED BY <2>1, Constants, Zenon
<1>4. Recorded(round, time, parent, I)
  <2>1. \A s \in I : WalkTimes(from, arr[round])[s] < best[s]
        OBVIOUS
  <2> QED BY <2>1, WalksRecord
<1>5. \A f \in from, v \in Stops : tt.walk[<<f, v>>] < Inf => time[v] <= a[f] + tt.walk[<<f, v>>]
      BY <1>1, WalksLeast
<1>6. \A s \in Stops : time[s] < Inf => \E f \in from : time[s] = a[f] + tt.walk[<<f, s>>] /\ tt.walk[<<f, s>>] < Inf
      BY <1>1, WalksKnown
<1>7. \A s \in Stops : s \in I <=> time[s] < best[s]
      OBVIOUS
<1> HIDE DEF time, parent, a
<1>8. /\ Falls
      /\ \A s \in Stops \ I : best'[s] = best[s]
      /\ \A j \in 0..Rounds, s \in Stops : s \notin I => arr'[j][s] = arr[j][s]
      /\ \A s \in I : best'[s] = time[s] /\ arr'[round][s] = time[s]
      BY <1>4, RecordedFalls
<1>9. \A s \in Stops : best'[s] \in Int /\ best'[s] <= time[s] /\ best'[s] <= best[s]
  <2> SUFFICES ASSUME NEW s \in Stops PROVE best'[s] \in Int /\ best'[s] <= time[s] /\ best'[s] <= best[s]
      OBVIOUS
  <2>1. CASE s \in I
        BY <1>2, <1>3, <1>7, <1>8, <2>1
  <2>2. CASE s \notin I
        BY <1>2, <1>3, <1>7, <1>8, <2>2
  <2> QED BY <2>1, <2>2
<1>10. ASSUME NEW f \in from, NEW v \in Stops PROVE best'[v] <= a[f] + tt.walk[<<f, v>>]
  <2>1. best'[v] \in Int /\ best'[v] <= time[v] /\ best'[v] <= best[v] /\ best[v] <= Inf
        BY <1>2, <1>9
  <2>2. a[f] \in Nat /\ tt.walk[<<f, v>>] \in Nat /\ time[v] \in Int /\ best[v] \in Nat /\ Inf \in Nat
        BY <1>2, <1>3
  <2>3. CASE tt.walk[<<f, v>>] < Inf
    <3>1. time[v] <= a[f] + tt.walk[<<f, v>>]
          BY <1>5, <2>3
    <3> QED BY <2>1, <2>2, <3>1
  <2>4. CASE ~(tt.walk[<<f, v>>] < Inf)
        BY <2>1, <2>2, <2>4
  <2> QED BY <2>3, <2>4
<1>11. ASSUME NEW s \in I
       PROVE  /\ \E f \in Stops \ {s} : tt.walk[<<f, s>>] < Inf
              /\ \A v \in Stops : best'[v] <= best'[s] + tt.walk[<<s, v>>]
  <2>1. time[s] < best[s] /\ time[s] < Inf /\ best'[s] = time[s]
        BY <1>2, <1>3, <1>7, <1>8
  <2>2. PICK f \in from : time[s] = a[f] + tt.walk[<<f, s>>] /\ tt.walk[<<f, s>>] < Inf
        BY <1>6, <2>1
  <2>3. a[f] \in Nat /\ tt.walk[<<f, s>>] \in Nat /\ best[f] <= a[f] /\ best[f] \in Nat
        BY <1>2
  <2>4. f # s
        BY <1>2, <2>1, <2>2, <2>3
  <2>5. ASSUME NEW v \in Stops PROVE best'[v] <= best'[s] + tt.walk[<<s, v>>]
    <3>1. /\ tt.walk[<<s, v>>] \in Nat /\ tt.walk[<<f, v>>] \in Nat
          /\ best'[v] \in Int /\ best'[v] <= best[v] /\ best[v] \in Nat
          BY <1>2, <1>9
    <3>2. CASE f = v
          BY <2>1, <2>2, <2>3, <3>1, <3>2
    <3>3. CASE f # v
      <4>1. tt.walk[<<f, v>>] <= tt.walk[<<f, s>>] + tt.walk[<<s, v>>]
            BY <3>3 DEF Closed
      <4>2. best'[v] <= a[f] + tt.walk[<<f, v>>]
            BY <1>10
      <4> QED BY <2>1, <2>2, <2>3, <3>1, <4>1, <4>2
    <3> QED BY <3>2, <3>3
  <2> QED BY <2>2, <2>4, <2>5
<1> QED BY <1>8, <1>10, <1>11 DEF a

----------------------------------------------------------------------------
(* The steps of the first search.                                           *)

LEMMA DestinedSteady ==
    ASSUME Typed, Destined, query' = query, destRound' = destRound, round' = round,
           best'[query.to] = best[query.to],
           \A k \in 0..Rounds : arr'[k][query.to] = arr[k][query.to],
           (InRound /\ query.to \in nextMarked)' <=> InRound /\ query.to \in nextMarked
    PROVE  Destined'
<1>1. round \in 0..Rounds /\ (destRound # None => destRound \in 0..Rounds)
      BY Constants DEF Typed, TypeOK
<1> QED BY <1>1 DEF Destined

LEMMA SeedWalks ==
    ASSUME Typed, Closed(tt), Labelled, Known, Toured, WalkFromSeed
    PROVE  \E s \in todo : \E I \in SUBSET Stops :
              /\ todo' = todo \ {s} /\ marked' = marked \union I
              /\ destRound' = IF query.to \in I THEN 0 ELSE destRound
              /\ Falls
              /\ \A u \in Stops \ I : best'[u] = best[u] /\ \A k \in 0..Rounds : arr'[k][u] = arr[k][u]
              /\ \A u \in I : /\ arr'[0][u] = best'[u]
                              /\ \A v \in Stops : best'[v] <= best'[u] + tt.walk[<<u, v>>]
              /\ s # query.to => \A v \in Stops :
                    \/ best'[v] <= best'[s] + tt.walk[<<s, v>>]
                    \/ best'[query.to] <= best'[s] + tt.walk[<<s, v>>]
<1>1. PICK s \in todo :
        /\ todo' = todo \ {s}
        /\ LET time == WalkTimes({s}, arr[0])
               improved == {u \in Stops : arr[0][s] < best[query.to] /\ time[u] < best[u]}
           IN  /\ Record(0, time, WalkParents({s}, arr[0]), improved)
               /\ marked' = marked \union improved
               /\ destRound' = IF query.to \in improved THEN 0 ELSE destRound
      BY DEF WalkFromSeed
<1>2. /\ phase = "seeds" /\ UNCHANGED <<tt, query, round, bestBefore>> /\ served > 0 /\ round = 0
      /\ s \in Stops /\ 0 \in 0..Rounds /\ s \in marked
  <2>1. phase = "seeds" /\ UNCHANGED <<tt, query, round, bestBefore>>
        BY DEF WalkFromSeed
  <2>2. TypeOK
        BY DEF Typed
  <2>3. served > 0 /\ round = 0 /\ s \in Stops /\ round \in 0..Rounds
        BY <2>1, <2>2 DEF TypeOK
  <2>4. s \in marked
        BY <2>1 DEF Toured, Fronts
  <2> QED BY <2>1, <2>3, <2>4
<1>3. PICK I : I = {u \in Stops : arr[0][s] < best[query.to] /\ WalkTimes({s}, arr[0])[u] < best[u]}
      OBVIOUS
<1>4. /\ I \in SUBSET Stops /\ marked' = marked \union I
      /\ destRound' = IF query.to \in I THEN 0 ELSE destRound
      /\ Record(round, WalkTimes({s}, arr[round]), WalkParents({s}, arr[round]), I)
      BY <1>1, <1>2, <1>3
<1>5. /\ \A v \in Stops : best[v] \in Nat /\ arr[0][v] \in Nat /\ best[v] <= arr[0][v] /\ tt.walk[<<s, v>>] \in Nat
      /\ query.to \in Stops
      BY <1>2, BestKnown
<1>6. s # query.to => arr[0][s] = best[s]
  <2>1. Between
        BY <1>2 DEF Between
  <2>2. s # query.to => arr[round][s] = best[s]
        BY <1>2, <2>1, MarkedCurrent
  <2> QED BY <1>2, <2>2
<1>7. /\ Falls
      /\ \A u \in Stops \ I : best'[u] = best[u] /\ \A k \in 0..Rounds : arr'[k][u] = arr[k][u]
      /\ \A u \in I : /\ arr'[0][u] = best'[u]
                      /\ \A v \in Stops : best'[v] <= best'[u] + tt.walk[<<u, v>>]
      /\ s # query.to => \A v \in Stops :
                    \/ best'[v] <= best'[s] + tt.walk[<<s, v>>]
                    \/ best'[query.to] <= best'[s] + tt.walk[<<s, v>>]
  <2>1. CASE arr[0][s] < best[query.to]
    <3>1. \A u \in Stops : u \in I <=> WalkTimes({s}, arr[round])[u] < best[u]
          BY <1>2, <1>3, <2>1
    <3>2. /\ Falls
          /\ \A u \in Stops \ I : best'[u] = best[u] /\ \A k \in 0..Rounds : arr'[k][u] = arr[k][u]
          /\ \A f \in {s}, v \in Stops : best'[v] <= arr[round][f] + tt.walk[<<f, v>>]
          /\ \A u \in I : /\ arr'[round][u] = best'[u]
                          /\ \A v \in Stops : best'[v] <= best'[u] + tt.walk[<<u, v>>]
      <4>1. PICK from : from = {s}
            OBVIOUS
      <4>2. from \in SUBSET Stops
            BY <1>2, <4>1
      <4>3. /\ Falls
            /\ \A u \in Stops \ I : best'[u] = best[u] /\ \A k \in 0..Rounds : arr'[k][u] = arr[k][u]
            /\ \A f \in from, v \in Stops : best'[v] <= arr[round][f] + tt.walk[<<f, v>>]
            /\ \A u \in I : /\ arr'[round][u] = best'[u]
                            /\ \A v \in Stops : best'[v] <= best'[u] + tt.walk[<<u, v>>]
        <5>1. /\ \A u \in Stops : u \in I <=> WalkTimes(from, arr[round])[u] < best[u]
              /\ Record(round, WalkTimes(from, arr[round]), WalkParents(from, arr[round]), I)
              BY <1>4, <3>1, <4>1
        <5> QED BY <1>2, <1>4, <4>2, <5>1, WalksSettle
      <4> QED BY <4>1, <4>3
    <3>3. ASSUME s # query.to, NEW v \in Stops PROVE best'[v] <= best'[s] + tt.walk[<<s, v>>]
      <4>1. CASE s \in I
            BY <3>2, <4>1
      <4>2. CASE s \notin I
        <5>1. best'[s] = arr[round][s]
              BY <1>2, <1>6, <3>2, <3>3, <4>2
        <5>2. best'[v] <= arr[round][s] + tt.walk[<<s, v>>]
              BY <3>2
        <5> QED BY <5>1, <5>2
      <4> QED BY <4>1, <4>2
    <3> QED BY <1>2, <3>2, <3>3
  <2>2. CASE ~(arr[0][s] < best[query.to])
    <3>1. I = {}
          BY <1>3, <2>2
    <3>2. Recorded(round, WalkTimes({s}, arr[round]), WalkParents({s}, arr[round]), I)
      <4>1. \A u \in I : WalkTimes({s}, arr[round])[u] < best[u]
            BY <3>1
      <4>2. {s} \in SUBSET Stops
            BY <1>2
      <4> QED BY <1>2, <1>4, <4>1, <4>2, WalksRecord
    <3>3. /\ Falls /\ \A u \in Stops \ I : best'[u] = best[u]
          /\ \A k \in 0..Rounds, u \in Stops : u \notin I => arr'[k][u] = arr[k][u]
          BY <1>2, <3>2, RecordedFalls
    <3>4. ASSUME s # query.to, NEW v \in Stops PROVE best'[query.to] <= best'[s] + tt.walk[<<s, v>>]
      <4>1. best'[query.to] = best[query.to] /\ best'[s] = best[s]
            BY <1>2, <1>5, <3>1, <3>3
      <4>2. /\ best[query.to] \in Nat /\ best[s] \in Nat /\ arr[0][s] = best[s]
            /\ tt.walk[<<s, v>>] \in Nat
            BY <1>2, <1>5, <1>6, <3>4
      <4> QED BY <2>2, <4>1, <4>2
    <3> QED BY <3>1, <3>3, <3>4
  <2> QED BY <2>1, <2>2
<1> QED BY <1>1, <1>4, <1>7

LEMMA ToursSeeds ==
    ASSUME Typed, First, Labelled, Known, Toured, WalkFromSeed
    PROVE  Toured'
<1>1. PICK s \in todo : \E I \in SUBSET Stops :
              /\ todo' = todo \ {s} /\ marked' = marked \union I
              /\ destRound' = IF query.to \in I THEN 0 ELSE destRound
              /\ Falls
              /\ \A u \in Stops \ I : best'[u] = best[u] /\ \A k \in 0..Rounds : arr'[k][u] = arr[k][u]
              /\ \A u \in I : /\ arr'[0][u] = best'[u]
                              /\ \A v \in Stops : best'[v] <= best'[u] + tt.walk[<<u, v>>]
              /\ s # query.to => \A v \in Stops :
                    \/ best'[v] <= best'[s] + tt.walk[<<s, v>>]
                    \/ best'[query.to] <= best'[s] + tt.walk[<<s, v>>]
      BY SeedWalks DEF First
<1>2. PICK I \in SUBSET Stops :
              /\ todo' = todo \ {s} /\ marked' = marked \union I
              /\ destRound' = IF query.to \in I THEN 0 ELSE destRound
              /\ Falls
              /\ \A u \in Stops \ I : best'[u] = best[u] /\ \A k \in 0..Rounds : arr'[k][u] = arr[k][u]
              /\ \A u \in I : /\ arr'[0][u] = best'[u]
                              /\ \A v \in Stops : best'[v] <= best'[u] + tt.walk[<<u, v>>]
              /\ s # query.to => \A v \in Stops :
                    \/ best'[v] <= best'[s] + tt.walk[<<s, v>>]
                    \/ best'[query.to] <= best'[s] + tt.walk[<<s, v>>]
      BY <1>1
<1>3. /\ phase = "seeds" /\ phase' = "seeds" /\ UNCHANGED <<tt, query, round, bestBefore, nextMarked, after>>
      /\ served > 0 /\ todo \subseteq marked /\ query.to \in Stops
  <2>1. phase = "seeds" /\ phase' = "seeds" /\ UNCHANGED <<tt, query, round, bestBefore, nextMarked, after>>
        BY DEF WalkFromSeed
  <2> QED BY <2>1, BestKnown DEF First, Toured, Fronts
<1>4. ~InRound /\ ~InRound'
      BY <1>3 DEF InRound
<1>5. WalksTaken'
  <2>1. ASSUME NEW x \in Stops \ {query.to}, ~Unwalked(x)'
        PROVE  \/ ~Unwalked(x) /\ best'[x] = best[x]
               \/ \A v \in Stops : \/ best'[v] <= best'[x] + tt.walk[<<x, v>>]
                                   \/ best'[query.to] <= best'[x] + tt.walk[<<x, v>>]
    <3>1. x \notin todo \/ x = s
          BY <1>2, <1>3, <2>1 DEF Unwalked
    <3>2. CASE x \in I \/ x = s
          BY <1>2, <2>1, <3>2
    <3>3. CASE x \notin I /\ x \notin todo
          BY <1>2, <1>3, <3>3 DEF Unwalked
    <3> QED BY <3>1, <3>2, <3>3
  <2> QED BY <1>2, <1>3, <2>1, WalksStay DEF Toured
<1>6. LinksTaken'
  <2>1. ASSUME NEW e \in query.egress, ~Unlinked(e[1])'
        PROVE  ~Unlinked(e[1]) /\ best'[e[1]] = best[e[1]]
    <3>1. e[1] \notin marked /\ e[1] \notin I
          BY <1>2, <1>3, <2>1 DEF Unlinked
    <3>2. e[1] \in Stops
          BY <1>3, BestKnown
    <3> QED BY <1>2, <1>3, <3>1, <3>2 DEF Unlinked
  <2> QED BY <1>2, <1>3, <2>1, LinksStay DEF Toured
<1>7. Fronts'
      BY <1>2, <1>3 DEF Fronts
<1>8. Departed'
      BY <1>2, <1>3, DepartedStays DEF Toured
<1>9. Destined'
  <2>1. CASE query.to \in I
    <3>1. destRound' = 0 /\ 0 # None /\ arr'[0][query.to] = best'[query.to]
          BY <1>2, <2>1, Constants
    <3> QED BY <1>3, <1>4, <3>1 DEF Destined
  <2>2. CASE query.to \notin I
        BY <1>2, <1>3, <1>4, <2>2, DestinedSteady DEF Toured
  <2> QED BY <2>1, <2>2
<1>10. Covers'
       BY <1>3, <1>4 DEF Covers
<1> QED BY <1>5, <1>6, <1>7, <1>8, <1>9, <1>10 DEF Toured

\* When every walk of the beginning is taken, no ride is missing from it.
LEMMA ToursSeedsDone ==
    ASSUME Typed, First, Labelled, Toured, SeedsDone
    PROVE  Toured'
<1>1. /\ phase = "seeds" /\ phase' = "egress" /\ todo = {} /\ frontier' = marked
      /\ UNCHANGED <<tt, query, round, best, bestBefore, arr, marked, nextMarked, after, destRound>>
      BY DEF SeedsDone
<1>2. TypeOK /\ served > 0 /\ round = 0 /\ after = "queue" /\ query.to \in Stops
  <2>1. TypeOK /\ served > 0 /\ round = 0
        BY <1>1 DEF Typed, TypeOK, First
  <2>2. after = "queue"
        BY <2>1 DEF TypeOK
  <2> QED BY <2>1, <2>2, BestKnown
<1>3. Falls /\ ~InRound /\ ~InRound'
      BY <1>1, <1>2, SteadyFalls DEF InRound
<1>4. WalksTaken' /\ WalksTaken
  <2>1. \A x \in Stops : ~Unwalked(x)
        BY <1>1 DEF Unwalked
  <2> QED BY <1>1, <1>2, <1>3, <2>1, WalksStay DEF Toured
<1>5. LinksTaken'
  <2>1. \A x : ~Unlinked(x)' => ~Unlinked(x)
        BY <1>1 DEF Unlinked
  <2> QED BY <1>1, <1>2, <1>3, <2>1, LinksStay DEF Toured
<1>6. Fronts' /\ Departed' /\ Destined'
  <2>1. Fronts'
        BY <1>1, <1>2 DEF Fronts
  <2>2. Departed'
        BY <1>2, <1>3, DepartedStays DEF Toured
  <2>3. Destined'
        BY <1>1, <1>3 DEF Toured, Destined
  <2> QED BY <2>1, <2>2, <2>3
<1>7. Covers'
  <2> SUFFICES ASSUME NEW by, Tour(by)' PROVE Covered(by[0], best)
      BY <1>1, <1>2, <1>3 DEF Covers, Covered
  <2>1. Tour(by) /\ \A s, v \in Stops : Settled(v, best[s] + tt.walk[<<s, v>>])
    <3>1. \A x \in Stops : ~Unwalked(x)
          BY <1>1 DEF Unwalked
    <3> QED BY <1>1, <1>4, <3>1, TourKept DEF WalksTaken
  <2>2. ASSUME NEW o, o[1] \in Stops, o[2] \in Int, Settled(o[1], o[2]), NEW p, WalkedTo(p, o)
        PROVE  Settled(p[1], p[2])
    <3>1. \A v \in Stops : Settled(v, best[o[1]] + tt.walk[<<o[1], v>>])
          BY <2>1, <2>2
    <3> QED BY <1>2, <2>2, <3>1, WalkSettles
  <2>3. ASSUME NEW s \in Stops, NEW time \in Int, Settled(s, time), NEW p, WalkedTo(p, <<s, time>>)
        PROVE  Settled(p[1], p[2])
    <3>1. PICK o : o = <<s, time>>
          OBVIOUS
    <3> QED BY <2>2, <2>3, <3>1
  <2>4. /\ query.from \in Stops /\ query.depart \in Int
        /\ \A e \in query.access : e[1] \in Stops /\ query.depart + e[2] \in Int
        BY <1>2, BestKnown
  <2>5. ASSUME NEW p \in by[0] PROVE Settled(p[1], p[2])
    <3>1. \/ WalkedTo(p, <<query.from, query.depart>>)
          \/ \E e \in query.access : WalkedTo(p, <<e[1], query.depart + e[2]>>)
          BY <2>1 DEF Tour
    <3> QED BY <2>3, <2>4, <3>1 DEF Toured, Departed
  <2> QED BY <2>5 DEF Covered, Settled
<1> QED BY <1>4, <1>5, <1>6, <1>7 DEF Toured

\* The connectors of the stops worked on are taken.
LEMMA EgressLinks ==
    ASSUME Typed, served > 0, Labelled, Egress
    PROVE  \A e \in query.egress : e[1] \in frontier => best'[query.to] <= arr[round][e[1]] + e[2]
<1> DEFINE edges == {e \in query.egress : e[1] \in frontier /\ arr[round][e[1]] < Inf}
           time(e) == arr[round][e[1]] + e[2]
           times == {time(e) : e \in edges}
<1>1. TypeOK /\ round \in 0..Rounds /\ query.to \in Stops /\ best' \in [Stops -> Times]
      /\ \A s \in Stops : best'[s] <= best[s]
  <2>1. TypeOK /\ round \in 0..Rounds /\ query.to \in Stops
        BY BestKnown DEF Typed, TypeOK
  <2>2. UNCHANGED <<tt, query, round, bestBefore>>
        BY DEF Egress
  <2>3. Falls
    <3>1. CASE UNCHANGED <<best, arr, par, destRound>>
          BY <2>1, <2>2, <3>1, SteadyFalls
    <3>2. ASSUME NEW t, NEW parent,
                 Recorded(round, [s \in Stops |-> t], [s \in Stops |-> parent], {query.to})
          PROVE  Falls
      <4>1. PICK ts, ps : ts = [s \in Stops |-> t] /\ ps = [s \in Stops |-> parent]
            OBVIOUS
      <4>2. Recorded(round, ts, ps, {query.to})
            BY <3>2, <4>1
      <4> QED BY <2>2, <4>2, RecordedFalls
    <3> QED BY <3>1, <3>2, EgressRecords
  <2> QED BY <2>1, <2>3 DEF Falls
<1>2. /\ \A s \in Stops : arr[round][s] \in Nat /\ best[s] \in Nat /\ best[s] <= Inf
      /\ \A e \in query.egress : e[1] \in Stops /\ e[2] \in Nat
      /\ best'[query.to] \in Int /\ best'[query.to] <= best[query.to] /\ Inf \in Nat
  <2>1. best'[query.to] \in Times
        BY <1>1
  <2>2. best'[query.to] \in Int
        BY <2>1, Constants, Zenon
  <2> QED BY <1>1, <2>2, BestKnown
<1> SUFFICES ASSUME NEW e \in query.egress, e[1] \in frontier
             PROVE  best'[query.to] <= arr[round][e[1]] + e[2]
    OBVIOUS
<1>3. CASE ~(arr[round][e[1]] < Inf)
  <2>1. arr[round][e[1]] \in Nat /\ e[2] \in Nat /\ best[query.to] \in Nat /\ best[query.to] <= Inf
        BY <1>1, <1>2
  <2> QED BY <1>2, <1>3, <2>1
<1>4. CASE arr[round][e[1]] < Inf
  <2>1. e \in edges /\ time(e) \in times /\ edges # {}
        BY <1>4
  <2>2. times \in SUBSET Int /\ \A x \in times : 0 <= x
    <3>1. ASSUME NEW f \in edges PROVE time(f) \in Int /\ 0 <= time(f)
      <4>1. arr[round][f[1]] \in Nat /\ f[2] \in Nat
            BY <1>2
      <4> QED BY <4>1
    <3> QED BY <3>1
  <2>3. IF edges # {} /\ RecordsMemo(round, MinOf(times))
           THEN \E f \in edges :
                    /\ time(f) = MinOf(times)
                    /\ RecordMemo(round, time(f), Memoized(f[1], round,
                            <<[from |-> f[1], to |-> query.to, trip |-> NoTrip,
                               dep |-> arr[round][f[1]], arr |-> time(f)]>>))
           ELSE UNCHANGED <<best, arr, par, destRound>>
        BY DEF Egress
  <2>4. PICK least : least = MinOf(times)
        OBVIOUS
  <2>5. least \in times /\ least <= time(e) /\ least \in Int
    <3>1. MinOf(times) \in times /\ \A x \in times : MinOf(times) <= x
      <4>1. times # {} /\ times \in SUBSET Int /\ 0 \in Int /\ \A x \in times : 0 <= x
            BY <2>1, <2>2
      <4> HIDE DEF times
      <4> QED BY <4>1, LeastOf
    <3> HIDE DEF times, time
    <3> QED BY <2>1, <2>2, <2>4, <3>1
  <2>6. best'[query.to] <= least
    <3>1. CASE RecordsMemo(round, least)
      <4>1. PICK parent : RecordMemo(round, least, parent)
        <5> HIDE DEF edges, times, time
        <5> QED BY <2>1, <2>3, <2>4, <3>1
      <4>2. best'[query.to] = least
            BY <1>1, <4>1 DEF RecordMemo, TypeOK
      <4> QED BY <2>5, <4>2
    <3>2. CASE ~RecordsMemo(round, least)
      <4>1. best' = best
        <5> HIDE DEF edges, times, time
        <5> QED BY <2>3, <2>4, <3>2
      <4>2. ~(least < best[query.to])
            BY <3>2 DEF RecordsMemo
      <4> QED BY <1>2, <2>5, <4>1, <4>2
    <3> QED BY <3>1, <3>2
  <2>7. time(e) \in Int
        BY <2>1, <2>2
  <2> QED BY <1>2, <2>5, <2>6, <2>7
<1> QED BY <1>3, <1>4

LEMMA ToursEgress ==
    ASSUME Typed, First, Labelled, Known, Toured, Egress
    PROVE  Toured'
<1>1. /\ phase = "egress" /\ phase' = "lookahead"
      /\ UNCHANGED <<tt, query, round, bestBefore, marked, nextMarked, frontier, after>>
      BY DEF Egress
<1>2. TypeOK /\ served > 0 /\ query.to \in Stops /\ round \in 0..Rounds /\ (after # "queue" => round > 0)
      BY BestKnown DEF Typed, TypeOK, First
<1>3. /\ Falls
      /\ \A s \in Stops \ {query.to} : best'[s] = best[s]
      /\ \/ UNCHANGED <<best, arr, destRound>>
         \/ destRound' = round /\ arr'[round][query.to] = best'[query.to]
  <2>1. CASE UNCHANGED <<best, arr, par, destRound>>
        BY <1>1, <1>2, <2>1, SteadyFalls
  <2>2. ASSUME NEW time, NEW parent, destRound' = round,
               Recorded(round, [s \in Stops |-> time], [s \in Stops |-> parent], {query.to})
        PROVE  /\ Falls
               /\ \A s \in Stops \ {query.to} : best'[s] = best[s]
               /\ arr'[round][query.to] = best'[query.to]
    <3>1. PICK ts, ps : ts = [s \in Stops |-> time] /\ ps = [s \in Stops |-> parent]
          OBVIOUS
    <3>2. Recorded(round, ts, ps, {query.to})
          BY <2>2, <3>1
    <3>3. /\ Falls /\ \A s \in Stops \ {query.to} : best'[s] = best[s]
          /\ best'[query.to] = ts[query.to] /\ arr'[round][query.to] = ts[query.to]
          BY <1>1, <1>2, <3>2, RecordedFalls
    <3> QED BY <3>3
  <2> QED BY <2>1, <2>2, EgressRecords
<1>4. (InRound' <=> InRound) /\ (Between' <=> Between) /\ (InRound <=> after # "queue") /\ (Between <=> after = "queue")
      BY <1>1 DEF InRound, Between
<1>5. WalksTaken'
  <2>1. \A x : Unwalked(x)' <=> Unwalked(x)
        BY <1>1 DEF Unwalked
  <2> QED BY <1>2, <1>3, <2>1, WalksStay DEF Toured
<1>6. LinksTaken'
  <2>1. ASSUME NEW e \in query.egress, e[1] # query.to
        PROVE  \/ ~Unlinked(e[1]) /\ best'[e[1]] = best[e[1]]
               \/ best'[query.to] <= best'[e[1]] + e[2]
    <3>1. e[1] \in Stops /\ best'[e[1]] = best[e[1]]
          BY <1>2, <1>3, <2>1, BestKnown
    <3>2. CASE e[1] \in frontier
      <4>1. (Between /\ e[1] \in marked) \/ (InRound /\ e[1] \in nextMarked)
            BY <1>1, <1>4, <3>2 DEF Toured, Fronts
      <4>2. arr[round][e[1]] = best[e[1]]
            BY <1>2, <2>1, <3>1, <4>1, MarkedCurrent
      <4> QED BY <1>2, <3>1, <3>2, <4>2, EgressLinks
    <3>3. CASE e[1] \notin frontier
          BY <1>1, <3>1, <3>3 DEF Unlinked
    <3> QED BY <3>2, <3>3
  <2> QED BY <1>2, <1>3, <2>1, LinksStay DEF Toured
<1>7. Fronts'
      BY <1>1 DEF Toured, Fronts
<1>8. Departed'
      BY <1>2, <1>3, DepartedStays DEF Toured
<1>9. Destined'
  <2>1. CASE UNCHANGED <<best, arr, destRound>>
        BY <1>1, <1>2, <1>4, <2>1, DestinedSteady DEF Toured
  <2>2. CASE destRound' = round /\ arr'[round][query.to] = best'[query.to]
    <3>1. round # None
          BY <1>2, Constants
    <3> QED BY <1>1, <1>4, <2>2, <3>1 DEF Destined
  <2> QED BY <1>3, <2>1, <2>2
<1>10. Covers'
  <2>1. /\ Between' /\ phase' # "seeds" => Between /\ phase # "seeds"
        /\ InRound' => InRound /\ round > 0
        BY <1>1, <1>2, <1>4
  <2> QED BY <1>1, <1>2, <1>3, <2>1, CoversStay DEF Toured
<1> QED BY <1>5, <1>6, <1>7, <1>8, <1>9, <1>10 DEF Toured

\* Steps that change no label.
LEMMA ToursSteady ==
    ASSUME Typed, First, Labelled, Toured,
           UNCHANGED <<tt, query, round, best, bestBefore, arr, destRound>>,
           \A x \in Stops : ~Unwalked(x)' => ~Unwalked(x),
           \A x \in Stops : ~Unlinked(x)' => ~Unlinked(x),
           Fronts',
           (InRound /\ query.to \in nextMarked)' <=> InRound /\ query.to \in nextMarked,
           Between' /\ phase' # "seeds" => Between /\ phase # "seeds",
           InRound' => InRound /\ round > 0
    PROVE  Toured'
<1>1. TypeOK /\ served > 0
      BY DEF Typed, First
<1>2. Falls
      BY <1>1, SteadyFalls
<1>3. WalksTaken'
      BY <1>1, <1>2, WalksStay DEF Toured
<1>4. LinksTaken'
  <2>1. \A e \in query.egress : e[1] \in Stops
        BY <1>1, BestKnown
  <2> QED BY <1>1, <1>2, <2>1, LinksStay DEF Toured
<1>5. Departed' /\ Covers'
      BY <1>1, <1>2, DepartedStays, CoversStay DEF Toured
<1>6. Destined'
      BY DestinedSteady DEF Toured
<1> QED BY <1>3, <1>4, <1>5, <1>6 DEF Toured

LEMMA ToursLookahead ==
    ASSUME Typed, First, Empty, Labelled, Toured, Lookahead
    PROVE  Toured'
<1>1. /\ phase = "lookahead" /\ phase' = "lookahead" /\ todo # {}
      /\ UNCHANGED <<tt, query, round, bestBefore, marked, nextMarked, frontier, after>>
      BY DEF Lookahead
<1>2. cache = {} /\ query.egress = {} /\ (after # "queue" => round > 0)
      BY <1>1 DEF First, Empty, Typed, TypeOK, Exact
<1>3. UNCHANGED <<best, arr, destRound>>
  <2>1. \A k, time, parent : ~MemoRecord(k, time, parent)
        BY <1>2 DEF MemoRecord
  <2> QED BY <2>1, LookaheadRecords
<1>4. /\ \A x \in Stops : Unwalked(x)' <=> Unwalked(x)
      /\ \A x \in Stops : Unlinked(x)' <=> Unlinked(x)
      /\ Fronts'
      /\ (InRound /\ query.to \in nextMarked)' <=> InRound /\ query.to \in nextMarked
      /\ Between' /\ phase' # "seeds" => Between /\ phase # "seeds"
      /\ InRound' => InRound /\ round > 0
  <2>1. \A x \in Stops : (Unwalked(x)' <=> Unwalked(x)) /\ (Unlinked(x)' <=> Unlinked(x))
        BY <1>1 DEF Unwalked, Unlinked
  <2>2. Fronts'
        BY <1>1 DEF Toured, Fronts
  <2> QED BY <1>1, <1>2, <2>1, <2>2 DEF InRound, Between
<1> QED BY <1>1, <1>3, <1>4, ToursSteady

LEMMA ToursLookaheadDone ==
    ASSUME Typed, First, Labelled, Toured, LookaheadDone
    PROVE  Toured'
<1>1. /\ phase = "lookahead" /\ phase' = after
      /\ UNCHANGED <<tt, query, round, best, bestBefore, arr, marked, nextMarked, frontier, todo, after, destRound>>
      BY DEF LookaheadDone, searchVars
<1>2. after \in {"queue", "relax", "endRound"} /\ (after # "queue" => round > 0)
      BY DEF Typed, TypeOK
<1>3. /\ \A x \in Stops : ~Unwalked(x)' => ~Unwalked(x)
      /\ \A x \in Stops : ~Unlinked(x)' => ~Unlinked(x)
      /\ Fronts'
  <2>1. \A x \in Stops : (~Unwalked(x)' => ~Unwalked(x)) /\ (~Unlinked(x)' => ~Unlinked(x))
        BY <1>1, <1>2 DEF Unwalked, Unlinked
  <2>2. Fronts'
        BY <1>1, <1>2 DEF Toured, Fronts
  <2> QED BY <2>1, <2>2
<1>4. (InRound' <=> InRound) /\ (Between' <=> Between) /\ (InRound <=> after # "queue")
      BY <1>1, <1>2 DEF InRound, Between
<1>5. /\ (InRound /\ query.to \in nextMarked)' <=> InRound /\ query.to \in nextMarked
      /\ Between' /\ phase' # "seeds" => Between /\ phase # "seeds"
      /\ InRound' => InRound /\ round > 0
      BY <1>1, <1>2, <1>4
<1> QED BY <1>1, <1>3, <1>5, ToursSteady

LEMMA ToursLine ==
    ASSUME Typed, First, Labelled, Toured, BeginLine \/ EndLine \/ ScanDone
    PROVE  Toured'
<1>1. /\ phase = "scan" /\ phase' \in {"scan", "egress"} /\ round > 0
      /\ UNCHANGED <<tt, query, round, best, bestBefore, arr, marked, nextMarked, todo, destRound>>
      /\ phase' = "scan" => after' = after
      /\ phase' = "egress" => after' = "relax" /\ frontier' = nextMarked
  <2>1. CASE BeginLine \/ EndLine
        BY <2>1 DEF BeginLine, EndLine, Typed, TypeOK
  <2>2. CASE ScanDone
        BY <2>2 DEF ScanDone, Typed, TypeOK
  <2> QED BY <2>1, <2>2
<1>2. \A x \in Stops : (~Unwalked(x)' => ~Unwalked(x)) /\ (~Unlinked(x)' => ~Unlinked(x))
      BY <1>1 DEF Unwalked, Unlinked
<1>3. Fronts'
      BY <1>1 DEF Fronts
<1>4. InRound /\ InRound' /\ ~Between'
      BY <1>1 DEF InRound, Between
<1> QED BY <1>1, <1>2, <1>3, <1>4, ToursSteady

LEMMA ToursQueue ==
    ASSUME Typed, First, Labelled, Toured, QueueLines
    PROVE  Toured'
<1>1. /\ phase = "queue" /\ phase' = "scan" /\ round' = round + 1 /\ bestBefore' = best /\ nextMarked' = {}
      /\ UNCHANGED <<tt, query, best, arr, destRound>>
      BY DEF QueueLines
<1>2. TypeOK /\ served > 0 /\ Falls /\ round \in Nat /\ Between /\ ~Between' /\ ~InRound
  <2>1. TypeOK /\ served > 0 /\ round \in Nat
        BY DEF Typed, TypeOK, First
  <2> QED BY <1>1, <2>1, SteadyFalls DEF Between, InRound
<1>3. WalksTaken' /\ LinksTaken'
  <2>1. \A x : ~Unwalked(x) /\ ~Unlinked(x)
        BY <1>1 DEF Unwalked, Unlinked
  <2> QED BY <1>1, <1>2, <2>1, WalksStay, LinksStay DEF Toured
<1>4. Fronts' /\ Departed' /\ Destined'
  <2>1. Departed'
        BY <1>2, DepartedStays DEF Toured
  <2>2. Fronts'
        BY <1>1 DEF Fronts
  <2>3. Destined'
    <3>1. IF destRound = None THEN best[query.to] = Inf ELSE arr[destRound][query.to] = best[query.to]
          BY <1>2 DEF Toured, Destined
    <3>2. ~(InRound /\ query.to \in nextMarked)'
          BY <1>1
    <3> QED BY <1>1, <3>1, <3>2 DEF Destined
  <2> QED BY <2>1, <2>2, <2>3
<1>5. Covers'
  <2> SUFFICES ASSUME NEW by, Tour(by)'
               PROVE  \A p \in by[round' - 1] : bestBefore'[p[1]] <= p[2] \/ best'[query'.to] <= p[2]
      BY <1>2 DEF Covers, Covered
  <2>1. Tour(by) /\ round' - 1 = round
        BY <1>1, <1>2, TourKept
  <2>2. Covered(by[round], best)
        BY <1>1, <1>2, <2>1 DEF Toured, Covers
  <2> QED BY <1>1, <2>1, <2>2 DEF Covered
<1> QED BY <1>3, <1>4, <1>5 DEF Toured

LEMMA DestinedImproved ==
    ASSUME Typed, Destined, NEW I, query' = query, destRound' = destRound, round' = round,
           InRound, InRound', nextMarked' = nextMarked \union I,
           query.to \in I => arr'[round][query.to] = best'[query.to],
           query.to \notin I => /\ best'[query.to] = best[query.to]
                                /\ \A k \in 0..Rounds : arr'[k][query.to] = arr[k][query.to]
    PROVE  Destined'
<1>1. CASE query.to \in I
      BY <1>1 DEF Destined
<1>2. CASE query.to \notin I
      BY <1>2, DestinedSteady
<1> QED BY <1>1, <1>2

LEMMA ToursScan ==
    ASSUME Typed, First, Labelled, Toured, ScanPosition
    PROVE  Toured'
<1>1. /\ phase = "scan" /\ phase' = "scan"
      /\ UNCHANGED <<tt, query, round, bestBefore, marked, todo, after, destRound>>
      BY DEF ScanPosition
<1>2. TypeOK /\ served > 0 /\ round > 0 /\ round \in 0..Rounds /\ query.to \in Stops /\ InRound /\ InRound' /\ ~Between'
  <2>1. TypeOK /\ served > 0 /\ round > 0 /\ round \in 0..Rounds /\ query.to \in Stops
        BY <1>1, BestKnown DEF Typed, TypeOK, First
  <2> QED BY <1>1, <2>1 DEF InRound, Between
<1>3. PICK I \in SUBSET {Path[scan.pos]} : \E time, parent :
              /\ Recorded(round, [s \in Stops |-> time], [s \in Stops |-> parent], I)
              /\ nextMarked' = nextMarked \union I
      BY ScanRecords
<1>4. PICK time, parent : /\ Recorded(round, time, parent, I)
                          /\ nextMarked' = nextMarked \union I
      BY <1>3
<1>5. /\ Falls
      /\ \A s \in Stops \ I : best'[s] = best[s]
      /\ \A k \in 0..Rounds, s \in Stops : s \notin I => arr'[k][s] = arr[k][s]
      /\ \A s \in I : s \in Stops /\ best'[s] = time[s] /\ arr'[round][s] = time[s]
      BY <1>1, <1>2, <1>4, RecordedFalls
<1>6. WalksTaken'
  <2>1. ASSUME NEW x \in Stops, ~Unwalked(x)' PROVE ~Unwalked(x) /\ best'[x] = best[x]
    <3>1. x \notin nextMarked /\ x \notin I
          BY <1>1, <1>4, <2>1 DEF Unwalked
    <3> QED BY <1>1, <1>5, <3>1 DEF Unwalked
  <2> QED BY <1>2, <1>5, <2>1, WalksStay DEF Toured
<1>7. LinksTaken'
  <2>1. ASSUME NEW e \in query.egress, ~Unlinked(e[1])' PROVE ~Unlinked(e[1]) /\ best'[e[1]] = best[e[1]]
    <3>1. e[1] \notin nextMarked /\ e[1] \notin I /\ e[1] \in Stops
          BY <1>1, <1>2, <1>4, <2>1, BestKnown DEF Unlinked
    <3> QED BY <1>1, <1>5, <3>1 DEF Unlinked
  <2> QED BY <1>2, <1>5, <2>1, LinksStay DEF Toured
<1>8. Fronts' /\ Departed'
      BY <1>1, <1>2, <1>5, DepartedStays DEF Toured, Fronts
<1>9. Destined'
      BY <1>1, <1>2, <1>4, <1>5, DestinedImproved DEF Toured
<1>10. Covers'
      BY <1>1, <1>2, <1>5, CoversStay DEF Toured
<1> QED BY <1>6, <1>7, <1>8, <1>9, <1>10 DEF Toured

\* One walk from the stops of the round takes all there are: none it improves makes
\* another walk shorter, and none begins a connector.
LEMMA ToursRelax ==
    ASSUME Typed, First, Labelled, Known, Toured, RelaxTransfers
    PROVE  Toured'
<1> DEFINE from == {s \in frontier : arr[round][s] < best[query.to]}
           I == {s \in Stops : WalkTimes(from, arr[round])[s] < best[s]}
<1>1. /\ phase = "relax" /\ phase' = "egress" /\ after' = "endRound"
      /\ UNCHANGED <<tt, query, round, bestBefore, marked, todo, destRound>>
      BY DEF RelaxTransfers
<1>2. TypeOK /\ served > 0 /\ round > 0 /\ round \in 0..Rounds /\ query.to \in Stops /\ InRound /\ InRound' /\ ~Between'
      /\ frontier = nextMarked /\ frontier \subseteq Stops
  <2>1. TypeOK /\ served > 0 /\ round > 0 /\ round \in 0..Rounds /\ query.to \in Stops /\ frontier \subseteq Stops
        BY <1>1, BestKnown DEF Typed, TypeOK, First
  <2>2. frontier = nextMarked
        BY <1>1 DEF Toured, Fronts
  <2> QED BY <1>1, <2>1, <2>2 DEF InRound, Between
<1>3. /\ Record(round, WalkTimes(from, arr[round]), WalkParents(from, arr[round]), I)
      /\ nextMarked' = nextMarked \union I
      /\ frontier' = I \ nextMarked
      BY DEF RelaxTransfers
<1>4. /\ Falls
      /\ \A s \in Stops \ I : /\ best'[s] = best[s]
                              /\ \A k \in 0..Rounds : arr'[k][s] = arr[k][s]
      /\ \A f \in from, v \in Stops : best'[v] <= arr[round][f] + tt.walk[<<f, v>>]
      /\ \A s \in I : /\ arr'[round][s] = best'[s]
                      /\ \E f \in Stops \ {s} : tt.walk[<<f, s>>] < Inf
                      /\ \A v \in Stops : best'[v] <= best'[s] + tt.walk[<<s, v>>]
  <2>1. from \in SUBSET Stops /\ I \in SUBSET Stops
        BY <1>2
  <2>2. \A s \in Stops : s \in I <=> WalkTimes(from, arr[round])[s] < best[s]
        OBVIOUS
  <2> HIDE DEF from, I
  <2> QED BY <1>1, <1>2, <1>3, <2>1, <2>2, WalksSettle DEF First
<1>5. I \subseteq Stops /\ \A s \in frontier : s \in from \/ best[query.to] <= arr[round][s]
  <2>1. ASSUME NEW s \in frontier PROVE s \in from \/ best[query.to] <= arr[round][s]
    <3>1. best[query.to] \in Nat /\ arr[round][s] \in Nat
          BY <1>2, BestKnown
    <3> QED BY <3>1
  <2> QED BY <2>1
<1> HIDE DEF from, I
<1>6. WalksTaken'
  <2>1. ASSUME NEW x \in Stops \ {query.to}, NEW v \in Stops, x \in nextMarked, x \notin I
        PROVE  \/ best'[v] <= best'[x] + tt.walk[<<x, v>>]
               \/ best'[query.to] <= best'[x] + tt.walk[<<x, v>>]
    <3>1. arr[round][x] = best[x] /\ best'[x] = best[x]
          BY <1>2, <1>4, <2>1, MarkedCurrent
    <3>2. CASE x \in from
          BY <1>4, <3>1, <3>2
    <3>3. CASE best[query.to] <= arr[round][x]
      <4>1. /\ best'[query.to] \in Int /\ best[query.to] \in Int /\ best'[query.to] <= best[query.to]
            /\ tt.walk[<<x, v>>] \in Nat /\ best[x] \in Nat
            BY <1>2, <1>4, FallenKnown, BestKnown
      <4> QED BY <3>1, <3>3, <4>1
    <3> QED BY <1>2, <1>5, <2>1, <3>2, <3>3
  <2>2. ASSUME NEW x \in Stops \ {query.to}, x \notin nextMarked, x \notin I
        PROVE  ~Unwalked(x) /\ best'[x] = best[x]
        BY <1>1, <1>4, <2>2 DEF Unwalked
  <2>3. \A x \in I, v \in Stops : best'[v] <= best'[x] + tt.walk[<<x, v>>]
        BY <1>4
  <2>4. ASSUME NEW x \in Stops \ {query.to}
        PROVE  \/ ~Unwalked(x) /\ best'[x] = best[x]
               \/ \A v \in Stops : \/ best'[v] <= best'[x] + tt.walk[<<x, v>>]
                                   \/ best'[query.to] <= best'[x] + tt.walk[<<x, v>>]
        BY <2>1, <2>2, <2>3
  <2> QED BY <1>2, <1>4, <2>4, WalksStay DEF Toured
<1>7. LinksTaken'
  <2>1. ASSUME NEW e \in query.egress, ~Unlinked(e[1])' PROVE ~Unlinked(e[1]) /\ best'[e[1]] = best[e[1]]
    <3>1. e[1] \in Stops /\ ~Unlinked(e[1])
          BY <1>1, <1>2, BestKnown DEF Unlinked
    <3>2. CASE e[1] \in I
      <4>1. PICK f \in Stops \ {e[1]} : tt.walk[<<f, e[1]>>] < Inf
            BY <1>4, <3>2
      <4>2. tt.walk[<<f, e[1]>>] = Inf /\ Inf \in Nat
            BY Constants DEF First, ConnectorsApart
      <4> QED BY <4>1, <4>2
    <3> QED BY <1>4, <3>1, <3>2
  <2> QED BY <1>2, <1>4, <2>1, LinksStay DEF Toured
<1>8. Fronts' /\ Departed'
  <2>1. Fronts'
        BY <1>1, <1>3 DEF Fronts
  <2> QED BY <1>2, <1>4, <2>1, DepartedStays DEF Toured
<1>9. Destined'
      BY <1>1, <1>2, <1>3, <1>4, DestinedImproved DEF Toured
<1>10. Covers'
       BY <1>1, <1>2, <1>4, CoversStay DEF Toured
<1> QED BY <1>6, <1>7, <1>8, <1>9, <1>10 DEF Toured

LEMMA ToursEndRound ==
    ASSUME Typed, First, Labelled, Explored, Toured, EndRound
    PROVE  Toured'
<1>1. /\ phase = "endRound" /\ phase' = "queue" /\ marked' = nextMarked
      /\ destRound' = IF query.to \in nextMarked THEN round ELSE destRound
      /\ UNCHANGED <<tt, query, round, best, bestBefore, arr, nextMarked, todo>>
      BY DEF EndRound, ReachedIn
<1>2. /\ TypeOK /\ served > 0 /\ round \in 1..Rounds /\ query.to \in Stops
      /\ InRound /\ Between' /\ ~InRound' /\ Forward(tt)
  <2>1. TypeOK /\ served > 0 /\ round > 0 /\ round \in 0..Rounds /\ query.to \in Stops
        BY <1>1, BestKnown DEF Typed, TypeOK, First
  <2>2. Forward(tt)
        BY DEF First, Regular
  <2>3. round \in 1..Rounds
        BY <2>1, Constants
  <2> QED BY <1>1, <2>1, <2>2, <2>3 DEF InRound, Between
<1>3. Falls
      BY <1>1, <1>2, SteadyFalls
<1>4. \A x : ~Unwalked(x) /\ ~Unlinked(x)
      BY <1>1 DEF Unwalked, Unlinked
<1>5. WalksTaken' /\ LinksTaken'
      BY <1>1, <1>2, <1>3, <1>4, WalksStay, LinksStay DEF Toured
<1>6. Fronts' /\ Departed'
  <2>1. Fronts'
        BY <1>1 DEF Fronts
  <2> QED BY <1>2, <1>3, <2>1, DepartedStays DEF Toured
<1>7. Destined'
  <2>1. CASE query.to \in nextMarked
    <3>1. destRound' = round /\ round # None /\ arr[round][query.to] = best[query.to]
          BY <1>1, <1>2, <2>1, Constants DEF Toured, Destined
    <3> QED BY <1>1, <1>2, <3>1 DEF Destined
  <2>2. CASE query.to \notin nextMarked
        BY <1>1, <1>2, <2>2 DEF Toured, Destined
  <2> QED BY <2>1, <2>2
<1>8. Covers'
  <2> SUFFICES ASSUME NEW by, Tour(by)' PROVE Covered(by[round], best)
      BY <1>1, <1>2 DEF Covers, Covered
  <2>1. Tour(by)
        BY <1>1, TourKept
  <2>2. Covered(by[round - 1], bestBefore)
        BY <1>2, <2>1 DEF Toured, Covers
  <2>3. \A l \in query.allowed : \A i \in DOMAIN tt.path[l] : RiddenAt(l, i, bestBefore[tt.path[l][i]])
        BY <1>1, <1>2 DEF Explored, AllScanned
  <2>4. \A s, v \in Stops : Settled(v, best[s] + tt.walk[<<s, v>>])
        BY <1>4 DEF Toured, WalksTaken
  <2>5. \A s \in Stops : bestBefore[s] \in Int /\ best[s] <= bestBefore[s]
        BY <1>2, LabelsKnown DEF Typed, Falling
  <2> QED BY <1>2, <2>1, <2>2, <2>3, <2>4, <2>5, CoveredRound
<1> QED BY <1>5, <1>6, <1>7, <1>8 DEF Toured

\* Where a request begins, every walk that is not to be taken has been.
LEMMA StartWalks ==
    ASSUME TypeOK, Closed(tt), NEW q \in Requests(tt), NEW start, NEW reached, StartLabels(q, start, reached),
           NEW s \in Stops, NEW v \in Stops, s \notin todo'
    PROVE  start[v] <= start[s] + tt.walk[<<s, v>>]
<1>1. /\ WellFormed(tt) /\ q.from \in Stops /\ q.depart \in Nat
      /\ q.access # {} => VirtualOrigin(tt, q)
      BY RaptorAssumption DEF TypeOK
<1>2. /\ \A u, x \in Stops : tt.walk[<<u, x>>] \in Nat
      /\ \A u \in Stops : start[u] \in Nat /\ start[u] <= Inf
      /\ Inf \in Nat
  <2>1. \A u \in Stops : start[u] \in Times /\ q.depart <= start[u]
        BY DEF StartLabels
  <2>2. \A u \in Stops : start[u] \in Int /\ start[u] <= Inf
        BY <2>1, Constants, Zenon
  <2>3. \A u \in Stops : start[u] \in Nat
        BY <1>1, <2>1, <2>2
  <2> QED BY <1>1, <2>2, <2>3, PlacesOf, Constants
<1>3. /\ start[q.from] = q.depart
      /\ \A u \in Stops : q.depart <= start[u]
      /\ \A u \in Stops \ {q.from} : u \notin reached => start[u] = Inf
      /\ todo' = IF q.access = {} THEN {} ELSE reached
      /\ reached \subseteq Stops \ {q.from}
      BY DEF StartLabels
<1>4. CASE start[s] = Inf
      BY <1>2, <1>4
<1>5. CASE q.access # {}
  <2>1. s \notin reached
        BY <1>3, <1>5
  <2>2. CASE s = q.from
    <3>1. tt.walk[<<s, v>>] = Inf
          BY <1>1, <1>5, <2>2 DEF VirtualOrigin
    <3> QED BY <1>2, <3>1
  <2> QED BY <1>3, <1>4, <2>1, <2>2
<1>6. CASE q.access = {} /\ v = q.from
      BY <1>1, <1>2, <1>3, <1>6
<1>7. CASE q.access = {} /\ v # q.from /\ start[s] # Inf
  <2>1. \A d \in Nat : d = tt.walk[<<q.from, v>>] => start[v] <= q.depart + d
        BY <1>7 DEF StartLabels
  <2>2. start[v] <= q.depart + tt.walk[<<q.from, v>>] /\ tt.walk[<<q.from, v>>] \in Nat
        BY <1>1, <1>2, <2>1
  <2>3. CASE s = q.from
        BY <1>3, <2>2, <2>3
  <2>4. CASE s # q.from
    <3>1. s \in reached
          BY <1>3, <1>7, <2>4
    <3>2. start[s] - q.depart = tt.walk[<<q.from, s>>]
          BY <1>7, <3>1 DEF StartLabels
    <3>3. tt.walk[<<q.from, v>>] <= tt.walk[<<q.from, s>>] + tt.walk[<<s, v>>]
          BY <1>1, <1>7 DEF Closed
    <3>4. tt.walk[<<q.from, s>>] \in Nat /\ tt.walk[<<s, v>>] \in Nat /\ start[s] \in Nat /\ start[v] \in Nat
          BY <1>1, <1>2
    <3> QED BY <1>1, <2>2, <3>2, <3>3, <3>4
  <2> QED BY <2>3, <2>4
<1> QED BY <1>4, <1>5, <1>6, <1>7

LEMMA ToursStart ==
    ASSUME Typed, NEW q \in Requests(tt), Start(q), First'
    PROVE  Toured'
<1>1. /\ query' = q /\ tt' = tt /\ phase' = "seeds" /\ round' = 0 /\ TypeOK
      BY DEF Start, Typed
<1>2. PICK start, reached : StartLabels(q, start, reached)
      BY <1>1, Started
<1>3. /\ q.from \in Stops /\ q.to \in Stops /\ q.depart \in Nat
      /\ q.egress \in SUBSET (Stops \X Nat) /\ q.access \in SUBSET (Stops \X Nat)
      /\ q.access # {} => VirtualOrigin(tt, q)
      /\ Closed(tt)
  <2>1. Closed(tt)
        BY <1>1 DEF First, Closed
  <2> QED BY <1>1, <2>1, RaptorAssumption DEF TypeOK
<1>4. /\ best' = start /\ start[q.from] = q.depart
      /\ \A k \in 0..Rounds : arr'[k] = IF k = 0 THEN start ELSE [s \in Stops |-> Inf]
      /\ \A u \in Stops \ {q.from} : u \notin reached => start[u] = Inf
      /\ todo' = (IF q.access = {} THEN {} ELSE reached)
      /\ marked' = reached \union (IF q.access = {} THEN {q.from} ELSE {})
      /\ destRound' = (IF q.from = q.to \/ q.to \in reached THEN 0 ELSE None)
      /\ reached \subseteq Stops \ {q.from}
      BY <1>2 DEF StartLabels
<1>5. \A u \in Stops : start[u] \in Int /\ start[u] <= Inf
  <2>1. \A u \in Stops : start[u] \in Times
        BY <1>2 DEF StartLabels
  <2> QED BY <2>1, Constants, Zenon
<1>6. WalksTaken'
  <2>1. \A s, v \in Stops : s \notin todo' => start[v] <= start[s] + tt.walk[<<s, v>>]
        BY <1>1, <1>2, <1>3, StartWalks
  <2> QED BY <1>1, <1>4, <2>1 DEF WalksTaken, Unwalked, Settled
<1>7. LinksTaken'
  <2> SUFFICES ASSUME NEW e \in q.egress, e[1] \notin marked' PROVE start[q.to] <= start[e[1]] + e[2]
      BY <1>1, <1>4 DEF LinksTaken, Unlinked
  <2>1. e[1] \in Stops /\ e[2] \in Nat
        BY <1>3
  <2>2. e[1] # q.from
        BY <1>3, <1>4 DEF VirtualOrigin
  <2>3. start[e[1]] = Inf /\ start[q.to] \in Int /\ start[q.to] <= Inf /\ Inf \in Nat
        BY <1>3, <1>4, <1>5, <2>1, <2>2, Constants
  <2> QED BY <2>1, <2>3
<1>8. Fronts'
      BY <1>1, <1>4 DEF Fronts
<1>9. Departed'
  <2>1. start[q.from] <= q.depart
        BY <1>3, <1>4
  <2>2. ASSUME NEW e \in q.access PROVE start[e[1]] <= q.depart + e[2]
    <3>1. e[1] \in Stops /\ e[2] \in Nat /\ e = <<e[1], e[2]>>
          BY <1>3
    <3>2. CASE e[1] = q.from
          BY <1>3, <1>4, <3>1, <3>2
    <3>3. CASE e[1] # q.from
      <4>1. \A s \in Stops \ {q.from}, d \in Nat : <<s, d>> \in q.access => start[s] <= q.depart + d
            BY <1>2 DEF StartLabels
      <4>2. <<e[1], e[2]>> \in q.access
            BY <3>1
      <4> QED BY <3>1, <3>3, <4>1, <4>2
    <3> QED BY <3>2, <3>3
  <2> QED BY <1>1, <1>4, <2>1, <2>2 DEF Departed, Settled
<1>10. Destined'
  <2>1. ~InRound'
        BY <1>1 DEF InRound
  <2>2. CASE q.from = q.to \/ q.to \in reached
    <3>1. destRound' = 0 /\ 0 # None /\ arr'[0] = start
          BY <1>4, <2>2, Constants
    <3> QED BY <1>1, <1>4, <2>1, <3>1 DEF Destined
  <2>3. CASE ~(q.from = q.to \/ q.to \in reached)
    <3>1. destRound' = None /\ start[q.to] = Inf
          BY <1>3, <1>4, <2>3
    <3> QED BY <1>1, <1>4, <2>1, <3>1 DEF Destined
  <2> QED BY <2>2, <2>3
<1>11. Covers'
       BY <1>1 DEF Covers, InRound
<1> QED BY <1>6, <1>7, <1>8, <1>9, <1>10, <1>11 DEF Toured

\* When nothing is marked, or the last round is over, everything has been reached.
LEMMA SearchCovers ==
    ASSUME Typed, First, Labelled, Explored, Toured, SearchDone
    PROVE  NoLater(best[query.to])
<1>1. /\ phase = "queue" /\ (marked = {} \/ round = Rounds) /\ Between /\ TypeOK /\ served > 0
      /\ round \in 0..Rounds /\ Rounds \in Nat /\ Forward(tt) /\ WellFormed(tt)
  <2>1. phase = "queue" /\ (marked = {} \/ round = Rounds) /\ TypeOK /\ served > 0 /\ Forward(tt)
        BY DEF SearchDone, Typed, First, Regular
  <2> QED BY <2>1, Served, Constants DEF Between, TypeOK
<1>2. \A x : ~Unwalked(x) /\ ~Unlinked(x)
      BY <1>1 DEF Unwalked, Unlinked
<1>3. ASSUME NEW by, Tour(by) PROVE Covered(by[Rounds], best)
  <2>1. Covered(by[round], best)
        BY <1>1, <1>3 DEF Toured, Covers
  <2>2. CASE round = Rounds
        BY <2>1, <2>2
  <2>3. CASE marked = {}
    <3> DEFINE T == {k \in 0..Rounds : k < round \/ Covered(by[k], best)}
    <3>1. \A s, v \in Stops : Settled(v, best[s] + tt.walk[<<s, v>>])
          BY <1>2 DEF Toured, WalksTaken
    <3>2. \A l \in query.allowed : \A i \in DOMAIN tt.path[l] : RiddenAt(l, i, best[tt.path[l][i]])
      <4> SUFFICES ASSUME NEW l \in query.allowed, NEW i \in DOMAIN tt.path[l]
                   PROVE  RiddenAt(l, i, best[tt.path[l][i]])
          OBVIOUS
      <4>1. l \in LinesOf(tt)
            BY <1>1, Served
      <4>2. tt.path[l][i] \in Stops
            BY <1>1, <4>1, KnownPath
      <4> QED BY <1>1, <2>3, <4>2 DEF Explored, RidesTaken, Ridden
    <3>3. \A s \in Stops : best[s] \in Int /\ best[s] <= best[s]
          BY <1>1, LabelsKnown
    <3>4. 0 \in T
      <4>1. 0 \in 0..Rounds /\ (0 < round \/ 0 = round)
            BY <1>1
      <4> QED BY <2>1, <4>1
    <3>5. ASSUME NEW k \in 1..Rounds, k - 1 \in T PROVE k \in T
      <4>1. k \in 0..Rounds /\ (k < round \/ k = round \/ ~(k - 1 < round))
            BY <1>1
      <4>2. CASE k < round
            BY <4>1, <4>2
      <4>3. CASE k = round
            BY <2>1, <4>1, <4>3
      <4>4. CASE ~(k - 1 < round)
        <5>1. Covered(by[k - 1], best)
              BY <3>5, <4>4
        <5>2. Covered(by[k], best)
              BY <1>1, <1>3, <3>1, <3>2, <3>3, <5>1, CoveredRound
        <5> QED BY <4>1, <5>2
      <4> QED BY <4>1, <4>2, <4>3, <4>4
    <3>6. Rounds \in T
      <4>1. 0..Rounds \subseteq T
        <5> HIDE DEF T
        <5> QED BY <1>1, <3>4, <3>5, UpTo
      <4> QED BY <1>1, <4>1
    <3>7. ~(Rounds < round)
          BY <1>1
    <3> QED BY <3>6, <3>7
  <2> QED BY <1>1, <2>2, <2>3
<1>4. ASSUME NEW by, Tour(by), NEW p \in by[Rounds]
      PROVE  /\ p[1] = query.to => best[query.to] <= p[2]
             /\ \A e \in query.egress : e[1] = p[1] => best[query.to] <= p[2] + e[2]
  <2>1. best[p[1]] <= p[2] \/ best[query.to] <= p[2]
        BY <1>3, <1>4 DEF Covered
  <2>2. p[1] \in Stops /\ p[2] \in Int /\ best[p[1]] \in Nat /\ best[query.to] \in Nat
    <3>1. by[Rounds] \in SUBSET Places
          BY <1>1, <1>4 DEF Tour
    <3>2. p[1] \in Stops /\ p[2] \in Int
          BY <1>1, <3>1, PlacesOf
    <3> QED BY <1>1, <3>2, BestKnown
  <2>3. ASSUME NEW e \in query.egress, e[1] = p[1] PROVE best[query.to] <= p[2] + e[2]
    <3>1. e[2] \in Nat
          BY <1>1, BestKnown
    <3>2. best[query.to] <= best[p[1]] + e[2]
          BY <1>2, <2>3 DEF Toured, LinksTaken
    <3> QED BY <2>1, <2>2, <3>1, <3>2
  <2> QED BY <2>1, <2>3
<1>5. best[query.to] <= Inf
      BY <1>1, BestKnown
<1> QED BY <1>4, <1>5 DEF NoLater

LEMMA FirstStays ==
    ASSUME UNCHANGED <<tt, query, served>>
    PROVE  First' <=> First
BY DEF First, Regular, NoneEarly, Forward, NoneOvertaken, Closed, ConnectorsApart, LinesOf, Skipped, Dep, Arr, SchedDep

LEMMA BestSearch ==
    ASSUME Typed, Sound, Leading, Best, SearchStep
    PROVE  Best'
<1>1. /\ UNCHANGED <<tt, query, cache, served>>
      /\ phase \notin {"idle", "rebuild"} /\ phase' \notin {"idle", "rebuild"}
      /\ Between \/ InRound
  <2>1. CASE WalkFromSeed \/ SeedsDone \/ Egress \/ Lookahead
        BY <2>1 DEF WalkFromSeed, SeedsDone, Egress, Lookahead, answerVars, Between, InRound
  <2>2. CASE LookaheadDone
        BY <2>2 DEF LookaheadDone, answerVars, Between, InRound, Typed, TypeOK
  <2>3. CASE QueueLines \/ BeginLine \/ EndLine \/ ScanDone
        BY <2>3 DEF QueueLines, BeginLine, EndLine, ScanDone, answerVars, Between, InRound
  <2>4. CASE ScanPosition \/ RelaxTransfers \/ EndRound
        BY <2>4 DEF ScanPosition, RelaxTransfers, EndRound, answerVars, Between, InRound
  <2> QED BY <2>1, <2>2, <2>3, <2>4 DEF SearchStep
<1>2. Empty'
      BY <1>1 DEF Best, Empty
<1>3. ASSUME First' PROVE Toured'
  <2>1. First /\ Empty /\ Toured
        BY <1>1, <1>3, FirstStays DEF Best
  <2>2. Labelled /\ Explored /\ Known
        BY <2>1, Regularly DEF First, Sound, Sounds, Leading
  <2> QED BY <2>1, <2>2, ToursSeeds, ToursSeedsDone, ToursEgress, ToursLookahead, ToursLookaheadDone,
             ToursQueue, ToursLine, ToursScan, ToursRelax, ToursEndRound DEF SearchStep
<1> QED BY <1>1, <1>2, <1>3 DEF Best

LEMMA BestAnswer ==
    ASSUME Typed, Sound, Leading, Best, AnswerStep
    PROVE  Best'
<1>1. /\ UNCHANGED <<tt, query, served, arr, best, destRound>> /\ phase # "idle"
      /\ phase' \in {"idle", "rebuild", "failed"}
      /\ phase' = "idle" \/ cache' = cache
  <2>1. CASE NoItinerary \/ BeginRebuild
        BY <2>1 DEF NoItinerary, BeginRebuild, SearchDone, searchVars, answerVars
  <2>2. CASE RebuildWalk \/ RebuildRide \/ RebuildMemo \/ RebuildFails
        BY <2>2 DEF RebuildWalk, RebuildRide, RebuildMemo, RebuildFails, searchVars, answerVars
  <2>3. CASE Respond \/ RestartAfterFailure
        BY <2>3 DEF Respond, RestartAfterFailure, searchVars, answerVars
  <2> QED BY <2>1, <2>2, <2>3 DEF AnswerStep
<1>2. Empty'
      BY <1>1 DEF Best, Empty
<1>3. ~Between' /\ ~InRound'
      BY <1>1 DEF Between, InRound
<1>4. ASSUME First'
      PROVE  /\ phase' = "rebuild" => /\ destRound # None /\ arr[destRound][query.to] = best[query.to]
                                      /\ NoLater(best[query.to])'
             /\ phase' = "idle" => NoLater(answer.arrival)'
  <2>1. First /\ Empty
        BY <1>1, <1>4, FirstStays DEF Best
  <2>2. /\ Labelled /\ Explored /\ Known /\ Answers /\ Regular(tt)
        /\ phase = "rebuild" => /\ destRound # None /\ arr[destRound][query.to] = best[query.to]
                                /\ NoLater(best[query.to])
    <3>1. Regular(tt)
          BY <2>1 DEF First
    <3>2. Labelled /\ Explored /\ Known /\ Answers
          BY <3>1, Regularly DEF Sound, Sounds, Leading
    <3> QED BY <2>1, <3>1, <3>2 DEF Best
  <2>3. PICK time : time = best[query.to]
        OBVIOUS
  <2>4. NoLater(time) => NoLater(time)'
        BY <1>1, NoLaterKept
  <2>5. CASE SearchDone
    <3>1. Toured /\ ~InRound /\ phase = "queue"
          BY <2>1, <2>5 DEF Best, Between, InRound, SearchDone
    <3>2. NoLater(time)'
          BY <2>1, <2>2, <2>3, <2>4, <2>5, <3>1, SearchCovers
    <3>3. IF destRound = None THEN time = Inf ELSE arr[destRound][query.to] = time
          BY <2>3, <3>1 DEF Toured, Destined
    <3>4. CASE BeginRebuild
      <4>1. phase' = "rebuild" /\ destRound # None
            BY <3>4 DEF BeginRebuild
      <4> QED BY <1>1, <2>3, <3>2, <3>3, <4>1 DEF NoLater
    <3>5. CASE NoItinerary
      <4>1. phase' = "idle" /\ destRound = None /\ answer' = answer
            BY <3>5 DEF NoItinerary, answerVars
      <4>2. answer.arrival = Inf
            BY <2>2, <3>1 DEF Answers, NoAnswer
      <4> QED BY <3>2, <3>3, <4>1, <4>2 DEF NoLater
    <3>6. CASE ~BeginRebuild /\ ~NoItinerary
      <4>1. phase = "rebuild" \/ phase = "failed"
        <5>1. RebuildWalk \/ RebuildRide \/ RebuildMemo \/ RebuildFails \/ Respond \/ RestartAfterFailure
              BY <3>6 DEF AnswerStep
        <5> QED BY <5>1 DEF RebuildWalk, RebuildRide, RebuildMemo, RebuildFails, Respond, RestartAfterFailure
      <4> QED BY <3>1, <4>1
    <3> QED BY <3>4, <3>5, <3>6
  <2>6. CASE ~SearchDone
    <3>1. CASE RebuildWalk \/ RebuildRide \/ RebuildMemo
      <4>1. phase = "rebuild" /\ phase' = "rebuild"
            BY <3>1 DEF RebuildWalk, RebuildRide, RebuildMemo
      <4> QED BY <1>1, <2>2, <2>3, <2>4, <4>1 DEF NoLater
    <3>2. CASE Respond
      <4>1. phase = "rebuild" /\ phase' = "idle" /\ answer'.arrival = arr[destRound][query.to]
            BY <3>2 DEF Respond
      <4> QED BY <2>2, <2>3, <2>4, <4>1 DEF NoLater
    <3>3. CASE RebuildFails
          BY <2>2, <3>3 DEF RebuildFails, Known, Rebuilding
    <3>4. CASE RestartAfterFailure
          BY <2>2, <3>4 DEF RestartAfterFailure, Known, Rebuilding
    <3>5. CASE NoItinerary \/ BeginRebuild
          BY <2>6, <3>5 DEF NoItinerary, BeginRebuild
    <3> QED BY <3>1, <3>2, <3>3, <3>4, <3>5 DEF AnswerStep
  <2> QED BY <2>5, <2>6
<1> QED BY <1>1, <1>2, <1>3, <1>4 DEF Best

LEMMA BestStep == Typed /\ Sound /\ Leading /\ Best /\ [Next]_vars => Best'
<1> SUFFICES ASSUME Typed, Sound, Leading, Best, [Next]_vars PROVE Best'
    OBVIOUS
<1>1. ASSUME NEW q \in Requests(tt), Start(q) PROVE Best'
  <2>1. /\ phase = "idle" /\ phase' = "seeds" /\ served' = served + 1 /\ cache' = cache /\ served \in Nat
        BY <1>1 DEF Start, Typed, TypeOK
  <2>2. Empty'
        BY <2>1 DEF Best, Empty
  <2>3. First' => Toured'
        BY <1>1, ToursStart
  <2> QED BY <2>1, <2>2, <2>3 DEF Best
<1>2. CASE SearchStep
      BY <1>2, BestSearch
<1>3. CASE AnswerStep
      BY <1>3, BestAnswer
<1>4. CASE UNCHANGED vars
  <2>1. UNCHANGED <<tt, query, phase, round, best, bestBefore, arr, marked, nextMarked, frontier, todo,
                    after, destRound, answer, cache, served>>
        BY <1>4 DEF vars, searchVars, answerVars
  <2>2. Between' = Between /\ InRound' = InRound /\ (First' <=> First) /\ Empty'
        BY <2>1, FirstStays DEF Between, InRound, Best, Empty
  <2>3. ASSUME First PROVE Between \/ InRound => Toured'
    <3>1. SUFFICES ASSUME Between \/ InRound PROVE Toured'
          OBVIOUS
    <3>2. Toured /\ Labelled
          BY <2>3, <3>1, Regularly DEF Best, First, Sound, Sounds
    <3>3. \A x : (Unwalked(x)' <=> Unwalked(x)) /\ (Unlinked(x)' <=> Unlinked(x))
          BY <2>1 DEF Unwalked, Unlinked
    <3>4. Fronts'
          BY <2>1, <3>2 DEF Toured, Fronts
    <3>5. InRound => round > 0
          BY DEF InRound, Typed, TypeOK
    <3> QED BY <2>1, <2>2, <2>3, <3>2, <3>3, <3>4, <3>5, ToursSteady
  <2>4. \A time : NoLater(time) => NoLater(time)'
        BY <2>1, NoLaterKept
  <2>5. ASSUME First
        PROVE  /\ phase = "rebuild" => NoLater(best[query.to])'
               /\ phase = "idle" => NoLater(answer.arrival)'
    <3>1. PICK b, a : b = best[query.to] /\ a = answer.arrival
          OBVIOUS
    <3>2. (NoLater(b) => NoLater(b)') /\ (NoLater(a) => NoLater(a)')
          BY <2>4
    <3> QED BY <2>1, <2>5, <3>1, <3>2 DEF Best, NoLater
  <2> QED BY <2>1, <2>2, <2>3, <2>5 DEF Best
<1> QED BY <1>1, <1>2, <1>3, <1>4 DEF Next

LEMMA BestIsOptimal ==
    ASSUME Typed, Sound, Calm => Stays, Best
    PROVE  Optimal
<1> SUFFICES ASSUME Answered, First PROVE answer.arrival = EarliestWithin(query, 1)
    BY DEF Optimal, First
<1>1. /\ TypeOK /\ served > 0 /\ phase = "idle" /\ NoneEarly(tt) /\ Forward(tt) /\ Closed(tt)
      /\ Calm /\ Stays /\ Answers
      BY Regularly DEF Typed, Answered, First, Sound, Sounds
<1>2. PICK ls : ls = answer.legs
      OBVIOUS
<1>3. ls \in Seq(Leg) /\ Len(ls) \in Nat
      BY <1>1, <1>2 DEF Stays
<1>4. answer.arrival \in Int
  <2>1. CASE ls = <<>>
        BY <1>1, <1>2, <2>1, Served, Constants DEF Stays
  <2>2. CASE ls # <<>>
    <3>1. ls[Len(ls)].arr = answer.arrival
          BY <1>1, <1>2, <2>2 DEF Answers, Answered, Feasible
    <3>2. ls \in Legs
          BY <1>3, <2>2 DEF Legs
    <3> QED BY <3>1, <3>2, LegsKnown, Constants
  <2> QED BY <2>1, <2>2
<1>5. /\ EarliestWithin(query, 1) \in Int /\ EarliestWithin(query, Len(ls)) \in Int
      BY <1>1, <1>3, EarliestIsLeast
<1>6. answer.arrival <= EarliestWithin(query, 1)
      BY <1>1, <1>4, NoLaterIsLeast DEF Best
<1>7. EarliestWithin(query, Len(ls)) <= answer.arrival
  <2>1. answer.arrival >= EarliestWithin(query, Len(ls))
        BY <1>1, <1>2, TooGood DEF NeverTooGood
  <2> QED BY <1>4, <1>5, <2>1
<1>8. EarliestWithin(query, 1) <= EarliestWithin(query, Len(ls))
      BY <1>1, <1>3, DetoursAreLonger
<1> QED BY <1>4, <1>5, <1>6, <1>7, <1>8

\* Optimal: the first search, of lines where no trip is early or overtaken and of
\* transfers that make up for every walk of several, answers with the earliest
\* arrival there is within the transfer limit.
THEOREM SearchIsOptimal == Spec => []Optimal
<1>1. Init => Typed /\ Sound /\ Leading /\ (Calm => Stays) /\ Best
  <2> SUFFICES ASSUME Init PROVE Typed /\ Sound /\ Leading /\ (Calm => Stays) /\ Best
      OBVIOUS
  <2>1. cache = {} /\ phase = "idle" /\ served = 0
        BY DEF Init
  <2>2. Best
        BY <2>1 DEF Best, Empty, First
  <2> QED BY <2>2, TypedInit, SoundInit, LeadingInit, StaysInit DEF Sound, Leading
<1>2. Typed /\ Sound /\ Leading /\ (Calm => Stays) /\ Best /\ [Next]_vars
          => (Typed /\ Sound /\ Leading /\ (Calm => Stays) /\ Best)'
      BY TypedStep, SoundStep, LeadingStep, StaysStep, BestStep
<1>3. Typed /\ Sound /\ (Calm => Stays) /\ Best => Optimal
      BY BestIsOptimal
<1> QED BY <1>1, <1>2, <1>3, PTL DEF Spec
============================================================================

---------------------- MODULE RealtimeProfiles_proofs ----------------------
(***************************************************************************)
(* Proofs about RealtimeProfiles, for every set of trips, feeds, refreshers *)
(* and queries.                                                            *)
(*                                                                         *)
(* CleanPointsFresh is not inductive: it speaks of the moments when no     *)
(* refresh runs, and says nothing of what must hold inside an overlap of   *)
(* refreshes for the last of them to leave the cache fresh.  The           *)
(* strengthening follows every reading of a clean point through a refresh  *)
(* (Covered): it is still current, or a running refresh has listed its     *)
(* trip, or it read the static schedule and the delay that may have come   *)
(* since is still to be collected by a running refresh.                    *)
(***************************************************************************)
EXTENDS RealtimeProfiles, SequenceTheorems, TLAPS

AllPoints == cache \union UNION pending

\* The bloom filter of a point holds exactly the trips its times depend on.
BloomMatchesBasis(p) ==
    \A t \in Trips : t \in BloomTrips(p) <=> \E r \in p.basis : r[1] = t

JourneyMatchesSeen(q) ==
    \A t \in Trips : (\E i \in DOMAIN journey[q] : journey[q][i] = t)
                        <=> \E r \in seen[q] : r[1] = t

Covered(r) ==
    \/ Quiet /\ r[2] = Current(r[1])
    \/ \E x \in Refreshers : InProgress(x) /\ r[1] \in changed[x]
    \/ /\ r[2] = Scheduled
       /\ ~Quiet
       /\ r[1] \in Updated => \E x \in Refreshers : InProgress(x) /\ pc[x] # "invalidate"

CleanQuery(q) ==
    /\ Quiet
    /\ Fresh(seen[q])
    /\ updatedMask[q] = Updated
    /\ available[q] = Trips \ canceledTrips

BloomsMatch == \A p \in AllPoints : BloomMatchesBasis(p)
JourneysMatch ==
    \A q \in Queries : /\ JourneyMatchesSeen(q)
                       /\ queryPc[q] = "idle" => seen[q] = {}
PendingClean == \A p \in UNION pending : p.clean => Quiet /\ Fresh(p.basis)
QueriesClean ==
    \A q \in Queries : queryPc[q] # "idle" /\ q \notin overlapped => CleanQuery(q)
CacheCovered == \A p \in cache : p.clean => \A r \in p.basis : Covered(r)

IInv ==
    /\ TypeOK
    /\ BloomsMatch
    /\ JourneysMatch
    /\ PendingClean
    /\ QueriesClean
    /\ CacheCovered

----------------------------------------------------------------------------
(* The points made of a journey.                                            *)

\* PointOf makes a point: its legs are a part of the journey, its basis what
\* was read of those legs' trips, whatever part of the journey is taken.
LEMMA PointOfIsPoint ==
    ASSUME NEW legs \in Seq(Trips), NEW readings \in SUBSET Readings,
           NEW k \in 0..Len(legs), NEW i \in 1..k, NEW c \in BOOLEAN
    PROVE  LET p == PointOf(legs, readings, i, k, c)
           IN  /\ p \in Points
               /\ p.basis \subseteq readings
               /\ p.clean = c
               /\ \A t \in BloomTrips(p) : \E j \in DOMAIN legs : legs[j] = t
<1> DEFINE part == SubSeq(legs, i, k)
           p == PointOf(legs, readings, i, k, c)
<1>1. /\ part \in Seq(Trips)
      /\ Len(part) = k - i + 1
      /\ \A j \in 1..(k - i + 1) : part[j] = legs[i + j - 1]
  <2>1. \A j \in i..k : legs[j] \in Trips
    OBVIOUS
  <2>2. i \in Int /\ k \in Int
    OBVIOUS
  <2> QED
    BY <2>1, <2>2, SubSeqProperties
<1>2. /\ p.legs = part
      /\ p.basis = {r \in readings : \E j \in DOMAIN part : part[j] = r[1]}
      /\ p.clean = c
      /\ p \in [legs : {part}, basis : {{r \in readings : \E j \in DOMAIN part : part[j] = r[1]}}, clean : {c}]
  BY DEF PointOf
<1>3. p \in Points
  BY <1>1, <1>2 DEF Points
<1>4. \A t \in BloomTrips(p) : \E j \in DOMAIN legs : legs[j] = t
  BY <1>1, <1>2 DEF BloomTrips
<1> QED
  BY <1>2, <1>3, <1>4

\* When something was read of every leg of the journey and of nothing else,
\* the bloom filter of a point matches its basis.
LEMMA PointOfMatches ==
    ASSUME NEW legs \in Seq(Trips), NEW readings \in SUBSET Readings,
           NEW k \in 0..Len(legs), NEW i \in 1..k, NEW c \in BOOLEAN,
           \A j \in DOMAIN legs : \E r \in readings : r[1] = legs[j]
    PROVE  BloomMatchesBasis(PointOf(legs, readings, i, k, c))
<1> DEFINE part == SubSeq(legs, i, k)
           p == PointOf(legs, readings, i, k, c)
<1>1. /\ p.legs = part
      /\ p.basis = {r \in readings : \E j \in DOMAIN part : part[j] = r[1]}
  BY DEF PointOf
<1>2. \A j \in DOMAIN part : \E m \in DOMAIN legs : legs[m] = part[j]
  <2>1. \A j \in i..k : legs[j] \in Trips
    OBVIOUS
  <2>2. i \in Int /\ k \in Int
    OBVIOUS
  <2> QED
    BY <2>1, <2>2, SubSeqProperties
<1>3. p.basis \subseteq readings /\ \A t \in BloomTrips(p) : \E j \in DOMAIN part : part[j] = t
  BY <1>1 DEF BloomTrips
<1> SUFFICES ASSUME NEW t \in Trips
             PROVE  t \in BloomTrips(p) <=> \E r \in p.basis : r[1] = t
  BY DEF BloomMatchesBasis
<1>4. ASSUME t \in BloomTrips(p) PROVE \E r \in p.basis : r[1] = t
  <2>1. PICK j \in DOMAIN part : part[j] = t
    BY <1>3, <1>4
  <2>2. PICK r \in readings : r[1] = t
    BY <2>1, <1>2
  <2> QED
    BY <1>1, <2>1, <2>2
<1>5. ASSUME NEW r \in p.basis, r[1] = t PROVE t \in BloomTrips(p)
  BY <1>1, <1>5 DEF BloomTrips
<1> HIDE DEF p
<1> QED
  BY <1>4, <1>5

----------------------------------------------------------------------------
(* Type correctness.                                                        *)

USE DEF Readings

LEMMA InitType == Init => TypeOK
<1> SUFFICES ASSUME Init PROVE TypeOK
  OBVIOUS
<1>1. feed \in [Refreshers -> 1..(Feeds + 1)]
  BY FeedsAssumption DEF Init
<1>2. journey \in [Queries -> Seq(Trips)]
  BY DEF Init
<1> QED
  BY <1>1, <1>2 DEF Init, TypeOK

LEMMA RefreshType ==
    ASSUME TypeOK, NEW r \in Refreshers, RefreshStep(r)
    PROVE  TypeOK'
<1> USE DEF TypeOK, storeVars, refreshVars, queryVars
<1>1. CASE BeginRefresh(r)
  <2>1. pending' \in SUBSET SUBSET Points
    <3> SUFFICES ASSUME NEW batch \in pending, NEW p \in batch
                 PROVE  Overtaken(p) \in Points
      BY <1>1 DEF BeginRefresh
    <3> QED
      BY DEF Points, Overtaken
  <2>2. changed' \in [Refreshers -> SUBSET Trips]
    BY <1>1 DEF BeginRefresh, Updated
  <2> QED
    BY <1>1, <2>1, <2>2 DEF BeginRefresh
<1>2. CASE ClearDeltas(r)
  BY <1>2 DEF ClearDeltas
<1>3. CASE ClearCanceled(r)
  BY <1>3 DEF ClearCanceled
<1>4. CASE FetchTripUpdates(r)
  <2>1. PICK updates \in SUBSET {t \in Trips : FeedOf[t] = feed[r]} :
        \E value \in [updates -> Delays \union {Scheduled, Canceled}] :
            entities' = [entities EXCEPT ![r] = {<<t, value[t]>> : t \in updates}]
    BY <1>4 DEF FetchTripUpdates
  <2>2. PICK value \in [updates -> Delays \union {Scheduled, Canceled}] :
            entities' = [entities EXCEPT ![r] = {<<t, value[t]>> : t \in updates}]
    BY <2>1
  <2>3. {<<t, value[t]>> : t \in updates} \in SUBSET (Trips \X (Delays \union {Scheduled, Canceled}))
    BY <2>2
  <2>4. entities' \in [Refreshers -> SUBSET (Trips \X (Delays \union {Scheduled, Canceled}))]
    BY <2>2, <2>3
  <2> QED
    BY <1>4, <2>4 DEF FetchTripUpdates
<1>5. CASE FetchFails(r)
  BY <1>5, FeedsAssumption DEF FetchFails
<1>6. CASE InsertEntity(r)
  <2>1. PICK e \in entities[r] :
        /\ entities' = [entities EXCEPT ![r] = @ \ {e}]
        /\ canceledTrips' = IF e[2] = Canceled THEN canceledTrips \union {e[1]}
                                               ELSE canceledTrips
        /\ stopDeltas' = IF e[2] \in Delays THEN [stopDeltas EXCEPT ![e[1]] = e[2]]
                                            ELSE stopDeltas
    BY <1>6 DEF InsertEntity
  <2>2. e[1] \in Trips
    OBVIOUS
  <2>3. stopDeltas' \in [Trips -> Delays \union {Scheduled}]
    BY <2>1, <2>2
  <2>4. canceledTrips' \in SUBSET Trips
    BY <2>1, <2>2
  <2>5. entities' \in [Refreshers -> SUBSET (Trips \X (Delays \union {Scheduled, Canceled}))]
    BY <2>1
  <2> QED
    BY <1>6, <2>3, <2>4, <2>5 DEF InsertEntity
<1>7. CASE FeedDone(r)
  <2>1. feed' \in [Refreshers -> 1..(Feeds + 1)]
    BY <1>7, FeedsAssumption DEF FeedDone
  <2> QED
    BY <1>7, <2>1 DEF FeedDone
<1>8. CASE CollectChanged(r)
  BY <1>8 DEF CollectChanged, Updated
<1>9. CASE InvalidateTrips(r)
  BY <1>9, FeedsAssumption DEF InvalidateTrips
<1> QED
  BY <1>1, <1>2, <1>3, <1>4, <1>5, <1>6, <1>7, <1>8, <1>9 DEF RefreshStep

LEMMA QueryType ==
    ASSUME TypeOK, NEW q \in Queries, QueryStep(q)
    PROVE  TypeOK'
<1> USE DEF TypeOK, storeVars, refreshVars, queryVars
<1>1. CASE StartQuery(q)
  BY <1>1 DEF StartQuery, Updated
<1>2. ASSUME NEW t \in Trips, BoardTrip(q, t) PROVE TypeOK'
  <2>1. journey' \in [Queries -> Seq(Trips)]
    BY <1>2 DEF BoardTrip
  <2>2. seen' \in [Queries -> SUBSET Readings]
    BY <1>2 DEF BoardTrip
  <2> QED
    BY <1>2, <2>1, <2>2 DEF BoardTrip
<1>3. CASE RecallProfile(q)
  <2>1. PICK p \in cache :
        /\ journey' = [journey EXCEPT ![q] = @ \o p.legs]
        /\ seen' = [seen EXCEPT ![q] = @ \union p.basis]
        /\ overlapped' = IF p.clean THEN overlapped ELSE overlapped \union {q}
    BY <1>3 DEF RecallProfile
  <2>2. p.legs \in Seq(Trips) /\ p.basis \in SUBSET Readings
    BY DEF Points
  <2>3. journey' \in [Queries -> Seq(Trips)]
    BY <2>1, <2>2, ConcatProperties
  <2>4. seen' \in [Queries -> SUBSET Readings]
    BY <2>1, <2>2
  <2> QED
    BY <1>3, <2>1, <2>3, <2>4 DEF RecallProfile
<1>4. CASE FinishQuery(q)
  <2> DEFINE last == Len(journey[q])
             readings == seen[q] \union {<<journey[q][i], stopDeltas[journey[q][i]]>> : i \in 1..last}
  <2>1. journey[q] \in Seq(Trips) /\ last \in Nat
    OBVIOUS
  <2>2. readings \in SUBSET Readings
    <3>1. \A i \in 1..last : journey[q][i] \in Trips
      BY <2>1
    <3> QED
      BY <3>1
  <2>3. ASSUME NEW k \in 0..last PROVE BatchOf(q, readings, k) \in SUBSET Points
    <3> HIDE DEF readings, TypeOK
    <3>1. ASSUME NEW i \in 1..k
          PROVE  PointOf(journey[q], readings, i, k, q \notin overlapped) \in Points
      <4>1. (q \notin overlapped) \in BOOLEAN
        OBVIOUS
      <4> QED
        BY <2>1, <2>2, <4>1, PointOfIsPoint
    <3> QED
      BY <3>1 DEF BatchOf
  <2>4. PICK boundary \in 0..last :
            pending' = pending \union {BatchOf(q, readings, last)} \union
                        (IF boundary = 0 THEN {} ELSE {BatchOf(q, readings, boundary)})
    BY <1>4 DEF FinishQuery
  <2>5. pending' \in SUBSET SUBSET Points
    <3> HIDE DEF readings
    <3>1. last \in 0..last
      BY <2>1
    <3>2. BatchOf(q, readings, last) \in SUBSET Points
      BY <2>3, <3>1
    <3>3. BatchOf(q, readings, boundary) \in SUBSET Points
      BY <2>3
    <3> QED
      BY <3>2, <3>3, <2>4
  <2>6. /\ journey' \in [Queries -> Seq(Trips)]
        /\ seen' \in [Queries -> SUBSET Readings]
        /\ updatedMask' \in [Queries -> SUBSET Trips]
        /\ available' \in [Queries -> SUBSET Trips]
        /\ queryPc' \in [Queries -> {"idle", "searching", "arrived"}]
        /\ UNCHANGED <<storeVars, refreshVars, cache, overlapped>>
    <3>1. <<>> \in Seq(Trips)
      OBVIOUS
    <3> HIDE DEF readings
    <3> QED
      BY <1>4, <3>1 DEF FinishQuery
  <2> QED
    BY <2>5, <2>6
<1>5. CASE AbandonQuery(q)
  BY <1>5 DEF AbandonQuery
<1> QED
  BY <1>1, <1>2, <1>3, <1>4, <1>5 DEF QueryStep

LEMMA StepType == TypeOK /\ [Next]_vars => TypeOK'
<1> SUFFICES ASSUME TypeOK, [Next]_vars PROVE TypeOK'
  OBVIOUS
<1>1. CASE \E r \in Refreshers : RefreshStep(r)
  BY <1>1, RefreshType
<1>2. CASE \E q \in Queries : QueryStep(q)
  BY <1>2, QueryType
<1>3. CASE InsertBatch
  BY <1>3 DEF InsertBatch, TypeOK, storeVars, refreshVars, queryVars
<1>4. CASE UNCHANGED vars
  BY <1>4 DEF TypeOK, vars, storeVars, refreshVars, queryVars
<1> QED
  BY <1>1, <1>2, <1>3, <1>4 DEF Next

\* Every state of the system is well typed: deltas, masks, journeys, points.
THEOREM TypeCorrect == Spec => []TypeOK
  BY InitType, StepType, PTL DEF Spec

----------------------------------------------------------------------------
(* Freshness.                                                               *)

LEMMA InitInv == Init => IInv
<1> SUFFICES ASSUME Init PROVE IInv
  OBVIOUS
<1>1. TypeOK
  BY InitType
<1>2. JourneysMatch
  BY DEF Init, JourneysMatch, JourneyMatchesSeen
<1>3. QueriesClean
  BY DEF Init, QueriesClean
<1>4. BloomsMatch /\ PendingClean /\ CacheCovered
  BY DEF Init, BloomsMatch, AllPoints, PendingClean, CacheCovered
<1> QED
  BY <1>1, <1>2, <1>3, <1>4 DEF IInv

\* While a refresh runs, no query and no pending insertion counts as clean, so
\* a step that leaves them, the cache and the lists alone and keeps some
\* refresh running before its second collection keeps the invariant, whatever
\* it does to the maps.
LEMMA BusyStep ==
    ASSUME IInv, TypeOK', NEW r \in Refreshers, InProgress(r),
           pc'[r] \notin {"idle", "invalidate"},
           \A x \in Refreshers \ {r} : pc'[x] = pc[x],
           UNCHANGED <<changed, queryPc, updatedMask, available, journey, seen,
                       pending, cache, overlapped>>
    PROVE  IInv'
<1>1. ~Quiet /\ ~Quiet'
  BY DEF Quiet, InProgress
<1>2. BloomsMatch'
  BY DEF IInv, BloomsMatch, AllPoints
<1>3. JourneysMatch'
  BY DEF IInv, JourneysMatch, JourneyMatchesSeen
<1>4. PendingClean'
  BY <1>1 DEF IInv, PendingClean
<1>5. QueriesClean'
  BY <1>1 DEF IInv, QueriesClean, CleanQuery
<1>6. CacheCovered'
  <2> SUFFICES ASSUME NEW p \in cache, p.clean, NEW d \in p.basis
               PROVE  Covered(d)'
    BY DEF CacheCovered
  <2>1. Covered(d)
    BY DEF IInv, CacheCovered
  <2>2. CASE \E x \in Refreshers : InProgress(x) /\ d[1] \in changed[x]
    BY <2>2 DEF Covered, InProgress
  <2>3. CASE d[2] = Scheduled
    <3>1. InProgress(r)' /\ pc'[r] # "invalidate"
      BY DEF InProgress
    <3> QED
      BY <1>1, <2>3, <3>1 DEF Covered
  <2> QED
    BY <1>1, <2>1, <2>2, <2>3 DEF Covered
<1> QED
  BY <1>2, <1>3, <1>4, <1>5, <1>6 DEF IInv

LEMMA BeginInv ==
    ASSUME IInv, TypeOK', NEW r \in Refreshers, BeginRefresh(r)
    PROVE  IInv'
<1> USE DEF BeginRefresh, storeVars, queryVars
<1>1. ~Quiet' /\ Updated' = Updated
  BY DEF Quiet, InProgress, IInv, TypeOK, Updated
<1>2. BloomsMatch'
  <2> SUFFICES ASSUME NEW p \in UNION pending' PROVE BloomMatchesBasis(p)
    BY DEF IInv, BloomsMatch, AllPoints
  <2>1. PICK o \in UNION pending : p = Overtaken(o)
    OBVIOUS
  <2>2. BloomMatchesBasis(o)
    BY DEF IInv, BloomsMatch, AllPoints
  <2> QED
    BY <2>1, <2>2 DEF Overtaken, BloomMatchesBasis, BloomTrips
<1>3. JourneysMatch'
  BY DEF IInv, JourneysMatch, JourneyMatchesSeen
<1>4. PendingClean'
  BY DEF PendingClean, Overtaken
<1>5. QueriesClean'
  BY DEF QueriesClean
<1>6. CacheCovered'
  <2> SUFFICES ASSUME NEW p \in cache, p.clean, NEW d \in p.basis
               PROVE  Covered(d)'
    BY DEF CacheCovered
  <2>1. Covered(d) /\ d[1] \in Trips
    BY DEF IInv, CacheCovered, TypeOK, Points
  <2>2. InProgress(r)' /\ changed'[r] = Updated /\ ~InProgress(r)
    BY DEF InProgress, IInv, TypeOK
  <2>3. \A x \in Refreshers : InProgress(x) => InProgress(x)' /\ changed'[x] = changed[x] /\ pc'[x] = pc[x]
    BY <2>2 DEF IInv, TypeOK, InProgress
  <2>4. CASE Quiet /\ d[2] = Current(d[1])
    BY <1>1, <2>1, <2>2, <2>4 DEF Covered, Current, Updated
  <2>5. CASE \E x \in Refreshers : InProgress(x) /\ d[1] \in changed[x]
    BY <2>3, <2>5 DEF Covered
  <2>6. CASE /\ d[2] = Scheduled
             /\ d[1] \in Updated => \E x \in Refreshers : InProgress(x) /\ pc[x] # "invalidate"
    BY <1>1, <2>3, <2>6 DEF Covered
  <2> QED
    BY <2>1, <2>4, <2>5, <2>6 DEF Covered
<1> QED
  BY <1>2, <1>3, <1>4, <1>5, <1>6 DEF IInv

LEMMA CollectInv ==
    ASSUME IInv, TypeOK', NEW r \in Refreshers, CollectChanged(r)
    PROVE  IInv'
<1> USE DEF CollectChanged, storeVars, queryVars
<1>1. ~Quiet /\ ~Quiet' /\ Updated' = Updated
  BY DEF Quiet, InProgress, IInv, TypeOK, Updated
<1>2. BloomsMatch'
  BY DEF IInv, BloomsMatch, AllPoints
<1>3. JourneysMatch'
  BY DEF IInv, JourneysMatch, JourneyMatchesSeen
<1>4. PendingClean'
  BY <1>1 DEF IInv, PendingClean
<1>5. QueriesClean'
  BY <1>1 DEF IInv, QueriesClean, CleanQuery
<1>6. CacheCovered'
  <2> SUFFICES ASSUME NEW p \in cache, p.clean, NEW d \in p.basis
               PROVE  Covered(d)'
    BY DEF CacheCovered
  <2>1. Covered(d)
    BY DEF IInv, CacheCovered
  <2>2. InProgress(r)' /\ Updated \subseteq changed'[r]
    BY DEF InProgress, IInv, TypeOK
  <2>3. \A x \in Refreshers : InProgress(x) => InProgress(x)' /\ changed[x] \subseteq changed'[x]
    BY DEF IInv, TypeOK, InProgress
  <2>4. CASE \E x \in Refreshers : InProgress(x) /\ d[1] \in changed[x]
    BY <2>3, <2>4 DEF Covered
  <2>5. CASE d[2] = Scheduled
    BY <1>1, <2>2, <2>5 DEF Covered
  <2> QED
    BY <1>1, <2>1, <2>4, <2>5 DEF Covered
<1> QED
  BY <1>2, <1>3, <1>4, <1>5, <1>6 DEF IInv

LEMMA InvalidateInv ==
    ASSUME IInv, TypeOK', NEW r \in Refreshers, InvalidateTrips(r)
    PROVE  IInv'
<1> USE DEF InvalidateTrips, storeVars, queryVars
<1>1. ~Quiet /\ Updated' = Updated /\ \A t \in Trips : Current(t)' = Current(t)
  BY DEF Quiet, InProgress, IInv, TypeOK, Updated, Current
<1>2. cache' \subseteq {p \in cache : BloomTrips(p) \intersect changed[r] = {}}
  OBVIOUS
<1>3. BloomsMatch'
  BY <1>2 DEF IInv, BloomsMatch, AllPoints
<1>4. JourneysMatch'
  BY DEF IInv, JourneysMatch, JourneyMatchesSeen
<1>5. PendingClean'
  BY <1>1 DEF IInv, PendingClean
<1>6. QueriesClean'
  BY <1>1 DEF IInv, QueriesClean, CleanQuery
<1>7. CacheCovered'
  <2> SUFFICES ASSUME NEW p \in cache', p.clean, NEW d \in p.basis
               PROVE  Covered(d)'
    BY DEF CacheCovered
  <2>1. Covered(d) /\ d[1] \in Trips
    BY <1>2 DEF IInv, CacheCovered, TypeOK, Points
  <2>2. d[1] \notin changed[r]
    BY <1>2, <2>1 DEF IInv, BloomsMatch, AllPoints, BloomMatchesBasis
  <2>3. \A x \in Refreshers \ {r} : pc'[x] = pc[x] /\ changed'[x] = changed[x]
    BY DEF IInv, TypeOK
  <2>4. CASE \E x \in Refreshers : InProgress(x) /\ d[1] \in changed[x]
    BY <2>2, <2>3, <2>4 DEF Covered, InProgress
  <2>5. CASE d[1] \in Updated /\ \E x \in Refreshers : InProgress(x) /\ pc[x] # "invalidate"
    <3>1. PICK x \in Refreshers \ {r} : InProgress(x) /\ pc[x] # "invalidate"
      BY <2>5
    <3>2. InProgress(x)' /\ pc'[x] # "invalidate" /\ ~Quiet'
      BY <2>3, <3>1 DEF InProgress, Quiet
    <3>3. CASE d[2] = Scheduled
      BY <3>2, <3>3 DEF Covered
    <3> QED
      BY <1>1, <2>1, <2>4, <3>3 DEF Covered
  <2>6. CASE d[1] \notin Updated /\ d[2] = Scheduled
    BY <1>1, <2>1, <2>6 DEF Covered, Updated, Current
  <2> QED
    BY <1>1, <2>1, <2>4, <2>5, <2>6 DEF Covered
<1> QED
  BY <1>3, <1>4, <1>5, <1>6, <1>7 DEF IInv

LEMMA RefreshInv ==
    ASSUME IInv, TypeOK', NEW r \in Refreshers, RefreshStep(r)
    PROVE  IInv'
<1> USE DEF storeVars, queryVars, InProgress
<1>1. pc \in [Refreshers -> {"idle", "clearDeltas", "clearCanceled", "fetch", "insert", "invalidate"}]
  BY DEF IInv, TypeOK
<1>2. CASE ClearDeltas(r)
  BY <1>1, <1>2, BusyStep DEF ClearDeltas
<1>3. CASE ClearCanceled(r)
  BY <1>1, <1>3, BusyStep DEF ClearCanceled
<1>4. CASE FetchTripUpdates(r)
  BY <1>1, <1>4, BusyStep DEF FetchTripUpdates
<1>5. CASE FetchFails(r)
  BY <1>1, <1>5, BusyStep DEF FetchFails
<1>6. CASE InsertEntity(r)
  BY <1>1, <1>6, BusyStep DEF InsertEntity
<1>7. CASE FeedDone(r)
  BY <1>1, <1>7, BusyStep DEF FeedDone
<1> QED
  BY <1>2, <1>3, <1>4, <1>5, <1>6, <1>7, BeginInv, CollectInv, InvalidateInv DEF RefreshStep

\* A step of a query leaves the store and the refreshers alone, so it keeps
\* what was covered covered and what was clean clean.
LEMMA StoreUnchanged ==
    ASSUME UNCHANGED storeVars, UNCHANGED refreshVars
    PROVE  /\ Quiet' <=> Quiet
           /\ Updated' = Updated
           /\ \A t : Current(t)' = Current(t)
           /\ \A d : Covered(d)' <=> Covered(d)
<1> USE DEF storeVars, refreshVars
<1>1. /\ Quiet' <=> Quiet
      /\ Updated' = Updated
      /\ \A t : Current(t)' = Current(t)
  BY DEF Quiet, InProgress, Updated, Current
<1> QED
  BY <1>1 DEF Covered, InProgress

LEMMA OtherQueries ==
    ASSUME IInv, TypeOK', NEW q \in Queries,
           UNCHANGED storeVars, UNCHANGED refreshVars,
           \A o \in Queries \ {q} :
               /\ queryPc'[o] = queryPc[o]
               /\ journey'[o] = journey[o]
               /\ seen'[o] = seen[o]
               /\ updatedMask'[o] = updatedMask[o]
               /\ available'[o] = available[o]
               /\ o \in overlapped' <=> o \in overlapped,
           JourneyMatchesSeen(q)',
           queryPc'[q] = "idle" => seen'[q] = {},
           queryPc'[q] # "idle" /\ q \notin overlapped' => CleanQuery(q)'
    PROVE  JourneysMatch' /\ QueriesClean'
<1>1. JourneysMatch'
  BY DEF IInv, JourneysMatch, JourneyMatchesSeen
<1>2. QueriesClean'
  <2> SUFFICES ASSUME NEW o \in Queries \ {q}, queryPc'[o] # "idle", o \notin overlapped'
               PROVE  CleanQuery(o)'
    BY DEF QueriesClean
  <2>1. CleanQuery(o)
    BY DEF IInv, QueriesClean
  <2> QED
    BY <2>1, StoreUnchanged DEF CleanQuery, Fresh, storeVars
<1> QED
  BY <1>1, <1>2

\* When the cache and the pending insertions stay too, the rest follows.
LEMMA SamePoints ==
    ASSUME IInv, UNCHANGED storeVars, UNCHANGED refreshVars, UNCHANGED <<pending, cache>>
    PROVE  BloomsMatch' /\ PendingClean' /\ CacheCovered'
<1>1. BloomsMatch'
  BY DEF IInv, BloomsMatch, AllPoints
<1>2. PendingClean'
  BY StoreUnchanged DEF IInv, PendingClean, Fresh
<1>3. CacheCovered'
  BY StoreUnchanged DEF IInv, CacheCovered
<1> QED
  BY <1>1, <1>2, <1>3

LEMMA StartInv ==
    ASSUME IInv, TypeOK', NEW q \in Queries, StartQuery(q)
    PROVE  IInv'
<1> USE DEF StartQuery
<1>1. JourneyMatchesSeen(q)' /\ seen[q] = {} /\ queryPc'[q] = "searching"
  BY DEF IInv, JourneysMatch, JourneyMatchesSeen, TypeOK
<1>2. q \notin overlapped' => CleanQuery(q)'
  <2> SUFFICES ASSUME q \notin overlapped' PROVE CleanQuery(q)'
    OBVIOUS
  <2>1. Quiet
    OBVIOUS
  <2>2. updatedMask'[q] = Updated /\ available'[q] = Trips \ canceledTrips
    BY DEF IInv, TypeOK
  <2> QED
    BY <1>1, <2>1, <2>2, StoreUnchanged DEF CleanQuery, Fresh, storeVars
<1>3. JourneysMatch' /\ QueriesClean'
  <2>1. \A o \in Queries \ {q} :
               /\ queryPc'[o] = queryPc[o]
               /\ updatedMask'[o] = updatedMask[o]
               /\ available'[o] = available[o]
               /\ o \in overlapped' <=> o \in overlapped
    BY DEF IInv, TypeOK
  <2> QED
    BY <1>1, <1>2, <2>1, OtherQueries
<1> QED
  BY <1>3, SamePoints DEF IInv

LEMMA BoardInv ==
    ASSUME IInv, TypeOK', NEW q \in Queries, NEW t \in Trips, BoardTrip(q, t)
    PROVE  IInv'
<1> USE DEF BoardTrip
<1> DEFINE reading == <<t, IF t \in updatedMask[q] THEN stopDeltas[t] ELSE Scheduled>>
<1>1. /\ journey'[q] = Append(journey[q], t)
      /\ seen'[q] = seen[q] \union {reading}
      /\ journey[q] \in Seq(Trips)
  BY DEF IInv, TypeOK
<1>2. JourneyMatchesSeen(q)'
  <2>1. JourneyMatchesSeen(q)
    BY DEF IInv, JourneysMatch
  <2>2. \A u \in Trips : (\E i \in DOMAIN journey'[q] : journey'[q][i] = u)
                           <=> (u = t \/ \E i \in DOMAIN journey[q] : journey[q][i] = u)
    BY <1>1
  <2>3. \A u \in Trips : (\E d \in seen'[q] : d[1] = u) <=> (u = t \/ \E d \in seen[q] : d[1] = u)
    <3>1. reading[1] = t
      OBVIOUS
    <3> HIDE DEF reading
    <3> QED
      BY <1>1, <3>1
  <2> QED
    BY <2>1, <2>2, <2>3 DEF JourneyMatchesSeen
<1>3. q \notin overlapped' => CleanQuery(q)'
  <2> SUFFICES ASSUME q \notin overlapped PROVE CleanQuery(q)'
    OBVIOUS
  <2>1. CleanQuery(q)
    BY DEF IInv, QueriesClean
  <2>2. reading[1] = t /\ reading[2] = Current(t)
    BY <2>1 DEF CleanQuery, Current, Updated
  <2>3. Fresh(seen'[q])
    BY <1>1, <2>1, <2>2 DEF CleanQuery, Fresh
  <2> QED
    BY <2>1, <2>3, StoreUnchanged DEF CleanQuery, Fresh, storeVars
<1>4. JourneysMatch' /\ QueriesClean'
  <2>1. \A o \in Queries \ {q} : journey'[o] = journey[o] /\ seen'[o] = seen[o]
    BY DEF IInv, TypeOK
  <2> QED
    BY <1>2, <1>3, <2>1, OtherQueries
<1> QED
  BY <1>4, SamePoints DEF IInv

\* A journey continued by another rides the trips of both.
Rides(legs, u) == \E i \in DOMAIN legs : legs[i] = u

LEMMA ConcatElements ==
    ASSUME NEW a \in Seq(Trips), NEW b \in Seq(Trips), NEW u \in Trips
    PROVE  Rides(a \o b, u) <=> Rides(a, u) \/ Rides(b, u)
<1> DEFINE m == Len(a)
           n == Len(b)
           c == a \o b
<1>1. /\ m \in Nat /\ n \in Nat
      /\ DOMAIN a = 1..m /\ DOMAIN b = 1..n /\ DOMAIN c = 1..(m + n)
      /\ \A i \in 1..(m + n) : c[i] = IF i <= m THEN a[i] ELSE b[i - m]
  BY ConcatProperties
<1> HIDE DEF m, n, c
<1>2. ASSUME NEW i \in DOMAIN c, c[i] = u
      PROVE  (\E j \in DOMAIN a : a[j] = u) \/ (\E j \in DOMAIN b : b[j] = u)
  <2>1. CASE i <= m
    BY <1>1, <1>2, <2>1
  <2>2. CASE i > m
    <3>1. i - m \in DOMAIN b /\ b[i - m] = u
      BY <1>1, <1>2, <2>2
    <3> QED
      BY <3>1
  <2> QED
    BY <1>1, <2>1, <2>2
<1>3. ASSUME NEW j \in DOMAIN a, a[j] = u PROVE \E i \in DOMAIN c : c[i] = u
  BY <1>1, <1>3
<1>4. ASSUME NEW j \in DOMAIN b, b[j] = u PROVE \E i \in DOMAIN c : c[i] = u
  <2>1. m + j \in DOMAIN c /\ c[m + j] = u
    BY <1>1, <1>4
  <2> QED
    BY <2>1
<1> QED
  BY <1>2, <1>3, <1>4 DEF c, Rides

LEMMA RecallInv ==
    ASSUME IInv, TypeOK', NEW q \in Queries, RecallProfile(q)
    PROVE  IInv'
<1> USE DEF RecallProfile
<1>1. PICK p \in cache :
        /\ journey' = [journey EXCEPT ![q] = @ \o p.legs]
        /\ seen' = [seen EXCEPT ![q] = @ \union p.basis]
        /\ overlapped' = IF p.clean THEN overlapped ELSE overlapped \union {q}
  OBVIOUS
<1>2. /\ journey'[q] = journey[q] \o p.legs
      /\ seen'[q] = seen[q] \union p.basis
      /\ journey[q] \in Seq(Trips)
      /\ p.legs \in Seq(Trips)
      /\ queryPc'[q] = "arrived"
  BY <1>1 DEF IInv, TypeOK, Points
<1>3. JourneyMatchesSeen(q)'
  <2>1. JourneyMatchesSeen(q) /\ BloomMatchesBasis(p)
    BY DEF IInv, JourneysMatch, BloomsMatch, AllPoints
  <2>2. \A u \in Trips : (\E i \in DOMAIN journey'[q] : journey'[q][i] = u)
                <=> \/ \E i \in DOMAIN journey[q] : journey[q][i] = u
                    \/ \E i \in DOMAIN p.legs : p.legs[i] = u
    <3>1. journey[q] \in Seq(Trips) /\ p.legs \in Seq(Trips)
      BY <1>2
    <3> DEFINE a == journey[q]
               b == p.legs
    <3>2. \A u \in Trips : Rides(a \o b, u) <=> Rides(a, u) \/ Rides(b, u)
      BY <3>1, ConcatElements
    <3>3. journey'[q] = a \o b
      BY <1>2
    <3> HIDE DEF a, b
    <3> QED
      BY <3>2, <3>3 DEF a, b, Rides
  <2>3. \A u \in Trips : (\E i \in DOMAIN p.legs : p.legs[i] = u) <=> \E d \in p.basis : d[1] = u
    BY <2>1 DEF BloomMatchesBasis, BloomTrips
  <2> QED
    BY <1>2, <2>1, <2>2, <2>3 DEF JourneyMatchesSeen
<1>4. q \notin overlapped' => CleanQuery(q)'
  <2> SUFFICES ASSUME q \notin overlapped' PROVE CleanQuery(q)'
    OBVIOUS
  <2>1. p.clean /\ q \notin overlapped
    BY <1>1
  <2>2. CleanQuery(q)
    BY <2>1 DEF IInv, QueriesClean
  <2>3. \A d \in p.basis : d[2] = Current(d[1])
    BY <2>1, <2>2 DEF IInv, CacheCovered, Covered, CleanQuery, Quiet
  <2>4. Fresh(seen'[q])
    BY <1>2, <2>2, <2>3 DEF CleanQuery, Fresh
  <2> QED
    BY <2>2, <2>4, StoreUnchanged DEF CleanQuery, Fresh, storeVars
<1>5. JourneysMatch' /\ QueriesClean'
  <2>1. \A o \in Queries \ {q} :
            /\ queryPc'[o] = queryPc[o]
            /\ journey'[o] = journey[o]
            /\ seen'[o] = seen[o]
            /\ o \in overlapped' <=> o \in overlapped
    BY <1>1 DEF IInv, TypeOK
  <2> QED
    BY <1>2, <1>3, <1>4, <2>1, OtherQueries
<1> QED
  BY <1>5, SamePoints DEF IInv

LEMMA AbandonInv ==
    ASSUME IInv, TypeOK', NEW q \in Queries, AbandonQuery(q)
    PROVE  IInv'
<1> USE DEF AbandonQuery
<1>1. queryPc'[q] = "idle" /\ journey'[q] = <<>> /\ seen'[q] = {}
  BY DEF IInv, TypeOK
<1>2. JourneyMatchesSeen(q)'
  BY <1>1 DEF JourneyMatchesSeen
<1>3. JourneysMatch' /\ QueriesClean'
  <2>1. \A o \in Queries \ {q} :
               /\ queryPc'[o] = queryPc[o]
               /\ journey'[o] = journey[o]
               /\ seen'[o] = seen[o]
               /\ updatedMask'[o] = updatedMask[o]
               /\ available'[o] = available[o]
    BY DEF IInv, TypeOK
  <2> QED
    BY <1>1, <1>2, <2>1, OtherQueries
<1> QED
  BY <1>3, SamePoints DEF IInv

\* Every point of a batch of q matches its bloom filter, and is current when
\* it is clean.
LEMMA BatchPoints ==
    ASSUME IInv, NEW q \in Queries, queryPc[q] # "idle", NEW k \in 0..Len(journey[q]),
           NEW p \in BatchOf(q, seen[q] \union {<<journey[q][i], stopDeltas[journey[q][i]]>> :
                                                i \in 1..Len(journey[q])}, k)
    PROVE  BloomMatchesBasis(p) /\ (p.clean => Quiet /\ Fresh(p.basis))
<1> DEFINE readings == seen[q] \union {<<journey[q][i], stopDeltas[journey[q][i]]>> :
                                        i \in 1..Len(journey[q])}
<1>1. journey[q] \in Seq(Trips) /\ seen[q] \in SUBSET Readings
  BY DEF IInv, TypeOK
<1>2. \A i \in 1..Len(journey[q]) : journey[q][i] \in Trips
  BY <1>1
<1>3. readings \in SUBSET Readings
  BY <1>1, <1>2 DEF IInv, TypeOK
<1>4. \A j \in DOMAIN journey[q] : \E d \in readings : d[1] = journey[q][j]
  <2> SUFFICES ASSUME NEW j \in DOMAIN journey[q]
               PROVE  \E d \in readings : d[1] = journey[q][j]
    OBVIOUS
  <2>1. <<journey[q][j], stopDeltas[journey[q][j]]>> \in readings
    BY <1>1
  <2> QED
    BY <2>1
<1>5. PICK i \in 1..k : p = PointOf(journey[q], readings, i, k, q \notin overlapped)
  <2> HIDE DEF readings
  <2> QED
    BY DEF BatchOf, readings
<1>6. (q \notin overlapped) \in BOOLEAN
  OBVIOUS
<1>7. BloomMatchesBasis(p)
  <2> HIDE DEF readings
  <2> QED
    BY <1>1, <1>3, <1>4, <1>5, <1>6, PointOfMatches
<1>8. p.basis \subseteq readings /\ p.clean = (q \notin overlapped)
  <2> HIDE DEF readings
  <2> QED
    BY <1>5 DEF PointOf
<1>9. ASSUME p.clean PROVE Quiet /\ Fresh(p.basis)
  <2>1. CleanQuery(q)
    BY <1>8, <1>9 DEF IInv, QueriesClean
  <2>2. ASSUME NEW j \in 1..Len(journey[q])
        PROVE  stopDeltas[journey[q][j]] = Current(journey[q][j])
    <3>1. PICK d \in seen[q] : d[1] = journey[q][j]
      BY <1>1, <1>2 DEF IInv, JourneysMatch, JourneyMatchesSeen
    <3>2. d[2] = Current(journey[q][j]) /\ d[2] # Canceled
      BY <1>1, <2>1, <3>1, ValuesAssumption DEF CleanQuery, Fresh
    <3> QED
      BY <3>2 DEF Current
  <2>3. Fresh(readings)
    BY <2>1, <2>2 DEF CleanQuery, Fresh
  <2> QED
    BY <1>8, <2>1, <2>3 DEF CleanQuery, Fresh
<1> QED
  BY <1>7, <1>9

LEMMA FinishInv ==
    ASSUME IInv, TypeOK', NEW q \in Queries, FinishQuery(q)
    PROVE  IInv'
<1> DEFINE last == Len(journey[q])
           readings == seen[q] \union {<<journey[q][i], stopDeltas[journey[q][i]]>> : i \in 1..last}
<1>1. PICK boundary \in 0..last :
            pending' = pending \union {BatchOf(q, readings, last)} \union
                        (IF boundary = 0 THEN {} ELSE {BatchOf(q, readings, boundary)})
  BY DEF FinishQuery
<1>2. last \in 0..last /\ queryPc[q] # "idle"
  BY DEF IInv, TypeOK, FinishQuery
<1>3. \A p \in BatchOf(q, readings, last) \union BatchOf(q, readings, boundary) :
         BloomMatchesBasis(p) /\ (p.clean => Quiet /\ Fresh(p.basis))
  BY <1>2, BatchPoints
<1>4. \A p \in UNION pending' : \/ p \in UNION pending
                                 \/ p \in BatchOf(q, readings, last) \union BatchOf(q, readings, boundary)
  <2> HIDE DEF readings
  <2> QED
    BY <1>1
<1> HIDE DEF readings
<1>5. UNCHANGED storeVars /\ UNCHANGED refreshVars /\ UNCHANGED <<cache, overlapped>>
  BY DEF FinishQuery
<1>6. BloomsMatch'
  BY <1>3, <1>4, <1>5 DEF IInv, BloomsMatch, AllPoints
<1>7. PendingClean'
  BY <1>3, <1>4, <1>5, StoreUnchanged DEF IInv, PendingClean, Fresh
<1>8. CacheCovered'
  BY <1>5, StoreUnchanged DEF IInv, CacheCovered
<1>9. JourneysMatch' /\ QueriesClean'
  <2>1. queryPc'[q] = "idle" /\ journey'[q] = <<>> /\ seen'[q] = {}
    BY DEF IInv, TypeOK, FinishQuery
  <2>2. JourneyMatchesSeen(q)'
    BY <2>1 DEF JourneyMatchesSeen
  <2>3. \A o \in Queries \ {q} :
               /\ queryPc'[o] = queryPc[o]
               /\ journey'[o] = journey[o]
               /\ seen'[o] = seen[o]
               /\ updatedMask'[o] = updatedMask[o]
               /\ available'[o] = available[o]
    BY DEF IInv, TypeOK, FinishQuery
  <2> QED
    BY <1>5, <2>1, <2>2, <2>3, OtherQueries
<1> QED
  BY <1>6, <1>7, <1>8, <1>9 DEF IInv

LEMMA InsertBatchInv ==
    ASSUME IInv, TypeOK', InsertBatch
    PROVE  IInv'
<1> USE DEF InsertBatch
<1>1. PICK batch \in pending : pending' = pending \ {batch} /\ cache' \subseteq cache \union batch
  OBVIOUS
<1>2. UNCHANGED storeVars /\ UNCHANGED refreshVars /\ UNCHANGED queryVars /\ UNCHANGED overlapped
  OBVIOUS
<1>3. BloomsMatch'
  BY <1>1 DEF IInv, BloomsMatch, AllPoints
<1>4. JourneysMatch'
  BY <1>2 DEF IInv, JourneysMatch, JourneyMatchesSeen, queryVars
<1>5. PendingClean'
  BY <1>1, <1>2, StoreUnchanged DEF IInv, PendingClean, Fresh
<1>6. QueriesClean'
  BY <1>2, StoreUnchanged DEF IInv, QueriesClean, CleanQuery, Fresh, queryVars, storeVars
<1>7. CacheCovered'
  <2> SUFFICES ASSUME NEW p \in cache', p.clean, NEW d \in p.basis
               PROVE  Covered(d)
    BY <1>2, StoreUnchanged DEF CacheCovered
  <2>1. CASE p \in cache
    BY <2>1 DEF IInv, CacheCovered
  <2>2. CASE p \in batch
    BY <2>2 DEF IInv, PendingClean, Fresh, Covered
  <2> QED
    BY <1>1, <2>1, <2>2
<1> QED
  BY <1>3, <1>4, <1>5, <1>6, <1>7 DEF IInv

LEMMA StepInv == IInv /\ [Next]_vars => IInv'
<1> SUFFICES ASSUME IInv, [Next]_vars PROVE IInv'
  OBVIOUS
<1>1. TypeOK'
  BY StepType DEF IInv
<1>2. CASE \E r \in Refreshers : RefreshStep(r)
  BY <1>1, <1>2, RefreshInv
<1>3. CASE \E q \in Queries : QueryStep(q)
  BY <1>1, <1>3, StartInv, BoardInv, RecallInv, FinishInv, AbandonInv DEF QueryStep
<1>4. CASE InsertBatch
  BY <1>1, <1>4, InsertBatchInv
<1>5. CASE UNCHANGED vars
  <2>1. UNCHANGED storeVars /\ UNCHANGED refreshVars /\ UNCHANGED queryVars
        /\ UNCHANGED <<pending, cache, overlapped>>
    BY <1>5 DEF vars
  <2>2. JourneysMatch'
    BY <2>1 DEF IInv, JourneysMatch, JourneyMatchesSeen, queryVars
  <2>3. QueriesClean'
    BY <2>1, StoreUnchanged DEF IInv, QueriesClean, CleanQuery, Fresh, queryVars, storeVars
  <2> QED
    BY <1>1, <2>1, <2>2, <2>3, SamePoints DEF IInv
<1> QED
  BY <1>2, <1>3, <1>4, <1>5 DEF Next

LEMMA InvFresh == IInv => CleanPointsFresh
  BY DEF IInv, CacheCovered, Covered, CleanPointsFresh, Fresh, Quiet

\* Whatever the trips, the feeds, the overlap of refreshes and the order in
\* which spawned insertions run: with no refresh running, a profile point that
\* no refresh overtook shows every trip as the store does.
THEOREM CleanFresh == Spec => []CleanPointsFresh
<1>1. Init => IInv
  BY InitInv
<1>2. IInv /\ [Next]_vars => IInv'
  BY StepInv
<1> QED
  BY <1>1, <1>2, InvFresh, PTL DEF Spec
============================================================================

-------------------------- MODULE Handlers_proofs --------------------------
(***************************************************************************)
(* Proofs about three handlers of requests and messages.                   *)
(*                                                                         *)
(* What the messages of a feed make of a trip (TripUpdates), for any trip, *)
(* entities and order of them.  The loop over the positions is a recursive *)
(* function: that it exists, and what it holds at each position, is shown  *)
(* by the least position at which it would not.                            *)
(*                                                                         *)
(* The bracket of an arrive-by query (ArriveBy): what it answers is the    *)
(* latest departure but for the tolerance, and it gives up for a reason,   *)
(* for every target, look-back, tolerance and timetable.                   *)
(*                                                                         *)
(* The street router (StreetSearch).  On every map, with every overlay, a  *)
(* route found is rebuilt whole and is no longer than the cost found:      *)
(* every label but those of the two ends has an edge to it from a node     *)
(* whose label leaves room for the edge, however labels have gone down     *)
(* since.  The cost found is the least there is: Costs is the least        *)
(* solution of its equations, which takes an argument on the number of     *)
(* nodes whose costs are final; the rest is an invariant of the search: no *)
(* label is less than a route costs, and edges from nodes whose entries    *)
(* were taken were taken, by either end.  And of the ways the diffs told   *)
(* the edges searched are those OSM has, by an induction over the elements *)
(* of a diff.                                                              *)
(***************************************************************************)
EXTENDS TripUpdates, StreetSearch, ArriveBy, WellFoundedInduction, FiniteSetTheorems, TLAPS

-----------------------------------------------------------------------------
(* Sets of numbers, and induction over an interval                         *)

LEMMA LeastOf ==
    ASSUME NEW S \in SUBSET Nat, S # {}
    PROVE  Min(S) \in S /\ \A y \in S : Min(S) <= y
<1>1. PICK m \in S : \A y \in S : <<y, m>> \notin OpToRel(<, Nat)
      BY NatLessThanWellFounded, WFMin
<1>2. \A y \in S : m <= y
  <2>1. SUFFICES ASSUME NEW y \in S, y < m PROVE FALSE
        OBVIOUS
  <2>2. <<y, m>> \in Nat \X Nat
        OBVIOUS
  <2> QED BY <1>1, <2>1, <2>2 DEF OpToRel
<1> QED BY <1>2 DEF Min

LEMMA GreatestOf ==
    ASSUME NEW N \in Nat, NEW S \in SUBSET (0..N), S # {}
    PROVE  Max(S) \in S /\ \A y \in S : Max(S) >= y
<1> DEFINE T == {N - x : x \in S}
<1>1. T \in SUBSET Nat /\ T # {}
  <2>1. PICK x \in S : TRUE
        OBVIOUS
  <2>2. N - x \in T
        OBVIOUS
  <2>3. \A y \in 0..N : N - y \in Nat
        OBVIOUS
  <2> QED BY <2>2, <2>3
<1>2. Min(T) \in T /\ \A y \in T : Min(T) <= y
  <2> HIDE DEF T
  <2> QED BY <1>1, LeastOf
<1>3. PICK x \in S : Min(T) = N - x
      BY <1>2
<1>4. ASSUME NEW y \in S PROVE x >= y
  <2>1. N - y \in T /\ x \in 0..N /\ y \in 0..N
        OBVIOUS
  <2>2. N - x <= N - y
        BY <1>2, <1>3, <2>1
  <2> QED BY <2>1, <2>2
<1> QED BY <1>4 DEF Max

LEMMA UpTo ==
    ASSUME NEW N \in Nat, NEW S, 0 \in S, \A p \in 1..N : p - 1 \in S => p \in S
    PROVE  0..N \subseteq S
<1> DEFINE T == (0..N) \ S
<1>1. SUFFICES ASSUME T # {} PROVE FALSE
      OBVIOUS
<1>2. T \in SUBSET Nat
      OBVIOUS
<1>3. Min(T) \in T /\ \A y \in T : Min(T) <= y
  <2> HIDE DEF T
  <2> QED BY <1>1, <1>2, LeastOf
<1> QED BY <1>3

\* A function defined from each number to the next exists.
LEMMA StepByStep ==
    ASSUME NEW N \in Nat, NEW S, NEW s0 \in S, NEW g \in [S -> S]
    PROVE  \E f \in [0..N -> S] : f[0] = s0 /\ \A p \in 1..N : f[p] = g[f[p - 1]]
<1> DEFINE Good(n, f) == f[0] = s0 /\ \A p \in 1..n : f[p] = g[f[p - 1]]
           T == {n \in 0..N : \E f \in [0..n -> S] : Good(n, f)}
<1>1. 0 \in T
  <2> DEFINE f == [p \in 0..0 |-> s0]
  <2>1. f \in [0..0 -> S] /\ Good(0, f)
        OBVIOUS
  <2> HIDE DEF f
  <2> QED BY <2>1
<1>2. ASSUME NEW n \in 1..N, n - 1 \in T PROVE n \in T
  <2>1. PICK f \in [0..(n - 1) -> S] : Good(n - 1, f)
        BY <1>2
  <2> DEFINE h == [p \in 0..n |-> IF p = n THEN g[f[n - 1]] ELSE f[p]]
  <2>2. n - 1 \in 0..(n - 1) /\ \A p \in 0..n : p # n => p \in 0..(n - 1)
        OBVIOUS
  <2>3. h \in [0..n -> S]
        BY <2>2
  <2>4. h[0] = s0
        BY <2>1
  <2>5. ASSUME NEW p \in 1..n PROVE h[p] = g[h[p - 1]]
    <3>1. h[p - 1] = f[p - 1]
          OBVIOUS
    <3>2. CASE p = n
          BY <3>1, <3>2
    <3>3. CASE p # n
          BY <2>1, <3>1, <3>3
    <3> QED BY <3>2, <3>3
  <2> HIDE DEF h
  <2> QED BY <2>3, <2>4, <2>5
<1>3. 0..N \subseteq T
  <2> HIDE DEF T
  <2> QED BY <1>1, <1>2, UpTo
<1> QED BY <1>3

\* A function defined from each number, and the next, to that exists.
LEMMA StepByStepOf ==
    ASSUME NEW N \in Nat, NEW S, NEW s0 \in S, NEW g \in [S \X (1..N) -> S]
    PROVE  \E f \in [0..N -> S] : f[0] = s0 /\ \A p \in 1..N : f[p] = g[<<f[p - 1], p>>]
<1> DEFINE Good(n, f) == f[0] = s0 /\ \A p \in 1..n : f[p] = g[<<f[p - 1], p>>]
           T == {n \in 0..N : \E f \in [0..n -> S] : Good(n, f)}
<1>1. 0 \in T
  <2> DEFINE f == [p \in 0..0 |-> s0]
  <2>1. f \in [0..0 -> S] /\ Good(0, f)
        OBVIOUS
  <2> HIDE DEF f
  <2> QED BY <2>1
<1>2. ASSUME NEW n \in 1..N, n - 1 \in T PROVE n \in T
  <2>1. PICK f \in [0..(n - 1) -> S] : Good(n - 1, f)
        BY <1>2
  <2> DEFINE h == [p \in 0..n |-> IF p = n THEN g[<<f[n - 1], n>>] ELSE f[p]]
  <2>2. n - 1 \in 0..(n - 1) /\ \A p \in 0..n : p # n => p \in 0..(n - 1)
        OBVIOUS
  <2>3. g[<<f[n - 1], n>>] \in S
        BY <2>2
  <2>4. h \in [0..n -> S]
        BY <2>2, <2>3
  <2>5. h[0] = s0
        BY <2>1
  <2>6. ASSUME NEW p \in 1..n PROVE h[p] = g[<<h[p - 1], p>>]
    <3>1. h[p - 1] = f[p - 1]
          OBVIOUS
    <3>2. CASE p = n
          BY <3>1, <3>2
    <3>3. CASE p # n
          BY <2>1, <3>1, <3>3
    <3> QED BY <3>2, <3>3
  <2> HIDE DEF h
  <2> QED BY <2>4, <2>5, <2>6
<1>3. 0..N \subseteq T
  <2> HIDE DEF T
  <2> QED BY <1>1, <1>2, UpTo
<1> QED BY <1>3
-----------------------------------------------------------------------------
(* One entity                                                              *)

LEMMA PositionKnown ==
    ASSUME NEW u PROVE PositionOf(u) \in Positions \union {None}
<1> DEFINE T == {p \in Positions : Calls[p] = u.stop}
<1>1. T \in SUBSET Nat
      BY EntitiesAssumption DEF Positions
<1>2. T # {} => Min(T) \in T
  <2> HIDE DEF T
  <2> QED BY <1>1, LeastOf
<1> QED BY <1>2 DEF PositionOf

\* The loop over the positions is what its recursive definition says.
LEMMA CarriedSteps ==
    ASSUME NEW e \in Entities
    PROVE  /\ Carried(e)[0] = Unmet(e)
           /\ \A p \in Positions : Carried(e)[p] = Visit(e, Carried(e)[p - 1], p)
<1> DEFINE N == Len(Calls)
           updates == e.updates
           Met == DOMAIN updates \union {Awaited(updates, left) : left \in SUBSET DOMAIN updates}
           D == {Sane(e.delay)} \union {Sane(updates[k].arrival) : k \in Met}
                                \union {Sane(updates[k].departure) : k \in Met}
           S == [arrival : D, departure : D, left : SUBSET DOMAIN updates, met : Met \union {None}]
           g == [x \in S \X (1..N) |-> Visit(e, x[1], x[2])]
<1>1. N \in Nat /\ Positions = 1..N
      BY EntitiesAssumption DEF Positions
<1>2. Unmet(e) \in S
      BY DEF Unmet, Placed
<1>3. ASSUME NEW c \in S, NEW p PROVE Visit(e, c, p) \in S
  <2> DEFINE k == Awaited(updates, c.left)
  <2>1. k \in Met /\ c.left \in SUBSET DOMAIN updates
        OBVIOUS
  <2>2. /\ Sane(updates[k].arrival) \in D /\ Sane(updates[k].departure) \in D
        /\ c.arrival \in D /\ c.departure \in D
        BY <2>1
  <2> HIDE DEF k, Met, D
  <2>3. [c EXCEPT !.met = None] \in S
        OBVIOUS
  <2>4. [arrival |-> Given(updates[k].arrival, c.arrival),
         departure |-> Given(updates[k].departure, c.departure),
         left |-> c.left \ {k}, met |-> k] \in S
        BY <2>1, <2>2 DEF Given
  <2> QED BY <2>3, <2>4 DEF Visit, k
<1>4. g \in [S \X (1..N) -> S]
  <2> HIDE DEF S
  <2> QED BY <1>3
<1>5. PICK f \in [0..N -> S] :
        f[0] = Unmet(e) /\ \A p \in 1..N : f[p] = g[<<f[p - 1], p>>]
  <2> HIDE DEF N, S, g
  <2>1. \E f \in [0..N -> S] : f[0] = Unmet(e) /\ \A p \in 1..N : f[p] = g[<<f[p - 1], p>>]
        BY <1>1, <1>2, <1>4, StepByStepOf
  <2> QED BY <2>1
<1>6. f = [p \in 0..N |-> IF p = 0 THEN Unmet(e) ELSE Visit(e, f[p - 1], p)]
  <2> HIDE DEF S
  <2>1. \A p \in 0..N : p # 0 => f[p - 1] \in S /\ p \in 1..N
        BY <1>1
  <2> QED BY <1>5, <2>1
<1> HIDE DEF S
<1>7. Carried(e) = [p \in 0..N |-> IF p = 0 THEN Unmet(e) ELSE Visit(e, Carried(e)[p - 1], p)]
      BY <1>6 DEF Carried
<1> QED BY <1>1, <1>7

\* Updates of different positions come in the order of these.
LEMMA AwaitedIsNext ==
    ASSUME NEW e \in Entities, Distinct(e), NEW left \in SUBSET Placed(e.updates), left # {}
    PROVE  LET k == Awaited(e.updates, left)
           IN  k \in left /\ \A j \in left : PositionOf(e.updates[k]) <= PositionOf(e.updates[j])
<1> DEFINE Pos(k) == PositionOf(e.updates[k])
           T == {Pos(k) : k \in left}
<1>1. \A k \in left : Pos(k) \in Nat /\ k \in DOMAIN e.updates /\ k \in Nat
      BY PositionKnown, EntitiesAssumption DEF Placed, Positions
<1>2. T \in SUBSET Nat /\ T # {}
      BY <1>1
<1>3. Min(T) \in T /\ \A y \in T : Min(T) <= y
  <2> HIDE DEF T
  <2> QED BY <1>2, LeastOf
<1>4. PICK k \in left : Pos(k) = Min(T)
      BY <1>3
<1>5. \A j \in left : Pos(k) <= Pos(j)
      BY <1>3, <1>4
<1>6. \A j \in left : Pos(j) = Pos(k) => j = k
      BY <1>1, EntitiesAssumption DEF Distinct
<1>7. \A j \in left : Pos(k) < Pos(j) \/ (Pos(k) = Pos(j) /\ k <= j)
      BY <1>1, <1>5, <1>6
<1>8. PICK n : n = Awaited(e.updates, left)
      OBVIOUS
<1>9. n \in left /\ \A j \in left : Pos(n) < Pos(j) \/ (Pos(n) = Pos(j) /\ n <= j)
      BY <1>7, <1>8 DEF Awaited
<1> QED BY <1>1, <1>8, <1>9

\* What is said of a position is what an update of it gives, or what is said of
\* the position before.
LEMMA SaidNext ==
    ASSUME NEW e \in Entities, Distinct(e), NEW field, NEW p \in Positions
    PROVE  /\ UpdatesAt(e, p) = {} => Said(e, field, p) = Said(e, field, p - 1)
           /\ \A k \in UpdatesAt(e, p) :
                  Said(e, field, p) = Given(e.updates[k][field], Said(e, field, p - 1))
<1> DEFINE told(q) == {r \in 1..q : \E k \in UpdatesAt(e, r) : Sane(e.updates[k][field]) # None}
<1>1. p \in Nat /\ p - 1 \in Nat /\ p \in 1..p /\ 1..p = (1..(p - 1)) \union {p} /\ p \notin 1..(p - 1)
      BY EntitiesAssumption DEF Positions
<1>2. \A q \in Nat : Said(e, field, q) =
         IF told(q) = {} THEN Sane(e.delay)
         ELSE Sane(e.updates[CHOOSE k \in UpdatesAt(e, Max(told(q))) : TRUE][field])
      BY DEF Said, UpdatesAt
<1>3. CASE \E k \in UpdatesAt(e, p) : Sane(e.updates[k][field]) # None
  <2>1. PICK k \in UpdatesAt(e, p) : Sane(e.updates[k][field]) # None
        BY <1>3
  <2>2. UpdatesAt(e, p) = {k}
        BY <2>1, EntitiesAssumption DEF Distinct, UpdatesAt, Positions
  <2>3. told(p) \in SUBSET (0..p) /\ p \in told(p)
        BY <1>1, <1>3
  <2>4. Max(told(p)) = p
    <3> HIDE DEF told
    <3>1. Max(told(p)) \in told(p) /\ Max(told(p)) >= p
          BY <1>1, <2>3, GreatestOf
    <3> QED BY <1>1, <2>3, <3>1
  <2>5. Said(e, field, p) = Sane(e.updates[k][field])
        BY <1>1, <1>2, <2>2, <2>3, <2>4
  <2> QED BY <2>1, <2>2, <2>5 DEF Given
<1>4. CASE ~\E k \in UpdatesAt(e, p) : Sane(e.updates[k][field]) # None
  <2>1. told(p) = told(p - 1)
        BY <1>1, <1>4
  <2>2. Said(e, field, p) = Said(e, field, p - 1)
    <3> HIDE DEF told
    <3> QED BY <1>1, <1>2, <2>1
  <2> QED BY <1>4, <2>2 DEF Given
<1> QED BY <1>3, <1>4

\* What the loop holds after a position.
Held(e, p) ==
    LET c == Carried(e)[p]
    IN  /\ DOMAIN c = {"arrival", "departure", "left", "met"}
        /\ c.arrival = Said(e, "arrival", p)
        /\ c.departure = Said(e, "departure", p)
        /\ c.left = {k \in Placed(e.updates) : PositionOf(e.updates[k]) > p}
        /\ p # 0 => IF UpdatesAt(e, p) = {} THEN c.met = None ELSE c.met \in UpdatesAt(e, p)

LEMMA LoopHolds ==
    ASSUME NEW e \in Entities, Distinct(e) PROVE \A p \in 0..Len(Calls) : Held(e, p)
<1> DEFINE S == {p \in 0..Len(Calls) : Held(e, p)}
           Pos(k) == PositionOf(e.updates[k])
           left(p) == {k \in Placed(e.updates) : Pos(k) > p}
<1>1. Len(Calls) \in Nat /\ Positions = 1..Len(Calls)
      BY EntitiesAssumption DEF Positions
<1>2. \A k \in Placed(e.updates) : Pos(k) \in Positions /\ k \in DOMAIN e.updates
      BY PositionKnown DEF Placed
<1>3. 0 \in S
  <2>1. Said(e, "arrival", 0) = Sane(e.delay) /\ Said(e, "departure", 0) = Sane(e.delay)
        BY DEF Said
  <2>2. left(0) = Placed(e.updates)
        BY <1>1, <1>2
  <2>3. Carried(e)[0] = Unmet(e)
        BY CarriedSteps
  <2>4. Held(e, 0)
        BY <2>1, <2>2, <2>3 DEF Held, Unmet
  <2> QED BY <1>1, <2>4
<1>4. ASSUME NEW p \in 1..Len(Calls), p - 1 \in S PROVE p \in S
  <2> DEFINE c == Carried(e)[p - 1]
             d == Carried(e)[p]
  <2>1. /\ DOMAIN c = {"arrival", "departure", "left", "met"}
        /\ c.arrival = Said(e, "arrival", p - 1)
        /\ c.departure = Said(e, "departure", p - 1)
        /\ c.left = left(p - 1)
        BY <1>4 DEF Held
  <2>2. d = Visit(e, c, p)
        BY <1>1, CarriedSteps
  <2>3. UpdatesAt(e, p) = {k \in left(p - 1) : Pos(k) = p}
        BY <1>1, EntitiesAssumption DEF UpdatesAt, Placed
  <2>4. left(p) = left(p - 1) \ UpdatesAt(e, p)
        BY <1>1, <1>2, <2>3
  <2>5. CASE UpdatesAt(e, p) # {}
    <3>1. PICK k \in UpdatesAt(e, p) : TRUE
          BY <2>5
    <3>2. UpdatesAt(e, p) = {k}
          BY <1>1, <3>1, EntitiesAssumption DEF Distinct, UpdatesAt
    <3>3. left(p - 1) # {} /\ Pos(k) = p
          BY <2>3, <3>1
    <3>4. Awaited(e.updates, left(p - 1)) = k
      <4>1. PICK n : n = Awaited(e.updates, left(p - 1))
            OBVIOUS
      <4>2. n \in left(p - 1) /\ \A j \in left(p - 1) : Pos(n) <= Pos(j)
            BY <3>3, <4>1, AwaitedIsNext
      <4>3. Pos(n) = p
            BY <1>1, <1>2, <2>3, <3>1, <4>2
      <4> QED BY <2>3, <3>2, <4>1, <4>2, <4>3
    <3>5. d = [arrival |-> Given(e.updates[k].arrival, c.arrival),
               departure |-> Given(e.updates[k].departure, c.departure),
               left |-> left(p - 1) \ {k}, met |-> k]
      <4> HIDE DEF c, d, left
      <4> QED BY <2>1, <2>2, <3>3, <3>4 DEF Visit
    <3>6. /\ Said(e, "arrival", p) = Given(e.updates[k].arrival, c.arrival)
          /\ Said(e, "departure", p) = Given(e.updates[k].departure, c.departure)
          BY <1>1, <2>1, <3>1, SaidNext
    <3>7. Held(e, p)
      <4> HIDE DEF c
      <4> QED BY <2>4, <3>2, <3>5, <3>6 DEF Held
    <3> QED BY <3>7
  <2>6. CASE UpdatesAt(e, p) = {}
    <3>1. left(p - 1) # {} => Pos(Awaited(e.updates, left(p - 1))) # p
      <4>1. left(p - 1) # {} => Awaited(e.updates, left(p - 1)) \in left(p - 1)
            BY AwaitedIsNext
      <4> QED BY <2>3, <2>6, <4>1
    <3>2. d = [c EXCEPT !.met = None]
      <4> HIDE DEF c, d, left
      <4> QED BY <2>1, <2>2, <3>1 DEF Visit
    <3>3. Said(e, "arrival", p) = c.arrival /\ Said(e, "departure", p) = c.departure
          BY <1>1, <2>1, <2>6, SaidNext
    <3>4. c.left = left(p)
          BY <2>1, <2>4, <2>6
    <3>5. /\ DOMAIN d = {"arrival", "departure", "left", "met"} /\ d.arrival = c.arrival
          /\ d.departure = c.departure /\ d.left = c.left /\ d.met = None
      <4> HIDE DEF c, d
      <4> QED BY <2>1, <3>2
    <3>6. Held(e, p)
          BY <2>6, <3>3, <3>4, <3>5 DEF Held
    <3> QED BY <3>6
  <2> QED BY <2>5, <2>6
<1>5. 0..Len(Calls) \subseteq S
  <2> HIDE DEF S
  <2> QED BY <1>1, <1>3, <1>4, UpTo
<1> QED BY <1>5
-----------------------------------------------------------------------------
(* The messages                                                            *)

TripTypeOK ==
    /\ canceled \in BOOLEAN
    /\ DOMAIN metrics = {"relation", "status", "time"}
    /\ heard \in Seq(Entities \union Reports)

TripInv == TripTypeOK /\ DelaysPropagate /\ RelationAnyOrder

\* What the loop writes is what the entity tells.
LEMMA InsertedTells ==
    ASSUME TripTypeOK, NEW e \in Entities, Distinct(e), NEW p \in Positions
    PROVE  Inserted(e)[p] = IF Tells(e, p) THEN Told(e, p) ELSE deltas[p]
<1> DEFINE c == Carried(e)[p]
<1>1. p \in 0..Len(Calls) /\ p # 0
      BY EntitiesAssumption DEF Positions
<1>2. /\ c.arrival = Said(e, "arrival", p) /\ c.departure = Said(e, "departure", p)
      /\ IF UpdatesAt(e, p) = {} THEN c.met = None ELSE c.met \in UpdatesAt(e, p)
      BY <1>1, LoopHolds DEF Held
<1>3. \A j, k \in UpdatesAt(e, p) : j = k
      BY EntitiesAssumption DEF Distinct, UpdatesAt, Positions
<1>4. c.met # None <=> UpdatesAt(e, p) # {}
      BY <1>2, EntitiesAssumption DEF UpdatesAt
<1>5. (c.met # None /\ e.updates[c.met].skipped) <=> \E k \in UpdatesAt(e, p) : e.updates[k].skipped
      BY <1>2, <1>3, <1>4
<1>6. Inserted(e)[p] = IF c.met # None \/ c.arrival # None \/ c.departure # None
                       THEN [arrival |-> c.arrival, departure |-> c.departure,
                             skipped |-> c.met # None /\ e.updates[c.met].skipped]
                       ELSE deltas[p]
      BY DEF Inserted
<1> HIDE DEF c
<1>7. (c.met # None /\ e.updates[c.met].skipped) = \E k \in UpdatesAt(e, p) : e.updates[k].skipped
      BY <1>5
<1> QED BY <1>2, <1>4, <1>6, <1>7 DEF Tells, Told

\* An entity heard is the last of those heard.
LEMMA HeardOneMore ==
    ASSUME TripTypeOK, NEW e \in Entities \union Reports, heard' = Append(heard, e)
    PROVE  /\ heard' \in Seq(Entities \union Reports)
           /\ DOMAIN heard' = DOMAIN heard \union {Len(heard) + 1}
           /\ Len(heard) + 1 \notin DOMAIN heard
           /\ \A k \in DOMAIN heard : k < Len(heard) + 1 /\ heard'[k] = heard[k] /\ k \in 0..(Len(heard) + 1)
           /\ heard'[Len(heard) + 1] = e
           /\ Len(heard) \in Nat
BY DEF TripTypeOK

LEMMA RelationStep ==
    ASSUME TripTypeOK, RelationAnyOrder, NEW e \in Entities \union Reports,
           heard' = Append(heard, e),
           metrics'.relation = Merge(metrics.relation, e.relation),
           canceled' = (canceled \/ (e \in Entities /\ e.relation = "canceled"))
    PROVE  RelationAnyOrder'
<1> DEFINE said == {x.relation : x \in Range(heard)} \ {None}
<1>1. Range(heard') = Range(heard) \union {e}
      BY HeardOneMore DEF Range
<1>2. {x.relation : x \in Range(heard')} \ {None} = said \union ({e.relation} \ {None})
      BY <1>1
<1>3. /\ metrics.relation = "canceled" <=> "canceled" \in said
      /\ metrics.relation = "scheduled" <=> said = {"scheduled"}
      /\ metrics.relation = None <=> said = {}
      /\ canceled => metrics.relation = "canceled"
      BY DEF RelationAnyOrder
<1> DEFINE said2 == said \union ({e.relation} \ {None})
           r == metrics'.relation
<1>4. None \notin said /\ None \notin {"canceled", "scheduled"}
      BY EntitiesAssumption
<1> HIDE DEF said
<1>5. r = "canceled" <=> "canceled" \in said2
      BY <1>3, <1>4 DEF Merge
<1>6. r = "scheduled" <=> said2 = {"scheduled"}
      BY <1>3, <1>4 DEF Merge
<1>7. r = None <=> said2 = {}
      BY <1>3, <1>4 DEF Merge
<1>8. canceled' => r = "canceled"
      BY <1>3, <1>4 DEF Merge
<1> QED BY <1>2, <1>5, <1>6, <1>7, <1>8 DEF RelationAnyOrder, said

LEMMA DelaysStep ==
    ASSUME TripTypeOK, DelaysPropagate, NEW e \in Entities, TripUpdate(e)
    PROVE  DelaysPropagate'
<1> DEFINE n == Len(heard) + 1
           telling(p) == {k \in Spoken : Tells(heard[k], p)}
<1>1. heard' = Append(heard, e)
      BY DEF TripUpdate
<1>2. /\ DOMAIN heard' = DOMAIN heard \union {n} /\ n \notin DOMAIN heard /\ heard'[n] = e
      /\ \A k \in DOMAIN heard : k < n /\ heard'[k] = heard[k] /\ k \in 0..n
      /\ n \in Nat
      BY <1>1, HeardOneMore
<1>3. SUFFICES ASSUME \A k \in Spoken' : Distinct(heard'[k]), NEW p \in Positions
               PROVE  deltas'[p] = IF telling(p)' = {} THEN None ELSE Told(heard'[Max(telling(p)')], p)
      BY DEF DelaysPropagate
<1>4. Spoken' = Spoken \union (IF e.relation = "canceled" THEN {} ELSE {n})
      BY <1>2 DEF Spoken
<1>5. \A k \in Spoken : k \in DOMAIN heard /\ k # n /\ k < n /\ heard'[k] = heard[k] /\ k \in 0..n
      BY <1>2 DEF Spoken
<1>6. deltas[p] = IF telling(p) = {} THEN None ELSE Told(heard[Max(telling(p))], p)
      BY <1>3, <1>4, <1>5 DEF DelaysPropagate
<1>7. telling(p)' = telling(p) \union (IF e.relation # "canceled" /\ Tells(e, p) THEN {n} ELSE {})
      BY <1>2, <1>4, <1>5
<1>8. telling(p) # {} => Max(telling(p)) \in Spoken
  <2>1. telling(p) \in SUBSET (0..n)
        BY <1>5
  <2> QED BY <1>2, <2>1, GreatestOf
<1>9. CASE e.relation # "canceled" /\ Tells(e, p)
  <2>1. deltas'[p] = Told(e, p)
    <3>1. Distinct(e)
          BY <1>2, <1>3, <1>4, <1>9
    <3> QED BY <1>9, <3>1, InsertedTells DEF TripUpdate
  <2>2. Max(telling(p)') = n
    <3>1. n \in telling(p)' /\ telling(p)' \in SUBSET (0..n)
          BY <1>2, <1>5, <1>7, <1>9
    <3> HIDE DEF telling, n
    <3>2. Max(telling(p)') \in telling(p)' /\ Max(telling(p)') >= n
          BY <1>2, <3>1, GreatestOf
    <3> QED BY <1>2, <3>1, <3>2
  <2> QED BY <1>2, <1>7, <1>9, <2>1, <2>2
<1>10. CASE ~(e.relation # "canceled" /\ Tells(e, p))
  <2>1. deltas'[p] = deltas[p]
    <3>1. CASE e.relation = "canceled"
          BY <3>1 DEF TripUpdate
    <3>2. CASE e.relation # "canceled"
      <4>1. Distinct(e)
            BY <1>2, <1>3, <1>4, <3>2
      <4> QED BY <1>10, <3>2, <4>1, InsertedTells DEF TripUpdate
    <3> QED BY <3>1, <3>2
  <2>2. telling(p)' = telling(p)
        BY <1>7, <1>10
  <2>3. telling(p) # {} => heard'[Max(telling(p))] = heard[Max(telling(p))]
        BY <1>5, <1>8
  <2> HIDE DEF telling
  <2> QED BY <1>6, <2>1, <2>2, <2>3
<1> QED BY <1>9, <1>10

LEMMA InitTrip == TripInit => TripInv
<1> SUFFICES ASSUME TripInit PROVE TripInv
    OBVIOUS
<1>1. TripTypeOK
  <2>1. DOMAIN metrics = {"relation", "status", "time"}
        BY DEF TripInit, Nothing
  <2>2. heard \in Seq(Entities \union Reports)
        BY DEF TripInit
  <2>3. canceled \in BOOLEAN
        BY DEF TripInit
  <2> QED BY <2>1, <2>2, <2>3 DEF TripTypeOK
<1>2. DelaysPropagate
  <2>1. Spoken = {} /\ \A p \in Positions : deltas[p] = None
        BY DEF TripInit, Spoken, NoDeltas
  <2>2. \A p : {k \in Spoken : Tells(heard[k], p)} = {}
        BY <2>1
  <2> QED BY <2>1, <2>2 DEF DelaysPropagate
<1>3. RelationAnyOrder
  <2>1. {x.relation : x \in Range(heard)} \ {None} = {}
        BY DEF TripInit, Range
  <2> QED BY <2>1, EntitiesAssumption DEF TripInit, RelationAnyOrder, Nothing
<1> QED BY <1>1, <1>2, <1>3 DEF TripInv

LEMMA StepTrip == TripInv /\ [TripNext]_tripVars => TripInv'
<1> SUFFICES ASSUME TripInv, [TripNext]_tripVars PROVE TripInv'
    OBVIOUS
<1> USE DEF TripInv
<1>1. ASSUME NEW e \in Entities, TripUpdate(e) PROVE TripInv'
  <2>1. /\ heard' = Append(heard, e)
        /\ metrics' = [metrics EXCEPT !.relation = Merge(@, e.relation)]
        /\ canceled' = (canceled \/ e.relation = "canceled")
        BY <1>1 DEF TripUpdate, TripTypeOK
  <2>2. metrics'.relation = Merge(metrics.relation, e.relation)
        BY <2>1 DEF TripTypeOK
  <2>3. TripTypeOK'
    <3>1. heard' \in Seq(Entities \union Reports)
          BY <2>1, HeardOneMore
    <3>2. DOMAIN metrics' = {"relation", "status", "time"}
          BY <2>1 DEF TripTypeOK
    <3>3. canceled' \in BOOLEAN
          BY <2>1
    <3> QED BY <3>1, <3>2, <3>3 DEF TripTypeOK
  <2>4. DelaysPropagate'
        BY <1>1, DelaysStep
  <2>5. RelationAnyOrder'
        BY <2>1, <2>2, RelationStep
  <2> QED BY <2>3, <2>4, <2>5
<1>2. ASSUME NEW r \in Reports, VehiclePosition(r) PROVE TripInv'
  <2>1. /\ heard' = Append(heard, r) /\ UNCHANGED <<deltas, canceled>>
        /\ metrics'.relation = Merge(metrics.relation, r.relation)
        /\ DOMAIN metrics' = {"relation", "status", "time"}
        BY <1>2 DEF VehiclePosition
  <2>2. TripTypeOK'
        BY <2>1, HeardOneMore DEF TripTypeOK
  <2>3. RelationAnyOrder'
    <3>1. r \notin Entities
          BY EntitiesAssumption
    <3> QED BY <2>1, <3>1, RelationStep DEF TripTypeOK
  <2>4. DelaysPropagate'
    <3>1. Spoken' = Spoken /\ \A k \in Spoken : heard'[k] = heard[k]
      <4>1. r \notin Entities
            BY EntitiesAssumption
      <4> QED BY <2>1, <4>1, HeardOneMore DEF Spoken
    <3>2. \A p : {k \in Spoken : Tells(heard[k], p)}' = {k \in Spoken : Tells(heard[k], p)}
          BY <3>1
    <3>3. ASSUME NEW p \in Positions, {k \in Spoken : Tells(heard[k], p)} # {}
          PROVE  Max({k \in Spoken : Tells(heard[k], p)}) \in Spoken
      <4> DEFINE T == {k \in Spoken : Tells(heard[k], p)}
      <4>1. T \in SUBSET (0..(Len(heard) + 1)) /\ Len(heard) + 1 \in Nat
            BY <2>1, HeardOneMore DEF Spoken
      <4> QED BY <3>3, <4>1, GreatestOf
    <3> QED BY <2>1, <3>1, <3>2, <3>3 DEF DelaysPropagate
  <2> QED BY <2>2, <2>3, <2>4
<1>3. CASE Refresh
  <2>1. TripTypeOK'
    <3>1. DOMAIN metrics' = {"relation", "status", "time"}
          BY <1>3 DEF Refresh, Nothing
    <3>2. heard' \in Seq(Entities \union Reports)
          BY <1>3 DEF Refresh
    <3>3. canceled' \in BOOLEAN
          BY <1>3 DEF Refresh
    <3> QED BY <3>1, <3>2, <3>3 DEF TripTypeOK
  <2>2. DelaysPropagate'
    <3>1. Spoken' = {} /\ \A p \in Positions : deltas'[p] = None
          BY <1>3 DEF Refresh, Spoken, NoDeltas
    <3>2. \A p : {k \in Spoken : Tells(heard[k], p)}' = {}
          BY <3>1
    <3> QED BY <3>1, <3>2 DEF DelaysPropagate
  <2>3. RelationAnyOrder'
    <3>1. {x.relation : x \in Range(heard')} \ {None} = {}
          BY <1>3 DEF Refresh, Range
    <3> QED BY <1>3, <3>1, EntitiesAssumption DEF Refresh, RelationAnyOrder, Nothing
  <2> QED BY <2>1, <2>2, <2>3
<1>4. CASE UNCHANGED tripVars
  <2>1. TripTypeOK' /\ RelationAnyOrder'
        BY <1>4 DEF tripVars, TripTypeOK, RelationAnyOrder
  <2>2. Spoken' = Spoken /\ UNCHANGED <<deltas, heard>>
        BY <1>4 DEF tripVars, Spoken
  <2>3. DelaysPropagate'
        BY <2>2 DEF DelaysPropagate
  <2> QED BY <2>1, <2>3
<1> QED BY <1>1, <1>2, <1>3, <1>4 DEF TripNext

LEMMA TripInvariant == TripSpec => []TripInv
BY InitTrip, StepTrip, PTL DEF TripSpec
-----------------------------------------------------------------------------
\* For every trip and any entities, as many as are heard, each position shows
\* what the last entity that tells something of it gives: its delays are those of
\* its own update or of the last update before (refresh_trip_updates).
THEOREM DelaysAreCarried == TripSpec => []DelaysPropagate
BY TripInvariant, PTL DEF TripInv

\* Whatever is heard, in whatever order, a trip is shown canceled if and only if
\* some entity cancels it, and only such a trip is left out of searches
\* (merge_schedule_relationship, refresh_trip_updates).
THEOREM OrderDoesNotMatter == TripSpec => []RelationAnyOrder
BY TripInvariant, PTL DEF TripInv

-----------------------------------------------------------------------------
(* The bracket of an arrive-by query                                       *)

QueryTypeOK ==
    /\ query \in {"target", "back", "halve"} \union Ended
    /\ asked \in Nat /\ lookback \in Nat \ {0}
    /\ early \in Int /\ late \in Int
    /\ latest \in [{"before", "on"} -> Int]
    /\ refreshes \in Nat

\* The last search that came too late, half the next look-back ago.
BoundedAbove ==
    /\ ~InTime(late)
    /\ \/ late = asked /\ lookback = Initial
       \/ 2 * (asked - late) = lookback

Bracket ==
    /\ query = "target" => early = asked /\ late = asked /\ lookback = Initial
    /\ query = "back" => BoundedAbove
    /\ query = "halve" => InTime(early) /\ ~InTime(late) /\ early < late
    /\ query = "found" => /\ InTime(early)
                          /\ early = asked \/ (~InTime(late) /\ late - early <= Tolerance)
    /\ query = "nothing" => BoundedAbove /\ lookback > MaxLookback

BracketInv == QueryTypeOK /\ (Steady /\ Fifo => Bracket)

\* Without a refresh and with two days that agree, leaving earlier never makes
\* one late.
LEMMA EarlierArrives ==
    ASSUME QueryTypeOK, Fifo, NEW d \in Int, NEW e \in Int, d <= e, Arrives(e)
    PROVE  Arrives(d)
BY DEF QueryTypeOK, Fifo, Arrives, Day

\* A search departs no later than the departure it is made for.
LEMMA MinuteBefore ==
    ASSUME NEW d \in Int PROVE ToMinute(d) \in Int /\ ToMinute(d) <= d
BY ArriveAssumption DEF ToMinute

\* So what departs later than a search in vain is late.
LEMMA LaterMisses ==
    ASSUME QueryTypeOK, Fifo, NEW d \in Int, NEW e \in Int, d <= e, ~InTime(d)
    PROVE  ~Arrives(e)
BY EarlierArrives, MinuteBefore DEF InTime

\* The half of a bracket wider than one lies inside.
LEMMA HalfInside ==
    ASSUME NEW b \in Int, NEW u \in Int, NEW t \in Nat \ {0}, u - b > t
    PROVE  b + (u - b) \div 2 \in Int /\ b < b + (u - b) \div 2 /\ b + (u - b) \div 2 < u
OBVIOUS

LEMMA InitBracket == ArriveInit => BracketInv
<1> SUFFICES ASSUME ArriveInit PROVE BracketInv
    OBVIOUS
<1> USE ArriveAssumption
<1>1. latest \in [{"before", "on"} -> Int]
  <2>1. latest \in [{"before", "on"} -> Latest] /\ Latest \subseteq Int
        BY DEF ArriveInit
  <2> QED BY <2>1, Zenon
<1>2. QueryTypeOK
      BY <1>1 DEF ArriveInit, QueryTypeOK
<1>3. Bracket
      BY DEF ArriveInit, Bracket
<1> QED BY <1>2, <1>3 DEF BracketInv

LEMMA StepBracket == BracketInv /\ [ArriveNext]_arriveVars => BracketInv'
<1> SUFFICES ASSUME BracketInv, [ArriveNext]_arriveVars
             PROVE  BracketInv'
    OBVIOUS
<1> USE ArriveAssumption
<1>1. CASE SearchFails
      BY <1>1 DEF SearchFails, BracketInv, QueryTypeOK, Bracket, Steady, Fifo, Ended
<1>2. CASE SearchAtTarget
  <2>1. QueryTypeOK' /\ (Steady /\ Fifo)' = (Steady /\ Fifo)
        BY <1>2 DEF SearchAtTarget, BracketInv, QueryTypeOK, Steady, Fifo, Ended
  <2>2. ASSUME Steady, Fifo PROVE Bracket'
        BY <1>2, <2>2 DEF SearchAtTarget, BracketInv, Bracket, BoundedAbove, InTime, Arrives, Day, Ended
  <2> QED BY <2>1, <2>2 DEF BracketInv
<1>3. CASE LookBack
  <2> DEFINE d == asked - lookback
  <2>1. QueryTypeOK' /\ (Steady /\ Fifo)' = (Steady /\ Fifo)
        BY <1>3 DEF LookBack, BracketInv, QueryTypeOK, Steady, Fifo, Ended
  <2>2. ASSUME Steady, Fifo PROVE Bracket'
    <3>1. BoundedAbove /\ QueryTypeOK
          BY <1>3, <2>2 DEF LookBack, BracketInv, Bracket
    <3>2. d < late
          BY <3>1 DEF QueryTypeOK, BoundedAbove
    <3>3. CASE InTime(d)
          BY <1>3, <3>1, <3>2, <3>3 DEF LookBack, Bracket, BoundedAbove, InTime, Arrives, Day, Ended
    <3>4. CASE ~InTime(d)
          BY <1>3, <3>1, <3>4 DEF LookBack, Bracket, BoundedAbove, QueryTypeOK, InTime, Arrives, Day, Ended
    <3> QED BY <3>3, <3>4
  <2> QED BY <2>1, <2>2 DEF BracketInv
<1>4. CASE GiveUp
      BY <1>4 DEF GiveUp, BracketInv, QueryTypeOK, Bracket, BoundedAbove, InTime, Arrives, Day, Steady, Fifo, Ended
<1>5. CASE Halve
  <2> DEFINE d == early + (late - early) \div 2
  <2>1. d \in Int /\ early < d /\ d < late
        BY <1>5, HalfInside DEF Halve, BracketInv, QueryTypeOK
  <2> HIDE DEF d
  <2>2. /\ query = "halve" /\ UNCHANGED <<query, asked, lookback, latest, refreshes>>
        /\ \/ InTime(d) /\ early' = d /\ late' = late
           \/ ~InTime(d) /\ early' = early /\ late' = d
        BY <1>5 DEF Halve, d
  <2>3. QueryTypeOK' /\ (Steady /\ Fifo)' = (Steady /\ Fifo)
        BY <2>1, <2>2 DEF BracketInv, QueryTypeOK, Steady, Fifo, Ended
  <2>4. ASSUME Steady, Fifo PROVE Bracket'
        BY <2>1, <2>2, <2>4 DEF BracketInv, Bracket, InTime, Arrives, Day, Ended
  <2> QED BY <2>3, <2>4 DEF BracketInv
<1>6. CASE Answer
      BY <1>6 DEF Answer, BracketInv, QueryTypeOK, Bracket, InTime, Arrives, Day, Steady, Fifo, Ended
<1>7. CASE RealtimeChanges
  <2>1. QueryTypeOK'
    <3>1. latest' \in [{"before", "on"} -> Latest] /\ Latest \subseteq Int
          BY <1>7 DEF RealtimeChanges
    <3>2. latest' \in [{"before", "on"} -> Int]
          BY <3>1, Zenon
    <3> QED BY <1>7, <3>2 DEF RealtimeChanges, BracketInv, QueryTypeOK
  <2>2. ~Steady'
        BY <1>7 DEF RealtimeChanges, BracketInv, QueryTypeOK, Steady
  <2> QED BY <2>1, <2>2 DEF BracketInv
<1>8. CASE UNCHANGED arriveVars
      BY <1>8 DEF arriveVars, BracketInv, QueryTypeOK, Bracket, BoundedAbove, InTime, Arrives, Day, Steady, Fifo
<1> QED BY <1>1, <1>2, <1>3, <1>4, <1>5, <1>6, <1>7, <1>8 DEF ArriveNext, Search

LEMMA StaysBracketed == ArriveSpec => []BracketInv
<1> QED BY InitBracket, StepBracket, PTL DEF ArriveSpec

\* What is answered arrives by the target, and nothing departs later by more
\* than the tolerance and still does (run_arrive_by_query).
THEOREM AnswerIsLatest == ArriveSpec => []LatestFound
<1>1. BracketInv => LatestFound
  <2> SUFFICES ASSUME BracketInv, query = "found", Steady, Fifo
               PROVE  /\ InTime(early)
                      /\ \A d \in (early + Tolerance)..asked : ~Arrives(d)
      BY DEF LatestFound
  <2> USE ArriveAssumption
  <2>1. /\ QueryTypeOK /\ InTime(early)
        /\ early = asked \/ (~InTime(late) /\ late - early <= Tolerance)
        BY DEF BracketInv, Bracket
  <2>2. ASSUME NEW d \in (early + Tolerance)..asked PROVE ~Arrives(d)
    <3>1. d \in Int /\ late \in Int /\ late <= d /\ early # asked
          BY <2>1, <2>2 DEF QueryTypeOK
    <3> QED BY <2>1, <2>2, <3>1, LaterMisses
  <2> QED BY <2>1, <2>2
<1> QED BY <1>1, StaysBracketed, PTL

\* A query that gives up has nothing to answer within half the look-back.
THEOREM GivesUpForAReason == ArriveSpec => []NothingMissed
<1>1. BracketInv => NothingMissed
  <2> SUFFICES ASSUME BracketInv, query = "nothing", Steady, Fifo,
                      NEW d \in (asked - MaxLookback)..asked,
                      2 * (asked - d) <= MaxLookback
               PROVE  ~Arrives(d)
      BY DEF NothingMissed
  <2> USE ArriveAssumption
  <2>1. QueryTypeOK /\ BoundedAbove /\ lookback > MaxLookback
        BY DEF BracketInv, Bracket
  <2>2. d \in Int /\ late \in Int /\ late <= d
        BY <2>1 DEF QueryTypeOK, BoundedAbove
  <2> QED BY <2>1, <2>2, LaterMisses DEF BoundedAbove
<1> QED BY <1>1, StaysBracketed, PTL
-----------------------------------------------------------------------------
(* The street router: what the labels of a search say.                     *)

Stages == {"idle", "search", "back", "ahead", "done", "none", "incomplete"}

TypeOK ==
    /\ stage \in Stages
    /\ \A e \in graph : IsEdge(e)
    /\ dist \in [Ends -> [Nodes -> Nat]]
    /\ parent = [end \in Ends |-> parent[end]]
    /\ heap = [end \in Ends |-> heap[end]]
    /\ best \in Nat /\ best <= MaxCost
    /\ length \in Nat
    /\ stage # "idle" => source \in Nodes /\ target \in Nodes

\* No entry is cheaper than the label of its node.
Queued ==
    \A end \in Ends : \A q \in heap[end] :
        q.node \in Nodes /\ q.cost \in Nat /\ dist[end][q.node] <= q.cost

\* A node with a label is the root, or has an edge to it from a node so much nearer.
Chained(end, n) ==
    dist[end][n] < MaxCost /\ n # Root(end) =>
        /\ n \in DOMAIN parent[end]
        /\ parent[end][n] \in graph
        /\ Far(end, parent[end][n]) = n
        /\ dist[end][Near(end, parent[end][n])] + parent[end][n].secs <= dist[end][n]
Labels == \A end \in Ends : \A n \in Nodes : Chained(end, n)

\* The two ends met at a node with a label from each.
Met ==
    meeting # NoNode =>
        /\ meeting \in Nodes /\ best < MaxCost
        /\ dist["forward"][meeting] + dist["backward"][meeting] <= best

\* What is left to rebuild fits into the cost found.
Rest ==
    /\ stage \in {"idle", "search", "none"} => length = 0
    /\ stage \in {"back", "ahead"} => cursor \in Nodes /\ meeting # NoNode
    /\ stage = "back" =>
           length + dist["forward"][cursor] + dist["backward"][meeting] <= best
    /\ stage = "ahead" => length + dist["backward"][cursor] <= best
    /\ stage = "done" => length <= best
    /\ stage # "incomplete"

Unstarted ==
    stage = "idle" =>
        /\ dist = [end \in Ends |-> [n \in Nodes |-> MaxCost]]
        /\ heap = [end \in Ends |-> {}]
        /\ best = MaxCost /\ meeting = NoNode

IInv == TypeOK /\ Queued /\ Labels /\ Met /\ Rest /\ Unstarted
-----------------------------------------------------------------------------
(* The parts of a step                                                     *)

LEMMA PlusFits ==
    ASSUME NEW a \in Nat, NEW b \in Nat
    PROVE  /\ Plus(a, b) \in Nat
           /\ Plus(a, b) <= a + b
           /\ Plus(a, b) < MaxCost => Plus(a, b) = a + b
           /\ Plus(a, b) <= MaxCost
BY StreetAssumption DEF Plus

\* What is known of the edges by which an entry brings nodes nearer.
LEMMA ViaImproves ==
    ASSUME TypeOK, NEW end \in Ends, NEW n, NEW cost \in Nat, NEW bound \in Nat,
           bound <= MaxCost, NEW m \in Nearer(end, n, cost, bound)
    PROVE  /\ m \in Nodes
           /\ Via(end, n, m) \in graph
           /\ Via(end, n, m).secs \in Nat \ {0}
           /\ Near(end, Via(end, n, m)) = n /\ Far(end, Via(end, n, m)) = m
           /\ Plus(cost, Via(end, n, m).secs) = cost + Via(end, n, m).secs
           /\ cost + Via(end, n, m).secs < bound
           /\ cost + Via(end, n, m).secs < dist[end][m]
<1> DEFINE v == Via(end, n, m)
<1>1. PICK e \in graph : Leads(end, e, n, m) /\ Improves(end, e, cost, bound)
      BY DEF Nearer
<1>2. v \in graph /\ Leads(end, v, n, m)
      BY <1>1, Zenon DEF Via
<1>3. v.secs = e.secs /\ Near(end, v) = n /\ Far(end, v) = m
  <2>1. v.secs <= e.secs /\ e.secs <= v.secs
        BY <1>1, <1>2, Zenon DEF Leads
  <2>2. v.secs \in Int /\ e.secs \in Int
        BY <1>1, <1>2, StreetAssumption DEF TypeOK, IsEdge
  <2> QED BY <1>2, <2>1, <2>2 DEF Leads
<1>4. v.secs \in Nat \ {0}
      BY <1>2, StreetAssumption DEF TypeOK, IsEdge
<1>5. Plus(cost, v.secs) < bound /\ Plus(cost, v.secs) < dist[end][m]
      BY <1>1, <1>3, Zenon DEF Improves, Leads
<1> HIDE DEF v
<1>6. Plus(cost, v.secs) = cost + v.secs
  <2>1. v.secs \in Nat
        BY <1>4
  <2> QED BY <2>1, <1>5, StreetAssumption DEF Plus
<1>7. m \in Nodes
      BY DEF Nearer
<1> QED BY <1>2, <1>3, <1>4, <1>5, <1>6, <1>7 DEF v
-----------------------------------------------------------------------------
(* The invariant                                                           *)

LEMMA InitInvariant == StreetInit => IInv
<1> SUFFICES ASSUME StreetInit PROVE IInv
    OBVIOUS
<1> USE StreetAssumption
<1>1. TypeOK
      BY DEF StreetInit, TypeOK, Stages
<1>2. Queued /\ Unstarted /\ Met
      BY DEF StreetInit, Queued, Unstarted, Met
<1>3. Labels
      BY DEF StreetInit, Labels, Chained
<1>4. Rest
      BY DEF StreetInit, Rest
<1> QED BY <1>1, <1>2, <1>3, <1>4 DEF IInv

LEMMA StartStep ==
    ASSUME IInv, NEW s \in Nodes, NEW t \in Nodes, StartSearch(s, t)
    PROVE  IInv'
<1> USE StreetAssumption
<1> DEFINE root(end) == IF end = "forward" THEN s ELSE t
<1>1. /\ stage = "idle" /\ graph' = Served /\ source' = s /\ target' = t
      /\ parent' = parent /\ length' = length
      /\ dist' = [end \in Ends |-> [dist[end] EXCEPT ![root(end)] = 0]]
      /\ heap' = [end \in Ends |-> {[cost |-> 0, node |-> root(end)]}]
      /\ \/ stage' = "back" /\ best' = 0 /\ meeting' = s /\ cursor' = s /\ s = t
         \/ stage' = "search" /\ best' = best /\ meeting' = meeting /\ cursor' = cursor
      BY DEF StartSearch
<1>2. /\ dist = [end \in Ends |-> [n \in Nodes |-> MaxCost]]
      /\ best = MaxCost /\ meeting = NoNode /\ length = 0
      BY <1>1 DEF IInv, Unstarted, Rest
<1>3. ASSUME NEW end \in Ends
      PROVE  root(end) \in Nodes /\ Root(end)' = root(end)
      BY <1>1 DEF Root
<1>4. ASSUME NEW end \in Ends, NEW n \in Nodes
      PROVE  dist'[end][n] = IF n = root(end) THEN 0 ELSE MaxCost
      BY <1>1, <1>2, <1>3
<1>5. dist' \in [Ends -> [Nodes -> Nat]]
      BY <1>1, <1>2, <1>3
<1> HIDE DEF root
<1>6. TypeOK'
      BY <1>1, <1>2, <1>5 DEF IInv, TypeOK, Stages, Served
<1>7. Queued'
      BY <1>1, <1>3, <1>4 DEF Queued
<1>8. Labels'
      BY <1>3, <1>4 DEF Labels, Chained
<1>9. Met'
      BY <1>1, <1>2, <1>4 DEF Met, Ends, root
<1>10. Rest'
      BY <1>1, <1>2, <1>4 DEF Rest, Ends, root
<1>11. Unstarted'
      BY <1>1 DEF Unstarted
<1> QED BY <1>6, <1>7, <1>8, <1>9, <1>10, <1>11 DEF IInv

LEMMA PopStep ==
    ASSUME IInv, NEW end \in Ends, NEW q \in heap[end], Pop(end, q)
    PROVE  IInv'
<1> USE StreetAssumption
<1> DEFINE n == q.node
           total == Plus(q.cost, dist[Other(end)][n])
           bound == IF total < best THEN total ELSE best
           nearer == Nearer(end, n, q.cost, bound)
           via(m) == Via(end, n, m)
           dearers == Dearer(end, n, q.cost, bound)
<1>1. /\ stage = "search" /\ q.cost <= dist[end][n]
      /\ UNCHANGED <<stage, graph, source, target, cursor, length>>
      /\ best' = bound
      /\ meeting' = IF total < best THEN n ELSE meeting
      /\ parent' = [parent EXCEPT ![end] = Parents(end, n, nearer)]
      /\ dist' = [dist EXCEPT ![end] =
                     [m \in Nodes |-> IF m \in nearer THEN Plus(q.cost, via(m).secs) ELSE @[m]]]
      /\ \E dearer \in SUBSET dearers :
             heap' = [heap EXCEPT ![end] =
                         (@ \ {q}) \union dearer
                         \union {[cost |-> Plus(q.cost, via(m).secs), node |-> m] : m \in nearer}]
      BY DEF Pop, routeVars
<1>2. TypeOK /\ Queued /\ Labels /\ Met /\ Rest
      BY DEF IInv
<1>3. /\ n \in Nodes /\ q.cost \in Nat /\ dist[end][n] = q.cost
      /\ Other(end) \in Ends /\ dist[Other(end)][n] \in Nat
      BY <1>1, <1>2 DEF TypeOK, Queued, Other, Ends
<1>4. /\ bound \in Nat /\ bound <= best /\ bound <= MaxCost
      /\ total < best => total = q.cost + dist[Other(end)][n]
      BY <1>2, <1>3, PlusFits DEF TypeOK
<1>5. ASSUME NEW m \in nearer
      PROVE  /\ m \in Nodes /\ via(m) \in graph /\ via(m).secs \in Nat \ {0}
             /\ Near(end, via(m)) = n /\ Far(end, via(m)) = m
             /\ Plus(q.cost, via(m).secs) = q.cost + via(m).secs
             /\ q.cost + via(m).secs < dist[end][m]
      BY <1>2, <1>3, <1>4, ViaImproves
<1>6. ASSUME NEW d \in dearers
      PROVE  d.node \in nearer /\ d.cost \in Nat /\ q.cost + via(d.node).secs <= d.cost
  <2>1. PICK f \in graph :
               /\ d = [cost |-> Plus(q.cost, f.secs), node |-> Far(end, f)]
               /\ Near(end, f) = n /\ Improves(end, f, q.cost, bound)
               /\ \E e \in graph : Leads(end, e, n, Far(end, f)) /\ e.secs < f.secs
        BY DEF Dearer
  <2>2. PICK e \in graph : Leads(end, e, n, d.node) /\ e.secs < f.secs
        BY <2>1
  <2>3. f.secs \in Nat /\ e.secs \in Nat /\ f.from \in Nodes /\ f.to \in Nodes
        BY <1>2 DEF TypeOK, IsEdge
  <2>4. d.node \in Nodes /\ d.node = Far(end, f) /\ d.cost = Plus(q.cost, f.secs)
        BY <2>1, <2>3 DEF Far
  <2>5. d.cost < bound /\ d.cost < dist[end][d.node]
        BY <2>1, <2>4, Zenon DEF Improves
  <2>6. d.cost = q.cost + f.secs
    <3>1. d.cost < MaxCost
      <4>1. d.cost \in Nat
            BY <1>3, <2>3, <2>4, PlusFits
      <4> QED BY <1>4, <2>5, <4>1
    <3> QED BY <1>3, <2>3, <2>4, <3>1, PlusFits
  <2>7. dist[end][d.node] \in Nat
        BY <1>2, <2>4 DEF TypeOK
  <2>8. Plus(q.cost, e.secs) < bound /\ Plus(q.cost, e.secs) < dist[end][d.node]
    <3>1. Plus(q.cost, e.secs) \in Nat /\ Plus(q.cost, e.secs) <= q.cost + e.secs
          BY <1>3, <2>3, PlusFits
    <3> QED BY <1>3, <1>4, <2>2, <2>3, <2>5, <2>6, <2>7, <3>1
  <2>9. d.node \in nearer
    <3>1. Far(end, e) = d.node
          BY <2>2 DEF Leads
    <3>2. Improves(end, e, q.cost, bound)
          BY <2>8, <3>1 DEF Improves
    <3> QED BY <2>2, <2>4, <3>2, Zenon DEF Nearer
  <2>10. via(d.node).secs <= f.secs
    <3>1. Leads(end, via(d.node), n, d.node)
          BY <2>2, Zenon DEF Via
    <3> QED BY <2>1, <2>4, <3>1, Zenon DEF Leads
  <2> QED BY <1>3, <1>5, <2>3, <2>6, <2>9, <2>10
<1> HIDE DEF n, total, bound, nearer, via, dearers
<1>7. /\ dist' \in [Ends -> [Nodes -> Nat]]
      /\ \A m \in Nodes : dist'[end][m] = IF m \in nearer THEN q.cost + via(m).secs ELSE dist[end][m]
      /\ dist'[Other(end)] = dist[Other(end)]
  <2>1. [m \in Nodes |-> IF m \in nearer THEN Plus(q.cost, via(m).secs) ELSE dist[end][m]]
            \in [Nodes -> Nat]
        BY <1>2, <1>3, <1>5 DEF TypeOK
  <2> QED BY <1>1, <1>2, <1>5, <2>1 DEF TypeOK, Other, Ends
<1>8. ASSUME NEW o \in Ends, NEW m \in Nodes PROVE dist'[o][m] <= dist[o][m]
  <2>1. dist[o][m] \in Nat /\ (o = end \/ o = Other(end))
        BY <1>2 DEF TypeOK, Other, Ends
  <2> QED BY <1>3, <1>5, <1>7, <2>1
<1>9. TypeOK'
      BY <1>1, <1>2, <1>4, <1>7 DEF TypeOK
<1>10. Queued'
  <2> SUFFICES ASSUME NEW o \in Ends, NEW r \in heap'[o]
               PROVE  r.node \in Nodes /\ r.cost \in Nat /\ dist'[o][r.node] <= r.cost
      BY DEF Queued
  <2>1. CASE r \in heap[o]
    <3>1. r.node \in Nodes /\ r.cost \in Nat /\ dist[o][r.node] <= r.cost
          BY <1>2, <2>1 DEF Queued
    <3>2. dist[o][r.node] \in Nat /\ dist'[o][r.node] \in Nat
          BY <1>2, <1>7, <3>1 DEF TypeOK
    <3>3. dist'[o][r.node] <= dist[o][r.node]
          BY <1>8, <3>1
    <3> QED BY <3>1, <3>2, <3>3
  <2>2. CASE r \notin heap[o]
    <3>1. o = end /\ (r \in dearers
                      \/ \E m \in nearer : r = [cost |-> Plus(q.cost, via(m).secs), node |-> m])
          BY <1>1, <1>2, <2>2 DEF TypeOK
    <3>2. CASE r \in dearers
          BY <1>5, <1>6, <1>7, <3>1, <3>2
    <3>3. CASE \E m \in nearer : r = [cost |-> Plus(q.cost, via(m).secs), node |-> m]
          BY <1>3, <1>5, <1>7, <3>1, <3>3
    <3> QED BY <3>1, <3>2, <3>3
  <2> QED BY <2>1, <2>2
<1>11. Labels'
  <2> SUFFICES ASSUME NEW o \in Ends, NEW m \in Nodes, dist'[o][m] < MaxCost, m # Root(o)'
               PROVE  /\ m \in DOMAIN parent'[o]
                      /\ parent'[o][m] \in graph'
                      /\ Far(o, parent'[o][m]) = m
                      /\ dist'[o][Near(o, parent'[o][m])] + parent'[o][m].secs <= dist'[o][m]
      BY DEF Labels, Chained
  <2>1. Root(o)' = Root(o) /\ graph' = graph
        BY <1>1 DEF Root
  <2>2. CASE o = end /\ m \in nearer
    <3>1. m \in DOMAIN parent'[o] /\ parent'[o][m] = via(m)
          BY <1>1, <1>2, <2>2 DEF TypeOK, Parents, via, n, nearer
    <3>2. dist'[o][n] <= q.cost /\ dist'[o][n] \in Nat
          BY <1>3, <1>7, <1>8, <2>2
    <3> QED BY <1>3, <1>5, <1>7, <2>1, <2>2, <3>1, <3>2
  <2>3. CASE ~(o = end /\ m \in nearer)
    <3>1. dist'[o][m] = dist[o][m] /\ (m \in DOMAIN parent[o] =>
              m \in DOMAIN parent'[o] /\ parent'[o][m] = parent[o][m])
      <4>1. o = end \/ o = Other(end)
            BY DEF Other, Ends
      <4>2. dist'[o][m] = dist[o][m]
            BY <1>7, <2>3, <4>1
      <4>3. CASE o = end
            BY <1>1, <1>2, <2>3, <4>2, <4>3 DEF TypeOK, Parents, nearer, n
      <4>4. CASE o # end
            BY <1>1, <1>2, <4>2, <4>4 DEF TypeOK
      <4> QED BY <4>3, <4>4
    <3>2. /\ m \in DOMAIN parent[o] /\ parent[o][m] \in graph /\ Far(o, parent[o][m]) = m
          /\ dist[o][Near(o, parent[o][m])] + parent[o][m].secs <= dist[o][m]
          BY <1>2, <2>1, <3>1 DEF Labels, Chained
    <3>3. Near(o, parent[o][m]) \in Nodes /\ parent[o][m].secs \in Nat
          BY <1>2, <3>2 DEF TypeOK, IsEdge, Near
    <3>4. /\ dist'[o][Near(o, parent[o][m])] <= dist[o][Near(o, parent[o][m])]
          /\ dist'[o][Near(o, parent[o][m])] \in Nat /\ dist[o][Near(o, parent[o][m])] \in Nat
          /\ dist[o][m] \in Nat
          BY <1>2, <1>7, <1>8, <3>3 DEF TypeOK
    <3> QED BY <2>1, <3>1, <3>2, <3>3, <3>4
  <2> QED BY <2>2, <2>3
<1>12. Met'
  <2>1. CASE total < best
    <3>1. /\ meeting' = n /\ best' = total /\ total = q.cost + dist[Other(end)][n]
          BY <1>1, <1>4, <2>1 DEF bound
    <3>2. best' < MaxCost /\ best' \in Nat
          BY <1>1, <1>2, <1>4, <2>1, <3>1 DEF TypeOK
    <3>3. dist'[end][n] + dist'[Other(end)][n] <= best'
      <4>1. dist'[end][n] <= dist[end][n] /\ dist'[end][n] \in Nat
            BY <1>3, <1>7, <1>8
      <4> QED BY <1>3, <1>7, <3>1, <4>1
    <3>4. dist'["forward"][n] + dist'["backward"][n] <= best'
      <4>1. dist'["forward"][n] \in Nat /\ dist'["backward"][n] \in Nat
            BY <1>3, <1>7 DEF Ends
      <4> QED BY <3>3, <4>1 DEF Other, Ends
    <3> QED BY <1>3, <3>1, <3>2, <3>4 DEF Met
  <2>2. CASE ~(total < best)
    <3>1. meeting' = meeting /\ best' = best
          BY <1>1, <2>2 DEF bound
    <3>2. ASSUME meeting # NoNode
          PROVE  dist'["forward"][meeting] + dist'["backward"][meeting] <= best
      <4>1. meeting \in Nodes
            BY <1>2, <3>2 DEF Met
      <4>2. /\ dist["forward"][meeting] \in Nat /\ dist["backward"][meeting] \in Nat
            /\ dist'["forward"][meeting] \in Nat /\ dist'["backward"][meeting] \in Nat
            /\ best \in Nat
            BY <1>2, <1>7, <4>1 DEF TypeOK, Ends
      <4>3. /\ dist'["forward"][meeting] <= dist["forward"][meeting]
            /\ dist'["backward"][meeting] <= dist["backward"][meeting]
            BY <1>8, <4>1 DEF Ends
      <4> QED BY <1>2, <3>2, <4>2, <4>3 DEF Met
    <3> QED BY <1>2, <3>1, <3>2 DEF Met
  <2> QED BY <2>1, <2>2
<1>13. Rest' /\ Unstarted'
      BY <1>1, <1>2 DEF Rest, Unstarted
<1> QED BY <1>9, <1>10, <1>11, <1>12, <1>13 DEF IInv

LEMMA RebuildStep ==
    ASSUME IInv, NEW end \in Ends, Rebuild(end)
    PROVE  IInv'
<1> USE StreetAssumption
<1>1. /\ stage = IF end = "forward" THEN "back" ELSE "ahead"
      /\ UNCHANGED <<graph, source, target, dist, parent, heap, best, meeting>>
      BY DEF Rebuild, queueVars
<1>2. TypeOK /\ Queued /\ Labels /\ Met /\ Rest
      BY DEF IInv
<1>3. /\ cursor \in Nodes /\ meeting \in Nodes /\ best < MaxCost
      /\ length \in Nat /\ best \in Nat
      /\ \A o \in Ends : \A n \in Nodes : dist[o][n] \in Nat
      BY <1>1, <1>2 DEF Rest, Met, TypeOK
<1>4. length + dist[end][cursor] + (IF end = "forward" THEN dist["backward"][meeting] ELSE 0) <= best
  <2>1. /\ end = "forward" \/ end = "backward"
        /\ dist[end][cursor] \in Nat /\ dist["backward"][meeting] \in Nat
        BY <1>3 DEF Ends
  <2>2. CASE end = "forward"
    <3>1. length + dist["forward"][cursor] + dist["backward"][meeting] <= best
          BY <1>1, <1>2, <2>2 DEF Rest
    <3> QED BY <2>2, <3>1
  <2>3. CASE end = "backward"
    <3>1. length + dist["backward"][cursor] <= best
          BY <1>1, <1>2, <2>3 DEF Rest
    <3>2. (IF end = "forward" THEN dist["backward"][meeting] ELSE 0) = 0
          BY <2>3
    <3> QED BY <1>3, <2>1, <2>3, <3>1, <3>2
  <2> QED BY <2>1, <2>2, <2>3
<1>5. Queued' /\ Met'
      BY <1>1, <1>2 DEF Queued, Met
<1>6. CASE cursor = Root(end)
  <2>1. /\ stage' = IF end = "forward" THEN "ahead" ELSE "done"
        /\ cursor' = meeting /\ length' = length
        BY <1>6 DEF Rebuild
  <2>2. TypeOK' /\ Labels'
        BY <1>1, <1>2, <2>1 DEF TypeOK, Stages, Labels, Chained, Root
  <2>3. /\ dist' = dist /\ best' = best /\ meeting' = meeting
        /\ meeting \in Nodes /\ meeting # NoNode /\ cursor' \in Nodes
        /\ length \in Nat /\ best \in Nat
        BY <1>1, <1>3, <2>1
  <2>4. ASSUME end = "forward" PROVE Rest'
    <3>1. /\ length + dist["forward"][cursor] + dist["backward"][meeting] <= best
          /\ dist["forward"][cursor] \in Nat /\ dist["backward"][meeting] \in Nat
          BY <1>3, <1>4, <2>4 DEF Ends
    <3>2. stage' = "ahead" /\ length' + dist'["backward"][cursor'] <= best'
          BY <2>1, <2>3, <2>4, <3>1
    <3> QED BY <2>3, <3>2 DEF Rest
  <2>5. ASSUME end = "backward" PROVE Rest'
    <3>1. length + dist["backward"][cursor] <= best /\ dist["backward"][cursor] \in Nat
      <4>1. (IF end = "forward" THEN dist["backward"][meeting] ELSE 0) = 0
            BY <2>5
      <4>2. length + dist[end][cursor] + 0 <= best
            BY <1>4, <4>1
      <4> QED BY <1>3, <2>5, <4>2 DEF Ends
    <3>2. stage' = "done" /\ length' <= best'
          BY <2>1, <2>3, <2>5, <3>1
    <3> QED BY <2>3, <3>2 DEF Rest
  <2>6. Unstarted'
        BY <2>1 DEF Unstarted
  <2> QED BY <1>5, <2>2, <2>4, <2>5, <2>6 DEF IInv, Ends
<1>7. CASE cursor # Root(end)
  <2> DEFINE e == parent[end][cursor]
  <2>1. dist[end][cursor] < MaxCost
    <3>1. /\ dist[end][cursor] \in Nat /\ dist["backward"][meeting] \in Nat
          /\ best < MaxCost /\ MaxCost \in Nat
          BY <1>3 DEF Ends
    <3> QED BY <1>3, <1>4, <3>1
  <2>2. /\ cursor \in DOMAIN parent[end] /\ e \in graph
        /\ dist[end][Near(end, e)] + e.secs <= dist[end][cursor]
        BY <1>2, <1>3, <1>7, <2>1 DEF Labels, Chained
  <2>3. Near(end, e) \in Nodes /\ e.secs \in Nat
        BY <1>2, <2>2 DEF TypeOK, IsEdge, Near
  <2>4. stage' = stage /\ cursor' = Near(end, e) /\ length' = length + e.secs
        BY <1>7, <2>2 DEF Rebuild
  <2> HIDE DEF e
  <2>5. TypeOK' /\ Labels'
        BY <1>1, <1>2, <2>3, <2>4 DEF TypeOK, Stages, Labels, Chained, Root
  <2>6. Rest'
    <3>1. /\ dist[end][cursor'] \in Nat /\ dist[end][cursor] \in Nat
          /\ dist["backward"][meeting] \in Nat
          /\ cursor' \in Nodes /\ length' = length + e.secs
          /\ dist[end][cursor'] + e.secs <= dist[end][cursor]
          BY <1>3, <2>2, <2>3, <2>4 DEF Ends
    <3>2. length' + dist[end][cursor']
              + (IF end = "forward" THEN dist["backward"][meeting] ELSE 0) <= best
          BY <1>3, <1>4, <2>3, <3>1
    <3>3. meeting # NoNode
          BY <1>3
    <3>4. CASE end = "forward"
          BY <1>1, <2>4, <3>1, <3>2, <3>3, <3>4 DEF Rest
    <3>5. CASE end = "backward"
      <4>1. length' + dist["backward"][cursor'] <= best /\ stage = "ahead"
            BY <1>1, <2>3, <1>3, <3>1, <3>2, <3>5
      <4> QED BY <1>1, <2>4, <3>1, <3>3, <4>1 DEF Rest
    <3> QED BY <3>4, <3>5 DEF Ends
  <2>7. Unstarted'
        BY <1>1, <2>4 DEF Unstarted
  <2> QED BY <1>5, <2>5, <2>6, <2>7 DEF IInv
<1> QED BY <1>6, <1>7

LEMMA StepInvariant == IInv /\ [StreetNext]_streetVars => IInv'
<1> SUFFICES ASSUME IInv, [StreetNext]_streetVars PROVE IInv'
    OBVIOUS
<1>1. ASSUME NEW diff \in Diffs, ApplyDiff(diff) PROVE IInv'
  <2>1. UNCHANGED <<stage, queueVars, routeVars>>
        BY <1>1 DEF ApplyDiff
  <2> QED BY <2>1 DEF queueVars, routeVars, IInv, TypeOK, Queued, Labels, Chained, Root, Met,
                      Rest, Unstarted
<1>2. ASSUME NEW end \in Ends, NEW q \in heap[end], PopStale(end, q) PROVE IInv'
  <2>1. /\ stage = "search"
        /\ UNCHANGED <<stage, graph, source, target, dist, parent, best, meeting, cursor, length>>
        /\ heap' = [heap EXCEPT ![end] = @ \ {q}]
        BY <1>2 DEF PopStale, routeVars
  <2>2. TypeOK' /\ Labels' /\ Met' /\ Rest' /\ Unstarted'
        BY <2>1 DEF IInv, TypeOK, Labels, Chained, Root, Met, Rest, Unstarted
  <2>3. Queued'
        BY <2>1 DEF IInv, TypeOK, Queued
  <2> QED BY <2>2, <2>3 DEF IInv
<1>3. CASE Stop
  <2>1. /\ stage = "search" /\ stage' = (IF meeting = NoNode THEN "none" ELSE "back")
        /\ cursor' = meeting
        /\ UNCHANGED <<graph, source, target, dist, parent, heap, best, meeting, length>>
        BY <1>3 DEF Stop, queueVars
  <2>2. TypeOK' /\ Queued' /\ Labels' /\ Met' /\ Unstarted'
        BY <2>1 DEF IInv, TypeOK, Stages, Queued, Labels, Chained, Root, Met, Unstarted
  <2>3. Rest'
        BY <2>1 DEF IInv, TypeOK, Met, Rest, Ends
  <2> QED BY <2>2, <2>3 DEF IInv
<1>4. CASE UNCHANGED streetVars
      BY <1>4 DEF streetVars, mapVars, queueVars, routeVars, IInv, TypeOK, Queued, Labels,
                  Chained, Root, Met, Rest, Unstarted
<1> QED BY <1>1, <1>2, <1>3, <1>4, StartStep, PopStep, RebuildStep DEF StreetNext, SearchStep

\* A route is rebuilt whole, and its edges add up to no more than the cost the
\* search found, on every map and whatever was laid over it (reconstruct_path).
THEOREM RoutesHold == StreetSpec => []RouteHolds
<1>1. IInv => RouteHolds
      BY DEF IInv, Rest, RouteHolds
<1> QED BY <1>1, InitInvariant, StepInvariant, PTL DEF StreetSpec
-----------------------------------------------------------------------------
(* The costs of routes                                                     *)

Cost == 0..MaxCost
IsGraph == source \in Nodes /\ \A e \in graph : IsEdge(e)

LEMMA PlusOrder ==
    ASSUME NEW a \in Cost, NEW b \in Nat, NEW secs \in Nat
    PROVE  /\ Plus(a, secs) \in Cost /\ a <= Plus(a, secs)
           /\ a <= b => Plus(a, secs) <= Plus(b, secs)
BY StreetAssumption DEF Plus, Cost

LEMMA EdgeKnown ==
    ASSUME IsGraph, NEW e \in graph
    PROVE  e.from \in Nodes /\ e.to \in Nodes /\ e.secs \in Nat \ {0}
BY StreetAssumption DEF IsGraph, IsEdge

\* Once more every edge is taken: no node costs more, none more than over one
\* of its edges, and each what it did or what it costs over one of them.
LEMMA RelaxedOnce ==
    ASSUME IsGraph, NEW c \in [Nodes -> Cost]
    PROVE  /\ Relaxed(c) \in [Nodes -> Cost]
           /\ \A n \in Nodes : Relaxed(c)[n] <= c[n]
           /\ \A e \in graph : Relaxed(c)[e.to] <= Plus(c[e.from], e.secs)
           /\ \A n \in Nodes : \/ Relaxed(c)[n] = c[n]
                               \/ \E e \in graph : /\ e.to = n
                                                   /\ Relaxed(c)[n] = Plus(c[e.from], e.secs)
<1> DEFINE over(n) == {Plus(c[e.from], e.secs) : e \in {f \in graph : f.to = n}}
           all(n) == {c[n]} \union over(n)
<1>1. ASSUME NEW n \in Nodes
      PROVE  Relaxed(c)[n] \in all(n) /\ all(n) \subseteq Cost /\ \A y \in all(n) : Relaxed(c)[n] <= y
  <2>1. \A e \in graph : Plus(c[e.from], e.secs) \in Cost
        BY EdgeKnown, PlusOrder, StreetAssumption DEF Cost
  <2>2. all(n) \subseteq Cost /\ all(n) # {}
        BY <2>1
  <2>3. all(n) \in SUBSET Nat
        BY <2>2 DEF Cost
  <2>4. Min(all(n)) \in all(n) /\ \A y \in all(n) : Min(all(n)) <= y
    <3> HIDE DEF all
    <3> QED BY <2>2, <2>3, LeastOf
  <2>5. Relaxed(c)[n] = Min(all(n))
        BY DEF Relaxed
  <2> QED BY <2>2, <2>4, <2>5
<1>2. Relaxed(c) = [n \in Nodes |-> Relaxed(c)[n]]
      BY DEF Relaxed
<1>3. \A n \in Nodes : Relaxed(c)[n] \in Cost
      BY <1>1
<1>4. \A e \in graph : Relaxed(c)[e.to] <= Plus(c[e.from], e.secs)
      BY <1>1, EdgeKnown
<1> QED BY <1>1, <1>2, <1>3, <1>4

LEMMA CostSteps ==
    ASSUME IsGraph
    PROVE  \E c \in [0..Cardinality(Nodes) -> [Nodes -> Cost]] :
               /\ c[0] = [n \in Nodes |-> IF n = source THEN 0 ELSE MaxCost]
               /\ \A k \in 1..Cardinality(Nodes) : c[k] = Relaxed(c[k - 1])
               /\ Costs = c[Cardinality(Nodes)]
<1> DEFINE N == Cardinality(Nodes)
           first == [n \in Nodes |-> IF n = source THEN 0 ELSE MaxCost]
           S == [Nodes -> Cost]
           g == [c \in S |-> Relaxed(c)]
           by == CHOOSE by : by = [k \in 0..N |-> IF k = 0 THEN first ELSE Relaxed(by[k - 1])]
<1>1. N \in Nat
      BY StreetAssumption, FS_CardinalityType
<1>2. first \in S
      BY StreetAssumption DEF Cost
<1>3. g \in [S -> S]
      BY RelaxedOnce
<1>4. \E f \in [0..N -> S] : f[0] = first /\ \A k \in 1..N : f[k] = g[f[k - 1]]
  <2> HIDE DEF N, first, S, g
  <2> QED BY <1>1, <1>2, <1>3, StepByStep, SMTT(40)
<1>5. PICK f \in [0..N -> S] : f[0] = first /\ \A k \in 1..N : f[k] = g[f[k - 1]]
      BY <1>4
<1> HIDE DEF N, first
<1>6. f = [k \in 0..N |-> IF k = 0 THEN first ELSE Relaxed(f[k - 1])]
  <2>1. ASSUME NEW k \in 1..N PROVE f[k] = Relaxed(f[k - 1])
    <3>1. k - 1 \in 0..N
          BY <1>1
    <3>2. f[k - 1] \in S
          BY <3>1
    <3> QED BY <1>5, <3>2
  <2> QED BY <1>1, <1>5, <2>1
<1>7. by = [k \in 0..N |-> IF k = 0 THEN first ELSE Relaxed(by[k - 1])]
      BY <1>6
<1> HIDE DEF by
<1>8. by[0] = first /\ \A k \in 1..N : by[k] = Relaxed(by[k - 1])
      BY <1>1, <1>7
<1>9. ASSUME NEW k \in 0..N PROVE by[k] \in S
  <2> DEFINE T == {j \in 0..N : by[j] \in S}
  <2>1. 0 \in T
        BY <1>1, <1>2, <1>8
  <2>2. \A p \in 1..N : p - 1 \in T => p \in T
        BY <1>8, RelaxedOnce
  <2>3. 0..N \subseteq T
    <3> HIDE DEF T
    <3> QED BY <1>1, <2>1, <2>2, UpTo
  <2> QED BY <2>3
<1>10. by \in [0..N -> S]
      BY <1>7, <1>9
<1>11. Costs = by[N]
      BY DEF Costs, by, N, first
<1> QED BY <1>8, <1>10, <1>11 DEF N, first

LEMMA EdgeCosts ==
    ASSUME IsGraph, NEW c \in [Nodes -> Cost], NEW e \in graph
    PROVE  /\ e.from \in Nodes /\ e.to \in Nodes /\ e.secs \in Nat
           /\ Plus(c[e.from], e.secs) \in Nat /\ c[e.from] <= Plus(c[e.from], e.secs)
<1>1. e.from \in Nodes /\ e.to \in Nodes /\ e.secs \in Nat
      BY EdgeKnown
<1>2. c[e.from] \in Cost /\ c[e.from] \in Nat
      BY <1>1 DEF Cost
<1>3. Plus(c[e.from], e.secs) \in Cost /\ c[e.from] <= Plus(c[e.from], e.secs)
      BY <1>1, <1>2, PlusOrder
<1> QED BY <1>1, <1>3 DEF Cost

\* Nodes whose costs are final: none of them costs more than over an edge to it,
\* none more than a node that is not one of them, and the edges from them have
\* been taken or lead no node below them.
Settled(c, S) ==
    /\ \A e \in graph : e.to \in S => c[e.to] <= Plus(c[e.from], e.secs)
    /\ \A n \in S : \A y \in Nodes \ S : c[n] <= c[y]
    /\ \A e \in graph : e.from \in S =>
           \/ c[e.to] <= Plus(c[e.from], e.secs)
           \/ \A n \in S : c[n] <= Plus(c[e.from], e.secs)

\* The cheapest of the other nodes is final one step later.
LEMMA OneMoreSettled ==
    ASSUME IsGraph, NEW c \in [Nodes -> Cost], NEW S \in SUBSET Nodes, Settled(c, S),
           NEW w \in Nodes \ S, \A y \in Nodes \ S : Relaxed(c)[w] <= Relaxed(c)[y]
    PROVE  Settled(Relaxed(c), S \union {w})
<1> DEFINE d == Relaxed(c)
           W == S \union {w}
<1>1. /\ d \in [Nodes -> Cost] /\ \A n \in Nodes : d[n] <= c[n]
      /\ \A e \in graph : d[e.to] <= Plus(c[e.from], e.secs)
      /\ \A n \in Nodes : d[n] = c[n] \/ \E e \in graph : e.to = n /\ d[n] = Plus(c[e.from], e.secs)
      BY RelaxedOnce
<1> HIDE DEF d
<1>2. \A n \in Nodes : c[n] \in Nat /\ d[n] \in Nat /\ c[n] <= MaxCost /\ d[n] <= MaxCost
      BY <1>1, StreetAssumption DEF Cost
<1>3. ASSUME NEW e \in graph
      PROVE  /\ e.from \in Nodes /\ e.to \in Nodes
             /\ Plus(c[e.from], e.secs) \in Nat /\ c[e.from] <= Plus(c[e.from], e.secs)
             /\ Plus(d[e.from], e.secs) \in Nat /\ d[e.from] <= Plus(d[e.from], e.secs)
      BY <1>1, EdgeCosts
<1>4. ASSUME NEW n \in S PROVE d[n] = c[n]
  <2>1. CASE d[n] = c[n]
        BY <2>1
  <2>2. CASE \E e \in graph : e.to = n /\ d[n] = Plus(c[e.from], e.secs)
    <3>1. PICK e \in graph : e.to = n /\ d[n] = Plus(c[e.from], e.secs)
          BY <2>2
    <3>2. c[n] <= d[n]
          BY <3>1 DEF Settled
    <3> QED BY <1>1, <1>2, <3>2
  <2> QED BY <1>1, <2>1, <2>2
<1>5. ASSUME NEW n \in S, NEW y \in Nodes \ S PROVE c[n] <= d[y]
  <2>1. c[n] <= c[y]
        BY DEF Settled
  <2>2. CASE \E e \in graph : e.to = y /\ d[y] = Plus(c[e.from], e.secs)
    <3>1. PICK e \in graph : e.to = y /\ d[y] = Plus(c[e.from], e.secs)
          BY <2>2
    <3>2. CASE e.from \in S
      <4>1. c[y] <= d[y] \/ c[n] <= d[y]
            BY <3>1, <3>2 DEF Settled
      <4> QED BY <1>2, <2>1, <4>1
    <3>3. CASE e.from \notin S
      <4>1. c[n] <= c[e.from]
            BY <1>3, <3>3 DEF Settled
      <4> QED BY <1>2, <1>3, <3>1, <4>1
    <3> QED BY <3>2, <3>3
  <2> QED BY <1>1, <2>1, <2>2
<1>6. ASSUME NEW e \in graph, e.to \in W PROVE d[e.to] <= Plus(d[e.from], e.secs)
  <2>1. CASE e.from \in S
        BY <1>1, <1>4, <2>1
  <2>2. CASE e.from \notin S
    <3>1. d[e.to] <= d[e.from]
      <4>1. CASE e.to \in S
            BY <1>3, <1>4, <1>5, <2>2, <4>1
      <4>2. CASE e.to = w
            BY <1>3, <2>2, <4>2 DEF d
      <4> QED BY <1>6, <4>1, <4>2
    <3> QED BY <1>2, <1>3, <3>1
  <2> QED BY <2>1, <2>2
<1>7. ASSUME NEW n \in W, NEW y \in Nodes \ W PROVE d[n] <= d[y]
  <2>1. CASE n \in S
        BY <1>4, <1>5, <2>1
  <2>2. CASE n = w
        BY <2>2 DEF d
  <2> QED BY <2>1, <2>2
<1>8. ASSUME NEW e \in graph, e.from \in W
      PROVE  \/ d[e.to] <= Plus(d[e.from], e.secs)
             \/ \A n \in W : d[n] <= Plus(d[e.from], e.secs)
  <2>1. CASE e.from \in S
        BY <1>1, <1>4, <2>1
  <2>2. CASE e.from = w
    <3>1. ASSUME NEW n \in W PROVE d[n] <= Plus(d[w], e.secs)
      <4>1. d[n] <= d[w]
        <5>1. CASE n \in S
              BY <1>4, <1>5, <5>1
        <5>2. CASE n = w
              BY <1>2, <5>2
        <5> QED BY <5>1, <5>2
      <4>2. n \in Nodes
            OBVIOUS
      <4> QED BY <1>2, <1>3, <2>2, <4>1, <4>2
    <3> QED BY <2>2, <3>1
  <2> QED BY <1>8, <2>1, <2>2
<1>9. Settled(d, W)
  <2> HIDE DEF W
  <2> QED BY <1>6, <1>7, <1>8 DEF Settled
<1> QED BY <1>9 DEF d

\* The costs of routes: nothing at the source, no more than over any edge, and
\* as much as over one of them wherever there is a route.
LEMMA CostsOfRoutes ==
    ASSUME IsGraph
    PROVE  /\ Costs \in [Nodes -> Cost] /\ Costs[source] = 0
           /\ \A e \in graph : Costs[e.to] <= Plus(Costs[e.from], e.secs)
           /\ \A n \in Nodes : \/ n = source
                               \/ Costs[n] = MaxCost
                               \/ \E e \in graph : /\ e.to = n
                                                   /\ Costs[n] = Costs[e.from] + e.secs
<1> DEFINE N == Cardinality(Nodes)
<1>1. PICK c \in [0..N -> [Nodes -> Cost]] :
             /\ c[0] = [n \in Nodes |-> IF n = source THEN 0 ELSE MaxCost]
             /\ \A k \in 1..N : c[k] = Relaxed(c[k - 1])
             /\ Costs = c[N]
      BY CostSteps
<1>2. N \in Nat /\ source \in Nodes
      BY StreetAssumption, FS_CardinalityType DEF IsGraph
<1>3. ASSUME NEW k \in 1..N
      PROVE  /\ c[k - 1] \in [Nodes -> Cost] /\ c[k] \in [Nodes -> Cost]
             /\ c[k] = Relaxed(c[k - 1]) /\ k - 1 \in 0..N
      BY <1>1, <1>2
<1>4. \A k \in 0..N : \A n \in Nodes : c[k][n] \in Nat
      BY <1>1, StreetAssumption DEF Cost
<1>5. N \in 0..N
      BY <1>2
<1>6. ASSUME NEW k \in 0..N PROVE c[k][source] = 0
  <2> DEFINE T == {j \in 0..N : c[j][source] = 0}
  <2>1. 0 \in T
        BY <1>1, <1>2
  <2>2. ASSUME NEW p \in 1..N, p - 1 \in T PROVE p \in T
    <3>1. c[p][source] <= c[p - 1][source]
          BY <1>2, <1>3, RelaxedOnce
    <3> QED BY <1>2, <1>4, <2>2, <3>1
  <2>3. 0..N \subseteq T
    <3> HIDE DEF T, N
    <3> QED BY <1>2, <2>1, <2>2, UpTo
  <2> QED BY <2>3
<1>7. \A n \in Nodes : \/ n = source
                       \/ c[N][n] = MaxCost
                       \/ \E e \in graph : e.to = n /\ Plus(c[N][e.from], e.secs) <= c[N][n]
  <2> DEFINE Led(d, n) == \/ n = source
                          \/ d[n] = MaxCost
                          \/ \E e \in graph : e.to = n /\ Plus(d[e.from], e.secs) <= d[n]
             T == {j \in 0..N : \A n \in Nodes : Led(c[j], n)}
  <2>1. 0 \in T
        BY <1>1, <1>2
  <2>2. ASSUME NEW p \in 1..N, p - 1 \in T PROVE p \in T
    <3> DEFINE a == c[p - 1]
               d == c[p]
    <3>1. /\ a \in [Nodes -> Cost] /\ d \in [Nodes -> Cost]
          /\ \A n \in Nodes : d[n] <= a[n]
          /\ \A n \in Nodes : d[n] = a[n] \/ \E e \in graph : e.to = n /\ d[n] = Plus(a[e.from], e.secs)
          BY <1>3, RelaxedOnce
    <3>2. \A n \in Nodes : Led(a, n)
          BY <2>2
    <3> HIDE DEF a, d
    <3>3. ASSUME NEW e \in graph
          PROVE  /\ e.from \in Nodes /\ Plus(d[e.from], e.secs) <= Plus(a[e.from], e.secs)
                 /\ Plus(d[e.from], e.secs) \in Nat /\ Plus(a[e.from], e.secs) \in Nat
      <4>1. e.from \in Nodes /\ e.secs \in Nat
            BY EdgeKnown
      <4>2. /\ d[e.from] \in Cost /\ a[e.from] \in Cost /\ d[e.from] <= a[e.from]
            /\ a[e.from] \in Nat
            BY <3>1, <4>1 DEF Cost
      <4>3. Plus(d[e.from], e.secs) \in Nat /\ Plus(a[e.from], e.secs) \in Nat
            BY <3>1, EdgeCosts
      <4>4. Plus(d[e.from], e.secs) <= Plus(a[e.from], e.secs)
            BY <4>1, <4>2, PlusOrder
      <4> QED BY <4>1, <4>3, <4>4
    <3>4. ASSUME NEW n \in Nodes PROVE Led(d, n)
      <4>1. CASE d[n] = a[n]
        <5>1. CASE \E e \in graph : e.to = n /\ Plus(a[e.from], e.secs) <= a[n]
          <6>1. PICK e \in graph : e.to = n /\ Plus(a[e.from], e.secs) <= a[n]
                BY <5>1
          <6>2. a[n] \in Nat
                BY <3>1 DEF Cost
          <6>3. Plus(d[e.from], e.secs) <= d[n]
                BY <3>3, <4>1, <6>1, <6>2
          <6> QED BY <6>1, <6>3
        <5> QED BY <3>2, <4>1, <5>1
      <4>2. CASE \E e \in graph : e.to = n /\ d[n] = Plus(a[e.from], e.secs)
            BY <3>3, <4>2
      <4> QED BY <3>1, <4>1, <4>2
    <3> QED BY <3>4 DEF d
  <2>3. 0..N \subseteq T
    <3> HIDE DEF T, N
    <3> QED BY <1>2, <2>1, <2>2, UpTo
  <2> QED BY <1>5, <2>3
<1>8. \A e \in graph : c[N][e.to] <= Plus(c[N][e.from], e.secs)
  <2> DEFINE StillFar(k, S) == Settled(c[k], S) /\ (S = Nodes \/ k < Cardinality(S))
             T == {k \in 0..N : \E S \in SUBSET Nodes : StillFar(k, S)}
  <2>1. 0 \in T
    <3> DEFINE S == {source}
               a == c[0]
    <3>1. a = [n \in Nodes |-> IF n = source THEN 0 ELSE MaxCost] /\ S \in SUBSET Nodes
          BY <1>1, <1>2
    <3>2. \A n \in Nodes : a[n] \in Cost
          BY <3>1, StreetAssumption DEF Cost
    <3>3. \A e \in graph : e.from \in Nodes /\ e.to \in Nodes /\ Plus(a[e.from], e.secs) \in Cost
          BY <3>2, EdgeKnown, PlusOrder
    <3> HIDE DEF a
    <3>4. Settled(a, S)
          BY <3>1, <3>2, <3>3, StreetAssumption DEF Settled, Cost
    <3>5. Cardinality(S) = 1
          BY FS_Singleton
    <3> QED BY <1>2, <3>1, <3>4, <3>5 DEF a
  <2>2. ASSUME NEW p \in 1..N, p - 1 \in T PROVE p \in T
    <3>1. PICK S \in SUBSET Nodes : StillFar(p - 1, S)
          BY <2>2
    <3> DEFINE a == c[p - 1]
               d == c[p]
    <3>2. a \in [Nodes -> Cost] /\ d \in [Nodes -> Cost] /\ d = Relaxed(a) /\ Settled(a, S)
          BY <1>3, <3>1
    <3> HIDE DEF a, d
    <3>3. CASE S = Nodes
      <4>1. d = a
        <5>1. ASSUME NEW n \in Nodes PROVE d[n] = a[n]
          <6>1. a[n] \in Nat /\ d[n] \in Nat /\ d[n] <= a[n]
                BY <3>2, RelaxedOnce DEF Cost
          <6>2. ASSUME NEW e \in graph, e.to = n, d[n] = Plus(a[e.from], e.secs) PROVE a[n] <= d[n]
                BY <3>2, <3>3, <6>2 DEF Settled
          <6> QED BY <3>2, <6>1, <6>2, RelaxedOnce
        <5> QED BY <3>2, <5>1
      <4>2. Settled(d, S)
            BY <3>2, <4>1
      <4> QED BY <3>3, <4>2 DEF d
    <3>4. CASE S # Nodes
      <4> DEFINE Costing == {d[y] : y \in Nodes \ S}
      <4>1. Costing \in SUBSET Nat /\ Costing # {}
        <5>1. Nodes \ S # {}
              BY <3>4
        <5> QED BY <3>2, <5>1 DEF Cost
      <4>2. Min(Costing) \in Costing /\ \A y \in Costing : Min(Costing) <= y
        <5> HIDE DEF Costing
        <5> QED BY <4>1, LeastOf
      <4>3. PICK w \in Nodes \ S : d[w] = Min(Costing)
            BY <4>2
      <4>4. \A y \in Nodes \ S : d[w] <= d[y]
            BY <4>2, <4>3
      <4>5. Settled(d, S \union {w})
            BY <3>2, <4>4, OneMoreSettled
      <4>6. p - 1 < Cardinality(S)
            BY <3>1, <3>4
      <4>7. /\ IsFiniteSet(S) /\ Cardinality(S) \in Nat
            /\ Cardinality(S \union {w}) = Cardinality(S) + 1
            BY StreetAssumption, FS_Subset, FS_CardinalityType, FS_AddElement
      <4>8. p < Cardinality(S \union {w}) /\ S \union {w} \in SUBSET Nodes
            BY <4>6, <4>7
      <4>9. \E R \in SUBSET Nodes : Settled(d, R) /\ p < Cardinality(R)
            BY <4>5, <4>8
      <4> QED BY <4>9 DEF d
    <3> QED BY <3>3, <3>4
  <2>3. 0..N \subseteq T
    <3> HIDE DEF T, N
    <3> QED BY <1>2, <2>1, <2>2, UpTo
  <2>4. PICK S \in SUBSET Nodes : StillFar(N, S)
        BY <1>5, <2>3
  <2>5. S = Nodes
    <3>1. Cardinality(S) \in Nat /\ Cardinality(S) <= N
          BY StreetAssumption, FS_Subset, FS_CardinalityType
    <3> QED BY <1>2, <2>4, <3>1
  <2> QED BY <2>4, <2>5, EdgeKnown DEF Settled
<1>9. ASSUME NEW n \in Nodes, n # source, c[N][n] # MaxCost
      PROVE  \E e \in graph : e.to = n /\ c[N][n] = c[N][e.from] + e.secs
  <2>1. PICK e \in graph : e.to = n /\ Plus(c[N][e.from], e.secs) <= c[N][n]
        BY <1>7, <1>9
  <2>2. /\ e.from \in Nodes /\ e.secs \in Nat /\ c[N][e.from] \in Nat
        /\ c[N][n] \in Nat /\ c[N][n] <= MaxCost
        BY <1>1, <1>4, <1>5, EdgeKnown DEF Cost
  <2>3. Plus(c[N][e.from], e.secs) \in Nat /\ c[N][n] <= Plus(c[N][e.from], e.secs)
        BY <1>8, <2>1, <2>2, PlusFits
  <2>4. c[N][n] = Plus(c[N][e.from], e.secs) /\ c[N][n] < MaxCost
        BY <1>9, <2>1, <2>2, <2>3, StreetAssumption
  <2>5. PICK near : near = c[N][e.from]
        OBVIOUS
  <2>6. Plus(near, e.secs) = near + e.secs
        BY <2>2, <2>4, <2>5, PlusFits
  <2> QED BY <2>1, <2>4, <2>5, <2>6
<1>10. \A n \in Nodes : \/ n = source
                        \/ c[N][n] = MaxCost
                        \/ \E e \in graph : e.to = n /\ c[N][n] = c[N][e.from] + e.secs
       BY <1>9
<1>11. c[N] \in [Nodes -> Cost] /\ c[N][source] = 0
       BY <1>1, <1>5, <1>6
<1> HIDE DEF N
<1> QED BY <1>1, <1>8, <1>10, <1>11
-----------------------------------------------------------------------------
(* What the search has seen                                                *)

\* A node has a label and its entry was taken.
Taken(end, n) ==
    dist[end][n] < MaxCost /\ [cost |-> dist[end][n], node |-> n] \notin heap[end]

\* The edges of a taken node were taken too, unless by them no route is shorter.
Explored ==
    \A end \in Ends : \A e \in graph :
        Taken(end, Near(end, e)) =>
            \/ dist[end][Far(end, e)] <= dist[end][Near(end, e)] + e.secs
            \/ best <= dist[end][Near(end, e)] + e.secs

\* An edge between nodes each end has taken is on no shorter route.
Crossed ==
    \A e \in graph : Taken("forward", e.from) /\ Taken("backward", e.to) =>
        best <= dist["forward"][e.from] + e.secs + dist["backward"][e.to]

\* Nor is one end that the other has taken the end of one.
Reached ==
    \A end \in Ends :
        /\ dist[end][Root(end)] = 0
        /\ Taken(end, Root(Other(end))) => best <= dist[end][Root(Other(end))]

\* No label is less than a route costs, nor is what was found.
NotShorter ==
    /\ \A n \in Nodes :
           /\ Costs[n] <= dist["forward"][n]
           /\ dist["backward"][n] < MaxCost => Cheapest <= Costs[n] + dist["backward"][n]
    /\ Cheapest <= best
    /\ meeting = NoNode => best = MaxCost

Seen == stage # "idle" => Explored /\ Crossed /\ Reached /\ NotShorter

SInv == IInv /\ Seen /\ ShortestFound
-----------------------------------------------------------------------------
(* Why it may stop                                                         *)

LEMMA RootsKnown ==
    /\ Root("forward") = source /\ Root("backward") = target
    /\ Other("forward") = "backward" /\ Other("backward") = "forward"
    /\ \A e : /\ Near("forward", e) = e.from /\ Far("forward", e) = e.to
              /\ Near("backward", e) = e.to /\ Far("backward", e) = e.from
BY DEF Root, Other, Near, Far

\* A node whose entry is queued costs no less than the cheapest entry.
LEMMA QueuedAbove ==
    ASSUME IInv, NEW end \in Ends, NEW n \in Nodes,
           dist[end][n] < MaxCost, ~Taken(end, n)
    PROVE  Top(end) \in Nat /\ Top(end) <= dist[end][n]
<1> DEFINE T == {q.cost : q \in heap[end]}
<1>1. [cost |-> dist[end][n], node |-> n] \in heap[end]
      BY DEF Taken
<1>2. dist[end][n] \in T
      BY <1>1
<1>3. T \in SUBSET Nat
      BY DEF IInv, Queued
<1>4. Min(T) \in T /\ Min(T) <= dist[end][n]
  <2> HIDE DEF T
  <2> QED BY <1>2, <1>3, LeastOf
<1>5. Top(end) = Min(T)
      BY <1>1 DEF Top
<1> QED BY <1>3, <1>4, <1>5

\* Of some nodes one costs least.
LEMMA CheapestOf ==
    ASSUME IsGraph, NEW S \in SUBSET Nodes, S # {}
    PROVE  \E x \in S : \A y \in S : Costs[x] <= Costs[y]
<1> DEFINE T == {Costs[x] : x \in S}
<1>1. T \in SUBSET Nat /\ T # {}
      BY CostsOfRoutes DEF Cost
<1>2. Min(T) \in T /\ \A y \in T : Min(T) <= y
  <2> HIDE DEF T
  <2> QED BY <1>1, LeastOf
<1> QED BY <1>2

\* Were there a shorter route than found, then on the way of the source to each
\* node that costs less there would be a queued one that costs no more.
LEMMA QueuedAhead ==
    ASSUME IInv, stage # "idle", Explored, Reached, NEW p \in Nodes, Costs[p] < best,
           ~(Taken("forward", p) /\ dist["forward"][p] <= Costs[p])
    PROVE  Top("forward") \in Nat /\ Top("forward") <= Costs[p]
<1> DEFINE Behind(y) == ~(Taken("forward", y) /\ dist["forward"][y] <= Costs[y])
           Y == {y \in Nodes : Costs[y] <= Costs[p] /\ Behind(y)}
<1>1. /\ IsGraph /\ best \in Nat /\ best <= MaxCost /\ dist \in [Ends -> [Nodes -> Nat]]
      /\ "forward" \in Ends
      BY DEF IInv, TypeOK, IsGraph, Ends
<1>2. \A n \in Nodes : Costs[n] \in Nat
      BY <1>1, CostsOfRoutes DEF Cost
<1>3. p \in Y
      BY <1>2
<1>4. PICK y \in Y : \A z \in Y : Costs[y] <= Costs[z]
  <2>1. Y \in SUBSET Nodes /\ Y # {}
        BY <1>3
  <2>2. \E y \in Y : \A z \in Y : Costs[y] <= Costs[z]
    <3> HIDE DEF Y
    <3> QED BY <1>1, <2>1, CheapestOf
  <2> QED BY <2>2
<1>5. y \in Nodes /\ Costs[y] <= Costs[p] /\ Costs[y] \in Nat /\ Behind(y)
      BY <1>2
<1>6. dist["forward"][y] <= Costs[y]
  <2>1. CASE y = source
    <3>1. dist["forward"][y] = 0
          BY <1>1, <2>1, RootsKnown DEF Reached
    <3> QED BY <1>5, <3>1
  <2>2. CASE y # source
    <3>1. Costs[y] # MaxCost
          BY <1>1, <1>2, <1>5, StreetAssumption
    <3>2. PICK e \in graph : e.to = y /\ Costs[y] = Costs[e.from] + e.secs
          BY <1>1, <1>5, <2>2, <3>1, CostsOfRoutes
    <3>3. e.from \in Nodes /\ e.secs \in Nat \ {0} /\ Costs[e.from] \in Nat
          BY <1>1, <1>2, EdgeKnown
    <3>4. Costs[e.from] < Costs[y]
          BY <3>2, <3>3
    <3>5. Taken("forward", e.from) /\ dist["forward"][e.from] <= Costs[e.from]
      <4>1. e.from \notin Y
            BY <1>4, <1>5, <3>3, <3>4
      <4>2. Costs[e.from] <= Costs[p]
            BY <1>2, <1>5, <3>3, <3>4
      <4> QED BY <3>3, <4>1, <4>2
    <3>6. \/ dist["forward"][y] <= dist["forward"][e.from] + e.secs
          \/ best <= dist["forward"][e.from] + e.secs
          BY <1>1, <3>2, <3>5, RootsKnown DEF Explored
    <3>7. dist["forward"][y] \in Nat /\ dist["forward"][e.from] \in Nat
          BY <1>1, <1>5, <3>3
    <3> QED BY <1>1, <1>2, <1>5, <3>2, <3>3, <3>5, <3>6, <3>7
  <2> QED BY <2>1, <2>2
<1>7. dist["forward"][y] < MaxCost /\ dist["forward"][y] \in Nat
      BY <1>1, <1>2, <1>5, <1>6, StreetAssumption
<1>8. Top("forward") \in Nat /\ Top("forward") <= dist["forward"][y]
      BY <1>1, <1>5, <1>6, <1>7, QueuedAbove
<1> QED BY <1>2, <1>5, <1>6, <1>7, <1>8

\* Were there a shorter route than found, then one of its nodes would be queued
\* from the target, and not be taken from the source.
LEMMA QueuedBehind ==
    ASSUME IInv, stage # "idle", Explored, Crossed, Reached, Cheapest < best
    PROVE  \E p \in Nodes : /\ Costs[p] + dist["backward"][p] <= Cheapest
                            /\ ~Taken("backward", p)
                            /\ ~(Taken("forward", p) /\ dist["forward"][p] <= Costs[p])
<1> DEFINE L == Cheapest
           B == {x \in Nodes : Taken("backward", x) /\ Costs[x] + dist["backward"][x] <= L}
<1>1. /\ IsGraph /\ best \in Nat /\ best <= MaxCost /\ dist \in [Ends -> [Nodes -> Nat]]
      /\ "forward" \in Ends /\ "backward" \in Ends /\ target \in Nodes /\ source \in Nodes
      BY DEF IInv, TypeOK, IsGraph, Ends
<1>2. \A n \in Nodes : Costs[n] \in Nat /\ dist["forward"][n] \in Nat /\ dist["backward"][n] \in Nat
      BY <1>1, CostsOfRoutes DEF Cost
<1>3. L = Costs[target] /\ L \in Nat /\ L < best
      BY <1>1, <1>2 DEF Cheapest
<1>4. /\ dist["backward"][target] = 0
      /\ Taken("forward", target) => best <= dist["forward"][target]
      /\ Taken("backward", source) => best <= dist["backward"][source]
      BY <1>1, RootsKnown DEF Reached
<1> HIDE DEF L
<1>5. CASE B = {}
  <2>1. ~Taken("backward", target)
    <3>1. Costs[target] + dist["backward"][target] <= L
          BY <1>1, <1>2, <1>3, <1>4
    <3> QED BY <1>1, <1>5, <3>1
  <2>2. ~(Taken("forward", target) /\ dist["forward"][target] <= Costs[target])
        BY <1>1, <1>2, <1>3, <1>4
  <2> QED BY <1>1, <1>2, <1>3, <1>4, <2>1, <2>2 DEF L
<1>6. CASE B # {}
  <2>1. PICK x \in B : \A y \in B : Costs[x] <= Costs[y]
    <3>1. B \in SUBSET Nodes
          OBVIOUS
    <3>2. \E x \in B : \A y \in B : Costs[x] <= Costs[y]
      <4> HIDE DEF B
      <4> QED BY <1>1, <1>6, <3>1, CheapestOf
    <3> QED BY <3>2
  <2>2. /\ x \in Nodes /\ Taken("backward", x) /\ Costs[x] + dist["backward"][x] <= L
        /\ Costs[x] \in Nat /\ dist["backward"][x] \in Nat
        BY <1>2
  <2>3. x # source
    <3>1. ASSUME x = source PROVE FALSE
      <4>1. best <= dist["backward"][x]
            BY <1>4, <2>2, <3>1
      <4> QED BY <1>1, <1>3, <2>2, <4>1
    <3> QED BY <3>1
  <2>4. Costs[x] # MaxCost
        BY <1>1, <1>3, <2>2, StreetAssumption
  <2>5. PICK e \in graph : e.to = x /\ Costs[x] = Costs[e.from] + e.secs
        BY <1>1, <2>2, <2>3, <2>4, CostsOfRoutes
  <2> DEFINE p == e.from
  <2>6. /\ p \in Nodes /\ e.secs \in Nat \ {0} /\ Costs[p] \in Nat
        /\ dist["backward"][p] \in Nat /\ dist["forward"][p] \in Nat
        BY <1>1, <1>2, EdgeKnown
  <2>7. \/ dist["backward"][p] <= dist["backward"][x] + e.secs
        \/ best <= dist["backward"][x] + e.secs
        BY <1>1, <2>2, <2>5, RootsKnown DEF Explored
  <2>8. Taken("forward", p) => best <= dist["forward"][p] + e.secs + dist["backward"][x]
        BY <2>2, <2>5 DEF Crossed
  <2>9. Costs[x] = Costs[p] + e.secs
        BY <2>5
  <2> HIDE DEF p
  <2>10. Costs[p] + dist["backward"][p] <= L
        BY <1>1, <1>3, <2>2, <2>6, <2>7, <2>9
  <2>11. ~Taken("backward", p)
    <3>1. ASSUME Taken("backward", p) PROVE FALSE
      <4>1. p \in B
            BY <2>6, <2>10, <3>1
      <4>2. Costs[x] <= Costs[p]
            BY <2>1, <4>1
      <4> QED BY <2>2, <2>6, <2>9, <4>2
    <3> QED BY <3>1
  <2>12. ~(Taken("forward", p) /\ dist["forward"][p] <= Costs[p])
    <3>1. ASSUME Taken("forward", p), dist["forward"][p] <= Costs[p] PROVE FALSE
      <4>1. best <= dist["forward"][p] + e.secs + dist["backward"][x]
            BY <2>8, <3>1
      <4> QED BY <1>1, <1>3, <2>2, <2>6, <2>9, <3>1, <4>1
    <3> QED BY <3>1
  <2> QED BY <2>6, <2>10, <2>11, <2>12 DEF L
<1> QED BY <1>5, <1>6

\* When no queued pair can lead to less, nothing less is to be found.
LEMMA ExhaustedShortest ==
    ASSUME IInv, stage # "idle", Explored, Crossed, Reached, Exhausted
    PROVE  best <= Cheapest
<1>1. /\ best \in Nat /\ best <= MaxCost /\ dist \in [Ends -> [Nodes -> Nat]]
      /\ "backward" \in Ends /\ IsGraph /\ target \in Nodes
      BY DEF IInv, TypeOK, IsGraph, Ends
<1>2. \A n \in Nodes : Costs[n] \in Nat /\ dist["backward"][n] \in Nat
      BY <1>1, CostsOfRoutes DEF Cost
<1>3. Cheapest \in Nat
      BY <1>1, <1>2 DEF Cheapest
<1>4. SUFFICES ASSUME Cheapest < best PROVE FALSE
      BY <1>1, <1>3
<1>5. PICK p \in Nodes : /\ Costs[p] + dist["backward"][p] <= Cheapest
                         /\ ~Taken("backward", p)
                         /\ ~(Taken("forward", p) /\ dist["forward"][p] <= Costs[p])
      BY <1>4, QueuedBehind
<1>6. Costs[p] < best /\ dist["backward"][p] < MaxCost
      BY <1>1, <1>2, <1>3, <1>4, <1>5, StreetAssumption
<1>7. Top("forward") \in Nat /\ Top("forward") <= Costs[p]
      BY <1>5, <1>6, QueuedAhead
<1>8. Top("backward") \in Nat /\ Top("backward") <= dist["backward"][p]
      BY <1>1, <1>5, <1>6, QueuedAbove
<1>9. Plus(Top("forward"), Top("backward")) \in Nat
      /\ Plus(Top("forward"), Top("backward")) <= Top("forward") + Top("backward")
      BY <1>7, <1>8, PlusFits
<1>10. Plus(Top("forward"), Top("backward")) < best
      BY <1>1, <1>2, <1>3, <1>4, <1>5, <1>7, <1>8, <1>9
<1> QED BY <1>1, <1>9, <1>10 DEF Exhausted
-----------------------------------------------------------------------------
(* What a step changes of it                                               *)

LEMMA SeenAtFirst == StreetInit => Seen /\ ShortestFound
BY DEF StreetInit, Seen, ShortestFound

\* What becomes of labels and entries when one is taken.
LEMMA PopMoves ==
    ASSUME IInv, NEW end \in Ends, NEW q \in heap[end], Pop(end, q)
    PROVE  /\ q.node \in Nodes /\ dist[end][q.node] = q.cost /\ q.cost \in Nat
           /\ dist' \in [Ends -> [Nodes -> Nat]]
           /\ dist'[Other(end)] = dist[Other(end)] /\ heap'[Other(end)] = heap[Other(end)]
           /\ LET total == Plus(q.cost, dist[Other(end)][q.node])
              IN  /\ best' = IF total < best THEN total ELSE best
                  /\ meeting' = IF total < best THEN q.node ELSE meeting
           /\ \A m \in Nodes :
                  \/ dist'[end][m] = dist[end][m] /\ (Taken(end, m)' => Taken(end, m) \/ m = q.node)
                  \/ /\ ~Taken(end, m)' /\ dist'[end][m] < dist[end][m]
                     /\ \E e \in graph : /\ Near(end, e) = q.node /\ Far(end, e) = m
                                         /\ dist'[end][m] = q.cost + e.secs
           /\ \A e \in graph : Near(end, e) = q.node =>
                  dist'[end][Far(end, e)] <= q.cost + e.secs \/ best' <= q.cost + e.secs
<1> USE StreetAssumption
<1> DEFINE n == q.node
           total == Plus(q.cost, dist[Other(end)][n])
           bound == IF total < best THEN total ELSE best
           nearer == Nearer(end, n, q.cost, bound)
           via(m) == Via(end, n, m)
           dearers == Dearer(end, n, q.cost, bound)
           entry(m) == [cost |-> dist'[end][m], node |-> m]
<1>1. /\ q.cost <= dist[end][n] /\ graph' = graph
      /\ best' = bound /\ meeting' = IF total < best THEN n ELSE meeting
      /\ dist' = [dist EXCEPT ![end] =
                     [m \in Nodes |-> IF m \in nearer THEN Plus(q.cost, via(m).secs) ELSE @[m]]]
      /\ \E dearer \in SUBSET dearers :
             heap' = [heap EXCEPT ![end] =
                         (@ \ {q}) \union dearer
                         \union {[cost |-> Plus(q.cost, via(m).secs), node |-> m] : m \in nearer}]
      BY DEF Pop
<1>2. TypeOK /\ Queued
      BY DEF IInv
<1>3. /\ n \in Nodes /\ q.cost \in Nat /\ dist[end][n] = q.cost
      /\ Other(end) \in Ends /\ Other(end) # end /\ dist[Other(end)][n] \in Nat
      BY <1>1, <1>2 DEF TypeOK, Queued, Other, Ends
<1>4. bound \in Nat /\ bound <= MaxCost
      BY <1>2, <1>3, PlusFits DEF TypeOK
<1>5. ASSUME NEW m \in nearer
      PROVE  /\ m \in Nodes /\ via(m) \in graph /\ via(m).secs \in Nat
             /\ Near(end, via(m)) = n /\ Far(end, via(m)) = m
             /\ Plus(q.cost, via(m).secs) = q.cost + via(m).secs
             /\ q.cost + via(m).secs < dist[end][m]
      BY <1>2, <1>3, <1>4, ViaImproves
<1>6. \A f \in graph : f.secs \in Nat /\ f.from \in Nodes /\ f.to \in Nodes
      BY <1>2 DEF TypeOK, IsEdge
<1>7. ASSUME NEW e \in graph, Near(end, e) = n, Far(end, e) \notin nearer
      PROVE  dist[end][Far(end, e)] <= q.cost + e.secs \/ bound <= q.cost + e.secs
  <2> DEFINE m == Far(end, e)
             T == {f.secs : f \in {g \in graph : Near(end, g) = n /\ Far(end, g) = m}}
  <2>1. T \in SUBSET Nat /\ e.secs \in T
        BY <1>6, <1>7
  <2>2. Min(T) \in T /\ \A y \in T : Min(T) <= y
    <3> HIDE DEF T
    <3> QED BY <2>1, LeastOf
  <2>3. PICK f \in graph : Near(end, f) = n /\ Far(end, f) = m /\ f.secs = Min(T)
        BY <2>2
  <2>4. \A g \in graph : Near(end, g) = n /\ Far(end, g) = m => f.secs <= g.secs
        BY <2>2, <2>3
  <2> HIDE DEF T
  <2>5. Leads(end, f, n, m)
        BY <2>3, <2>4, Zenon DEF Leads
  <2>6. m \in Nodes /\ f.secs \in Nat /\ e.secs \in Nat /\ f.secs <= e.secs /\ dist[end][m] \in Nat
        BY <1>2, <1>6, <1>7, <2>4 DEF Far, TypeOK
  <2>7. ~Improves(end, f, q.cost, bound)
        BY <1>7, <2>5, <2>6, Zenon DEF Nearer
  <2>8. Plus(q.cost, f.secs) \in Nat /\ Plus(q.cost, f.secs) <= q.cost + f.secs
        BY <1>3, <2>6, PlusFits
  <2>9. ~(Plus(q.cost, f.secs) < bound) \/ ~(Plus(q.cost, f.secs) < dist[end][m])
        BY <2>3, <2>7, Zenon DEF Improves
  <2> QED BY <1>3, <1>4, <2>6, <2>8, <2>9
<1> HIDE DEF n, total, bound, nearer, via, dearers
<1>8. [m \in Nodes |-> IF m \in nearer THEN Plus(q.cost, via(m).secs) ELSE dist[end][m]]
            \in [Nodes -> Nat]
      BY <1>2, <1>3, <1>5 DEF TypeOK
<1>9. /\ dist' \in [Ends -> [Nodes -> Nat]] /\ dist'[Other(end)] = dist[Other(end)]
      /\ \A m \in Nodes : dist'[end][m] = IF m \in nearer THEN q.cost + via(m).secs ELSE dist[end][m]
      BY <1>1, <1>2, <1>3, <1>5, <1>8 DEF TypeOK
<1>10. /\ heap'[Other(end)] = heap[Other(end)] /\ heap[end] \ {q} \subseteq heap'[end]
       /\ \A m \in nearer : entry(m) \in heap'[end]
  <2>1. \A m \in nearer : entry(m) = [cost |-> Plus(q.cost, via(m).secs), node |-> m]
        BY <1>5, <1>9
  <2> QED BY <1>1, <1>2, <1>3, <2>1 DEF TypeOK
<1>11. ASSUME NEW m \in Nodes
       PROVE  \/ dist'[end][m] = dist[end][m] /\ (Taken(end, m)' => Taken(end, m) \/ m = n)
              \/ /\ ~Taken(end, m)' /\ dist'[end][m] < dist[end][m]
                 /\ \E e \in graph : /\ Near(end, e) = n /\ Far(end, e) = m
                                     /\ dist'[end][m] = q.cost + e.secs
  <2>1. CASE m \in nearer
    <3>1. ~Taken(end, m)'
          BY <1>10, <2>1 DEF Taken
    <3> QED BY <1>5, <1>9, <2>1, <3>1
  <2>2. CASE m \notin nearer
    <3>1. dist'[end][m] = dist[end][m]
          BY <1>9, <2>2
    <3>2. ASSUME Taken(end, m)', m # n PROVE Taken(end, m)
      <4>1. entry(m) \notin heap'[end] /\ dist'[end][m] < MaxCost
            BY <3>2 DEF Taken
      <4>2. entry(m).node = m
            OBVIOUS
      <4>3. entry(m) # q
            BY <3>2, <4>2 DEF n
      <4>4. entry(m) = [cost |-> dist[end][m], node |-> m]
            BY <3>1
      <4> HIDE DEF entry
      <4>5. entry(m) \notin heap[end]
            BY <1>10, <4>1, <4>3
      <4> QED BY <3>1, <4>1, <4>4, <4>5 DEF Taken
    <3> QED BY <3>1, <3>2
  <2> QED BY <2>1, <2>2
<1>12. ASSUME NEW e \in graph, Near(end, e) = n
       PROVE  dist'[end][Far(end, e)] <= q.cost + e.secs \/ best' <= q.cost + e.secs
  <2>1. Far(end, e) \in Nodes /\ e.secs \in Nat
        BY <1>6 DEF Far
  <2>2. CASE Far(end, e) \in nearer
    <3> DEFINE m == Far(end, e)
    <3>1. Leads(end, via(m), n, m)
      <4>1. PICK f \in graph : Leads(end, f, n, m)
            BY <2>2 DEF nearer, Nearer
      <4> HIDE DEF m
      <4> QED BY <4>1, Zenon DEF via, Via
    <3>2. via(m).secs <= e.secs
          BY <1>12, <3>1, Zenon DEF Leads
    <3>3. via(m).secs \in Nat
          BY <1>5, <2>2
    <3>4. dist'[end][m] = q.cost + via(m).secs
          BY <1>9, <2>1, <2>2
    <3>5. dist'[end][m] <= q.cost + e.secs
      <4> HIDE DEF m
      <4> QED BY <1>3, <2>1, <3>2, <3>3, <3>4
    <3> QED BY <3>5
  <2>3. CASE Far(end, e) \notin nearer
        BY <1>1, <1>7, <1>9, <1>12, <2>1, <2>3
  <2> QED BY <2>2, <2>3
<1>13. best' = IF total < best THEN total ELSE best
       BY <1>1 DEF bound
<1> QED BY <1>1, <1>3, <1>9, <1>10, <1>11, <1>12, <1>13 DEF n, total

\* Costs stay what they are while a search lasts.
LEMMA SameCosts ==
    ASSUME UNCHANGED <<graph, source, target>>
    PROVE  Costs' = Costs /\ Cheapest' = Cheapest
<1>1. Costs' = Costs
      BY DEF Costs, Relaxed, Plus
<1> QED BY <1>1 DEF Cheapest

LEMMA PopSeen ==
    ASSUME SInv, NEW end \in Ends, NEW q \in heap[end], Pop(end, q)
    PROVE  Seen' /\ ShortestFound'
<1> USE StreetAssumption
<1> DEFINE n == q.node
           other == Other(end)
           total == Plus(q.cost, dist[other][n])
<1>1. /\ stage = "search" /\ stage' = stage /\ graph' = graph /\ source' = source /\ target' = target
      BY DEF Pop
<1>2. /\ IInv /\ Explored /\ Crossed /\ Reached /\ NotShorter
      BY <1>1 DEF SInv, Seen
<1>3. /\ IsGraph /\ best \in Nat /\ best <= MaxCost /\ dist \in [Ends -> [Nodes -> Nat]]
      /\ source \in Nodes /\ target \in Nodes
      BY <1>1, <1>2 DEF IInv, TypeOK, IsGraph
<1>4. /\ Costs' = Costs /\ Cheapest' = Cheapest
      /\ \A m \in Nodes : Costs[m] \in Nat
      /\ Cheapest \in Nat
  <2>1. \A m \in Nodes : Costs[m] \in Nat
        BY <1>3, CostsOfRoutes DEF Cost
  <2> QED BY <1>1, <1>3, <2>1, SameCosts DEF Cheapest
<1>5. /\ n \in Nodes /\ dist[end][n] = q.cost /\ q.cost \in Nat
      /\ dist' \in [Ends -> [Nodes -> Nat]]
      /\ dist'[other] = dist[other] /\ heap'[other] = heap[other]
      /\ best' = (IF total < best THEN total ELSE best)
      /\ meeting' = (IF total < best THEN n ELSE meeting)
      BY <1>2, PopMoves
<1>6. ASSUME NEW m \in Nodes
      PROVE  \/ dist'[end][m] = dist[end][m] /\ (Taken(end, m)' => Taken(end, m) \/ m = n)
             \/ /\ ~Taken(end, m)' /\ dist'[end][m] < dist[end][m]
                /\ \E e \in graph : /\ Near(end, e) = n /\ Far(end, e) = m
                                    /\ dist'[end][m] = q.cost + e.secs
      BY <1>2, PopMoves
<1>7. ASSUME NEW e \in graph, Near(end, e) = n
      PROVE  dist'[end][Far(end, e)] <= q.cost + e.secs \/ best' <= q.cost + e.secs
      BY <1>2, <1>7, PopMoves
<1>8. other \in Ends /\ other # end /\ Ends = {end, other} /\ Other(other) = end
      BY DEF Other, Ends
<1>9. /\ total \in Nat /\ total <= q.cost + dist[other][n]
      /\ total < MaxCost => total = q.cost + dist[other][n]
      BY <1>3, <1>5, <1>8, PlusFits
<1>10. best' \in Nat /\ best' <= best /\ best' <= q.cost + dist[other][n]
       BY <1>3, <1>5, <1>8, <1>9
<1>11. ASSUME NEW e \in graph, NEW o \in Ends
       PROVE  /\ Near(o, e) \in Nodes /\ Far(o, e) \in Nodes /\ e.secs \in Nat
              /\ Near(Other(o), e) = Far(o, e) /\ Far(Other(o), e) = Near(o, e)
       BY <1>3, EdgeKnown DEF Near, Far, Other
<1>12. ASSUME NEW o \in Ends, NEW m \in Nodes
       PROVE  /\ dist[o][m] \in Nat /\ dist'[o][m] \in Nat /\ dist'[o][m] <= dist[o][m]
              /\ Taken(o, m)' => /\ dist'[o][m] = dist[o][m]
                                 /\ Taken(o, m) \/ (o = end /\ m = n)
  <2>1. CASE o = end
        BY <1>3, <1>5, <1>6, <2>1
  <2>2. CASE o = other
        BY <1>3, <1>5, <2>2 DEF Taken
  <2> QED BY <1>8, <2>1, <2>2
<1> HIDE DEF n, other, total
<1>13. Explored'
  <2> SUFFICES ASSUME NEW o \in Ends, NEW e \in graph, Taken(o, Near(o, e))'
               PROVE  \/ dist'[o][Far(o, e)] <= dist'[o][Near(o, e)] + e.secs
                      \/ best' <= dist'[o][Near(o, e)] + e.secs
      BY <1>1 DEF Explored, Near, Far
  <2>1. /\ dist'[o][Near(o, e)] = dist[o][Near(o, e)]
        /\ Taken(o, Near(o, e)) \/ (o = end /\ Near(o, e) = n)
        BY <1>11, <1>12
  <2>2. CASE Taken(o, Near(o, e))
    <3>1. \/ dist[o][Far(o, e)] <= dist[o][Near(o, e)] + e.secs
          \/ best <= dist[o][Near(o, e)] + e.secs
          BY <1>2, <2>2 DEF Explored
    <3>2. /\ dist'[o][Far(o, e)] <= dist[o][Far(o, e)] /\ e.secs \in Nat
          /\ dist'[o][Far(o, e)] \in Nat /\ dist[o][Far(o, e)] \in Nat
          /\ dist[o][Near(o, e)] \in Nat
          BY <1>11, <1>12
    <3> QED BY <1>3, <1>10, <2>1, <3>1, <3>2
  <2>3. CASE o = end /\ Near(o, e) = n
        BY <1>5, <1>7, <2>1, <2>3
  <2> QED BY <2>1, <2>2, <2>3
<1>14. Crossed'
  <2>1. ASSUME NEW e \in graph, Taken(end, Near(end, e))', Taken(other, Far(end, e))'
        PROVE  best' <= dist'[end][Near(end, e)] + e.secs + dist'[other][Far(end, e)]
    <3>1. /\ dist'[end][Near(end, e)] = dist[end][Near(end, e)]
          /\ dist'[other][Far(end, e)] = dist[other][Far(end, e)]
          /\ Taken(end, Near(end, e)) \/ Near(end, e) = n
          /\ Taken(other, Far(end, e))
          BY <1>8, <1>11, <1>12, <2>1
    <3>2. /\ dist[end][Near(end, e)] \in Nat /\ dist[other][Far(end, e)] \in Nat /\ e.secs \in Nat
          BY <1>8, <1>11, <1>12
    <3>3. CASE Taken(end, Near(end, e))
      <4>1. CASE end = "forward"
        <5>1. best <= dist[end][Near(end, e)] + e.secs + dist[other][Far(end, e)]
              BY <1>2, <3>1, <3>3, <4>1, RootsKnown DEF Crossed, other
        <5> QED BY <1>3, <1>10, <3>1, <3>2, <5>1
      <4>2. CASE end = "backward"
        <5>1. best <= dist[other][Far(end, e)] + e.secs + dist[end][Near(end, e)]
              BY <1>2, <3>1, <3>3, <4>2, RootsKnown DEF Crossed, other
        <5> QED BY <1>3, <1>10, <3>1, <3>2, <5>1
      <4> QED BY <4>1, <4>2 DEF Ends
    <3>4. CASE Near(end, e) = n
      <4>1. Near(other, e) = Far(end, e) /\ Far(other, e) = n
            BY <1>11, <3>4 DEF other
      <4>2. \/ dist[other][n] <= dist[other][Far(end, e)] + e.secs
            \/ best <= dist[other][Far(end, e)] + e.secs
            BY <1>2, <1>8, <3>1, <4>1 DEF Explored
      <4>3. dist[other][n] \in Nat
            BY <1>5, <1>8, <1>12
      <4> QED BY <1>3, <1>5, <1>10, <3>1, <3>2, <3>4, <4>2, <4>3
    <3> QED BY <3>1, <3>3, <3>4
  <2>2. SUFFICES ASSUME NEW e \in graph, Taken("forward", e.from)', Taken("backward", e.to)'
                 PROVE  best' <= dist'["forward"][e.from] + e.secs + dist'["backward"][e.to]
        BY <1>1 DEF Crossed
  <2>3. CASE end = "forward"
        BY <2>1, <2>2, <2>3, RootsKnown DEF other
  <2>4. CASE end = "backward"
    <3>1. best' <= dist'["backward"][e.to] + e.secs + dist'["forward"][e.from]
          BY <2>1, <2>2, <2>4, RootsKnown DEF other
    <3>2. dist'["backward"][e.to] \in Nat /\ dist'["forward"][e.from] \in Nat /\ e.secs \in Nat
          BY <1>3, <1>5, EdgeKnown DEF Ends
    <3> QED BY <1>10, <3>1, <3>2
  <2> QED BY <2>3, <2>4 DEF Ends
<1>15. Reached'
  <2>1. ASSUME NEW o \in Ends PROVE Root(o)' = Root(o) /\ Root(Other(o))' = Root(Other(o))
        BY <1>1 DEF Root
  <2>2. ASSUME NEW o \in Ends PROVE dist'[o][Root(o)] = 0
    <3>1. Root(o) \in Nodes /\ dist[o][Root(o)] = 0
          BY <1>2, <1>3 DEF Reached, Root
    <3>2. dist'[o][Root(o)] \in Nat /\ dist'[o][Root(o)] <= dist[o][Root(o)]
          BY <1>12, <3>1
    <3> QED BY <3>1, <3>2
  <2>3. ASSUME NEW o \in Ends, NEW r \in Nodes, r = Root(Other(o)), Taken(o, r)'
        PROVE  best' <= dist'[o][r]
    <3>1. dist'[o][r] = dist[o][r] /\ (Taken(o, r) \/ (o = end /\ r = n)) /\ dist[o][r] \in Nat
          BY <1>12, <2>3
    <3>2. CASE Taken(o, r)
      <4>1. best <= dist[o][r]
            BY <1>2, <2>3, <3>2 DEF Reached
      <4> QED BY <1>3, <1>10, <3>1, <4>1
    <3>3. CASE o = end /\ r = n
      <4>1. dist[other][n] = 0
            BY <1>2, <1>8, <2>3, <3>3 DEF Reached, other
      <4> QED BY <1>5, <1>10, <3>1, <3>3, <4>1
    <3> QED BY <3>1, <3>2, <3>3
  <2>4. ASSUME NEW o \in Ends PROVE Root(Other(o)) \in Nodes
        BY <1>3 DEF Root
  <2>5. \A o \in Ends :
            /\ dist'[o][Root(o)'] = 0
            /\ dist'[o][Root(Other(o))'] < MaxCost
               /\ [cost |-> dist'[o][Root(Other(o))'], node |-> Root(Other(o))'] \notin heap'[o] =>
                   best' <= dist'[o][Root(Other(o))']
    <3> SUFFICES ASSUME NEW o \in Ends, NEW r \in Nodes, r = Root(Other(o)),
                        dist'[o][r] < MaxCost, [cost |-> dist'[o][r], node |-> r] \notin heap'[o]
                 PROVE  best' <= dist'[o][r]
        BY <2>1, <2>2, <2>4
    <3> QED BY <2>3 DEF Taken
  <2> QED BY <2>5 DEF Reached, Taken
<1>16. NotShorter'
  <2>1. \A m \in Nodes : /\ Costs[m] <= dist["forward"][m]
                         /\ dist["backward"][m] < MaxCost => Cheapest <= Costs[m] + dist["backward"][m]
        BY <1>2 DEF NotShorter
  <2>2. ASSUME NEW e \in graph
        PROVE  /\ e.from \in Nodes /\ e.to \in Nodes /\ e.secs \in Nat
               /\ Costs[e.to] <= Costs[e.from] + e.secs
    <3>1. e.from \in Nodes /\ e.to \in Nodes /\ e.secs \in Nat
          BY <1>3, EdgeKnown
    <3>2. Costs[e.to] <= Plus(Costs[e.from], e.secs)
          BY <1>3, CostsOfRoutes
    <3>3. Plus(Costs[e.from], e.secs) <= Costs[e.from] + e.secs /\ Plus(Costs[e.from], e.secs) \in Nat
          BY <1>4, <3>1, PlusFits
    <3>4. Costs[e.to] \in Nat /\ Costs[e.from] \in Nat
          BY <1>4, <3>1
    <3> QED BY <3>1, <3>2, <3>3, <3>4
  <2>3. ASSUME NEW m \in Nodes PROVE Costs[m] <= dist'["forward"][m]
    <3>1. CASE end = "forward"
      <4>1. CASE dist'[end][m] = dist[end][m]
            BY <2>1, <3>1, <4>1
      <4>2. CASE \E e \in graph : Near(end, e) = n /\ Far(end, e) = m /\ dist'[end][m] = q.cost + e.secs
        <5>1. PICK e \in graph : e.from = n /\ e.to = m /\ dist'["forward"][m] = q.cost + e.secs
              BY <3>1, <4>2, RootsKnown
        <5>2. Costs[n] <= q.cost
              BY <1>5, <2>1, <3>1
        <5>3. e.secs \in Nat /\ Costs[m] <= Costs[n] + e.secs /\ Costs[n] \in Nat /\ Costs[m] \in Nat
              BY <1>4, <1>5, <2>2, <5>1
        <5> QED BY <1>5, <5>1, <5>2, <5>3
      <4> QED BY <1>6, <4>1, <4>2
    <3>2. CASE end = "backward"
          BY <1>5, <2>1, <3>2, RootsKnown DEF other
    <3> QED BY <3>1, <3>2 DEF Ends
  <2>4. ASSUME NEW m \in Nodes, dist'["backward"][m] < MaxCost
        PROVE  Cheapest <= Costs[m] + dist'["backward"][m]
    <3>1. CASE end = "backward"
      <4>1. CASE dist'[end][m] = dist[end][m]
            BY <2>1, <2>4, <3>1, <4>1
      <4>2. CASE \E e \in graph : Near(end, e) = n /\ Far(end, e) = m /\ dist'[end][m] = q.cost + e.secs
        <5>1. PICK e \in graph : e.to = n /\ e.from = m /\ dist'["backward"][m] = q.cost + e.secs
              BY <3>1, <4>2, RootsKnown
        <5>2. q.cost < MaxCost
              BY <1>5, <2>2, <2>4, <5>1
        <5>3. Cheapest <= Costs[n] + q.cost
              BY <1>5, <2>1, <3>1, <5>2
        <5>4. e.secs \in Nat /\ Costs[n] <= Costs[m] + e.secs /\ Costs[n] \in Nat /\ Costs[m] \in Nat
              BY <1>4, <1>5, <2>2, <5>1
        <5> QED BY <1>4, <1>5, <5>1, <5>3, <5>4
      <4> QED BY <1>6, <4>1, <4>2
    <3>2. CASE end = "forward"
          BY <1>5, <2>1, <2>4, <3>2, RootsKnown DEF other
    <3> QED BY <3>1, <3>2 DEF Ends
  <2>5. Cheapest <= best'
    <3>1. CASE total < best
      <4>1. best' = q.cost + dist[other][n]
            BY <1>3, <1>5, <1>9, <3>1
      <4>2. best' < MaxCost /\ dist[other][n] \in Nat
            BY <1>3, <1>5, <1>8, <1>9, <1>10, <1>12, <3>1
      <4>3. Costs[n] \in Nat
            BY <1>4, <1>5
      <4>4. CASE end = "forward"
        <5>1. Cheapest <= Costs[n] + dist[other][n] /\ Costs[n] <= q.cost
              BY <1>5, <2>1, <4>1, <4>2, <4>4, RootsKnown DEF other
        <5> QED BY <1>4, <1>5, <4>1, <4>2, <4>3, <5>1
      <4>5. CASE end = "backward"
        <5>1. q.cost < MaxCost
              BY <1>5, <4>1, <4>2
        <5>2. Cheapest <= Costs[n] + q.cost /\ Costs[n] <= dist[other][n]
              BY <1>5, <2>1, <4>5, <5>1, RootsKnown DEF other
        <5> QED BY <1>4, <1>5, <4>1, <4>2, <4>3, <5>2
      <4> QED BY <4>4, <4>5 DEF Ends
    <3>2. CASE ~(total < best)
          BY <1>2, <1>5, <3>2 DEF NotShorter
    <3> QED BY <3>1, <3>2
  <2>6. meeting' = NoNode => best' = MaxCost
        BY <1>2, <1>5 DEF NotShorter
  <2> QED BY <1>4, <2>3, <2>4, <2>5, <2>6 DEF NotShorter
<1>17. ShortestFound'
       BY <1>1 DEF ShortestFound
<1> QED BY <1>13, <1>14, <1>15, <1>16, <1>17 DEF Seen

\* What is known of costs holds of any later state too.
LEMMA CostsKnown ==
    IsGraph => Costs \in [Nodes -> Cost] /\ Costs[source] = 0
BY CostsOfRoutes

LEMMA StartSeen ==
    ASSUME SInv, NEW s \in Nodes, NEW t \in Nodes, StartSearch(s, t)
    PROVE  Seen' /\ ShortestFound'
<1> USE StreetAssumption
<1> DEFINE root(end) == IF end = "forward" THEN s ELSE t
<1>1. /\ stage = "idle" /\ graph' = Served /\ source' = s /\ target' = t
      /\ dist' = [end \in Ends |-> [dist[end] EXCEPT ![root(end)] = 0]]
      /\ heap' = [end \in Ends |-> {[cost |-> 0, node |-> root(end)]}]
      /\ \/ stage' = "back" /\ best' = 0 /\ meeting' = s /\ s = t
         \/ stage' = "search" /\ best' = best /\ meeting' = meeting
      BY DEF StartSearch
<1>2. /\ dist = [end \in Ends |-> [n \in Nodes |-> MaxCost]]
      /\ best = MaxCost /\ meeting = NoNode
      BY <1>1 DEF SInv, IInv, Unstarted
<1>3. ASSUME NEW end \in Ends
      PROVE  root(end) \in Nodes /\ Root(end)' = root(end)
      BY <1>1 DEF Root
<1>4. ASSUME NEW end \in Ends, NEW n \in Nodes
      PROVE  /\ dist'[end][n] = IF n = root(end) THEN 0 ELSE MaxCost
             /\ [cost |-> 0, node |-> root(end)] \in heap'[end]
      BY <1>1, <1>2, <1>3
<1>5. /\ \A n \in Nodes : Costs'[n] \in Nat /\ Costs'[n] <= MaxCost
      /\ Costs'[s] = 0 /\ Cheapest' = Costs'[t]
  <2>1. IsGraph'
        BY <1>1 DEF IsGraph, Served
  <2>2. (Costs \in [Nodes -> Cost] /\ Costs[source] = 0)'
        BY <2>1, CostsKnown, PTL
  <2>3. Costs' \in [Nodes -> Cost] /\ Costs'[s] = 0
        BY <1>1, <2>2 DEF Cost
  <2> QED BY <1>1, <2>3 DEF Cheapest, Cost
<1>6. \A end \in Ends : \A n \in Nodes : ~Taken(end, n)'
  <2> SUFFICES ASSUME NEW end \in Ends, NEW n \in Nodes, dist'[end][n] < MaxCost
               PROVE  [cost |-> dist'[end][n], node |-> n] \in heap'[end]
      BY DEF Taken
  <2> HIDE DEF root
  <2>1. dist'[end][n] = IF n = root(end) THEN 0 ELSE MaxCost
        BY <1>4
  <2>2. n = root(end)
        BY <2>1
  <2> QED BY <1>4, <2>1, <2>2
<1>7. \A e \in graph' : e.from \in Nodes /\ e.to \in Nodes
      BY <1>1 DEF Served, IsEdge
<1> HIDE DEF root
<1>8. Explored'
  <2>1. \A end \in Ends : \A e \in graph' : ~Taken(end, Near(end, e))'
        BY <1>6, <1>7 DEF Near
  <2> QED BY <2>1 DEF Explored
<1>9. Crossed'
  <2>1. \A e \in graph' : ~Taken("forward", e.from)'
        BY <1>6, <1>7 DEF Ends
  <2> QED BY <2>1 DEF Crossed
<1>10. Reached'
  <2>1. \A end \in Ends : Other(end) \in Ends
        BY DEF Other, Ends
  <2>2. ASSUME NEW end \in Ends PROVE dist'[end][Root(end)'] = 0 /\ ~Taken(end, Root(Other(end)))'
    <3>1. Root(end)' \in Nodes /\ Root(Other(end))' \in Nodes
          BY <1>3, <2>1
    <3>2. PICK x \in Nodes : x = Root(Other(end))'
          BY <3>1
    <3>3. ~Taken(end, x)'
          BY <1>6
    <3> QED BY <1>3, <1>4, <3>2, <3>3 DEF Taken
  <2> QED BY <2>2 DEF Reached, Taken
<1>11. NotShorter'
  <2>1. ASSUME NEW n \in Nodes
        PROVE  /\ Costs'[n] <= dist'["forward"][n]
               /\ dist'["backward"][n] < MaxCost => Cheapest' <= Costs'[n] + dist'["backward"][n]
        BY <1>4, <1>5 DEF root, Ends
  <2>2. Cheapest' <= best' /\ (meeting' = NoNode => best' = MaxCost)
        BY <1>1, <1>2, <1>5
  <2> QED BY <2>1, <2>2 DEF NotShorter
<1>12. ShortestFound'
       BY <1>1, <1>5 DEF ShortestFound
<1> QED BY <1>8, <1>9, <1>10, <1>11, <1>12 DEF Seen

LEMMA SeenKept ==
    ASSUME Seen, stage # "idle", UNCHANGED queueVars
    PROVE  Seen' /\ Cheapest' = Cheapest
<1>1. UNCHANGED <<graph, source, target, dist, parent, heap, best, meeting>>
      BY DEF queueVars
<1>2. Costs' = Costs /\ Cheapest' = Cheapest
      BY <1>1, SameCosts
<1>3. Explored' /\ Crossed' /\ Reached'
      BY <1>1 DEF Seen, Explored, Crossed, Reached, Taken, Root
<1>4. NotShorter'
      BY <1>1, <1>2 DEF Seen, NotShorter
<1> QED BY <1>2, <1>3, <1>4 DEF Seen

LEMMA SeenStep == SInv /\ [StreetNext]_streetVars => Seen' /\ ShortestFound'
<1> SUFFICES ASSUME SInv, [StreetNext]_streetVars PROVE Seen' /\ ShortestFound'
    OBVIOUS
<1>1. IInv /\ Seen /\ ShortestFound
      BY DEF SInv
<1>2. ASSUME UNCHANGED <<stage, queueVars>> PROVE Seen' /\ ShortestFound'
  <2>1. CASE stage = "idle"
        BY <1>2, <2>1 DEF Seen, ShortestFound
  <2>2. CASE stage # "idle"
        BY <1>1, <1>2, <2>2, SeenKept DEF ShortestFound, queueVars
  <2> QED BY <2>1, <2>2
<1>3. ASSUME NEW diff \in Diffs, ApplyDiff(diff) PROVE Seen' /\ ShortestFound'
      BY <1>2, <1>3 DEF ApplyDiff
<1>4. ASSUME NEW end \in Ends, NEW q \in heap[end], PopStale(end, q)
      PROVE  Seen' /\ ShortestFound'
  <2>1. /\ stage = "search" /\ q.cost > dist[end][q.node]
        /\ UNCHANGED <<stage, graph, source, target, dist, best, meeting>>
        /\ heap' = [heap EXCEPT ![end] = @ \ {q}]
        BY <1>4 DEF PopStale
  <2>2. ASSUME NEW o \in Ends, NEW n \in Nodes, Taken(o, n)' PROVE Taken(o, n)
    <3>1. dist[o][n] < MaxCost /\ [cost |-> dist[o][n], node |-> n] \notin heap'[o]
          BY <2>1, <2>2 DEF Taken
    <3>2. dist[o][n] \in Nat
          BY <1>1 DEF IInv, TypeOK
    <3>3. ASSUME o = end PROVE [cost |-> dist[o][n], node |-> n] # q
          BY <2>1, <3>2, <3>3
    <3>4. heap[o] \ {q} \subseteq heap'[o] /\ (o # end => heap'[o] = heap[o])
          BY <1>1, <2>1 DEF IInv, TypeOK
    <3> QED BY <3>1, <3>3, <3>4 DEF Taken
  <2>3. /\ Explored /\ Crossed /\ Reached /\ NotShorter /\ source \in Nodes /\ target \in Nodes
        /\ \A e \in graph : e.from \in Nodes /\ e.to \in Nodes
        BY <1>1, <2>1 DEF Seen, IInv, TypeOK, IsEdge
  <2>4. Explored'
    <3>1. \A o \in Ends : \A e \in graph : Taken(o, Near(o, e))' => Taken(o, Near(o, e))
          BY <2>2, <2>3 DEF Near
    <3> QED BY <2>1, <2>3, <3>1 DEF Explored
  <2>5. Crossed'
    <3>1. \A e \in graph : /\ Taken("forward", e.from)' => Taken("forward", e.from)
                           /\ Taken("backward", e.to)' => Taken("backward", e.to)
          BY <2>2, <2>3 DEF Ends
    <3> QED BY <2>1, <2>3, <3>1 DEF Crossed
  <2>6. Reached'
    <3>1. ASSUME NEW o \in Ends
          PROVE  /\ Root(o)' = Root(o) /\ Root(Other(o))' = Root(Other(o))
                 /\ Taken(o, Root(Other(o)))' => Taken(o, Root(Other(o)))
      <4>1. Root(o)' = Root(o) /\ Root(Other(o))' = Root(Other(o)) /\ Root(Other(o)) \in Nodes
            BY <2>1, <2>3 DEF Root
      <4>2. PICK x \in Nodes : x = Root(Other(o))
            BY <4>1
      <4>3. Taken(o, x)' => Taken(o, x)
            BY <2>2
      <4> QED BY <4>1, <4>2, <4>3 DEF Taken
    <3> QED BY <2>1, <2>3, <3>1 DEF Reached, Taken, Root
  <2>7. NotShorter'
        BY <2>1, <2>3, SameCosts DEF NotShorter
  <2> QED BY <2>1, <2>4, <2>5, <2>6, <2>7 DEF Seen, ShortestFound
<1>5. CASE Stop
  <2>1. /\ stage = "search" /\ Exhausted /\ stage' = (IF meeting = NoNode THEN "none" ELSE "back")
        /\ UNCHANGED queueVars /\ best' = best
        BY <1>5 DEF Stop, queueVars
  <2>2. Seen' /\ Cheapest' = Cheapest
        BY <1>1, <2>1, SeenKept
  <2>3. Explored /\ Crossed /\ Reached /\ NotShorter
        BY <1>1, <2>1 DEF Seen
  <2>4. best <= Cheapest
        BY <1>1, <2>1, <2>3, ExhaustedShortest
  <2>5. Cheapest \in Nat /\ best \in Nat
    <3>1. IsGraph /\ target \in Nodes /\ best \in Nat
          BY <1>1, <2>1 DEF IInv, TypeOK, IsGraph
    <3> QED BY <3>1, CostsOfRoutes, StreetAssumption DEF Cheapest, Cost
  <2>6. best = Cheapest /\ (meeting = NoNode => best = MaxCost)
        BY <2>3, <2>4, <2>5 DEF NotShorter
  <2> QED BY <2>1, <2>2, <2>6 DEF ShortestFound
<1>6. ASSUME NEW end \in Ends, Rebuild(end) PROVE Seen' /\ ShortestFound'
  <2>1. /\ stage \in {"back", "ahead"} /\ stage' \in {"back", "ahead", "done", "incomplete"}
        /\ UNCHANGED queueVars /\ best' = best
        BY <1>6 DEF Rebuild, queueVars
  <2>2. Seen' /\ Cheapest' = Cheapest
        BY <1>1, <2>1, SeenKept
  <2> QED BY <1>1, <2>1, <2>2 DEF ShortestFound
<1>7. CASE UNCHANGED streetVars
      BY <1>2, <1>7 DEF streetVars
<1> QED BY <1>3, <1>4, <1>5, <1>6, <1>7, StartSeen, PopSeen DEF StreetNext, SearchStep

\* A search that ends has found the shortest route there is, or there is none,
\* on every map with every overlay (bidirectional_search).
THEOREM ShortestIsFound == StreetSpec => []ShortestFound
<1>1. StreetInit => SInv
      BY InitInvariant, SeenAtFirst DEF SInv
<1>2. SInv /\ [StreetNext]_streetVars => SInv'
      BY StepInvariant, SeenStep DEF SInv
<1>3. SInv => ShortestFound
      BY DEF SInv
<1> QED BY <1>1, <1>2, <1>3, PTL DEF StreetSpec
-----------------------------------------------------------------------------
(* The edges served are those of the map                                   *)

\* The places of the nodes of a way.
PlacesOf(refs, places) == [i \in DOMAIN refs |-> places[refs[i]]]

\* A way that was never changed is the one of the extract, places included; of one
\* that was, the override is what OSM says of it, and there is none only if it has
\* no edges.
Fits(map, o, ways, places, w) ==
    /\ w \notin o.blocked =>
           /\ w \notin DOMAIN o.overrides
           /\ w \in DOMAIN ways <=> w \in DOMAIN map.ways
           /\ w \in DOMAIN ways =>
                  /\ ways[w].refs = map.ways[w].refs /\ ways[w].dir = map.ways[w].dir
                  /\ PlacesOf(ways[w].refs, places) = PlacesOf(ways[w].refs, map.places)
    /\ w \in o.blocked =>
           /\ w \in DOMAIN o.overrides =>
                  /\ w \in DOMAIN ways
                  /\ o.overrides[w].refs = ways[w].refs /\ o.overrides[w].dir = ways[w].dir
                  /\ o.overrides[w].at = PlacesOf(ways[w].refs, places)
           /\ w \in DOMAIN ways \ DOMAIN o.overrides => Len(ways[w].refs) < 2

MInv ==
    /\ base \in Maps /\ IsMap(osm.map)
    /\ \A w : w \notin osm.untold => Fits(base, overlay, osm.map.ways, osm.map.places, w)

\* The edges of a way lead from node to node and take some seconds.
LEMMA EdgesKnown ==
    ASSUME NEW w, NEW dir, NEW refs \in Seq(Nodes), NEW at, DOMAIN at = DOMAIN refs,
           \A i \in DOMAIN at : at[i] \in Places
    PROVE  \A e \in WayEdges(w, refs, at, dir) : e.way = w /\ IsEdge(e)
<1>1. ASSUME NEW p \in Places, NEW q \in Places PROVE Duration(p, q) \in 1..MaxEdge
  <2>1. p[1] \in Int /\ p[2] \in Int /\ q[1] \in Int /\ q[2] \in Int
        BY DEF Places
  <2> DEFINE gap(x, y) == IF x < y THEN y - x ELSE x - y
  <2>2. \A x, y \in Int : gap(x, y) \in Nat
        OBVIOUS
  <2>3. Apart(p, q) = gap(p[1], q[1]) + gap(p[2], q[2])
        BY DEF Apart
  <2>4. Apart(p, q) \in Nat
    <3> HIDE DEF gap
    <3>1. gap(p[1], q[1]) \in Nat /\ gap(p[2], q[2]) \in Nat
          BY <2>1, <2>2
    <3> QED BY <2>3, <3>1
  <2> QED BY <2>4, StreetAssumption DEF Duration
<1> DEFINE edge(i, j) == [from |-> refs[i], to |-> refs[j], secs |-> Duration(at[i], at[j]), way |-> w]
<1>2. ASSUME NEW i \in DOMAIN refs, NEW j \in DOMAIN refs
      PROVE  edge(i, j).way = w /\ IsEdge(edge(i, j))
      BY <1>1 DEF IsEdge
<1>3. ASSUME NEW e \in WayEdges(w, refs, at, dir)
      PROVE  \E i, j \in DOMAIN refs : e = edge(i, j)
      BY DEF WayEdges
<1> QED BY <1>2, <1>3

\* A way of one node has no edges.
LEMMA NoEdges ==
    ASSUME NEW w, NEW dir, NEW refs \in Seq(Nodes), NEW at, Len(refs) < 2
    PROVE  WayEdges(w, refs, at, dir) = {}
<1>1. \A i : ~(i \in DOMAIN refs /\ i + 1 \in DOMAIN refs)
  <2> SUFFICES ASSUME NEW i, i \in DOMAIN refs, i + 1 \in DOMAIN refs PROVE FALSE
      OBVIOUS
  <2>1. DOMAIN refs = 1..Len(refs) /\ Len(refs) \in Nat
        OBVIOUS
  <2> QED BY <2>1
<1> QED BY <1>1 DEF WayEdges

\* Of the ways told the edges served are those of the map.
LEMMA FittingServed ==
    ASSUME MInv
    PROVE  ServedIsMap
<1> DEFINE ways == osm.map.ways
           places == osm.map.places
           edges(w) == WayEdges(w, ways[w].refs, PlacesOf(ways[w].refs, places), ways[w].dir)
           based(w) == WayEdges(w, base.ways[w].refs, PlacesOf(base.ways[w].refs, base.places), base.ways[w].dir)
           laid(w) == WayEdges(w, overlay.overrides[w].refs, overlay.overrides[w].at, overlay.overrides[w].dir)
<1>1. /\ \A e : e \in MapEdges(osm.map) <=> \E w \in DOMAIN ways : e \in edges(w)
      /\ \A e : e \in MapEdges(base) <=> \E w \in DOMAIN base.ways : e \in based(w)
      /\ \A e : e \in OverlayEdges <=> \E w \in DOMAIN overlay.overrides : e \in laid(w)
      BY DEF MapEdges, OverlayEdges, PlacesOf
<1>2. ASSUME NEW w \in DOMAIN ways
      PROVE  /\ ways[w].refs \in Seq(Nodes)
             /\ \A e \in edges(w) : e.way = w /\ IsEdge(e)
  <2>1. ways[w].refs \in Seq(Nodes) /\ Range(ways[w].refs) \subseteq DOMAIN places
        BY DEF MInv, IsMap
  <2>2. PICK at : at = PlacesOf(ways[w].refs, places)
        OBVIOUS
  <2>3. DOMAIN at = DOMAIN ways[w].refs /\ \A i \in DOMAIN at : at[i] \in Places
        BY <2>1, <2>2 DEF PlacesOf, Range, MInv, IsMap
  <2> QED BY <2>1, <2>2, <2>3, EdgesKnown
<1>3. ASSUME NEW w \in DOMAIN base.ways PROVE \A e \in based(w) : e.way = w
      BY DEF WayEdges
<1>4. ASSUME NEW w, w \notin osm.untold PROVE Fits(base, overlay, ways, places, w)
      BY <1>4 DEF MInv
<1>5. ASSUME NEW w \in DOMAIN ways, w \notin osm.untold, w \notin overlay.blocked
      PROVE  w \in DOMAIN base.ways /\ edges(w) = based(w)
      BY <1>4, <1>5 DEF Fits
<1>6. ASSUME NEW w \in DOMAIN overlay.overrides, w \notin osm.untold
      PROVE  w \in DOMAIN ways /\ edges(w) = laid(w)
      BY <1>4, <1>6 DEF Fits
<1>7. ASSUME NEW w \in DOMAIN ways, w \notin osm.untold,
             w \in overlay.blocked, w \notin DOMAIN overlay.overrides
      PROVE  edges(w) = {}
  <2>1. Len(ways[w].refs) < 2
        BY <1>4, <1>7 DEF Fits
  <2> QED BY <1>2, <2>1, NoEdges
<1>8. ASSUME NEW e \in MapEdges(osm.map), e.way \notin osm.untold PROVE e \in Served
  <2>1. PICK w \in DOMAIN ways : e \in edges(w)
        BY <1>1
  <2>2. e.way = w /\ IsEdge(e) /\ w \notin osm.untold
        BY <1>2, <1>8, <2>1
  <2>3. CASE w \notin overlay.blocked
        BY <1>1, <1>5, <2>1, <2>2, <2>3 DEF Served
  <2>4. CASE w \in overlay.blocked
    <3>1. w \in DOMAIN overlay.overrides
          BY <1>7, <2>1, <2>2, <2>4
    <3> QED BY <1>1, <1>6, <2>1, <2>2, <3>1 DEF Served
  <2> QED BY <2>3, <2>4
<1>9. ASSUME NEW e \in Served, e.way \notin osm.untold PROVE e \in MapEdges(osm.map)
  <2>1. \/ e \in MapEdges(base) /\ e.way \notin overlay.blocked
        \/ e \in OverlayEdges
        BY DEF Served
  <2>2. CASE e \in OverlayEdges
    <3>1. PICK w \in DOMAIN overlay.overrides : e \in laid(w)
          BY <1>1, <2>2
    <3>2. e.way = w
          BY <3>1 DEF WayEdges
    <3> QED BY <1>1, <1>6, <1>9, <3>1, <3>2
  <2>3. CASE e \in MapEdges(base) /\ e.way \notin overlay.blocked
    <3>1. PICK w \in DOMAIN base.ways : e \in based(w)
          BY <1>1, <2>3
    <3>2. w \notin overlay.blocked /\ w \notin osm.untold
          BY <1>3, <1>9, <2>3, <3>1
    <3>3. w \in DOMAIN ways
          BY <1>4, <3>2 DEF Fits
    <3> QED BY <1>1, <1>5, <3>1, <3>2, <3>3
  <2> QED BY <2>1, <2>2, <2>3
<1> QED BY <1>8, <1>9 DEF ServedIsMap, EdgesTold
-----------------------------------------------------------------------------
(* The elements of a diff, one after another                               *)

\* A way all of whose nodes are given gets the places of all.
LEMMA AllGiven ==
    ASSUME NEW refs \in Seq(Nodes), NEW nodes, Range(refs) \subseteq DOMAIN nodes,
           \A n \in Range(refs) : nodes[n] \in Places
    PROVE  PlacesGiven(refs, nodes) = PlacesOf(refs, nodes)
<1> DEFINE N == Len(refs)
           step(g) == [i \in 0..N |-> IF i = 0 THEN <<>>
                                      ELSE IF refs[i] \in DOMAIN nodes THEN Append(g[i - 1], nodes[refs[i]])
                                      ELSE g[i - 1]]
           upto(k) == [i \in 1..k |-> nodes[refs[i]]]
           T(h) == {k \in 0..N : h[k] = upto(k)}
<1>1. N \in Nat /\ DOMAIN refs = 1..N
      OBVIOUS
<1>2. \A i \in 1..N : refs[i] \in DOMAIN nodes /\ nodes[refs[i]] \in Places
      BY <1>1 DEF Range
<1>3. upto(0) = <<>>
      OBVIOUS
<1>4. ASSUME NEW k \in 1..N PROVE upto(k) = Append(upto(k - 1), nodes[refs[k]])
  <2>1. upto(k - 1) \in Seq(Places) /\ Len(upto(k - 1)) = k - 1
        BY <1>1, <1>2
  <2> QED BY <1>1, <2>1
<1>5. PICK f : f = [k \in 0..N |-> upto(k)]
      OBVIOUS
<1>6. f = step(f)
  <2>1. ASSUME NEW i \in 0..N PROVE f[i] = step(f)[i]
    <3>1. CASE i = 0
          BY <1>3, <1>5, <3>1
    <3>2. CASE i # 0
      <4>1. i \in 1..N /\ i - 1 \in 0..N
            BY <1>1, <3>2
      <4>2. f[i] = upto(i) /\ f[i - 1] = upto(i - 1)
            BY <1>5, <4>1
      <4>3. step(f)[i] = Append(f[i - 1], nodes[refs[i]])
            BY <1>2, <4>1
      <4> QED BY <1>4, <4>1, <4>2, <4>3
    <3> QED BY <3>1, <3>2
  <2> QED BY <1>5, <2>1
<1>7. \E g : g = step(g)
      BY <1>6
<1>8. PICK h : h = step(h) /\ PlacesGiven(refs, nodes) = h[N]
      BY <1>7 DEF PlacesGiven
<1>9. 0 \in T(h)
      BY <1>1, <1>3, <1>8
<1>10. ASSUME NEW k \in 1..N, k - 1 \in T(h) PROVE k \in T(h)
  <2>1. h[k] = step(h)[k]
        BY <1>8
  <2>2. step(h)[k] = Append(h[k - 1], nodes[refs[k]])
        BY <1>1, <1>2
  <2>3. h[k - 1] = upto(k - 1)
        BY <1>10
  <2>4. h[k] = upto(k)
    <3> HIDE DEF step, upto, T
    <3> QED BY <1>4, <2>1, <2>2, <2>3
  <2> QED BY <1>1, <2>4
<1>11. 0..N \subseteq T(h)
  <2> HIDE DEF T
  <2> QED BY <1>1, <1>9, <1>10, UpTo
<1>12. h[N] = upto(N)
  <2>1. N \in 0..N
        BY <1>1
  <2>2. N \in T(h)
    <3> HIDE DEF T
    <3> QED BY <1>11, <2>1
  <2> QED BY <2>2
<1>13. upto(N) = PlacesOf(refs, nodes)
       BY <1>1 DEF PlacesOf
<1> QED BY <1>8, <1>12, <1>13

\* Applying the elements of a diff one by one.
OneByOne(f, o, diff, N) ==
    /\ f[0] = o /\ f[N] = AllApplied(o, diff)
    /\ \A k \in 1..N : f[k] = ElementApplied(f[k - 1], diff, k)

LEMMA AppliedSteps ==
    ASSUME NEW o, NEW diff, NEW N \in Nat, N = Len(diff)
    PROVE  \E f : OneByOne(f, o, diff, N)
<1> DEFINE step(n, g) == [k \in 0..n |-> IF k = 0 THEN o ELSE ElementApplied(g[k - 1], diff, k)]
           T == {n \in 0..N : \E g : g = step(n, g)}
<1>1. 0 \in T
  <2>1. PICK g : g = [k \in 0..0 |-> o]
        OBVIOUS
  <2>2. g = step(0, g)
        BY <2>1
  <2> QED BY <2>2
<1>2. ASSUME NEW n \in 1..N, n - 1 \in T PROVE n \in T
  <2>1. PICK g : g = step(n - 1, g)
        BY <1>2
  <2>2. PICK h : h = [k \in 0..n |-> IF k = n THEN ElementApplied(g[n - 1], diff, n) ELSE g[k]]
        OBVIOUS
  <2>3. ASSUME NEW k \in 0..n PROVE h[k] = step(n, h)[k]
    <3>1. CASE k = 0
          BY <2>1, <2>2, <3>1
    <3>2. CASE k # 0
      <4>1. k - 1 \in 0..(n - 1) /\ h[k - 1] = g[k - 1]
            BY <2>2, <3>2
      <4>2. k # n => g[k] = ElementApplied(g[k - 1], diff, k)
            BY <2>1, <3>2
      <4> QED BY <2>2, <3>2, <4>1, <4>2
    <3> QED BY <3>1, <3>2
  <2>4. h = step(n, h)
        BY <2>2, <2>3
  <2> QED BY <2>4
<1>3. 0..N \subseteq T
  <2> HIDE DEF T
  <2> QED BY <1>1, <1>2, UpTo
<1>4. \E g : g = step(N, g)
      BY <1>3
<1>5. PICK f : f = step(N, f) /\ AllApplied(o, diff) = f[N]
      BY <1>4 DEF AllApplied
<1>6. /\ f[0] = o
      /\ \A k \in 1..N : f[k] = ElementApplied(f[k - 1], diff, k)
      BY <1>5
<1> QED BY <1>5, <1>6 DEF OneByOne

\* What OSM says after them, one by one.
ElementSaid(ways, diff, k) == IF k \in Ways(diff) THEN Says(ways, diff[k]) ELSE ways

LEMMA SaidSteps ==
    ASSUME NEW ways, NEW diff, NEW N \in Nat, N = Len(diff)
    PROVE  \E f : /\ f[0] = ways /\ f[N] = AllSaid(ways, diff)
                  /\ \A k \in 1..N : f[k] = ElementSaid(f[k - 1], diff, k)
<1> DEFINE step(n, g) == [k \in 0..n |-> IF k = 0 THEN ways ELSE ElementSaid(g[k - 1], diff, k)]
           T == {n \in 0..N : \E g : g = step(n, g)}
<1>1. 0 \in T
  <2>1. PICK g : g = [k \in 0..0 |-> ways]
        OBVIOUS
  <2>2. g = step(0, g)
        BY <2>1
  <2> QED BY <2>2
<1>2. ASSUME NEW n \in 1..N, n - 1 \in T PROVE n \in T
  <2>1. PICK g : g = step(n - 1, g)
        BY <1>2
  <2>2. PICK h : h = [k \in 0..n |-> IF k = n THEN ElementSaid(g[n - 1], diff, n) ELSE g[k]]
        OBVIOUS
  <2>3. ASSUME NEW k \in 0..n PROVE h[k] = step(n, h)[k]
    <3>1. CASE k = 0
          BY <2>1, <2>2, <3>1
    <3>2. CASE k # 0
      <4>1. k - 1 \in 0..(n - 1) /\ h[k - 1] = g[k - 1]
            BY <2>2, <3>2
      <4>2. k # n => g[k] = ElementSaid(g[k - 1], diff, k)
            BY <2>1, <3>2
      <4> QED BY <2>2, <3>2, <4>1, <4>2
    <3> QED BY <3>1, <3>2
  <2>4. h = step(n, h)
        BY <2>2, <2>3
  <2> QED BY <2>4
<1>3. 0..N \subseteq T
  <2> HIDE DEF T
  <2> QED BY <1>1, <1>2, UpTo
<1>4. \E g : g = step(N, g)
      BY <1>3
<1>5. PICK f : f = step(N, f) /\ AllSaid(ways, diff) = f[N]
      BY <1>4 DEF AllSaid, ElementSaid
<1>6. /\ f[0] = ways
      /\ \A k \in 1..N : f[k] = ElementSaid(f[k - 1], diff, k)
      BY <1>5
<1> QED BY <1>5, <1>6

\* A change of a way, with all its nodes given where they are, fits the way
\* whatever was there, and leaves the others.
LEMMA ChangeFits ==
    ASSUME NEW map, NEW o, NEW ways, NEW places, NEW nodes, NEW change, NEW w,
           w = change.way =>
               /\ change.refs \in Seq(Nodes)
               /\ change.action # "delete" /\ change.usable =>
                      \A n \in Range(change.refs) :
                          n \in DOMAIN nodes /\ nodes[n] = places[n] /\ nodes[n] \in Places,
           w # change.way => Fits(map, o, ways, places, w)
    PROVE  Fits(map, Applied(o, change, nodes), Says(ways, change), places, w)
<1>1. CASE w # change.way
      BY <1>1 DEF Fits, Applied, Says, Set, Unset
<1>2. CASE w = change.way /\ (change.action = "delete" \/ ~change.usable)
      BY <1>2 DEF Fits, Applied, Says, Set, Unset
<1>3. CASE w = change.way /\ change.action # "delete" /\ change.usable
  <2>1. PICK at : at = PlacesGiven(change.refs, nodes)
        OBVIOUS
  <2>2. at = PlacesOf(change.refs, nodes)
    <3>1. Range(change.refs) \subseteq DOMAIN nodes
          BY <1>3
    <3> QED BY <1>3, <2>1, <3>1, AllGiven
  <2>3. PlacesOf(change.refs, nodes) = PlacesOf(change.refs, places)
        BY <1>3 DEF PlacesOf, Range
  <2>4. Len(at) = Len(change.refs)
        BY <1>3, <2>2 DEF PlacesOf, Range
  <2>5. Says(ways, change) = Set(ways, w, [refs |-> change.refs, dir |-> change.dir])
        BY <1>3 DEF Says
  <2>6. CASE Len(at) < 2
        BY <1>3, <2>1, <2>4, <2>5, <2>6 DEF Fits, Applied, Set, Unset
  <2>7. CASE ~(Len(at) < 2)
    <3>1. Applied(o, change, nodes) =
              [blocked |-> o.blocked \union {w},
               overrides |-> Set(o.overrides, w, [refs |-> change.refs, at |-> at, dir |-> change.dir])]
          BY <1>3, <2>1, <2>7 DEF Applied
    <3> QED BY <2>2, <2>3, <2>5, <3>1 DEF Fits, Set
  <2> QED BY <2>6, <2>7
<1> QED BY <1>1, <1>2, <1>3

\* The nodes read ahead of an element are among those of the whole diff.
LEMMA AheadMoved ==
    ASSUME NEW diff, NEW N \in Nat, DOMAIN diff = 1..N, NEW k \in 1..N, NEW places
    PROVE  DOMAIN NodesAhead(diff, k) \subseteq DOMAIN Moved(places, NodesAhead(diff, N + 1))
<1>1. \A j \in 1..N : j < k => j < N + 1
      OBVIOUS
<1> QED BY <1>1 DEF NodesAhead, Moved

\* Whatever was told of a way before, overlay and map fit it after a diff that tells
\* it, or that leaves it and its nodes alone.
LEMMA DiffFits ==
    ASSUME MInv, NEW diff \in Diffs,
           NEW o, o = AllApplied(overlay, diff),
           NEW ways, ways = AllSaid(osm.map.ways, diff),
           NEW places, places = Moved(osm.map.places, NodesAhead(diff, Len(diff) + 1)),
           \A n \in DOMAIN places : places[n] \in Places,
           NEW w, w \notin Untold(diff, places)
    PROVE  Fits(base, o, ways, places, w)
<1>1. IsDiff(diff) /\ IsMap(osm.map)
      BY MapsAssumption DEF MInv
<1>2. PICK N \in Nat : N = Len(diff) /\ DOMAIN diff = 1..N
      BY <1>1 DEF IsDiff
<1>3. PICK a : /\ a[0] = overlay /\ a[N] = AllApplied(overlay, diff)
               /\ \A k \in 1..N : a[k] = ElementApplied(a[k - 1], diff, k)
  <2>1. PICK was : was = overlay
        OBVIOUS
  <2>2. \E f : OneByOne(f, was, diff, N)
        BY <1>2, AppliedSteps
  <2> QED BY <2>1, <2>2 DEF OneByOne
<1>4. PICK b : /\ b[0] = osm.map.ways /\ b[N] = ways
               /\ \A k \in 1..N : b[k] = ElementSaid(b[k - 1], diff, k)
      BY <1>2, SaidSteps
<1> DEFINE Later(k) == \E j \in Ways(diff) : j > k /\ diff[j].way = w
           Done(k) == ~Later(k) => Fits(base, a[k], b[k], places, w)
           T == {k \in 0..N : Done(k)}
<1>5. Done(0)
  <2> SUFFICES ASSUME ~Later(0) PROVE Fits(base, overlay, osm.map.ways, places, w)
      BY <1>3, <1>4
  <2>1. w \notin {diff[k].way : k \in Ways(diff)}
        BY <1>2 DEF Ways
  <2>2. /\ w \notin osm.untold
        /\ w \in DOMAIN osm.map.ways =>
               \A n \in Range(osm.map.ways[w].refs) : places[n] = osm.map.places[n]
        BY <2>1 DEF Untold
  <2>3. Fits(base, overlay, osm.map.ways, osm.map.places, w)
        BY <2>2 DEF MInv
  <2>4. CASE w \notin DOMAIN osm.map.ways
        BY <2>3, <2>4 DEF Fits
  <2>5. CASE w \in DOMAIN osm.map.ways
    <3>1. PICK refs \in Seq(Nodes) : refs = osm.map.ways[w].refs
          BY <1>1, <2>5 DEF IsMap
    <3>2. PlacesOf(refs, places) = PlacesOf(refs, osm.map.places)
          BY <2>2, <2>5, <3>1 DEF PlacesOf, Range
    <3> QED BY <2>3, <3>1, <3>2 DEF Fits
  <2> QED BY <2>4, <2>5
<1>6. ASSUME NEW k \in 1..N, Done(k - 1) PROVE Done(k)
  <2> SUFFICES ASSUME ~Later(k) PROVE Fits(base, a[k], b[k], places, w)
      OBVIOUS
  <2>1. PICK x, y : x = a[k - 1] /\ y = b[k - 1]
        OBVIOUS
  <2>2. a[k] = ElementApplied(x, diff, k) /\ b[k] = ElementSaid(y, diff, k)
        BY <1>3, <1>4, <2>1
  <2>3. ~(k \in Ways(diff) /\ diff[k].way = w) => Fits(base, x, y, places, w)
    <3>1. \A j \in Ways(diff) : j > k - 1 => j = k \/ j > k
          BY <1>2 DEF Ways
    <3> QED BY <1>6, <2>1, <3>1
  <2>4. CASE k \notin Ways(diff)
        BY <2>2, <2>3, <2>4 DEF ElementApplied, ElementSaid
  <2>5. CASE k \in Ways(diff) /\ diff[k].way # w /\ diff[k].closed
    <3>1. a[k] = x /\ b[k] = Says(y, diff[k])
          BY <2>2, <2>5 DEF ElementApplied, ElementSaid
    <3> QED BY <2>3, <2>5, <3>1 DEF Fits, Says, Set, Unset
  <2>6. CASE k \in Ways(diff) /\ ~(diff[k].way # w /\ diff[k].closed)
    <3>1. PICK change, nodes : change = diff[k] /\ nodes = NodesAhead(diff, k)
          OBVIOUS
    <3>2. w = change.way =>
            /\ change.refs \in Seq(Nodes) /\ ~change.closed
            /\ change.action # "delete" /\ change.usable =>
                   \A n \in Range(change.refs) :
                       n \in DOMAIN nodes /\ nodes[n] = places[n] /\ nodes[n] \in Places
      <4> SUFFICES ASSUME w = change.way
                   PROVE  /\ change.refs \in Seq(Nodes) /\ ~change.closed
                          /\ change.action # "delete" /\ change.usable =>
                                 \A n \in Range(change.refs) :
                                     n \in DOMAIN nodes /\ nodes[n] = places[n] /\ nodes[n] \in Places
          OBVIOUS
      <4>1. IsLast(diff, k)
        <5>1. \A j \in Ways(diff) : j > k \/ j <= k
              BY <1>2 DEF Ways
        <5> QED BY <3>1, <5>1 DEF IsLast
      <4>2. TellsWay(diff, k, places)
            BY <2>6, <3>1, <4>1 DEF Untold
      <4>3. DOMAIN nodes \subseteq DOMAIN places
            BY <1>2, <3>1, AheadMoved
      <4>4. change.refs \in Seq(Nodes)
            BY <1>1, <1>2, <2>6, <3>1 DEF IsDiff, Ways
      <4> QED BY <3>1, <4>2, <4>3, <4>4 DEF TellsWay
    <3>3. a[k] = Applied(x, change, nodes) /\ b[k] = Says(y, change)
          BY <2>2, <2>6, <3>1, <3>2 DEF ElementApplied, ElementSaid
    <3>4. w # change.way => Fits(base, x, y, places, w)
          BY <2>3, <3>1
    <3>5. Fits(base, Applied(x, change, nodes), Says(y, change), places, w)
      <4> HIDE DEF Later, Done, T
      <4> QED BY <3>2, <3>4, ChangeFits
    <3> QED BY <3>3, <3>5
  <2> QED BY <2>4, <2>5, <2>6
<1>7. 0..N \subseteq T
  <2>1. 0 \in T
        BY <1>5
  <2>2. \A k \in 1..N : k - 1 \in T => k \in T
        BY <1>6
  <2> HIDE DEF T
  <2> QED BY <2>1, <2>2, UpTo
<1>8. Done(N) /\ ~Later(N)
      BY <1>2, <1>7 DEF Ways
<1> QED BY <1>3, <1>4, <1>8

LEMMA MapStep == MInv /\ [StreetNext]_streetVars => MInv'
<1> SUFFICES ASSUME MInv, [StreetNext]_streetVars PROVE MInv'
    OBVIOUS
<1>1. CASE UNCHANGED mapVars
      BY <1>1 DEF mapVars, MInv
<1>2. ASSUME NEW diff \in Diffs, ApplyDiff(diff) PROVE MInv'
  <2>1. PICK ways, places : /\ ways = AllSaid(osm.map.ways, diff)
                            /\ places = Moved(osm.map.places, NodesAhead(diff, Len(diff) + 1))
        OBVIOUS
  <2>2. After(osm.map, diff) = [ways |-> ways, places |-> places]
        BY <2>1 DEF After
  <2>3. /\ IsMap(osm'.map) /\ osm'.map = [ways |-> ways, places |-> places]
        /\ osm'.untold = Untold(diff, places)
        /\ overlay' = AllApplied(overlay, diff) /\ base' = base
        BY <1>2, <2>2 DEF ApplyDiff
  <2>4. PICK o : o = AllApplied(overlay, diff)
        OBVIOUS
  <2>5. \A n \in DOMAIN places : places[n] \in Places
        BY <2>3 DEF IsMap
  <2>6. ASSUME NEW w, w \notin Untold(diff, places) PROVE Fits(base, o, ways, places, w)
        BY <2>1, <2>4, <2>5, <2>6, DiffFits
  <2> QED BY <2>3, <2>4, <2>6 DEF MInv
<1>3. [StreetNext]_streetVars => UNCHANGED mapVars \/ \E diff \in Diffs : ApplyDiff(diff)
      BY DEF StreetNext, SearchStep, StartSearch, Pop, PopStale, Stop, Rebuild, streetVars
<1> QED BY <1>1, <1>2, <1>3

\* Of every way the diffs told, the edges a search is given are those OSM has,
\* whatever was changed, deleted and created over and over, and whatever the same
\* diffs left untold of other ways (parse_osc_diff, apply_osc_diff,
\* build_overlay_graph, for_each_forward_edge).
THEOREM TheMapIsServed == StreetSpec => []ServedIsMap
<1>1. StreetInit => MInv
  <2> SUFFICES ASSUME StreetInit PROVE MInv
      OBVIOUS
  <2>1. base \in Maps /\ osm.map = base /\ IsMap(base)
        BY MapsAssumption DEF StreetInit
  <2>2. \A w : Fits(base, overlay, base.ways, base.places, w)
        BY DEF StreetInit, Fits
  <2> QED BY <2>1, <2>2 DEF MInv
<1>2. MInv => ServedIsMap
      BY FittingServed
<1> QED BY <1>1, <1>2, MapStep, PTL DEF StreetSpec
=============================================================================

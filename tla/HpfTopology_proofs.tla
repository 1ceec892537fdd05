------------------------ MODULE HpfTopology_proofs ------------------------
(***************************************************************************)
(* The two promises of the overlay of HpfTopology, for every grid,         *)
(* network, course and limit.                                              *)
(*                                                                         *)
(* NeverShorterThanStraight: the invariant IInv is that every state of the *)
(* forest and of the overlay is blocked, has no stop, or promises no less  *)
(* than the straight line to its stop.  The forest has it by an induction  *)
(* over the links walked, a repaired cell by one triangle, and a way that  *)
(* is cooled by an induction over its cells.                               *)
(*                                                                         *)
(* AddedWaysRelaxed: the invariant RInv is that, while nothing was         *)
(* blocked, the parent of an entry keeps what the entry promises           *)
(* (Entered), and a cell that could be nearer by way of a neighbour is in  *)
(* the queue, or was when a propagation was cut off (Relaxed).  A popped   *)
(* cell is put right and its neighbours are queued; Eased is what a write  *)
(* does to the cells around it, and an induction over the cells pushed     *)
(* shows that none is forgotten.                                           *)
(***************************************************************************)
EXTENDS HpfTopology, WellFoundedInduction, FiniteSetTheorems, TLAPS

-----------------------------------------------------------------------------
(* The invariant                                                           *)

\* The state of a cell claims no shorter walk than the straight line to its stop.
Above(net, state, c) ==
    /\ state.root \in DOMAIN net.anchor
    /\ state.cost \in Nat
    /\ state.cost >= net.anchor[state.root][2] + TransitionCost(c, net.anchor[state.root][1])

Standing(net, state, c) == state.blocked \/ state.root = NoStop \/ Above(net, state, c)

\* Of a draft, or of the forest.
AllStand(net, d) ==
    /\ d = [c \in Cells |-> d[c]]
    /\ \A c \in Cells : d[c] # NoEntry => Standing(net, d[c], c)

\* Courses are cells wherever the code keeps one.
OverridesAreCourses ==
    /\ overrides = [w \in Ways |-> overrides[w]]
    /\ \A w \in Ways : overrides[w] # NoWay => overrides[w].cells \in Seq(Cells)

ChangeIsCourse == phase \in {"shadow", "reroute"} => change.cells \in Seq(Cells)

IInv ==
    /\ network \in Networks
    /\ AllStand(network, forest)
    /\ AllStand(network, entries)
    /\ OverridesAreCourses
    /\ ChangeIsCourse

-----------------------------------------------------------------------------
(* Sets of numbers, and induction over an interval                         *)

LEMMA LeastOf ==
    ASSUME NEW S \in SUBSET Nat, S # {}
    PROVE  Least(S) \in S /\ \A y \in S : Least(S) <= y
<1>1. PICK m \in S : \A y \in S : <<y, m>> \notin OpToRel(<, Nat)
      BY NatLessThanWellFounded, WFMin
<1>2. \A y \in S : m <= y
  <2>1. SUFFICES ASSUME NEW y \in S, y < m PROVE FALSE
        OBVIOUS
  <2>2. <<y, m>> \in Nat \X Nat
        OBVIOUS
  <2> QED BY <1>1, <2>1, <2>2 DEF OpToRel
<1> QED BY <1>2 DEF Least

LEMMA UpTo ==
    ASSUME NEW N \in Nat, NEW S, 0 \in S, \A p \in 1..N : p - 1 \in S => p \in S
    PROVE  0..N \subseteq S
<1> DEFINE T == (0..N) \ S
<1>1. SUFFICES ASSUME T # {} PROVE FALSE
      OBVIOUS
<1>2. T \in SUBSET Nat
      OBVIOUS
<1>3. Least(T) \in T /\ \A y \in T : Least(T) <= y
  <2> HIDE DEF T
  <2> QED BY <1>1, <1>2, LeastOf
<1> QED BY <1>3

\* A function defined from each number, and the next, to that exists.
StepByStep(N, S, s0, g) ==
    \E f \in [0..N -> S] : f[0] = s0 /\ \A p \in 1..N : f[p] = g[p][f[p - 1]]

LEMMA StepByStepOf ==
    ASSUME NEW N \in Nat, NEW S, NEW s0 \in S, NEW g \in [1..N -> [S -> S]]
    PROVE  StepByStep(N, S, s0, g)
<1> DEFINE Good(n, f) == f[0] = s0 /\ \A p \in 1..n : f[p] = g[p][f[p - 1]]
           T == {n \in 0..N : \E f \in [0..n -> S] : Good(n, f)}
<1>1. 0 \in T
  <2> DEFINE f == [p \in 0..0 |-> s0]
  <2>1. f \in [0..0 -> S] /\ Good(0, f)
        OBVIOUS
  <2> HIDE DEF f
  <2> QED BY <2>1
<1>2. ASSUME NEW n \in 1..N, n - 1 \in T PROVE n \in T
  <2>1. PICK f \in [0..(n - 1) -> S] : Good(n - 1, f)
        BY <1>2
  <2> DEFINE h == [p \in 0..n |-> IF p = n THEN g[n][f[n - 1]] ELSE f[p]]
  <2>2. n - 1 \in 0..(n - 1) /\ \A p \in 0..n : p # n => p \in 0..(n - 1)
        OBVIOUS
  <2>3. g[n][f[n - 1]] \in S
        BY <2>2
  <2>4. h \in [0..n -> S]
        BY <2>2, <2>3
  <2>5. h[0] = s0
        BY <2>1
  <2>6. ASSUME NEW p \in 1..n PROVE h[p] = g[p][h[p - 1]]
    <3>1. h[p - 1] = f[p - 1]
          OBVIOUS
    <3>2. CASE p = n
          BY <3>1, <3>2
    <3>3. CASE p # n
          BY <2>1, <3>1, <3>3
    <3> QED BY <3>2, <3>3
  <2> HIDE DEF h
  <2> QED BY <2>4, <2>5, <2>6
<1>3. 0..N \subseteq T
  <2> HIDE DEF T
  <2> QED BY <1>1, <1>2, UpTo
<1> QED BY <1>3 DEF StepByStep

-----------------------------------------------------------------------------
(* The plane                                                               *)

LEMMA CellIs ==
    ASSUME NEW c \in Cells
    PROVE  c[1] \in Int /\ c[2] \in Int
BY TopologyAssumption DEF Cells

LEMMA AbsIs ==
    ASSUME NEW a \in Int, NEW b \in Int
    PROVE  Abs(a - b) = (IF a > b THEN a - b ELSE b - a)
BY DEF Abs

LEMMA CostIs ==
    ASSUME NEW c \in Cells, NEW d \in Cells
    PROVE  /\ TransitionCost(c, d) \in Nat
           /\ TransitionCost(c, d) = TransitionCost(d, c)
           /\ c = d => TransitionCost(c, d) = 0
<1>1. c[1] \in Int /\ c[2] \in Int /\ d[1] \in Int /\ d[2] \in Int
      BY CellIs
<1> QED BY <1>1 DEF TransitionCost, Abs

\* To the side and across a corner, as TransitionCost weighs them.
LEMMA Weighed ==
    ASSUME NEW x \in Nat, NEW y \in Nat, NEW x1 \in Nat, NEW y1 \in Nat,
           NEW x2 \in Nat, NEW y2 \in Nat, x <= x1 + x2, y <= y1 + y2
    PROVE  2 * (IF x > y THEN x ELSE y) + (IF x > y THEN y ELSE x)
             <=   (2 * (IF x1 > y1 THEN x1 ELSE y1) + (IF x1 > y1 THEN y1 ELSE x1))
                + (2 * (IF x2 > y2 THEN x2 ELSE y2) + (IF x2 > y2 THEN y2 ELSE x2))
<1>1. 2 * (IF x > y THEN x ELSE y) + (IF x > y THEN y ELSE x)
        = (IF x > y THEN x ELSE y) + x + y
      OBVIOUS
<1>2. 2 * (IF x1 > y1 THEN x1 ELSE y1) + (IF x1 > y1 THEN y1 ELSE x1)
        = (IF x1 > y1 THEN x1 ELSE y1) + x1 + y1
      OBVIOUS
<1>3. 2 * (IF x2 > y2 THEN x2 ELSE y2) + (IF x2 > y2 THEN y2 ELSE x2)
        = (IF x2 > y2 THEN x2 ELSE y2) + x2 + y2
      OBVIOUS
<1>4. (IF x > y THEN x ELSE y)
        <= (IF x1 > y1 THEN x1 ELSE y1) + (IF x2 > y2 THEN x2 ELSE y2)
      OBVIOUS
<1> QED BY <1>1, <1>2, <1>3, <1>4

LEMMA AbsOver ==
    ASSUME NEW a \in Int, NEW b \in Int, NEW m \in Int
    PROVE  /\ Abs(a - b) \in Nat /\ Abs(a - m) \in Nat /\ Abs(m - b) \in Nat
           /\ Abs(a - b) <= Abs(a - m) + Abs(m - b)
BY DEF Abs

\* A straight line is no longer than a walk over a third cell.
LEMMA Straighter ==
    ASSUME NEW c \in Cells, NEW d \in Cells, NEW e \in Cells
    PROVE  TransitionCost(c, e) <= TransitionCost(c, d) + TransitionCost(d, e)
<1>1. c[1] \in Int /\ c[2] \in Int /\ d[1] \in Int /\ d[2] \in Int /\ e[1] \in Int /\ e[2] \in Int
      BY CellIs
<1>2. PICK x, y, x1, y1, x2, y2 :
         /\ x = Abs(c[1] - e[1]) /\ y = Abs(c[2] - e[2])
         /\ x1 = Abs(c[1] - d[1]) /\ y1 = Abs(c[2] - d[2])
         /\ x2 = Abs(d[1] - e[1]) /\ y2 = Abs(d[2] - e[2])
      OBVIOUS
<1>3. /\ x \in Nat /\ y \in Nat /\ x1 \in Nat /\ y1 \in Nat /\ x2 \in Nat /\ y2 \in Nat
      /\ x <= x1 + x2 /\ y <= y1 + y2
      BY <1>1, <1>2, AbsOver
<1>4. 2 * (IF x > y THEN x ELSE y) + (IF x > y THEN y ELSE x)
        <=   (2 * (IF x1 > y1 THEN x1 ELSE y1) + (IF x1 > y1 THEN y1 ELSE x1))
           + (2 * (IF x2 > y2 THEN x2 ELSE y2) + (IF x2 > y2 THEN y2 ELSE x2))
      BY <1>3, Weighed
<1> QED BY <1>2, <1>4 DEF TransitionCost

-----------------------------------------------------------------------------
(* Courses                                                                 *)

\* How far the cells of a course are from the first, one after the other.
LEMMA AlongSteps ==
    ASSUME NEW cells \in Seq(Cells)
    PROVE  /\ Along(cells) \in [0..Len(cells) -> Nat]
           /\ \A k \in 2..Len(cells) :
                 Along(cells)[k] = Along(cells)[k - 1] + TransitionCost(cells[k - 1], cells[k])
<1> DEFINE N == Len(cells)
           S == Nat
           zero == 0
           step == [k \in 1..N |-> [a \in S |->
                       IF k <= 1 THEN 0 ELSE a + TransitionCost(cells[k - 1], cells[k])]]
           by == CHOOSE by : by = [k \in 0..N |->
                     IF k <= 1 THEN 0 ELSE by[k-1] + TransitionCost(cells[k-1], cells[k])]
<1>1. N \in Nat
      OBVIOUS
<1>2. \A k \in 2..N : TransitionCost(cells[k - 1], cells[k]) \in Nat
  <2>1. \A k \in 2..N : cells[k - 1] \in Cells /\ cells[k] \in Cells
        OBVIOUS
  <2> QED BY <2>1, CostIs
<1>3. step \in [1..N -> [S -> S]]
  <2> SUFFICES ASSUME NEW a \in Nat, NEW k \in 1..N
               PROVE  (IF k <= 1 THEN 0 ELSE a + TransitionCost(cells[k - 1], cells[k])) \in Nat
      OBVIOUS
  <2>1. CASE k > 1
    <3>1. TransitionCost(cells[k - 1], cells[k]) \in Nat
          BY <1>2, <2>1
    <3> QED BY <3>1
  <2> QED BY <2>1
<1>4. PICK f \in [0..N -> S] : f[0] = zero /\ \A k \in 1..N : f[k] = step[k][f[k - 1]]
  <2>1. zero \in S
        OBVIOUS
  <2>2. StepByStep(N, S, zero, step)
    <3> HIDE DEF N, S, zero, step
    <3> QED BY <1>1, <1>3, <2>1, StepByStepOf
  <2> HIDE DEF N, S, zero, step
  <2> QED BY <2>2 DEF StepByStep
<1>5. \A k \in 1..N : f[k] = IF k <= 1 THEN 0 ELSE f[k-1] + TransitionCost(cells[k-1], cells[k])
  <2> SUFFICES ASSUME NEW k \in 1..N
               PROVE  step[k][f[k - 1]]
                        = IF k <= 1 THEN 0 ELSE f[k-1] + TransitionCost(cells[k-1], cells[k])
      BY <1>4
  <2>1. f[k - 1] \in Nat
        OBVIOUS
  <2> QED BY <2>1
<1> HIDE DEF N, step
<1>6. f = [k \in 0..N |-> IF k <= 1 THEN 0 ELSE f[k-1] + TransitionCost(cells[k-1], cells[k])]
      BY <1>1, <1>4, <1>5
<1>7. by = [k \in 0..N |-> IF k <= 1 THEN 0 ELSE by[k-1] + TransitionCost(cells[k-1], cells[k])]
      BY <1>6
<1> HIDE DEF by
<1>8. Along(cells) = by
      BY DEF Along, by, N
<1>9. \A k \in 2..N : by[k] = by[k - 1] + TransitionCost(cells[k - 1], cells[k])
      BY <1>1, <1>7
<1>10. ASSUME NEW k \in 0..N PROVE by[k] \in Nat
  <2> DEFINE T == {j \in 0..N : by[j] \in Nat}
  <2>1. 0 \in T
        BY <1>1, <1>7
  <2>2. ASSUME NEW j \in 1..N, j - 1 \in T PROVE j \in T
    <3>1. CASE j <= 1
          BY <1>1, <1>7, <3>1
    <3>2. CASE j > 1
      <4>1. by[j - 1] \in Nat /\ TransitionCost(cells[j - 1], cells[j]) \in Nat
            BY <1>1, <1>2, <2>2, <3>2
      <4> QED BY <1>1, <1>9, <3>2, <4>1
    <3> QED BY <1>1, <3>1, <3>2
  <2>3. 0..N \subseteq T
    <3> HIDE DEF T
    <3> QED BY <1>1, <2>1, <2>2, UpTo
  <2> QED BY <2>3
<1>11. by \in [0..N -> Nat]
      BY <1>7, <1>10
<1> QED BY <1>8, <1>9, <1>11 DEF N

\* A course is at least as long as the straight line between two of its cells.
LEMMA AlongIsLonger ==
    ASSUME NEW cells \in Seq(Cells), NEW i \in 1..Len(cells), NEW j \in 1..Len(cells), i <= j
    PROVE  /\ Along(cells)[j] - Along(cells)[i] \in Nat
           /\ Along(cells)[j] - Along(cells)[i] >= TransitionCost(cells[i], cells[j])
<1> DEFINE N == Len(cells)
           far == Along(cells)
           T == {m \in 0..(N - i) : far[i + m] - far[i] >= TransitionCost(cells[i], cells[i + m])}
<1>1. N \in Nat /\ i \in 1..N /\ N - i \in Nat
      OBVIOUS
<1>2. /\ far \in [0..N -> Nat]
      /\ \A k \in 2..N : far[k] = far[k - 1] + TransitionCost(cells[k - 1], cells[k])
      BY AlongSteps
<1>3. \A k \in 1..N : cells[k] \in Cells
      OBVIOUS
<1> HIDE DEF far, N
<1>4. 0 \in T
  <2>1. TransitionCost(cells[i], cells[i + 0]) = 0
        BY <1>1, <1>3, CostIs
  <2>2. far[i] \in Nat
        BY <1>1, <1>2
  <2> QED BY <1>1, <2>1, <2>2
<1>5. ASSUME NEW m \in 1..(N - i), m - 1 \in T PROVE m \in T
  <2>1. PICK k : k = i + m
        OBVIOUS
  <2>2. k \in 2..N /\ k - 1 = i + (m - 1) /\ k - 1 \in 1..N /\ k \in 1..N
        BY <1>1, <2>1
  <2>3. far[k] = far[k - 1] + TransitionCost(cells[k - 1], cells[k])
        BY <1>2, <2>2
  <2>4. far[k - 1] - far[i] >= TransitionCost(cells[i], cells[k - 1])
        BY <1>5, <2>2
  <2>5. TransitionCost(cells[i], cells[k])
          <= TransitionCost(cells[i], cells[k - 1]) + TransitionCost(cells[k - 1], cells[k])
        BY <1>1, <1>3, <2>2, Straighter
  <2>6. /\ TransitionCost(cells[i], cells[k]) \in Nat
        /\ TransitionCost(cells[i], cells[k - 1]) \in Nat
        /\ TransitionCost(cells[k - 1], cells[k]) \in Nat
        BY <1>1, <1>3, <2>2, CostIs
  <2>7. far[k] \in Nat /\ far[k - 1] \in Nat /\ far[i] \in Nat
        BY <1>1, <1>2, <2>2
  <2>8. far[k] - far[i] >= TransitionCost(cells[i], cells[k])
        BY <2>3, <2>4, <2>5, <2>6, <2>7
  <2> QED BY <1>1, <2>1, <2>8
<1>6. 0..(N - i) \subseteq T
  <2> HIDE DEF T
  <2> QED BY <1>1, <1>4, <1>5, UpTo
<1>7. j - i \in T /\ j = i + (j - i)
  <2>1. j \in 1..N
        BY DEF N
  <2>2. j - i \in 0..(N - i) /\ j = i + (j - i)
        BY <1>1, <2>1
  <2> HIDE DEF T
  <2> QED BY <1>6, <2>2
<1>8. far[j] - far[i] >= TransitionCost(cells[i], cells[j])
      BY <1>7
<1>9. TransitionCost(cells[i], cells[j]) \in Nat /\ far[j] \in Nat /\ far[i] \in Nat
  <2>1. i \in 1..N /\ j \in 1..N
        BY DEF N
  <2>2. cells[i] \in Cells /\ cells[j] \in Cells
        BY <1>3, <2>1
  <2>3. TransitionCost(cells[i], cells[j]) \in Nat
        BY <2>2, CostIs
  <2>4. i \in 0..N /\ j \in 0..N
        BY <1>1, <2>1
  <2> QED BY <1>2, <2>3, <2>4
<1> QED BY <1>8, <1>9 DEF far

-----------------------------------------------------------------------------
(* The forest                                                              *)

LEMMA NetworkIs ==
    ASSUME NEW n \in Networks
    PROVE  /\ n.course \in [Ways -> Seq(Cells)]
           /\ \A w \in Ways : n.bends[w] \subseteq DOMAIN n.course[w]
           /\ \A s \in DOMAIN n.anchor : /\ s \in Nat /\ s # NoStop
                                         /\ n.anchor[s][1] \in Cells /\ n.anchor[s][2] \in Nat
BY TopologyAssumption

\* A link is as long as it is straight, at least.
LEMMA LinksAreLong ==
    ASSUME NEW n \in Networks, NEW e \in Links(n)
    PROVE  /\ e[1] \in Cells /\ e[2] \in Cells /\ e[3] \in Nat
           /\ e[3] >= TransitionCost(e[1], e[2])
<1>1. ASSUME NEW a \in Edges(n)
      PROVE  /\ a[1] \in Cells /\ a[2] \in Cells /\ a[3] \in Nat
             /\ a[3] >= TransitionCost(a[1], a[2])
  <2>1. PICK w \in Ways :
         \E i \in n.bends[w], j \in n.bends[w] :
           /\ i < j
           /\ a = <<n.course[w][i], n.course[w][j],
                    Along(n.course[w])[j] - Along(n.course[w])[i]>>
        BY DEF Edges
  <2>2. PICK i \in n.bends[w], j \in n.bends[w] :
           /\ i < j
           /\ a = <<n.course[w][i], n.course[w][j],
                    Along(n.course[w])[j] - Along(n.course[w])[i]>>
        BY <2>1
  <2>3. PICK cells : cells = n.course[w]
        OBVIOUS
  <2>4. cells \in Seq(Cells) /\ i \in DOMAIN cells /\ j \in DOMAIN cells
        BY <2>3, NetworkIs
  <2>5. i \in 1..Len(cells) /\ j \in 1..Len(cells) /\ i <= j
        BY <2>4, <2>2
  <2>6. /\ Along(cells)[j] - Along(cells)[i] \in Nat
        /\ Along(cells)[j] - Along(cells)[i] >= TransitionCost(cells[i], cells[j])
        BY <2>4, <2>5, AlongIsLonger
  <2>7. a[1] = cells[i] /\ a[2] = cells[j] /\ a[3] = Along(cells)[j] - Along(cells)[i]
        BY <2>3, <2>2
  <2> QED BY <2>4, <2>5, <2>6, <2>7
<1>2. CASE e \in Edges(n)
      BY <1>1, <1>2
<1>3. CASE e \notin Edges(n)
  <2>1. PICK a \in Edges(n) : e = <<a[2], a[1], a[3]>>
        BY <1>3 DEF Links
  <2>2. /\ a[1] \in Cells /\ a[2] \in Cells /\ a[3] \in Nat
        /\ a[3] >= TransitionCost(a[1], a[2])
        BY <1>1
  <2>3. TransitionCost(a[1], a[2]) = TransitionCost(a[2], a[1])
        BY <2>2, CostIs
  <2> QED BY <2>1, <2>2, <2>3
<1> QED BY <1>2, <1>3

LEMMA NodesAreCells ==
    ASSUME NEW n \in Networks
    PROVE  Nodes(n) \subseteq Cells /\ Cardinality(Nodes(n)) \in Nat
<1>1. Nodes(n) \subseteq Cells
      BY LinksAreLong DEF Nodes
<1>2. IsFiniteSet(1..Height) /\ IsFiniteSet(1..Width)
      BY TopologyAssumption, FS_Interval
<1>3. IsFiniteSet(Cells)
      BY <1>2, FS_Product DEF Cells
<1>4. IsFiniteSet(Nodes(n))
      BY <1>1, <1>3, FS_Subset
<1> QED BY <1>1, <1>4, FS_CardinalityType

Tables(n) == [DOMAIN n.anchor -> [Nodes(n) -> Nat]]

\* No node is nearer to a stop than the straight line.
Straight(n, s, c, cost) == cost >= Inf \/ cost >= n.anchor[s][2] + TransitionCost(c, n.anchor[s][1])
AllStraight(n, far) ==
    \A s \in DOMAIN n.anchor : \A c \in Nodes(n) : Straight(n, s, c, far[s][c])

LEMMA SnapIsStraight ==
    ASSUME NEW n \in Networks, NEW s \in DOMAIN n.anchor, NEW c \in Nodes(n)
    PROVE  Snap(n, s, c) \in Nat /\ Straight(n, s, c, Snap(n, s, c))
<1>1. n.anchor[s][1] \in Cells /\ n.anchor[s][2] \in Nat /\ Inf \in Nat /\ c \in Cells
      BY NetworkIs, NodesAreCells, TopologyAssumption
<1>2. CASE n.anchor[s][1] = c
  <2>1. TransitionCost(c, n.anchor[s][1]) = 0
        BY <1>1, <1>2, CostIs
  <2> QED BY <1>1, <1>2, <2>1 DEF Snap, Straight
<1>3. CASE n.anchor[s][1] # c
      BY <1>1, <1>3 DEF Snap, Straight
<1> QED BY <1>2, <1>3

\* Over a link the distance is still no shorter than the straight line.
LEMMA OverLink ==
    ASSUME NEW n \in Networks, NEW far \in Tables(n), AllStraight(n, far),
           NEW s \in DOMAIN n.anchor, NEW e \in Links(n), e[2] \in Nodes(n)
    PROVE  far[s][e[1]] + e[3] \in Nat /\ Straight(n, s, e[2], far[s][e[1]] + e[3])
<1>1. PICK a, b, len, at, stop :
         a = e[1] /\ b = e[2] /\ len = e[3] /\ at = n.anchor[s][1] /\ stop = n.anchor[s][2]
      OBVIOUS
<1>2. /\ at \in Cells /\ stop \in Nat /\ Inf \in Nat
      /\ a \in Cells /\ b \in Cells /\ len \in Nat /\ len >= TransitionCost(a, b)
      BY <1>1, NetworkIs, LinksAreLong, TopologyAssumption
<1>3. a \in Nodes(n)
      BY <1>1 DEF Nodes
<1>4. PICK there : there = far[s][a]
      OBVIOUS
<1>5. there \in Nat /\ (there >= Inf \/ there >= stop + TransitionCost(a, at))
      BY <1>1, <1>3, <1>4 DEF Tables, AllStraight, Straight
<1>6. /\ TransitionCost(a, at) \in Nat /\ TransitionCost(b, at) \in Nat
      /\ TransitionCost(a, b) \in Nat /\ TransitionCost(b, a) = TransitionCost(a, b)
      /\ TransitionCost(b, at) <= TransitionCost(b, a) + TransitionCost(a, at)
      BY <1>2, CostIs, Straighter
<1>7. there + len \in Nat /\ (there + len >= Inf \/ there + len >= stop + TransitionCost(b, at))
      BY <1>2, <1>5, <1>6
<1> QED BY <1>1, <1>4, <1>7 DEF Straight

LEMMA WalkedIsStraight ==
    ASSUME NEW n \in Networks, NEW far \in Tables(n), AllStraight(n, far)
    PROVE  Walked(n, far) \in Tables(n) /\ AllStraight(n, Walked(n, far))
<1>1. ASSUME NEW s \in DOMAIN n.anchor, NEW c \in Nodes(n)
      PROVE  /\ Walked(n, far)[s][c] \in Nat
             /\ Straight(n, s, c, Walked(n, far)[s][c])
  <2> DEFINE S == {far[s][c]} \union {far[s][e[1]] + e[3] : e \in {f \in Links(n) : f[2] = c}}
  <2>1. far[s][c] \in Nat /\ Straight(n, s, c, far[s][c])
        BY DEF Tables, AllStraight
  <2>2. ASSUME NEW e \in Links(n), e[2] = c
        PROVE  far[s][e[1]] + e[3] \in Nat /\ Straight(n, s, c, far[s][e[1]] + e[3])
        BY <2>2, OverLink
  <2>3. \A x \in S : x \in Nat /\ Straight(n, s, c, x)
        BY <2>1, <2>2
  <2>4. S # {}
        OBVIOUS
  <2>5. Walked(n, far)[s][c] = Least(S)
        BY DEF Walked
  <2>6. Least(S) \in S
    <3> HIDE DEF S
    <3> QED BY <2>3, <2>4, LeastOf
  <2> HIDE DEF S
  <2> QED BY <2>3, <2>5, <2>6
<1>2. Walked(n, far) \in Tables(n)
  <2>1. \A s \in DOMAIN n.anchor : Walked(n, far)[s] \in [Nodes(n) -> Nat]
        BY <1>1 DEF Walked
  <2> QED BY <2>1 DEF Walked, Tables
<1> QED BY <1>1, <1>2 DEF AllStraight

LEMMA DistancesAreStraight ==
    ASSUME NEW n \in Networks
    PROVE  Distances(n) \in Tables(n) /\ AllStraight(n, Distances(n))
<1> DEFINE N == Cardinality(Nodes(n))
           S == Tables(n)
           first == [s \in DOMAIN n.anchor |-> [c \in Nodes(n) |-> Snap(n, s, c)]]
           T == {far \in S : AllStraight(n, far)}
           step == [k \in 1..N |-> [far \in T |-> Walked(n, far)]]
           by == CHOOSE by : by = [k \in 0..N |->
                     IF k = 0 THEN [s \in DOMAIN n.anchor |-> [c \in Nodes(n) |-> Snap(n, s, c)]]
                     ELSE Walked(n, by[k-1])]
<1>1. N \in Nat
      BY NodesAreCells
<1>2. first \in T
  <2>1. first \in S
        BY SnapIsStraight DEF Tables
  <2>2. AllStraight(n, first)
        BY SnapIsStraight DEF AllStraight
  <2> QED BY <2>1, <2>2
<1>3. \A far \in T : Walked(n, far) \in T
      BY WalkedIsStraight
<1>4. step \in [1..N -> [T -> T]]
  <2> HIDE DEF T, N
  <2> QED BY <1>3
<1>5. PICK f \in [0..N -> T] : f[0] = first /\ \A k \in 1..N : f[k] = step[k][f[k - 1]]
  <2>1. StepByStep(N, T, first, step)
    <3> HIDE DEF N, T, first, step
    <3> QED BY <1>1, <1>2, <1>4, StepByStepOf
  <2> HIDE DEF N, T, first, step
  <2> QED BY <2>1 DEF StepByStep
<1> HIDE DEF N, T
<1>6. \A k \in 1..N : f[k] = Walked(n, f[k - 1])
  <2> SUFFICES ASSUME NEW k \in 1..N PROVE f[k] = Walked(n, f[k - 1])
      OBVIOUS
  <2>1. k - 1 \in 0..N
        BY <1>1
  <2>2. f[k - 1] \in T
        BY <2>1
  <2> QED BY <1>5, <2>2
<1> HIDE DEF first, step
<1>7. f = [k \in 0..N |-> IF k = 0 THEN first ELSE Walked(n, f[k-1])]
      BY <1>1, <1>5, <1>6
<1>8. by = [k \in 0..N |-> IF k = 0 THEN first ELSE Walked(n, by[k-1])]
      BY <1>7 DEF first
<1> HIDE DEF by
<1>9. Distances(n) = by[N]
      BY DEF Distances, by, N
<1> DEFINE U == {k \in 0..N : by[k] \in T}
<1>10. 0 \in U
      BY <1>1, <1>2, <1>8
<1>11. \A k \in 1..N : k - 1 \in U => k \in U
      BY <1>1, <1>3, <1>8
<1>12. 0..N \subseteq U
  <2> HIDE DEF U
  <2> QED BY <1>1, <1>10, <1>11, UpTo
<1>13. by[N] \in T
      BY <1>1, <1>12
<1> QED BY <1>9, <1>13 DEF T

\* What multi_source_forest says of a cell is true of it.
LEMMA ForestStands ==
    ASSUME NEW n \in Networks PROVE AllStand(n, Forest(n))
<1> DEFINE far == Distances(n)
           reached(c) == {s \in DOMAIN n.anchor : far[s][c] < Inf}
           cost(c) == Least({far[s][c] : s \in reached(c)})
           root(c) == Least({s \in reached(c) : far[s][c] = cost(c)})
<1>1. far \in Tables(n) /\ AllStraight(n, far)
      BY DistancesAreStraight
<1>2. ASSUME NEW c \in Nodes(n), reached(c) # {}
      PROVE  Above(n, [root |-> root(c), cost |-> cost(c)], c)
  <2> DEFINE C == {far[s][c] : s \in reached(c)}
             R == {s \in reached(c) : far[s][c] = cost(c)}
  <2>1. \A s \in DOMAIN n.anchor : s \in Nat /\ far[s][c] \in Nat /\ Straight(n, s, c, far[s][c])
        BY <1>1, NetworkIs DEF Tables, AllStraight
  <2>2. C \in SUBSET Nat /\ C # {}
        BY <1>2, <2>1
  <2>3. Least(C) \in C
    <3> HIDE DEF C
    <3> QED BY <2>2, LeastOf
  <2>4. R \in SUBSET Nat /\ R # {}
        BY <2>1, <2>3
  <2>5. Least(R) \in R
    <3> HIDE DEF R
    <3> QED BY <2>4, LeastOf
  <2>6. PICK s : s = root(c)
        OBVIOUS
  <2>7. s \in DOMAIN n.anchor /\ far[s][c] < Inf /\ far[s][c] = cost(c)
        BY <2>5, <2>6
  <2>8. far[s][c] \in Nat /\ Straight(n, s, c, far[s][c]) /\ Inf \in Nat
        BY <2>1, <2>7, TopologyAssumption
  <2>9. far[s][c] >= n.anchor[s][2] + TransitionCost(c, n.anchor[s][1])
    <3> HIDE DEF far
    <3> QED BY <2>7, <2>8 DEF Straight
  <2> HIDE DEF far, cost, root
  <2> QED BY <2>6, <2>7, <2>8, <2>9 DEF Above
<1>3. ASSUME NEW c \in Cells, Forest(n)[c] # NoEntry
      PROVE  Standing(n, Forest(n)[c], c)
  <2>1. c \in Nodes(n) /\ reached(c) # {}
        BY <1>3 DEF Forest
  <2>2. Forest(n)[c].root = root(c) /\ Forest(n)[c].cost = cost(c)
        BY <2>1 DEF Forest
  <2>3. Above(n, [root |-> root(c), cost |-> cost(c)], c)
        BY <1>2, <2>1
  <2> HIDE DEF reached, cost, root
  <2> QED BY <2>2, <2>3 DEF Standing, Above
<1>4. Forest(n) = [c \in Cells |-> Forest(n)[c]]
      BY DEF Forest
<1> QED BY <1>3, <1>4 DEF AllStand

-----------------------------------------------------------------------------
(* Reading the draft                                                       *)

\* A cell that connectors or neighbours may use stands.
LEMMA UsableStands ==
    ASSUME AllStand(network, forest), NEW d, AllStand(network, d),
           NEW c \in Cells, Usable(d, c)
    PROVE  Above(network, StateOf(d, c), c)
BY DEF AllStand, Standing, Usable, StateOf

\* Of some cells there is a first one.
LEMMA FirstOf ==
    ASSUME NEW S \in SUBSET Cells, S # {}
    PROVE  \E n \in S : \A m \in S : m = n \/ Before(n, m)
<1> DEFINE R == {n[1] : n \in S}
           r == Least(R)
           K == {n[2] : n \in {m \in S : m[1] = r}}
<1>1. \A n \in S : n[1] \in Nat /\ n[2] \in Nat /\ n = <<n[1], n[2]>>
      BY TopologyAssumption DEF Cells
<1>2. R \in SUBSET Nat /\ R # {}
      BY <1>1
<1>3. r \in R /\ \A y \in R : r <= y
  <2> HIDE DEF R
  <2> QED BY <1>2, LeastOf
<1>4. K \in SUBSET Nat /\ K # {}
      BY <1>1, <1>3
<1>5. Least(K) \in K /\ \A y \in K : Least(K) <= y
  <2> HIDE DEF K
  <2> QED BY <1>4, LeastOf
<1>6. PICK n \in S : n[1] = r /\ n[2] = Least(K)
      BY <1>5
<1>7. ASSUME NEW m \in S PROVE m = n \/ Before(n, m)
  <2>1. r <= m[1] /\ (m[1] = r => Least(K) <= m[2])
        BY <1>3, <1>5
  <2> HIDE DEF r, K
  <2> QED BY <1>1, <1>6, <2>1 DEF Before
<1> QED BY <1>7

\* The cheapest neighbour is one of them, and the walk goes through it.
LEMMA CheapestIs ==
    ASSUME AllStand(network, forest), NEW d, AllStand(network, d), NEW c \in Cells,
           NEW open \in SUBSET Cells, open # {}, \A n \in open : Usable(d, n),
           NEW best, best = Cheapest(d, c, open)
    PROVE  /\ best.parent \in open
           /\ best.root = StateOf(d, best.parent).root
           /\ best.cost = StateOf(d, best.parent).cost + TransitionCost(c, best.parent)
<1> DEFINE through(n) == StateOf(d, n).cost + TransitionCost(c, n)
           C == {through(n) : n \in open}
           ties == {n \in open : through(n) = Least(C)}
           first == CHOOSE n \in ties : \A m \in ties : m = n \/ Before(n, m)
<1>1. \A n \in open : through(n) \in Nat
  <2> SUFFICES ASSUME NEW n \in open PROVE through(n) \in Nat
      OBVIOUS
  <2>1. StateOf(d, n).cost \in Nat
        BY UsableStands DEF Above
  <2>2. TransitionCost(c, n) \in Nat
        BY CostIs
  <2> QED BY <2>1, <2>2
<1>2. C \in SUBSET Nat /\ C # {}
      BY <1>1
<1>3. Least(C) \in C
  <2> HIDE DEF C
  <2> QED BY <1>2, LeastOf
<1>4. ties # {} /\ ties \in SUBSET Cells
      BY <1>3
<1>5. first \in ties
  <2>1. \E n \in ties : \A m \in ties : m = n \/ Before(n, m)
    <3> HIDE DEF ties
    <3> QED BY <1>4, FirstOf
  <2> HIDE DEF ties
  <2> QED BY <2>1
<1>6. best.parent = first /\ best.root = StateOf(d, first).root /\ best.cost = Least(C)
      BY DEF Cheapest
<1> QED BY <1>5, <1>6

\* Above for the cell, by the triangle over the neighbour, and for the neighbour.
LEMMA CheapestStands ==
    ASSUME network \in Networks, AllStand(network, forest), NEW d, AllStand(network, d),
           NEW c \in Cells, NEW open \in SUBSET Cells, open # {}, \A n \in open : Usable(d, n),
           NEW best, best = Cheapest(d, c, open)
    PROVE  /\ Above(network, best, c)
           /\ best.parent \in Cells /\ Above(network, best, best.parent)
<1>1. PICK p, there : p = best.parent /\ there = StateOf(d, p)
      OBVIOUS
<1>2. p \in open /\ best.root = there.root /\ best.cost = there.cost + TransitionCost(c, p)
      BY <1>1, CheapestIs
<1>3. Above(network, there, p) /\ p \in Cells
      BY <1>1, <1>2, UsableStands
<1>4. PICK at, stop : at = network.anchor[there.root][1] /\ stop = network.anchor[there.root][2]
      OBVIOUS
<1>5. at \in Cells /\ stop \in Nat
      BY <1>3, <1>4, NetworkIs DEF Above
<1>6. there.cost \in Nat /\ there.cost >= stop + TransitionCost(p, at)
      BY <1>3, <1>4 DEF Above
<1>7. /\ TransitionCost(c, p) \in Nat /\ TransitionCost(p, at) \in Nat /\ TransitionCost(c, at) \in Nat
      /\ TransitionCost(c, at) <= TransitionCost(c, p) + TransitionCost(p, at)
      BY <1>3, <1>5, CostIs, Straighter
<1>8. /\ best.cost \in Nat
      /\ best.cost >= stop + TransitionCost(c, at) /\ best.cost >= stop + TransitionCost(p, at)
      BY <1>2, <1>5, <1>6, <1>7
<1>9. best.root \in DOMAIN network.anchor
      BY <1>2, <1>3 DEF Above
<1> QED BY <1>1, <1>2, <1>3, <1>4, <1>8, <1>9 DEF Above

LEMMA RelaxationStands ==
    ASSUME network \in Networks, AllStand(network, forest), NEW d, AllStand(network, d),
           NEW c \in Cells, NEW best, best = BestNeighborRelaxation(d, c), best # NoEntry,
           NEW b
    PROVE  Above(network, [best EXCEPT !.synthetic = b], c)
<1> DEFINE open == {n \in Near(c) \ {c} : Usable(d, n)}
<1>1. open # {} /\ best = Cheapest(d, c, open)
      BY DEF BestNeighborRelaxation
<1>2. open \in SUBSET Cells /\ \A n \in open : Usable(d, n)
      BY DEF Near
<1>3. Above(network, best, c)
  <2> HIDE DEF open
  <2> QED BY <1>1, <1>2, CheapestStands
<1>4. /\ [best EXCEPT !.synthetic = b].root = best.root
      /\ [best EXCEPT !.synthetic = b].cost = best.cost
  <2> HIDE DEF open
  <2> QED BY <1>1 DEF Cheapest
<1> QED BY <1>3, <1>4 DEF Above

LEMMA AnchorStands ==
    ASSUME network \in Networks, AllStand(network, forest), NEW d, AllStand(network, d),
           NEW c \in Cells, NEW best, best = ResolveAnchor(d, c), best # NoEntry
    PROVE  best.parent \in Cells /\ Above(network, best, best.parent)
<1> DEFINE open == {n \in Near(c) : Usable(d, n)}
<1>1. open # {} /\ best = Cheapest(d, c, open)
      BY DEF ResolveAnchor
<1>2. open \in SUBSET Cells /\ \A n \in open : Usable(d, n)
      BY DEF Near
<1> HIDE DEF open
<1> QED BY <1>1, <1>2, CheapestStands

\* The anchor of a way, and the cells of the way in either order.
LEMMA WayAnchorStands ==
    ASSUME network \in Networks, AllStand(network, forest), NEW d, AllStand(network, d),
           NEW cells \in Seq(Cells), cells # <<>>,
           NEW from, from = WayAnchor(d, cells), from # NoEntry
    PROVE  /\ from.cells \in Seq(Cells)
           /\ from.anchor.parent \in Cells
           /\ Above(network, from.anchor, from.anchor.parent)
<1>1. PICK first, last : /\ first = ResolveAnchor(d, cells[1])
                         /\ last = ResolveAnchor(d, cells[Len(cells)])
      OBVIOUS
<1>2. cells[1] \in Cells /\ cells[Len(cells)] \in Cells
      OBVIOUS
<1>3. Reverse(cells) \in Seq(Cells)
  <2>1. \A k \in 1..Len(cells) : cells[(Len(cells) - k) + 1] \in Cells
    <3>1. \A k \in 1..Len(cells) : (Len(cells) - k) + 1 \in 1..Len(cells)
          OBVIOUS
    <3> QED BY <3>1
  <2> QED BY <2>1 DEF Reverse
<1>4. \/ first # NoEntry /\ from = [anchor |-> first, cells |-> cells]
      \/ last # NoEntry /\ from = [anchor |-> last, cells |-> Reverse(cells)]
      BY <1>1 DEF WayAnchor
<1>5. CASE first # NoEntry /\ from = [anchor |-> first, cells |-> cells]
  <2>1. first.parent \in Cells /\ Above(network, first, first.parent)
        BY <1>1, <1>2, <1>5, AnchorStands
  <2> QED BY <1>5, <2>1
<1>6. CASE last # NoEntry /\ from = [anchor |-> last, cells |-> Reverse(cells)]
  <2>1. last.parent \in Cells /\ Above(network, last, last.parent)
        BY <1>1, <1>2, <1>6, AnchorStands
  <2> QED BY <1>3, <1>6, <2>1
<1> QED BY <1>4, <1>5, <1>6

-----------------------------------------------------------------------------
(* Writing the draft                                                       *)

LEMMA PutStands ==
    ASSUME NEW net, NEW d, AllStand(net, d), NEW c, NEW e,
           c \in Cells => e = NoEntry \/ Standing(net, e, c)
    PROVE  AllStand(net, [d EXCEPT ![c] = e])
<1>1. d = [b \in Cells |-> d[b]]
      BY DEF AllStand
<1>2. \A b \in Cells : [d EXCEPT ![c] = e][b] = IF b = c THEN e ELSE d[b]
      BY <1>1
<1>3. [d EXCEPT ![c] = e] = [b \in Cells |-> [d EXCEPT ![c] = e][b]]
      BY <1>1
<1>4. ASSUME NEW b \in Cells, [d EXCEPT ![c] = e][b] # NoEntry
      PROVE  Standing(net, [d EXCEPT ![c] = e][b], b)
  <2>1. CASE b = c
        BY <1>2, <1>4, <2>1
  <2>2. CASE b # c
        BY <1>2, <1>4, <2>2 DEF AllStand
  <2> QED BY <2>1, <2>2
<1> QED BY <1>3, <1>4 DEF AllStand

LEMMA BlockedStands ==
    ASSUME NEW net, NEW d, AllStand(net, d), NEW cells
    PROVE  AllStand(net, BlockCells(d, cells))
<1>1. ASSUME NEW c \in Cells, BlockCells(d, cells)[c] # NoEntry
      PROVE  Standing(net, BlockCells(d, cells)[c], c)
  <2>1. CASE c \in Range(cells)
    <3>1. BlockCells(d, cells)[c].blocked = TRUE
          BY <2>1 DEF BlockCells
    <3> QED BY <3>1 DEF Standing
  <2>2. CASE c \notin Range(cells)
        BY <1>1, <2>2 DEF BlockCells, AllStand
  <2> QED BY <2>1, <2>2
<1>2. BlockCells(d, cells) = [c \in Cells |-> BlockCells(d, cells)[c]]
      BY DEF BlockCells
<1> QED BY <1>1, <1>2 DEF AllStand

LEMMA PropagatedStands ==
    ASSUME network \in Networks, AllStand(network, forest), NEW d, AllStand(network, d),
           NEW c, NEW allowRepair
    PROVE  AllStand(network, Propagated(d, c, allowRepair))
<1>1. PICK relaxed, b, e : /\ relaxed = BestNeighborRelaxation(d, c)
                           /\ b = (IF d[c] # NoEntry THEN d[c].synthetic ELSE Synthetic(c))
                           /\ e = [relaxed EXCEPT !.synthetic = b]
      OBVIOUS
<1>2. \/ Propagated(d, c, allowRepair) = d
      \/ /\ relaxed # NoEntry
         /\ Propagated(d, c, allowRepair) = Pruned([d EXCEPT ![c] = e], c)
      BY <1>1 DEF Propagated
<1>3. CASE relaxed # NoEntry
  <2>1. c \in Cells => Standing(network, e, c)
        BY <1>1, <1>3, RelaxationStands DEF Standing
  <2>2. PICK p : p = [d EXCEPT ![c] = e]
        OBVIOUS
  <2>3. AllStand(network, p)
        BY <2>1, <2>2, PutStands
  <2>4. AllStand(network, [p EXCEPT ![c] = NoEntry])
        BY <2>3, PutStands
  <2>5. AllStand(network, Pruned(p, c))
        BY <2>3, <2>4 DEF Pruned
  <2> QED BY <1>2, <2>2, <2>5
<1> QED BY <1>2, <1>3

-----------------------------------------------------------------------------
(* Cooling a way                                                           *)

\* Where the loop of cool_new_way stands: the draft, and the cell before.
SoFar(so, root) ==
    /\ AllStand(network, so.draft)
    /\ so.next \in Cells
    /\ Above(network, [root |-> root, cost |-> so.cost], so.next)

LEMMA CoolCellStands ==
    ASSUME network \in Networks, AllStand(network, forest),
           NEW root, NEW so, SoFar(so, root), NEW c \in Cells
    PROVE  SoFar(CoolCell(so, c, root), root)
<1>1. CASE c = so.next
      BY <1>1 DEF CoolCell
<1>2. CASE c # so.next
  <2>1. PICK cost : cost = so.cost + TransitionCost(c, so.next)
        OBVIOUS
  <2>2. PICK e : e = [parent |-> so.next, root |-> root, cost |-> cost,
                      blocked |-> FALSE, synthetic |-> Synthetic(c)]
        OBVIOUS
  <2>3. PICK after : after = CoolCell(so, c, root)
        OBVIOUS
  <2>4. /\ after.draft = so.draft \/ after.draft = [so.draft EXCEPT ![c] = e]
        /\ after.next = c /\ after.cost = cost
        BY <1>2, <2>1, <2>2, <2>3 DEF CoolCell
  <2>5. PICK at, stop : at = network.anchor[root][1] /\ stop = network.anchor[root][2]
        OBVIOUS
  <2>6. /\ root \in DOMAIN network.anchor
        /\ so.cost \in Nat /\ so.cost >= stop + TransitionCost(so.next, at)
        BY <2>5 DEF SoFar, Above
  <2>7. so.next \in Cells /\ at \in Cells /\ stop \in Nat
        BY <2>5, <2>6, NetworkIs DEF SoFar
  <2>8. /\ TransitionCost(c, so.next) \in Nat
        /\ TransitionCost(so.next, at) \in Nat /\ TransitionCost(c, at) \in Nat
        /\ TransitionCost(c, at) <= TransitionCost(c, so.next) + TransitionCost(so.next, at)
        BY <2>7, CostIs, Straighter
  <2>9. cost \in Nat /\ cost >= stop + TransitionCost(c, at)
        BY <2>1, <2>6, <2>7, <2>8
  <2>10. Above(network, [root |-> root, cost |-> cost], c)
        BY <2>5, <2>6, <2>9 DEF Above
  <2>11. Standing(network, e, c)
        BY <2>2, <2>10 DEF Standing, Above
  <2>12. AllStand(network, after.draft)
        BY <2>4, <2>11, PutStands DEF SoFar
  <2> QED BY <2>3, <2>4, <2>10, <2>12 DEF SoFar
<1> QED BY <1>1, <1>2

\* What the loop goes through, one cell after the other.
Cooling(d, from, by) ==
    /\ by[0] = [draft |-> d, next |-> from.anchor.parent, cost |-> from.anchor.cost]
    /\ \A k \in 1..Len(from.cells) : by[k] = CoolCell(by[k-1], from.cells[k], from.anchor.root)
    /\ \A k \in 0..Len(from.cells) : SoFar(by[k], from.anchor.root)
    /\ CoolCells(d, from) = by[Len(from.cells)].draft

LEMMA CoolingStands ==
    ASSUME network \in Networks, AllStand(network, forest), NEW d, AllStand(network, d),
           NEW from, from.cells \in Seq(Cells), from.anchor.parent \in Cells,
           Above(network, from.anchor, from.anchor.parent)
    PROVE  \E by : Cooling(d, from, by)
<1> DEFINE N == Len(from.cells)
           root == from.anchor.root
           first == [draft |-> d, next |-> from.anchor.parent, cost |-> from.anchor.cost]
           Entries == {d[c] : c \in Cells} \union
                      [parent : Cells, root : {root}, cost : Nat, blocked : {FALSE}, synthetic : BOOLEAN]
           S == [draft : [Cells -> Entries], next : Cells, cost : Nat]
           T == {so \in S : SoFar(so, root)}
           step == [k \in 1..N |-> [so \in T |-> CoolCell(so, from.cells[k], root)]]
           by == CHOOSE by : by = [k \in 0..N |->
                     IF k = 0 THEN [draft |-> d, next |-> from.anchor.parent, cost |-> from.anchor.cost]
                     ELSE CoolCell(by[k-1], from.cells[k], from.anchor.root)]
<1>1. N \in Nat /\ \A k \in 1..N : from.cells[k] \in Cells
      OBVIOUS
<1>2. first \in T
  <2>1. d \in [Cells -> Entries]
        BY DEF AllStand
  <2>2. first \in S
    <3> HIDE DEF Entries
    <3> QED BY <2>1 DEF Above
  <2>3. SoFar(first, root)
        BY DEF SoFar, Above
  <2> QED BY <2>2, <2>3
<1>3. ASSUME NEW so \in T, NEW c \in Cells PROVE CoolCell(so, c, root) \in T
  <2>1. SoFar(CoolCell(so, c, root), root)
        BY <1>3, CoolCellStands
  <2>2. so.cost \in Nat /\ so.next \in Cells /\ so.draft \in [Cells -> Entries] /\ so \in S
        OBVIOUS
  <2>3. TransitionCost(c, so.next) \in Nat
        BY <2>2, CostIs
  <2>4. PICK e : e = [parent |-> so.next, root |-> root, cost |-> so.cost + TransitionCost(c, so.next),
                      blocked |-> FALSE, synthetic |-> Synthetic(c)]
        OBVIOUS
  <2>5. e \in Entries
    <3>1. Synthetic(c) \in BOOLEAN
          BY DEF Synthetic
    <3>2. so.cost + TransitionCost(c, so.next) \in Nat
          BY <2>2, <2>3
    <3> QED BY <2>2, <2>4, <3>1, <3>2
  <2>6. PICK draft : draft = [so.draft EXCEPT ![c] = e]
        OBVIOUS
  <2>7. draft \in [Cells -> Entries]
    <3> HIDE DEF Entries
    <3> QED BY <2>2, <2>5, <2>6
  <2>8. \/ CoolCell(so, c, root) = so
        \/ \E f \in [Cells -> Entries] :
              CoolCell(so, c, root) = [draft |-> f, next |-> c, cost |-> so.cost + TransitionCost(c, so.next)]
    <3> HIDE DEF Entries, root
    <3> QED BY <2>2, <2>4, <2>6, <2>7 DEF CoolCell
  <2>9. CoolCell(so, c, root) \in S
    <3> HIDE DEF Entries, root
    <3> QED BY <2>2, <2>3, <2>8
  <2> QED BY <2>1, <2>9
<1>4. step \in [1..N -> [T -> T]]
  <2> HIDE DEF T, N, root
  <2> QED BY <1>1, <1>3
<1>5. PICK f \in [0..N -> T] : f[0] = first /\ \A k \in 1..N : f[k] = step[k][f[k - 1]]
  <2>1. StepByStep(N, T, first, step)
    <3> HIDE DEF N, T, first, step
    <3> QED BY <1>1, <1>2, <1>4, StepByStepOf
  <2> HIDE DEF N, T, first, step
  <2> QED BY <2>1 DEF StepByStep
<1> HIDE DEF N, T
<1>6. \A k \in 1..N : f[k] = CoolCell(f[k - 1], from.cells[k], root)
  <2> SUFFICES ASSUME NEW k \in 1..N PROVE f[k] = CoolCell(f[k - 1], from.cells[k], root)
      OBVIOUS
  <2>1. k - 1 \in 0..N
        BY <1>1
  <2>2. f[k - 1] \in T
        BY <2>1
  <2> QED BY <1>5, <2>2
<1> HIDE DEF first, step, root
<1>7. f = [k \in 0..N |-> IF k = 0 THEN first ELSE CoolCell(f[k-1], from.cells[k], root)]
      BY <1>1, <1>5, <1>6
<1>8. by = [k \in 0..N |-> IF k = 0 THEN first ELSE CoolCell(by[k-1], from.cells[k], root)]
      BY <1>7 DEF first, root
<1> HIDE DEF by
<1>9. CoolCells(d, from) = by[N].draft
      BY DEF CoolCells, by, N
<1> DEFINE U == {k \in 0..N : by[k] \in T}
<1>10. 0 \in U
      BY <1>1, <1>2, <1>8
<1>11. ASSUME NEW k \in 1..N, k - 1 \in U PROVE k \in U
  <2>1. by[k - 1] \in T /\ from.cells[k] \in Cells
        BY <1>1, <1>11
  <2>2. CoolCell(by[k - 1], from.cells[k], root) \in T
        BY <1>3, <2>1
  <2>3. by[k] = CoolCell(by[k - 1], from.cells[k], root)
        BY <1>1, <1>8
  <2> QED BY <1>1, <2>2, <2>3
<1>12. 0..N \subseteq U
  <2> HIDE DEF U
  <2> QED BY <1>1, <1>10, <1>11, UpTo
<1>13. \A k \in 0..N : SoFar(by[k], root)
      BY <1>12 DEF T
<1>14. by[0] = first /\ \A k \in 1..N : by[k] = CoolCell(by[k-1], from.cells[k], root)
      BY <1>1, <1>8
<1>15. Cooling(d, from, by)
      BY <1>9, <1>13, <1>14 DEF Cooling, N, first, root
<1> QED BY <1>15

LEMMA CooledStands ==
    ASSUME network \in Networks, AllStand(network, forest), NEW d, AllStand(network, d),
           NEW from, from.cells \in Seq(Cells), from.anchor.parent \in Cells,
           Above(network, from.anchor, from.anchor.parent)
    PROVE  AllStand(network, CoolCells(d, from))
<1>1. PICK by : Cooling(d, from, by)
      BY CoolingStands
<1>2. Len(from.cells) \in 0..Len(from.cells)
      OBVIOUS
<1> QED BY <1>1, <1>2 DEF Cooling, SoFar

-----------------------------------------------------------------------------
(* The theorem                                                             *)

LEMMA InitInvariant == Init => IInv
<1> SUFFICES ASSUME Init PROVE IInv
    OBVIOUS
<1>1. network \in Networks
      BY DEF Init
<1>2. AllStand(network, forest)
      BY <1>1, ForestStands DEF Init
<1>3. AllStand(network, entries)
      BY DEF Init, AllStand
<1>4. OverridesAreCourses /\ ChangeIsCourse
      BY DEF Init, OverridesAreCourses, ChangeIsCourse
<1> QED BY <1>1, <1>2, <1>3, <1>4 DEF IInv

LEMMA CurrentIsCourse ==
    ASSUME network \in Networks, OverridesAreCourses, NEW w \in Ways
    PROVE  CurrentWayCells(w) \in Seq(Cells)
<1>1. network.course[w] \in Seq(Cells) /\ <<>> \in Seq(Cells)
      BY NetworkIs
<1> QED BY <1>1 DEF CurrentWayCells, OverridesAreCourses

LEMMA BlockWayStep ==
    ASSUME IInv, NEW ch \in Readable, BlockWay(ch) PROVE IInv'
<1>1. network' = network /\ forest' = forest /\ overrides' = overrides
      BY DEF BlockWay
<1>2. AllStand(network, entries')
      BY BlockedStands DEF BlockWay, IInv
<1>3. CurrentWayCells(ch.way) \in Seq(Cells)
      BY CurrentIsCourse DEF IInv, Readable
<1>4. NextWayCells(ch, CurrentWayCells(ch.way)) \in Seq(Cells)
  <2>1. ch.cells \in Seq(Cells) /\ <<>> \in Seq(Cells)
        BY TopologyAssumption DEF Readable
  <2> QED BY <1>3, <2>1 DEF NextWayCells
<1>5. change'.cells \in Seq(Cells)
  <2>1. change' = [ch EXCEPT !.cells = NextWayCells(ch, CurrentWayCells(ch.way))]
        BY DEF BlockWay
  <2>2. [ch EXCEPT !.cells = NextWayCells(ch, CurrentWayCells(ch.way))].cells
           = NextWayCells(ch, CurrentWayCells(ch.way))
        BY DEF Readable
  <2> QED BY <1>4, <2>1, <2>2
<1> QED BY <1>1, <1>2, <1>5 DEF IInv, AllStand, OverridesAreCourses, ChangeIsCourse

LEMMA PropagateCellStep ==
    ASSUME IInv, PropagateCell PROVE IInv'
<1>1. UNCHANGED <<network, forest, overrides, change, phase>>
      BY DEF PropagateCell
<1>2. AllStand(network, entries')
      BY PropagatedStands DEF PropagateCell, IInv
<1> QED BY <1>1, <1>2 DEF IInv, AllStand, OverridesAreCourses, ChangeIsCourse

LEMMA PropagationEndsStep ==
    ASSUME IInv, PropagationEnds PROVE IInv'
<1>1. UNCHANGED <<network, forest, overrides, entries>>
      BY DEF PropagationEnds
<1>2. ChangeIsCourse'
      BY DEF PropagationEnds, ChangeIsCourse, IInv
<1> QED BY <1>1, <1>2 DEF IInv, AllStand, OverridesAreCourses

LEMMA RerouteStep ==
    ASSUME IInv, Reroute PROVE IInv'
<1> DEFINE cells == change.cells
           anchor == IF cells = <<>> THEN NoEntry ELSE WayAnchor(entries, cells)
<1>1. network' = network /\ forest' = forest /\ phase' \in {"idle", "cool"}
      BY DEF Reroute
<1>2. cells \in Seq(Cells)
      BY DEF Reroute, IInv, ChangeIsCourse
<1>3. AllStand(network, entries')
  <2>1. CASE anchor = NoEntry
        BY <2>1 DEF Reroute, IInv
  <2>2. CASE anchor # NoEntry
    <3>1. PICK from : from = anchor
          OBVIOUS
    <3>2. cells # <<>> /\ from = WayAnchor(entries, cells) /\ from # NoEntry
          BY <2>2, <3>1
    <3>3. /\ from.cells \in Seq(Cells) /\ from.anchor.parent \in Cells
          /\ Above(network, from.anchor, from.anchor.parent)
      <4> HIDE DEF anchor, cells
      <4> QED BY <1>2, <3>2, WayAnchorStands DEF IInv
    <3>4. AllStand(network, CoolCells(entries, from))
          BY <3>3, CooledStands DEF IInv
    <3>5. entries' = CoolCells(entries, from)
          BY <2>2, <3>1 DEF Reroute
    <3> QED BY <3>4, <3>5
  <2> QED BY <2>1, <2>2
<1>4. OverridesAreCourses'
  <2>1. PICK given : given = NewOverride(change, cells)
        OBVIOUS
  <2>2. given = NoWay \/ given.cells = cells
        BY <2>1 DEF NewOverride
  <2>3. overrides' = [overrides EXCEPT ![change.way] = given]
        BY <2>1 DEF Reroute
  <2> HIDE DEF cells
  <2> QED BY <1>2, <2>2, <2>3 DEF IInv, OverridesAreCourses
<1>5. ChangeIsCourse'
      BY <1>1 DEF ChangeIsCourse
<1> QED BY <1>1, <1>3, <1>4, <1>5 DEF IInv, AllStand

LEMMA StepInvariant == IInv /\ [Next]_vars => IInv'
<1> SUFFICES ASSUME IInv, [Next]_vars PROVE IInv'
    OBVIOUS
<1>1. ASSUME NEW ch \in Readable, BlockWay(ch) PROVE IInv'
      BY <1>1, BlockWayStep
<1>2. CASE PropagateCell
      BY <1>2, PropagateCellStep
<1>3. CASE PropagationEnds
      BY <1>3, PropagationEndsStep
<1>4. CASE Reroute
      BY <1>4, RerouteStep
<1>5. CASE UNCHANGED vars
      BY <1>5 DEF vars, IInv, AllStand, OverridesAreCourses, ChangeIsCourse
<1> QED BY <1>1, <1>2, <1>3, <1>4, <1>5 DEF Next

\* However ways were added, moved and deleted, and in the middle of a change
\* too, no cell promises a walk shorter than the straight line to its stop.
THEOREM NoWalkIsTooShort == Spec => []NeverShorterThanStraight
<1>1. IInv => NeverShorterThanStraight
  <2> SUFFICES ASSUME IInv, NEW c \in Cells, Usable(entries, c)
               PROVE  LET state == StateOf(entries, c)
                          anchor == network.anchor[state.root]
                      IN  state.cost >= anchor[2] + TransitionCost(c, anchor[1])
      BY DEF NeverShorterThanStraight
  <2>1. Above(network, StateOf(entries, c), c)
        BY UsableStands DEF IInv
  <2> QED BY <2>1 DEF Above
<1> QED BY <1>1, InitInvariant, StepInvariant, PTL DEF Spec

-----------------------------------------------------------------------------
(* The queue                                                               *)

LEMMA NearIsMutual ==
    ASSUME NEW c \in Cells
    PROVE  c \in Near(c) /\ \A n \in Near(c) : n \in Cells /\ c \in Near(n)
<1>1. \A n \in Cells : n[1] \in Int /\ n[2] \in Int
      BY CellIs
<1> QED BY <1>1 DEF Near, Abs

Plane == Int \X Int

LEMMA MooreNeighborsAre ==
    ASSUME NEW c \in Cells
    PROVE  /\ MooreNeighbors(c) \in Seq(Plane)
           /\ Near(c) \subseteq Range(MooreNeighbors(c))
<1>1. c[1] \in Int /\ c[2] \in Int
      BY CellIs
<1>2. MooreNeighbors(c) \in Seq(Plane)
      BY <1>1 DEF MooreNeighbors, Plane
<1>3. ASSUME NEW n \in Near(c) PROVE n \in Range(MooreNeighbors(c))
  <2>1. n = <<n[1], n[2]>> /\ n[1] \in Int /\ n[2] \in Int
        BY TopologyAssumption DEF Near, Cells
  <2>2. n[1] \in {c[1]-1, c[1], c[1]+1} /\ n[2] \in {c[2]-1, c[2], c[2]+1}
        BY <1>1, <2>1 DEF Near, Abs
  <2>3. PICK k \in 1..9 : n = MooreNeighbors(c)[k]
    <3>1. CASE n[1] = c[1] - 1
          BY <2>1, <2>2, <3>1 DEF MooreNeighbors
    <3>2. CASE n[1] = c[1]
          BY <2>1, <2>2, <3>2 DEF MooreNeighbors
    <3>3. CASE n[1] = c[1] + 1
          BY <2>1, <2>2, <3>3 DEF MooreNeighbors
    <3> QED BY <2>2, <3>1, <3>2, <3>3
  <2>4. DOMAIN MooreNeighbors(c) = 1..9
        BY DEF MooreNeighbors
  <2> QED BY <2>3, <2>4 DEF Range
<1> QED BY <1>2, <1>3

LEMMA Appended ==
    ASSUME NEW q \in Seq(Cells), NEW c \in Cells
    PROVE  Append(q, c) \in Seq(Cells) /\ Range(Append(q, c)) = Range(q) \union {c}
<1>1. /\ Append(q, c) \in Seq(Cells) /\ Len(Append(q, c)) = Len(q) + 1
      /\ \A k \in 1..Len(q) : Append(q, c)[k] = q[k]
      /\ Append(q, c)[Len(q) + 1] = c
      OBVIOUS
<1>2. DOMAIN q = 1..Len(q) /\ DOMAIN Append(q, c) = 1..(Len(q) + 1) /\ Len(q) \in Nat
      BY <1>1
<1>3. \A x \in Range(q) \union {c} : x \in Range(Append(q, c))
  <2>1. \A k \in 1..Len(q) : k \in 1..(Len(q) + 1)
        BY <1>2
  <2>2. Len(q) + 1 \in 1..(Len(q) + 1)
        BY <1>2
  <2> QED BY <1>1, <1>2, <2>1, <2>2 DEF Range
<1>4. \A x \in Range(Append(q, c)) : x \in Range(q) \union {c}
  <2>1. \A k \in 1..(Len(q) + 1) : k \in 1..Len(q) \/ k = Len(q) + 1
        BY <1>2
  <2> QED BY <1>1, <1>2, <2>1 DEF Range
<1> QED BY <1>1, <1>3, <1>4

LEMMA Popped ==
    ASSUME NEW q \in Seq(Cells), q # <<>>
    PROVE  /\ Head(q) \in Cells /\ Tail(q) \in Seq(Cells)
           /\ \A c \in Range(q) : c = Head(q) \/ c \in Range(Tail(q))
<1>1. /\ Head(q) \in Cells /\ Tail(q) \in Seq(Cells)
      /\ Head(q) = q[1] /\ Len(Tail(q)) = Len(q) - 1 /\ Len(q) \in Nat
      /\ \A k \in 1..(Len(q) - 1) : Tail(q)[k] = q[k + 1]
      OBVIOUS
<1>2. DOMAIN q = 1..Len(q) /\ DOMAIN Tail(q) = 1..(Len(q) - 1)
      BY <1>1
<1>3. ASSUME NEW k \in 1..Len(q) PROVE q[k] = Head(q) \/ q[k] \in Range(Tail(q))
  <2>1. CASE k = 1
        BY <1>1, <2>1
  <2>2. CASE k # 1
    <3>1. k - 1 \in 1..(Len(q) - 1) /\ (k - 1) + 1 = k
          BY <1>1, <2>2
    <3>2. Tail(q)[k - 1] = q[k]
          BY <1>1, <3>1
    <3> QED BY <1>2, <3>1, <3>2 DEF Range
  <2> QED BY <2>1, <2>2
<1> QED BY <1>1, <1>2, <1>3 DEF Range

\* A queue q to which cells were pushed.
Holds(r, q, cells) ==
    /\ r \in Seq(Cells)
    /\ Range(q) \subseteq Range(r)
    /\ \A k \in 1..Len(cells) : cells[k] \in Cells => cells[k] \in Range(r)

LEMMA PushHolds ==
    ASSUME NEW q \in Seq(Cells), NEW cells, Len(cells) \in Nat
    PROVE  Holds(Push(q, cells), q, cells)
<1> DEFINE N == Len(cells)
           S == Seq(Cells)
           one(r, c) == IF c \notin Cells \/ c \in Range(r) THEN r ELSE Append(r, c)
           step == [k \in 1..N |-> [r \in S |-> one(r, cells[k])]]
           by == CHOOSE by : by = [k \in 0..N |->
                     IF k = 0 THEN q
                     ELSE IF cells[k] \notin Cells \/ cells[k] \in Range(by[k-1]) THEN by[k-1]
                          ELSE Append(by[k-1], cells[k])]
<1>1. N \in Nat
      OBVIOUS
<1>2. ASSUME NEW r \in S, NEW c
      PROVE  /\ one(r, c) \in S /\ Range(r) \subseteq Range(one(r, c))
             /\ c \in Cells => c \in Range(one(r, c))
  <2>1. CASE c \notin Cells \/ c \in Range(r)
        BY <2>1
  <2>2. CASE ~(c \notin Cells \/ c \in Range(r))
        BY <2>2, Appended
  <2> QED BY <2>1, <2>2
<1>3. step \in [1..N -> [S -> S]]
  <2> HIDE DEF S, N, one
  <2> QED BY <1>2
<1>4. PICK f \in [0..N -> S] : f[0] = q /\ \A k \in 1..N : f[k] = step[k][f[k - 1]]
  <2>1. StepByStep(N, S, q, step)
    <3>1. q \in S
          OBVIOUS
    <3> HIDE DEF N, S, step
    <3> QED BY <1>1, <1>3, <3>1, StepByStepOf
  <2> HIDE DEF N, S, step
  <2> QED BY <2>1 DEF StepByStep
<1> HIDE DEF N, S, one
<1>5. \A k \in 1..N : f[k] = one(f[k - 1], cells[k])
  <2> SUFFICES ASSUME NEW k \in 1..N PROVE f[k] = one(f[k - 1], cells[k])
      OBVIOUS
  <2>1. k - 1 \in 0..N
        BY <1>1
  <2>2. f[k - 1] \in S
        BY <2>1
  <2> QED BY <1>4, <2>2
<1> HIDE DEF step
<1>6. f = [k \in 0..N |-> IF k = 0 THEN q ELSE one(f[k - 1], cells[k])]
      BY <1>1, <1>4, <1>5
<1>7. f = [k \in 0..N |-> IF k = 0 THEN q
              ELSE IF cells[k] \notin Cells \/ cells[k] \in Range(f[k-1]) THEN f[k-1]
                   ELSE Append(f[k-1], cells[k])]
      BY <1>6 DEF one
<1>8. by = [k \in 0..N |-> IF k = 0 THEN q
              ELSE IF cells[k] \notin Cells \/ cells[k] \in Range(by[k-1]) THEN by[k-1]
                   ELSE Append(by[k-1], cells[k])]
      BY <1>7
<1> HIDE DEF by
<1>9. Push(q, cells) = by[N]
      BY DEF Push, by, N
<1>10. by = [k \in 0..N |-> IF k = 0 THEN q ELSE one(by[k - 1], cells[k])]
      BY <1>8 DEF one
<1>11. by[0] = q /\ \A k \in 1..N : by[k] = one(by[k - 1], cells[k])
      BY <1>1, <1>10
<1> DEFINE There(k) == /\ by[k] \in S /\ Range(q) \subseteq Range(by[k])
                       /\ \A j \in 1..k : cells[j] \in Cells => cells[j] \in Range(by[k])
           U == {k \in 0..N : There(k)}
<1>12. 0 \in U
  <2>1. q \in S
        BY DEF S
  <2> QED BY <1>1, <1>11, <2>1
<1>13. ASSUME NEW k \in 1..N, k - 1 \in U PROVE k \in U
  <2>1. There(k - 1)
        BY <1>13
  <2>2. by[k] = one(by[k - 1], cells[k])
        BY <1>11
  <2>3. by[k] \in S /\ Range(by[k - 1]) \subseteq Range(by[k])
        BY <1>2, <2>1, <2>2
  <2>4. cells[k] \in Cells => cells[k] \in Range(by[k])
        BY <1>2, <2>1, <2>2
  <2>5. \A j \in 1..k : j = k \/ j \in 1..(k - 1)
        BY <1>1
  <2>6. There(k)
        BY <2>1, <2>3, <2>4, <2>5
  <2> QED BY <1>1, <2>6
<1>14. 0..N \subseteq U
  <2> HIDE DEF U
  <2> QED BY <1>1, <1>12, <1>13, UpTo
<1>15. There(N)
      BY <1>1, <1>14
<1> QED BY <1>9, <1>15 DEF Holds, N, S

LEMMA PushEachHolds ==
    ASSUME NEW groups, Len(groups) \in Nat, \A k \in 1..Len(groups) : Len(groups[k]) \in Nat
    PROVE  /\ PushEach(groups) \in Seq(Cells)
           /\ \A k \in 1..Len(groups) : \A j \in 1..Len(groups[k]) :
                 groups[k][j] \in Cells => groups[k][j] \in Range(PushEach(groups))
           /\ Len(groups) = 0 => PushEach(groups) = <<>>
<1> DEFINE N == Len(groups)
           S == Seq(Cells)
           none == <<>>
           step == [k \in 1..N |-> [r \in S |-> Push(r, groups[k])]]
           by == CHOOSE by : by = [k \in 0..N |-> IF k = 0 THEN <<>> ELSE Push(by[k-1], groups[k])]
<1>1. N \in Nat
      OBVIOUS
<1>2. ASSUME NEW r \in S, NEW k \in 1..N
      PROVE  /\ Push(r, groups[k]) \in S /\ Holds(Push(r, groups[k]), r, groups[k])
      BY PushHolds DEF Holds
<1>3. step \in [1..N -> [S -> S]]
  <2> HIDE DEF S, N
  <2> QED BY <1>2
<1>4. PICK f \in [0..N -> S] : f[0] = none /\ \A k \in 1..N : f[k] = step[k][f[k - 1]]
  <2>1. StepByStep(N, S, none, step)
    <3>1. none \in S
          OBVIOUS
    <3> HIDE DEF N, S, none, step
    <3> QED BY <1>1, <1>3, <3>1, StepByStepOf
  <2> HIDE DEF N, S, none, step
  <2> QED BY <2>1 DEF StepByStep
<1> HIDE DEF N, S
<1>5. \A k \in 1..N : f[k] = Push(f[k - 1], groups[k])
  <2> SUFFICES ASSUME NEW k \in 1..N PROVE f[k] = Push(f[k - 1], groups[k])
      OBVIOUS
  <2>1. k - 1 \in 0..N
        BY <1>1
  <2>2. f[k - 1] \in S
        BY <2>1
  <2> QED BY <1>4, <2>2
<1> HIDE DEF step
<1>6. f = [k \in 0..N |-> IF k = 0 THEN <<>> ELSE Push(f[k-1], groups[k])]
      BY <1>1, <1>4, <1>5
<1>7. by = [k \in 0..N |-> IF k = 0 THEN <<>> ELSE Push(by[k-1], groups[k])]
      BY <1>6
<1> HIDE DEF by
<1>8. PushEach(groups) = by[N]
      BY DEF PushEach, by, N
<1>9. by[0] = <<>> /\ \A k \in 1..N : by[k] = Push(by[k - 1], groups[k])
      BY <1>1, <1>7
<1> DEFINE There(k) == /\ by[k] \in S
                       /\ \A i \in 1..k : \A j \in 1..Len(groups[i]) :
                             groups[i][j] \in Cells => groups[i][j] \in Range(by[k])
           U == {k \in 0..N : There(k)}
<1>10. 0 \in U
  <2>1. <<>> \in S
        BY DEF S
  <2> QED BY <1>1, <1>9, <2>1
<1>11. ASSUME NEW k \in 1..N, k - 1 \in U PROVE k \in U
  <2>1. There(k - 1)
        BY <1>11
  <2>2. by[k] \in S /\ Holds(by[k], by[k - 1], groups[k])
        BY <1>2, <1>9, <2>1
  <2>3. \A i \in 1..k : i = k \/ i \in 1..(k - 1)
        BY <1>1
  <2>4. There(k)
        BY <2>1, <2>2, <2>3 DEF Holds
  <2> QED BY <1>1, <2>4
<1>12. 0..N \subseteq U
  <2> HIDE DEF U
  <2> QED BY <1>1, <1>10, <1>11, UpTo
<1>13. There(N)
      BY <1>1, <1>12
<1> QED BY <1>8, <1>9, <1>13 DEF N, S

-----------------------------------------------------------------------------
(* Ways that are only added                                                *)

\* StateOf and Usable, of any forest.
At(f, d, c) == IF d[c] # NoEntry THEN d[c] ELSE f[c]
Serves(state) == state # NoEntry /\ ~state.blocked /\ state.root # NoStop

\* Nothing in the forest is blocked, and nothing of the draft while ways are only
\* added; then what an entry promises its parent keeps.
ForestServes(f) == \A c \in Cells : f[c] # NoEntry => Serves(f[c])

Kept(f, d, c) ==
    LET p == d[c].parent
    IN  /\ p \in Cells /\ Serves(At(f, d, p))
        /\ d[c].cost >= At(f, d, p).cost + TransitionCost(c, p)

Entered(f, d) ==
    \A c \in Cells : d[c] # NoEntry =>
        Serves(d[c]) /\ d[c].synthetic \in BOOLEAN /\ Kept(f, d, c)

\* Of neighbours, one with an entry, a cell that is not in the queue q could not
\* be nearer.
Nearest(f, d, c, n) ==
    Serves(At(f, d, c)) /\ At(f, d, c).cost <= At(f, d, n).cost + TransitionCost(c, n)

Relaxed(f, d, q) ==
    \A c \in Cells : \A n \in Near(c) :
        (d[c] # NoEntry \/ d[n] # NoEntry) /\ Serves(At(f, d, n)) /\ c \notin q => Nearest(f, d, c, n)

\* There is a queue only while it is propagated, and repairs only after blocking.
Quiet ==
    /\ queue \in Seq(Cells)
    /\ phase \in {"idle", "reroute"} => queue = <<>>
    /\ phase = "shadow" => blockedAny

RInv ==
    /\ IInv
    /\ Quiet
    /\ ForestServes(forest)
    /\ ~blockedAny => Entered(forest, entries)
    /\ ~blockedAny => Relaxed(forest, entries, Range(queue) \union dropped)

LEMMA ForestOfServes ==
    ASSUME NEW n \in Networks PROVE ForestServes(Forest(n))
<1> SUFFICES ASSUME NEW c \in Cells, Forest(n)[c] # NoEntry PROVE Serves(Forest(n)[c])
    BY DEF ForestServes
<1>1. Forest(n)[c].blocked = FALSE
      BY DEF Forest
<1>2. Standing(n, Forest(n)[c], c)
      BY ForestStands DEF AllStand
<1>3. ~Forest(n)[c].blocked
      BY <1>1
<1>4. Forest(n)[c].root # NoStop
  <2> DEFINE far == Distances(n)
             reached == {s \in DOMAIN n.anchor : far[s][c] < Inf}
             cost == Least({far[s][c] : s \in reached})
             R == {s \in reached : far[s][c] = cost}
  <2>1. c \in Nodes(n) /\ reached # {}
        BY DEF Forest
  <2>2. Forest(n)[c].root = Least(R)
        BY <2>1 DEF Forest
  <2>3. \A s \in DOMAIN n.anchor : s \in Nat /\ far[s][c] \in Nat
        BY <2>1, NetworkIs, DistancesAreStraight DEF Tables
  <2>4. cost \in {far[s][c] : s \in reached}
    <3> DEFINE C == {far[s][c] : s \in reached}
    <3>1. C \in SUBSET Nat /\ C # {}
          BY <2>1, <2>3
    <3>2. Least(C) \in C
      <4> HIDE DEF C
      <4> QED BY <3>1, LeastOf
    <3> QED BY <3>2
  <2>5. R \in SUBSET Nat /\ R # {}
        BY <2>3, <2>4
  <2>6. Least(R) \in R
    <3> HIDE DEF R
    <3> QED BY <2>5, LeastOf
  <2>7. Least(R) \in Nat
        BY <2>5, <2>6
  <2> QED BY <2>2, <2>7, TopologyAssumption
<1> QED BY <1>3, <1>4 DEF Serves

\* Costs of cells that serve are numbers.
LEMMA ServesAbove ==
    ASSUME AllStand(network, forest), NEW d, AllStand(network, d), NEW c \in Cells,
           Serves(At(forest, d, c))
    PROVE  Above(network, At(forest, d, c), c) /\ At(forest, d, c).cost \in Nat
BY DEF AllStand, Standing, Serves, At, Above

\* A draft in which only c changed, and serves now at a lower cost.
Eased(f, d, e, c) ==
    /\ \A b \in Cells : b # c => e[b] = d[b]
    /\ Serves(At(f, e, c))
    /\ Serves(At(f, d, c)) => At(f, e, c).cost < At(f, d, c).cost

LEMMA EasedKeeps ==
    ASSUME AllStand(network, forest), NEW d, NEW e, AllStand(network, d), AllStand(network, e),
           NEW c \in Cells, Eased(forest, d, e, c), Entered(forest, d),
           e[c] # NoEntry => Serves(e[c]) /\ e[c].synthetic \in BOOLEAN /\ Kept(forest, e, c)
    PROVE  Entered(forest, e)
<1> SUFFICES ASSUME NEW b \in Cells, e[b] # NoEntry, b # c
             PROVE  Serves(e[b]) /\ e[b].synthetic \in BOOLEAN /\ Kept(forest, e, b)
    BY DEF Entered
<1>1. e[b] = d[b]
      BY DEF Eased
<1>2. Serves(d[b]) /\ d[b].synthetic \in BOOLEAN /\ Kept(forest, d, b)
      BY <1>1 DEF Entered
<1>3. PICK p : p = d[b].parent
      OBVIOUS
<1>4. /\ p \in Cells /\ Serves(At(forest, d, p))
      /\ d[b].cost >= At(forest, d, p).cost + TransitionCost(b, p)
      BY <1>2, <1>3 DEF Kept
<1>5. /\ Serves(At(forest, e, p))
      /\ At(forest, e, p).cost <= At(forest, d, p).cost
  <2>1. CASE p = c
    <3>1. Serves(At(forest, e, c)) /\ At(forest, e, c).cost < At(forest, d, c).cost
          BY <1>4, <2>1 DEF Eased
    <3>2. At(forest, e, c).cost \in Nat /\ At(forest, d, c).cost \in Nat
          BY <1>4, <2>1, <3>1, ServesAbove
    <3> QED BY <2>1, <3>1, <3>2
  <2>2. CASE p # c
    <3>1. At(forest, e, p) = At(forest, d, p)
          BY <1>4, <2>2 DEF Eased, At
    <3>2. At(forest, d, p).cost \in Nat
          BY <1>4, ServesAbove
    <3> QED BY <1>4, <3>1, <3>2
  <2> QED BY <2>1, <2>2
<1>6. d[b].cost >= At(forest, e, p).cost + TransitionCost(b, p)
  <2>1. At(forest, e, p).cost \in Nat /\ At(forest, d, p).cost \in Nat
        BY <1>4, <1>5, ServesAbove
  <2>2. d[b].cost \in Nat
    <3>1. At(forest, d, b) = d[b]
          BY <1>1 DEF At
    <3> QED BY <1>2, <3>1, ServesAbove
  <2>3. TransitionCost(b, p) \in Nat
        BY <1>4, CostIs
  <2> QED BY <1>4, <1>5, <2>1, <2>2, <2>3
<1> QED BY <1>1, <1>2, <1>3, <1>4, <1>5, <1>6 DEF Kept

LEMMA SameState ==
    ASSUME NEW d, NEW c
    PROVE  StateOf(d, c) = At(forest, d, c) /\ (Usable(d, c) <=> Serves(At(forest, d, c)))
BY DEF StateOf, Usable, At, Serves

\* The cheapest neighbour serves, and no other is nearer.
LEMMA CheapestServes ==
    ASSUME AllStand(network, forest), NEW d, AllStand(network, d), NEW c \in Cells,
           NEW open \in SUBSET Cells, open # {}, \A n \in open : Usable(d, n),
           NEW best, best = Cheapest(d, c, open)
    PROVE  /\ best.parent \in open /\ Serves(At(forest, d, best.parent))
           /\ best.root = At(forest, d, best.parent).root
           /\ best.cost = At(forest, d, best.parent).cost + TransitionCost(c, best.parent)
           /\ best.cost \in Nat
           /\ \A n \in open : best.cost <= At(forest, d, n).cost + TransitionCost(c, n)
<1>1. /\ best.parent \in open /\ Serves(At(forest, d, best.parent))
      /\ best.root = At(forest, d, best.parent).root
      /\ best.cost = At(forest, d, best.parent).cost + TransitionCost(c, best.parent)
      BY CheapestIs, SameState
<1> DEFINE C == {StateOf(d, n).cost + TransitionCost(c, n) : n \in open}
<1>2. ASSUME NEW n \in open PROVE StateOf(d, n).cost + TransitionCost(c, n) \in Nat
  <2>1. At(forest, d, n).cost \in Nat
        BY SameState, ServesAbove
  <2>2. StateOf(d, n).cost \in Nat
        BY <2>1, SameState
  <2>3. TransitionCost(c, n) \in Nat
        BY CostIs
  <2> QED BY <2>2, <2>3
<1>3. C \in SUBSET Nat /\ C # {}
      BY <1>2
<1>4. Least(C) \in C /\ \A y \in C : Least(C) <= y
  <2> HIDE DEF C
  <2> QED BY <1>3, LeastOf
<1>5. best.cost = Least(C)
      BY DEF Cheapest
<1>6. best.cost \in Nat
      BY <1>3, <1>4, <1>5
<1>7. \A n \in open : best.cost <= StateOf(d, n).cost + TransitionCost(c, n)
      BY <1>4, <1>5
<1> QED BY <1>1, <1>6, <1>7, SameState

\* An entry that takes the place of what a cell had, better than it.
LEMMA PutEases ==
    ASSUME network \in Networks, AllStand(network, forest), NEW d, AllStand(network, d),
           NEW c \in Cells, NEW p \in Cells, p # c, Serves(At(forest, d, p)),
           NEW e \in States, ~e.blocked, e.root # NoStop, e.parent = p,
           e.cost >= At(forest, d, p).cost + TransitionCost(c, p),
           Serves(At(forest, d, c)) => e.cost < At(forest, d, c).cost
    PROVE  /\ Eased(forest, d, [d EXCEPT ![c] = e], c)
           /\ [d EXCEPT ![c] = e][c] = e
           /\ Serves(e) /\ e.synthetic \in BOOLEAN
           /\ Kept(forest, [d EXCEPT ![c] = e], c)
<1>1. e # NoEntry /\ e.synthetic \in BOOLEAN
      BY TopologyAssumption DEF States
<1>2. PICK put : put = [d EXCEPT ![c] = e]
      OBVIOUS
<1>3. put[c] = e /\ \A b \in Cells : b # c => put[b] = d[b]
      BY <1>2 DEF AllStand
<1>4. At(forest, put, c) = e /\ At(forest, put, p) = At(forest, d, p)
      BY <1>1, <1>3 DEF At
<1>5. Serves(e)
      BY <1>1 DEF Serves
<1> QED BY <1>1, <1>2, <1>3, <1>4, <1>5 DEF Eased, Kept

\* A cell of a cooled way, or next to one, is popped: either it is as near as any
\* neighbour makes it, or its new state serves at a lower cost.
LEMMA PropagatedEases ==
    ASSUME network \in Networks, AllStand(network, forest), ForestServes(forest),
           NEW d, AllStand(network, d), Entered(forest, d), NEW c \in Cells,
           NEW after, after = Propagated(d, c, FALSE)
    PROVE  \/ /\ after = d
              /\ \A n \in Near(c) :
                    (d[c] # NoEntry \/ d[n] # NoEntry) /\ Serves(At(forest, d, n))
                       => Nearest(forest, d, c, n)
           \/ /\ after # d /\ Eased(forest, d, after, c) /\ Entered(forest, after)
<1>1. PICK state, relaxed, b, e :
         /\ state = At(forest, d, c)
         /\ relaxed = BestNeighborRelaxation(d, c)
         /\ b = (IF d[c] # NoEntry THEN d[c].synthetic ELSE Synthetic(c))
         /\ e = [relaxed EXCEPT !.synthetic = b]
      OBVIOUS
<1>2. state # NoEntry => Serves(state)
      BY <1>1 DEF ForestServes, Entered, At
<1> DEFINE open == {n \in Near(c) \ {c} : Usable(d, n)}
<1>3. open \in SUBSET Cells /\ (\A n \in open : Usable(d, n)) /\ c \notin open
      BY DEF Near
<1>4. Serves(state) => Nearest(forest, d, c, c)
  <2>1. ASSUME Serves(state) PROVE state.cost <= state.cost + TransitionCost(c, c)
    <3>1. state.cost \in Nat
          BY <1>1, <2>1, ServesAbove
    <3>2. TransitionCost(c, c) = 0
          BY CostIs
    <3> QED BY <3>1, <3>2
  <2> QED BY <1>1, <2>1 DEF Nearest
<1>5. CASE relaxed = NoEntry
  <2>1. after = d
        BY <1>1, <1>5 DEF Propagated
  <2>2. open = {}
    <3>1. SUFFICES ASSUME open # {} PROVE FALSE
          OBVIOUS
    <3>2. relaxed = Cheapest(d, c, open)
          BY <1>1, <3>1 DEF BestNeighborRelaxation
    <3>3. /\ relaxed.parent \in open /\ Serves(At(forest, d, relaxed.parent))
          /\ relaxed.root = At(forest, d, relaxed.parent).root /\ relaxed.cost \in Nat
      <4> HIDE DEF open
      <4> QED BY <1>3, <3>1, <3>2, CheapestServes
    <3>4. relaxed.root \in Nat
      <4>1. Above(network, At(forest, d, relaxed.parent), relaxed.parent)
        <5> HIDE DEF open
        <5> QED BY <1>3, <3>3, ServesAbove
      <4> HIDE DEF open
      <4> QED BY <3>3, <4>1, NetworkIs DEF Above
    <3>5. relaxed \in States
      <4>1. PICK p, r, k : p = relaxed.parent /\ r = relaxed.root /\ k = relaxed.cost
            OBVIOUS
      <4>2. relaxed = [parent |-> p, root |-> r, cost |-> k, blocked |-> FALSE, synthetic |-> TRUE]
        <5> HIDE DEF open
        <5> QED BY <3>2, <4>1 DEF Cheapest
      <4>3. p \in Cells /\ r \in Nat /\ k \in Nat
            BY <1>3, <3>3, <3>4, <4>1
      <4> HIDE DEF open
      <4> QED BY <4>2, <4>3 DEF States
    <3> QED BY <1>5, <3>5, TopologyAssumption
  <2>3. \A n \in Near(c) : Serves(At(forest, d, n)) => n = c
        BY <2>2, SameState
  <2> QED BY <1>1, <1>4, <2>1, <2>3
<1>6. CASE relaxed # NoEntry
  <2>1. open # {} /\ relaxed = Cheapest(d, c, open)
        BY <1>1, <1>6 DEF BestNeighborRelaxation
  <2>2. PICK p : p = relaxed.parent
        OBVIOUS
  <2>3. /\ p \in open /\ Serves(At(forest, d, p))
        /\ relaxed.root = At(forest, d, p).root
        /\ relaxed.cost = At(forest, d, p).cost + TransitionCost(c, p)
        /\ relaxed.cost \in Nat
        /\ \A n \in open : relaxed.cost <= At(forest, d, n).cost + TransitionCost(c, n)
    <3> HIDE DEF open
    <3> QED BY <1>3, <2>1, <2>2, CheapestServes
  <2>4. p \in Cells /\ p # c
        BY <1>3, <2>3
  <2>5. relaxed.root \in Nat /\ relaxed.root # NoStop
    <3>1. Above(network, At(forest, d, p), p)
          BY <2>3, <2>4, ServesAbove
    <3> QED BY <2>3, <3>1, NetworkIs DEF Above
  <2>6. PICK r, k : r = relaxed.root /\ k = relaxed.cost
        OBVIOUS
  <2>7. relaxed = [parent |-> p, root |-> r, cost |-> k, blocked |-> FALSE, synthetic |-> TRUE]
    <3> HIDE DEF open
    <3> QED BY <2>1, <2>2, <2>6 DEF Cheapest
  <2>8. b \in BOOLEAN
        BY <1>1 DEF Entered, Synthetic
  <2>9. e = [parent |-> p, root |-> r, cost |-> k, blocked |-> FALSE, synthetic |-> b]
    <3>1. e = [relaxed EXCEPT !.synthetic = b]
          BY <1>1
    <3>2. CASE b = TRUE
          BY <2>7, <3>1, <3>2
    <3>3. CASE b = FALSE
          BY <2>7, <3>1, <3>3
    <3> QED BY <2>8, <3>2, <3>3
  <2>10. e \in States
    <3>1. r \in Nat /\ k \in Nat
          BY <2>3, <2>5, <2>6
    <3> QED BY <2>4, <2>9, <2>8, <3>1 DEF States
  <2>11. ~e.blocked /\ e.root # NoStop /\ e.parent = p /\ e.cost = relaxed.cost /\ e.cost \in Nat
    <3>1. e.blocked = FALSE /\ e.root = r /\ e.parent = p /\ e.cost = k
          BY <2>9
    <3> QED BY <2>3, <2>5, <2>6, <3>1
  <2>12. CASE state # NoEntry /\ ~(relaxed.cost < state.cost)
    <3>1. after = d
          BY <1>1, <2>12, SameState DEF Propagated
    <3>2. Serves(state)
          BY <1>2, <2>12
    <3>3. state.cost \in Nat
          BY <1>1, <3>2, ServesAbove
    <3>4. ASSUME NEW n \in Near(c), Serves(At(forest, d, n)) PROVE Nearest(forest, d, c, n)
      <4>1. CASE n = c
            BY <1>4, <3>2, <4>1
      <4>2. CASE n # c
        <5>1. n \in open
              BY <3>4, <4>2, SameState
        <5>2. relaxed.cost <= At(forest, d, n).cost + TransitionCost(c, n)
              BY <2>3, <5>1
        <5>3. n \in Cells
              BY <1>3, <5>1
        <5>4. At(forest, d, n).cost \in Nat /\ TransitionCost(c, n) \in Nat
              BY <3>4, <5>3, ServesAbove, CostIs
        <5>5. state.cost <= At(forest, d, n).cost + TransitionCost(c, n)
              BY <2>3, <2>12, <3>3, <5>2, <5>4
        <5> QED BY <1>1, <3>2, <5>5 DEF Nearest
      <4> QED BY <4>1, <4>2
    <3> QED BY <3>1, <3>4
  <2>13. CASE state = NoEntry \/ relaxed.cost < state.cost
    <3>1. after = Pruned([d EXCEPT ![c] = e], c)
      <4>1. ~(state # NoEntry /\ state.blocked)
            BY <1>2 DEF Serves
      <4> QED BY <1>1, <1>6, <2>13, <4>1, SameState DEF Propagated
    <3>2. PICK put : put = [d EXCEPT ![c] = e]
          OBVIOUS
    <3>3. /\ Eased(forest, d, put, c) /\ put[c] = e
          /\ Serves(e) /\ e.synthetic \in BOOLEAN /\ Kept(forest, put, c)
      <4>1. Serves(At(forest, d, c)) => e.cost < At(forest, d, c).cost
            BY <1>1, <2>13, <2>11 DEF Serves
      <4>2. e.cost >= At(forest, d, p).cost + TransitionCost(c, p)
        <5>1. At(forest, d, p).cost + TransitionCost(c, p) = e.cost
              BY <2>3, <2>11
        <5> QED BY <2>11, <5>1
      <4>3. Serves(At(forest, d, p))
            BY <2>3
      <4>4. /\ Eased(forest, d, [d EXCEPT ![c] = e], c)
            /\ [d EXCEPT ![c] = e][c] = e
            /\ Serves(e) /\ e.synthetic \in BOOLEAN
            /\ Kept(forest, [d EXCEPT ![c] = e], c)
        <5> HIDE DEF open
        <5> QED BY <2>4, <2>10, <2>11, <4>1, <4>2, <4>3, PutEases
      <4> QED BY <3>2, <4>4
    <3>4. AllStand(network, put)
      <4>1. Standing(network, e, c)
            BY <1>1, <1>6, RelaxationStands DEF Standing
      <4> QED BY <3>2, <4>1, PutStands
    <3>5. CASE after = put
      <4>1. Entered(forest, put)
            BY <3>3, <3>4, EasedKeeps
      <4>2. put # d
        <5>1. SUFFICES ASSUME put = d PROVE FALSE
              OBVIOUS
        <5>2. At(forest, d, c) = e
              BY <3>3, <5>1, TopologyAssumption, <2>10 DEF At
        <5>3. e.cost < e.cost
              BY <3>3, <5>1, <5>2 DEF Eased
        <5> QED BY <2>11, <5>3
      <4> QED BY <3>3, <3>5, <4>1, <4>2
    <3>6. CASE after # put
      <4>1. after = [put EXCEPT ![c] = NoEntry] /\ forest[c] = e
            BY <3>1, <3>2, <3>3, <3>6 DEF Pruned
      <4>2. after[c] = NoEntry /\ \A a \in Cells : a # c => after[a] = put[a]
            BY <3>4, <4>1 DEF AllStand
      <4>3. At(forest, after, c) = e /\ At(forest, put, c) = e
            BY <3>3, <4>1, <4>2 DEF At, Serves
      <4>4. Eased(forest, d, after, c)
            BY <3>3, <4>2, <4>3 DEF Eased
      <4>5. AllStand(network, after)
        <5>1. AllStand(network, [put EXCEPT ![c] = NoEntry])
              BY <3>4, PutStands
        <5> QED BY <4>1, <5>1
      <4>6. Entered(forest, after)
            BY <4>2, <4>4, <4>5, EasedKeeps
      <4>7. after # d
        <5>1. SUFFICES ASSUME after = d PROVE FALSE
              OBVIOUS
        <5>2. At(forest, d, c) = e
              BY <4>3, <5>1
        <5>3. e.cost < e.cost
              BY <3>3, <4>3, <4>4, <5>2 DEF Eased
        <5> QED BY <2>11, <5>3
      <4> QED BY <4>4, <4>6, <4>7
    <3> QED BY <3>5, <3>6
  <2> QED BY <2>12, <2>13
<1> QED BY <1>5, <1>6

\* Where the loop of cool_new_way stands, when nothing is blocked: the cell before
\* serves, at no more than the cost the loop goes on with.
Linked(so) ==
    /\ Entered(forest, so.draft)
    /\ Serves(At(forest, so.draft, so.next))
    /\ At(forest, so.draft, so.next).cost <= so.cost

LEMMA CoolCellLinks ==
    ASSUME network \in Networks, AllStand(network, forest), ForestServes(forest),
           NEW root, NEW so, SoFar(so, root), Linked(so), NEW c \in Cells,
           NEW after, after = CoolCell(so, c, root)
    PROVE  Linked(after) /\ \A b \in Cells : b # c => after.draft[b] = so.draft[b]
<1>1. CASE c = so.next
      BY <1>1 DEF CoolCell
<1>2. CASE c # so.next
  <2>1. PICK d, p, cost, state, e :
           /\ d = so.draft /\ p = so.next
           /\ cost = so.cost + TransitionCost(c, p)
           /\ state = At(forest, d, c)
           /\ e = [parent |-> p, root |-> root, cost |-> cost,
                   blocked |-> FALSE, synthetic |-> Synthetic(c)]
        OBVIOUS
  <2>2. /\ AllStand(network, d) /\ p \in Cells /\ so.cost \in Nat
        /\ root \in DOMAIN network.anchor
        BY <2>1 DEF SoFar, Above
  <2>3. /\ Entered(forest, d) /\ Serves(At(forest, d, p)) /\ At(forest, d, p).cost <= so.cost
        BY <2>1 DEF Linked
  <2>4. TransitionCost(c, p) \in Nat /\ At(forest, d, p).cost \in Nat
        BY <2>2, <2>3, CostIs, ServesAbove
  <2>5. cost \in Nat /\ cost >= At(forest, d, p).cost + TransitionCost(c, p)
        BY <2>1, <2>2, <2>3, <2>4
  <2>6. root \in Nat /\ root # NoStop
        BY <2>2, NetworkIs
  <2>7. e \in States
    <3>1. Synthetic(c) \in BOOLEAN
          BY DEF Synthetic
    <3> QED BY <2>1, <2>2, <2>5, <2>6, <3>1 DEF States
  <2>8. ~e.blocked /\ e.root # NoStop /\ e.parent = p /\ e.cost = cost
        BY <2>1, <2>6
  <2>9. state # NoEntry => Serves(state)
        BY <2>1, <2>3 DEF ForestServes, Entered, At
  <2>10. after.next = c /\ after.cost = cost
        BY <1>2, <2>1 DEF CoolCell
  <2>11. StateOf(d, c) = state
        BY <2>1, SameState
  <2>12. CASE state = NoEntry \/ state.blocked \/ cost < state.cost
    <3>1. after.draft = [d EXCEPT ![c] = e]
          BY <1>2, <2>1, <2>11, <2>12 DEF CoolCell
    <3>2. Serves(At(forest, d, c)) => e.cost < At(forest, d, c).cost
          BY <2>1, <2>8, <2>12 DEF Serves
    <3>3. e.cost >= At(forest, d, p).cost + TransitionCost(c, p)
          BY <2>5, <2>8
    <3>4. p # c
          BY <1>2, <2>1
    <3>5. /\ Eased(forest, d, [d EXCEPT ![c] = e], c)
          /\ [d EXCEPT ![c] = e][c] = e
          /\ Serves(e) /\ e.synthetic \in BOOLEAN
          /\ Kept(forest, [d EXCEPT ![c] = e], c)
          BY <2>2, <2>3, <2>7, <2>8, <3>2, <3>3, <3>4, PutEases
    <3>6. AllStand(network, after.draft)
      <4>1. SoFar(after, root)
            BY CoolCellStands
      <4> QED BY <4>1 DEF SoFar
    <3>7. /\ Eased(forest, d, after.draft, c) /\ after.draft[c] = e
          /\ Serves(e) /\ e.synthetic \in BOOLEAN /\ Kept(forest, after.draft, c)
          BY <3>1, <3>5
    <3>8. Entered(forest, after.draft)
          BY <2>2, <2>3, <3>6, <3>7, EasedKeeps
    <3>9. At(forest, after.draft, c) = e
          BY <3>7 DEF At, Serves
    <3>10. e.cost <= cost
          BY <2>5, <2>8
    <3>11. \A b \in Cells : b # c => after.draft[b] = so.draft[b]
          BY <2>1, <3>7 DEF Eased
    <3> QED BY <2>10, <3>7, <3>8, <3>9, <3>10, <3>11 DEF Linked
  <2>13. CASE ~(state = NoEntry \/ state.blocked \/ cost < state.cost)
    <3>1. after.draft = d
          BY <1>2, <2>1, <2>11, <2>13 DEF CoolCell
    <3>2. Serves(state)
          BY <2>9, <2>13
    <3>3. state.cost \in Nat
          BY <2>1, <2>2, <3>2, ServesAbove
    <3>4. state.cost <= cost
          BY <2>5, <2>13, <3>3
    <3> QED BY <2>1, <2>3, <2>10, <3>1, <3>2, <3>4 DEF Linked
  <2> QED BY <2>12, <2>13
<1> QED BY <1>1, <1>2

\* The anchor of a way serves, at no more than the cost the loop begins with.
LEMMA AnchorServes ==
    ASSUME AllStand(network, forest), NEW d, AllStand(network, d),
           NEW c \in Cells, NEW best, best = ResolveAnchor(d, c), best # NoEntry
    PROVE  Serves(At(forest, d, best.parent)) /\ At(forest, d, best.parent).cost <= best.cost
<1> DEFINE open == {n \in Near(c) : Usable(d, n)}
<1>1. open # {} /\ best = Cheapest(d, c, open)
      BY DEF ResolveAnchor
<1>2. open \in SUBSET Cells /\ \A n \in open : Usable(d, n)
      BY DEF Near
<1> HIDE DEF open
<1>3. /\ best.parent \in Cells /\ Serves(At(forest, d, best.parent))
      /\ best.cost = At(forest, d, best.parent).cost + TransitionCost(c, best.parent)
      BY <1>1, <1>2, CheapestServes
<1>4. At(forest, d, best.parent).cost \in Nat /\ TransitionCost(c, best.parent) \in Nat
      BY <1>3, ServesAbove, CostIs
<1> QED BY <1>3, <1>4

LEMMA WayAnchorServes ==
    ASSUME AllStand(network, forest), NEW d, AllStand(network, d),
           NEW cells \in Seq(Cells), cells # <<>>,
           NEW from, from = WayAnchor(d, cells), from # NoEntry
    PROVE  /\ Serves(At(forest, d, from.anchor.parent))
           /\ At(forest, d, from.anchor.parent).cost <= from.anchor.cost
           /\ \A k \in 1..Len(from.cells) : from.cells[k] \in Range(cells)
<1>1. PICK first, last : /\ first = ResolveAnchor(d, cells[1])
                         /\ last = ResolveAnchor(d, cells[Len(cells)])
      OBVIOUS
<1>2. cells[1] \in Cells /\ cells[Len(cells)] \in Cells
      OBVIOUS
<1>3. \A k \in 1..Len(cells) : cells[k] \in Range(cells)
      BY DEF Range
<1>4. /\ Len(Reverse(cells)) = Len(cells)
      /\ \A k \in 1..Len(cells) : Reverse(cells)[k] \in Range(cells)
  <2>1. \A k \in 1..Len(cells) : (Len(cells) - k) + 1 \in 1..Len(cells)
        OBVIOUS
  <2>2. \A k \in 1..Len(cells) : Reverse(cells)[k] = cells[(Len(cells) - k) + 1]
        BY DEF Reverse
  <2>3. Len(Reverse(cells)) = Len(cells)
        BY DEF Reverse
  <2> QED BY <1>3, <2>1, <2>2, <2>3
<1>5. \/ first # NoEntry /\ from = [anchor |-> first, cells |-> cells]
      \/ last # NoEntry /\ from = [anchor |-> last, cells |-> Reverse(cells)]
      BY <1>1 DEF WayAnchor
<1>6. CASE first # NoEntry /\ from = [anchor |-> first, cells |-> cells]
  <2>1. Serves(At(forest, d, first.parent)) /\ At(forest, d, first.parent).cost <= first.cost
        BY <1>1, <1>2, <1>6, AnchorServes
  <2> QED BY <1>3, <1>6, <2>1
<1>7. CASE last # NoEntry /\ from = [anchor |-> last, cells |-> Reverse(cells)]
  <2>1. Serves(At(forest, d, last.parent)) /\ At(forest, d, last.parent).cost <= last.cost
        BY <1>1, <1>2, <1>7, AnchorServes
  <2> QED BY <1>4, <1>7, <2>1
<1> QED BY <1>5, <1>6, <1>7

LEMMA CooledServes ==
    ASSUME network \in Networks, AllStand(network, forest), ForestServes(forest),
           NEW d, AllStand(network, d), Entered(forest, d),
           NEW cells \in Seq(Cells), cells # <<>>,
           NEW from, from = WayAnchor(d, cells), from # NoEntry
    PROVE  /\ Entered(forest, CoolCells(d, from))
           /\ \A b \in Cells : b \notin Range(cells) => CoolCells(d, from)[b] = d[b]
<1>1. /\ from.cells \in Seq(Cells) /\ from.anchor.parent \in Cells
      /\ Above(network, from.anchor, from.anchor.parent)
      BY WayAnchorStands
<1>2. /\ Serves(At(forest, d, from.anchor.parent))
      /\ At(forest, d, from.anchor.parent).cost <= from.anchor.cost
      /\ \A k \in 1..Len(from.cells) : from.cells[k] \in Range(cells)
      BY WayAnchorServes
<1>3. PICK by : Cooling(d, from, by)
      BY <1>1, CoolingStands
<1> DEFINE N == Len(from.cells)
           root == from.anchor.root
           Good(k) == /\ Linked(by[k])
                      /\ \A b \in Cells : b \notin Range(cells) => by[k].draft[b] = d[b]
           T == {k \in 0..N : Good(k)}
<1>4. /\ by[0] = [draft |-> d, next |-> from.anchor.parent, cost |-> from.anchor.cost]
      /\ \A k \in 1..N : by[k] = CoolCell(by[k-1], from.cells[k], root)
      /\ \A k \in 0..N : SoFar(by[k], root)
      /\ CoolCells(d, from) = by[N].draft
      BY <1>3 DEF Cooling
<1>5. N \in Nat /\ \A k \in 1..N : from.cells[k] \in Cells
      BY <1>1
<1> HIDE DEF N, root
<1>6. 0 \in T
  <2>1. by[0].draft = d /\ by[0].next = from.anchor.parent /\ by[0].cost = from.anchor.cost
        BY <1>4
  <2>2. Linked(by[0])
        BY <1>2, <2>1 DEF Linked
  <2> QED BY <1>5, <2>1, <2>2
<1>7. ASSUME NEW k \in 1..N, k - 1 \in T PROVE k \in T
  <2>1. Good(k - 1) /\ SoFar(by[k - 1], root) /\ by[k] = CoolCell(by[k - 1], from.cells[k], root)
        BY <1>4, <1>7
  <2>2. from.cells[k] \in Cells /\ from.cells[k] \in Range(cells)
        BY <1>2, <1>5 DEF N
  <2>3. /\ Linked(by[k])
        /\ \A b \in Cells : b # from.cells[k] => by[k].draft[b] = by[k - 1].draft[b]
        BY <2>1, <2>2, CoolCellLinks
  <2> QED BY <1>5, <2>1, <2>2, <2>3
<1>8. 0..N \subseteq T
  <2> HIDE DEF T
  <2> QED BY <1>5, <1>6, <1>7, UpTo
<1>9. Good(N)
      BY <1>5, <1>8
<1> QED BY <1>4, <1>9 DEF Linked

LEMMA InitRelaxed == Init => RInv
<1> SUFFICES ASSUME Init PROVE RInv
    OBVIOUS
<1>1. IInv /\ ForestServes(forest)
      BY InitInvariant, ForestOfServes DEF Init
<1>2. \A c \in Cells : entries[c] = NoEntry
      BY DEF Init
<1>3. Entered(forest, entries)
      BY <1>2 DEF Entered
<1>4. Relaxed(forest, entries, Range(queue) \union dropped)
  <2> SUFFICES ASSUME NEW c \in Cells, NEW n \in Near(c)
               PROVE  ~(entries[c] # NoEntry \/ entries[n] # NoEntry)
      BY DEF Relaxed
  <2> QED BY <1>2, NearIsMutual
<1>5. Quiet
      BY DEF Init, Quiet
<1> QED BY <1>1, <1>3, <1>4, <1>5 DEF RInv

\* The cells of a course, and all next to one, are queued.
LEMMA AroundHolds ==
    ASSUME NEW cells \in Seq(Cells)
    PROVE  /\ PushEach(Around(cells)) \in Seq(Cells)
           /\ cells = <<>> => PushEach(Around(cells)) = <<>>
<1> DEFINE groups == Around(cells)
<1>1. Len(groups) = Len(cells) /\ \A k \in 1..Len(cells) : groups[k] = MooreNeighbors(cells[k])
      BY DEF Around
<1>2. \A k \in 1..Len(cells) : Len(groups[k]) \in Nat
  <2>1. \A k \in 1..Len(cells) : MooreNeighbors(cells[k]) \in Seq(Plane)
        BY MooreNeighborsAre
  <2> QED BY <1>1, <2>1
<1> HIDE DEF groups
<1>3. Len(cells) \in Nat /\ (cells = <<>> => Len(cells) = 0)
      OBVIOUS
<1>4. PushEach(groups) \in Seq(Cells) /\ (Len(groups) = 0 => PushEach(groups) = <<>>)
      BY <1>1, <1>2, <1>3, PushEachHolds
<1> QED BY <1>1, <1>3, <1>4 DEF groups

LEMMA WithAroundHolds ==
    ASSUME NEW cells \in Seq(Cells)
    PROVE  /\ PushEach(WithAround(cells)) \in Seq(Cells)
           /\ \A c \in Range(cells) : Near(c) \subseteq Range(PushEach(WithAround(cells)))
<1> DEFINE groups == WithAround(cells)
<1>1. /\ Len(groups) = Len(cells)
      /\ \A k \in 1..Len(cells) : groups[k] = <<cells[k]>> \o MooreNeighbors(cells[k])
      BY DEF WithAround
<1>2. ASSUME NEW k \in 1..Len(cells)
      PROVE  /\ Len(groups[k]) \in Nat
             /\ \A n \in Near(cells[k]) : \E j \in 1..Len(groups[k]) : groups[k][j] = n
  <2>1. PICK c, moore : c = cells[k] /\ moore = MooreNeighbors(cells[k])
        OBVIOUS
  <2>2. c \in Cells /\ moore \in Seq(Plane) /\ Near(c) \subseteq Range(moore)
        BY <2>1, MooreNeighborsAre
  <2>3. c \in Plane
        BY <2>2, TopologyAssumption DEF Plane, Cells
  <2>4. /\ <<c>> \o moore \in Seq(Plane)
        /\ Len(<<c>> \o moore) = Len(moore) + 1
        /\ \A j \in 1..Len(moore) : (<<c>> \o moore)[j + 1] = moore[j]
        BY <2>2, <2>3
  <2>5. groups[k] = <<c>> \o moore
        BY <1>1, <2>1
  <2>6. ASSUME NEW n \in Near(c) PROVE \E j \in 1..Len(groups[k]) : groups[k][j] = n
    <3>1. PICK j \in 1..Len(moore) : moore[j] = n
          BY <2>2 DEF Range
    <3>2. j + 1 \in 1..Len(groups[k])
          BY <2>2, <2>4, <2>5
    <3>3. groups[k][j + 1] = n
          BY <2>4, <2>5, <3>1
    <3> QED BY <3>2, <3>3
  <2>7. Len(groups[k]) \in Nat
        BY <2>2, <2>4, <2>5
  <2> QED BY <2>1, <2>6, <2>7
<1> HIDE DEF groups
<1>3. Len(cells) \in Nat
      OBVIOUS
<1>4. /\ PushEach(groups) \in Seq(Cells)
      /\ \A k \in 1..Len(groups) : \A j \in 1..Len(groups[k]) :
            groups[k][j] \in Cells => groups[k][j] \in Range(PushEach(groups))
      BY <1>1, <1>2, <1>3, PushEachHolds
<1>5. ASSUME NEW c \in Range(cells), NEW n \in Near(c) PROVE n \in Range(PushEach(groups))
  <2>1. PICK k \in 1..Len(cells) : cells[k] = c
        BY DEF Range
  <2>2. PICK j \in 1..Len(groups[k]) : groups[k][j] = n
        BY <1>2, <2>1
  <2>3. n \in Cells
        BY <2>1, NearIsMutual
  <2> QED BY <1>1, <1>4, <2>2, <2>3
<1> QED BY <1>4, <1>5 DEF groups

LEMMA BlockWayRelaxed ==
    ASSUME RInv, NEW ch \in Readable, BlockWay(ch) PROVE RInv'
<1>1. IInv'
      BY BlockWayStep DEF RInv
<1>2. PICK current : current = CurrentWayCells(ch.way)
      OBVIOUS
<1>3. current \in Seq(Cells)
      BY <1>2, CurrentIsCourse DEF RInv, IInv, Readable
<1>4. /\ forest' = forest /\ queue' = PushEach(Around(current))
      /\ entries' = BlockCells(entries, current)
      /\ phase' = (IF current = <<>> THEN "reroute" ELSE "shadow")
      /\ blockedAny' = (blockedAny \/ current # <<>>)
      /\ dropped' = dropped /\ phase = "idle"
      BY <1>2 DEF BlockWay
<1>5. Quiet'
      BY <1>3, <1>4, AroundHolds DEF Quiet
<1>6. ASSUME ~blockedAny' PROVE ~blockedAny /\ entries' = entries /\ queue' = <<>> /\ queue = <<>>
  <2>1. current = <<>> /\ ~blockedAny
        BY <1>4, <1>6
  <2>2. \A c \in Cells : c \notin Range(current)
        BY <2>1 DEF Range
  <2>3. BlockCells(entries, current) = [c \in Cells |-> entries[c]]
        BY <2>2 DEF BlockCells
  <2>4. entries = [c \in Cells |-> entries[c]]
        BY DEF RInv, IInv, AllStand
  <2>5. queue' = <<>>
        BY <1>3, <1>4, <2>1, AroundHolds
  <2>6. queue = <<>>
        BY <1>4 DEF RInv, Quiet
  <2> QED BY <1>4, <2>1, <2>3, <2>4, <2>5, <2>6
<1>7. ~blockedAny' => Entered(forest', entries')
      BY <1>4, <1>6 DEF RInv
<1>8. ~blockedAny' => Relaxed(forest', entries', Range(queue') \union dropped')
      BY <1>4, <1>6 DEF RInv
<1>9. ForestServes(forest')
      BY <1>4 DEF RInv
<1> QED BY <1>1, <1>5, <1>7, <1>8, <1>9 DEF RInv

LEMMA PropagateCellRelaxed ==
    ASSUME RInv, PropagateCell PROVE RInv'
<1>1. IInv'
      BY PropagateCellStep DEF RInv
<1>2. PICK c : c = Head(queue)
      OBVIOUS
<1>3. /\ phase \in {"shadow", "cool"} /\ queue # <<>>
      /\ entries' = Propagated(entries, c, phase = "shadow")
      /\ queue' = (IF entries' = entries THEN Tail(queue) ELSE Push(Tail(queue), MooreNeighbors(c)))
      /\ dropped' = dropped \ {c}
      /\ UNCHANGED <<network, forest, phase, blockedAny>>
      BY <1>2 DEF PropagateCell
<1>4. /\ c \in Cells /\ Tail(queue) \in Seq(Cells)
      /\ \A b \in Range(queue) : b = c \/ b \in Range(Tail(queue))
      BY <1>2, <1>3, Popped DEF RInv, Quiet
<1>5. MooreNeighbors(c) \in Seq(Plane) /\ Near(c) \subseteq Range(MooreNeighbors(c))
      BY <1>4, MooreNeighborsAre
<1>6. Holds(Push(Tail(queue), MooreNeighbors(c)), Tail(queue), MooreNeighbors(c))
  <2>1. Len(MooreNeighbors(c)) \in Nat
        BY <1>5
  <2> QED BY <1>4, <2>1, PushHolds
<1>7. /\ queue' \in Seq(Cells) /\ Range(Tail(queue)) \subseteq Range(queue')
      /\ entries' # entries => Near(c) \subseteq Range(queue')
  <2>1. CASE entries' = entries
        BY <1>3, <1>4, <2>1
  <2>2. CASE entries' # entries
    <3>1. queue' = Push(Tail(queue), MooreNeighbors(c))
          BY <1>3, <2>2
    <3>2. Near(c) \subseteq Cells
          BY DEF Near
    <3>3. \A n \in Near(c) : \E k \in 1..Len(MooreNeighbors(c)) : MooreNeighbors(c)[k] = n
          BY <1>5 DEF Range
    <3> QED BY <1>6, <3>1, <3>2, <3>3 DEF Holds
  <2> QED BY <2>1, <2>2
<1>8. Quiet'
      BY <1>3, <1>7 DEF Quiet, RInv
<1>9. CASE blockedAny
      BY <1>1, <1>3, <1>8, <1>9 DEF RInv
<1>10. CASE ~blockedAny
  <2>1. phase = "cool" /\ entries' = Propagated(entries, c, FALSE)
        BY <1>3, <1>10 DEF RInv, Quiet
  <2>2. /\ network \in Networks /\ AllStand(network, forest) /\ ForestServes(forest)
        /\ AllStand(network, entries) /\ Entered(forest, entries)
        BY <1>10 DEF RInv, IInv
  <2>3. \/ /\ entries' = entries
           /\ \A n \in Near(c) :
                 (entries[c] # NoEntry \/ entries[n] # NoEntry) /\ Serves(At(forest, entries, n))
                    => Nearest(forest, entries, c, n)
        \/ /\ entries' # entries /\ Eased(forest, entries, entries', c) /\ Entered(forest, entries')
        BY <1>4, <2>1, <2>2, PropagatedEases
  <2>4. Entered(forest, entries')
        BY <2>2, <2>3
  <2>5. Relaxed(forest, entries', Range(queue') \union dropped')
    <3> SUFFICES ASSUME NEW b \in Cells, NEW n \in Near(b),
                        entries'[b] # NoEntry \/ entries'[n] # NoEntry,
                        Serves(At(forest, entries', n)),
                        b \notin Range(queue') \union dropped'
                 PROVE  Nearest(forest, entries', b, n)
        BY DEF Relaxed
    <3>1. Relaxed(forest, entries, Range(queue) \union dropped)
          BY <1>10 DEF RInv
    <3>2. CASE entries' = entries
      <4>1. CASE b = c
            BY <2>3, <3>2, <4>1
      <4>2. CASE b # c
        <5>1. b \notin Range(queue) \union dropped
              BY <1>3, <1>4, <1>7, <4>2
        <5> QED BY <3>1, <3>2, <5>1 DEF Relaxed
      <4> QED BY <4>1, <4>2
    <3>3. CASE entries' # entries
      <4>1. b \notin Near(c) /\ Eased(forest, entries, entries', c)
            BY <1>7, <2>3, <3>3
      <4>2. b # c /\ n # c /\ n \in Cells
            BY <1>4, <4>1, NearIsMutual
      <4>3. entries'[b] = entries[b] /\ entries'[n] = entries[n]
            BY <4>1, <4>2 DEF Eased
      <4>4. b \notin Range(queue) \union dropped
            BY <1>3, <1>4, <1>7, <4>2
      <4>5. At(forest, entries', b) = At(forest, entries, b)
            /\ At(forest, entries', n) = At(forest, entries, n)
            BY <4>3 DEF At
      <4>6. Nearest(forest, entries, b, n)
            BY <3>1, <4>3, <4>4, <4>5 DEF Relaxed
      <4> QED BY <4>5, <4>6 DEF Nearest
    <3> QED BY <3>2, <3>3
  <2>6. ForestServes(forest') /\ Entered(forest', entries')
        BY <1>3, <2>2, <2>4
  <2>7. Relaxed(forest', entries', Range(queue') \union dropped')
        BY <1>3, <2>5
  <2> QED BY <1>1, <1>8, <2>6, <2>7 DEF RInv
<1> QED BY <1>9, <1>10

LEMMA PropagationEndsRelaxed ==
    ASSUME RInv, PropagationEnds PROVE RInv'
<1>1. IInv'
      BY PropagationEndsStep DEF RInv
<1>2. /\ UNCHANGED <<forest, entries, blockedAny>>
      /\ queue' = <<>> /\ dropped' = dropped \union Range(queue)
      /\ phase' \in {"reroute", "idle"}
      BY DEF PropagationEnds
<1>3. Quiet'
      BY <1>2 DEF Quiet
<1>4. Range(queue') \union dropped' = Range(queue) \union dropped
      BY <1>2 DEF Range
<1>5. ~blockedAny' => Entered(forest', entries')
      BY <1>2 DEF RInv
<1>6. ~blockedAny' => Relaxed(forest', entries', Range(queue') \union dropped')
      BY <1>2, <1>4 DEF RInv
<1>7. ForestServes(forest')
      BY <1>2 DEF RInv
<1> QED BY <1>1, <1>3, <1>5, <1>6, <1>7 DEF RInv

LEMMA RerouteRelaxed ==
    ASSUME RInv, Reroute PROVE RInv'
<1> DEFINE anchor == IF change.cells = <<>> THEN NoEntry ELSE WayAnchor(entries, change.cells)
<1>1. IInv'
      BY RerouteStep DEF RInv
<1>2. /\ phase = "reroute" /\ queue = <<>> /\ change.cells \in Seq(Cells)
      /\ UNCHANGED <<forest, blockedAny, dropped>>
      BY DEF Reroute, RInv, IInv, Quiet, ChangeIsCourse
<1>3. CASE anchor = NoEntry
  <2>1. phase' = "idle" /\ UNCHANGED <<entries, queue>>
        BY <1>3 DEF Reroute
  <2>2. Quiet'
        BY <1>2, <2>1 DEF RInv, Quiet
  <2> QED BY <1>1, <1>2, <2>1, <2>2 DEF RInv
<1>4. CASE anchor # NoEntry
  <2>1. PICK cells, from : cells = change.cells /\ from = WayAnchor(entries, cells)
        OBVIOUS
  <2>2. /\ cells # <<>> /\ from # NoEntry /\ phase' = "cool"
        /\ entries' = CoolCells(entries, from) /\ queue' = PushEach(WithAround(cells))
        BY <1>4, <2>1 DEF Reroute
  <2>3. cells \in Seq(Cells)
        BY <1>2, <2>1
  <2>4. /\ queue' \in Seq(Cells)
        /\ \A c \in Range(cells) : Near(c) \subseteq Range(queue')
        BY <2>2, <2>3, WithAroundHolds
  <2>5. Quiet'
        BY <2>2, <2>4 DEF Quiet
  <2>6. ASSUME ~blockedAny
        PROVE  /\ Entered(forest, entries')
               /\ \A b \in Cells : b \notin Range(cells) => entries'[b] = entries[b]
    <3>1. /\ network \in Networks /\ AllStand(network, forest) /\ ForestServes(forest)
          /\ AllStand(network, entries) /\ Entered(forest, entries)
          BY <2>6 DEF RInv, IInv
    <3> QED BY <2>1, <2>2, <2>3, <3>1, CooledServes
  <2>7. ASSUME ~blockedAny PROVE Relaxed(forest, entries', Range(queue') \union dropped)
    <3> SUFFICES ASSUME NEW b \in Cells, NEW n \in Near(b),
                        entries'[b] # NoEntry \/ entries'[n] # NoEntry,
                        Serves(At(forest, entries', n)),
                        b \notin Range(queue') \union dropped
                 PROVE  Nearest(forest, entries', b, n)
        BY DEF Relaxed
    <3>1. n \in Cells /\ b \in Near(n) /\ b \in Near(b)
          BY NearIsMutual
    <3>2. b \notin Range(cells) /\ n \notin Range(cells)
          BY <2>4, <3>1
    <3>3. entries'[b] = entries[b] /\ entries'[n] = entries[n]
          BY <2>6, <2>7, <3>1, <3>2
    <3>4. At(forest, entries', b) = At(forest, entries, b)
          /\ At(forest, entries', n) = At(forest, entries, n)
          BY <3>3 DEF At
    <3>5. /\ Relaxed(forest, entries, Range(queue) \union dropped)
          /\ b \notin Range(queue) \union dropped
          BY <1>2, <2>7 DEF RInv, Range
    <3>6. Nearest(forest, entries, b, n)
          BY <3>3, <3>4, <3>5 DEF Relaxed
    <3> QED BY <3>4, <3>6 DEF Nearest
  <2>8. ~blockedAny' => Entered(forest', entries')
        BY <1>2, <2>6
  <2>9. ~blockedAny' => Relaxed(forest', entries', Range(queue') \union dropped')
        BY <1>2, <2>7
  <2>10. ForestServes(forest')
        BY <1>2 DEF RInv
  <2> QED BY <1>1, <2>5, <2>8, <2>9, <2>10 DEF RInv
<1> QED BY <1>3, <1>4

LEMMA StepRelaxed == RInv /\ [Next]_vars => RInv'
<1> SUFFICES ASSUME RInv, [Next]_vars PROVE RInv'
    OBVIOUS
<1>1. ASSUME NEW ch \in Readable, BlockWay(ch) PROVE RInv'
      BY <1>1, BlockWayRelaxed
<1>2. CASE PropagateCell
      BY <1>2, PropagateCellRelaxed
<1>3. CASE PropagationEnds
      BY <1>3, PropagationEndsRelaxed
<1>4. CASE Reroute
      BY <1>4, RerouteRelaxed
<1>5. CASE UNCHANGED vars
  <2>1. IInv'
        BY <1>5, StepInvariant DEF RInv
  <2>2. UNCHANGED <<forest, entries, queue, phase, blockedAny, dropped>>
        BY <1>5 DEF vars
  <2>3. Quiet'
        BY <2>2 DEF RInv, Quiet
  <2> QED BY <2>1, <2>2, <2>3 DEF RInv
<1> QED BY <1>1, <1>2, <1>3, <1>4, <1>5 DEF Next

\* While ways are only added, what an entry promises its parent keeps, and a cell
\* that could be nearer by way of a neighbour waits in the queue, or waited there
\* when a propagation was cut off.
THEOREM OverlayIsRelaxed == Spec => []AddedWaysRelaxed
<1>1. RInv => AddedWaysRelaxed
  <2> SUFFICES ASSUME RInv, ~blockedAny PROVE AddedWaysRelaxed
      BY DEF AddedWaysRelaxed
  <2>1. Entered(forest, entries) /\ Relaxed(forest, entries, Range(queue) \union dropped)
        BY DEF RInv
  <2>2. ASSUME NEW c \in Cells, entries[c] # NoEntry PROVE ParentKeeps(c)
    <3>1. Kept(forest, entries, c)
          BY <2>1, <2>2 DEF Entered
    <3> QED BY <3>1, SameState DEF Kept, ParentKeeps
  <2>3. ASSUME NEW c \in Cells \ (Range(queue) \union dropped), NEW n \in Near(c),
               entries[c] # NoEntry \/ entries[n] # NoEntry, Usable(entries, n)
        PROVE  NoNearerBy(c, n)
    <3>1. Nearest(forest, entries, c, n)
          BY <2>1, <2>3, SameState DEF Relaxed
    <3> QED BY <3>1, SameState DEF Nearest, NoNearerBy
  <2> QED BY <2>2, <2>3 DEF AddedWaysRelaxed
<1> QED BY <1>1, InitRelaxed, StepRelaxed, PTL DEF Spec
=============================================================================

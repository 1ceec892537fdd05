------------------------ MODULE ProfileBucket_proofs ------------------------
(***************************************************************************)
(* Proofs about ProfileBucket, for every set of points and trips.  The     *)
(* inductive invariant is that of the names: a bucket is a frontier (Apart),*)
(* it covers what was offered (NothingLost), and its summary bounds its    *)
(* points from below (Bounding).  A compaction may drop the point that     *)
(* covered an offered one; that the new point then covers both rests on    *)
(* Covers being transitive and on the bucket having been a frontier.       *)
(***************************************************************************)
EXTENDS ProfileBucket, WellFoundedInduction, FiniteSetTheorems, TLAPS

\* No two points of a bucket share a profile or cover one another.
FrontierSet(B) == \A p, o \in B : Covers(o, p) => o = p
Apart == \A k \in Keys : FrontierSet(bucket[k])

\* The summary is a lower bound of the durations and legs of its bucket.
Bounding ==
    \A k \in Keys : \A p \in bucket[k] :
        summary[k].duration <= Duration(p) /\ summary[k].legs <= p.legs

IInv == TypeOK /\ Apart /\ NothingLost /\ Bounding

\* Covering is reflexive and transitive; mutual covering is one profile.
LEMMA CoversOrder ==
    ASSUME NEW p \in Points, NEW o \in Points, NEW q \in Points
    PROVE  /\ Covers(p, p)
           /\ Covers(o, p) /\ Covers(q, o) => Covers(q, p)
           /\ SameProfile(o, p) <=> Covers(o, p) /\ Covers(p, o)
           /\ SameProfile(o, p) <=> SameProfile(p, o)
  BY PointsAssumption, SMT DEF Covers, SameProfile

\* The bucket after a merge is a frontier of known points.
LEMMA MergedFrontier ==
    ASSUME NEW B \in SUBSET Points, NEW p \in Points, FrontierSet(B)
    PROVE  Merged(B, p) \in SUBSET Points /\ FrontierSet(Merged(B, p))
<1> DEFINE same == {e \in B : SameProfile(e, p)}
<1>1. CASE same = {}
  <2>1. Merged(B, p) = Compact(B \union {p})
    BY <1>1 DEF Merged
  <2>2. ASSUME NEW x \in Compact(B \union {p}), NEW y \in Compact(B \union {p}), Covers(y, x)
        PROVE  y = x
    <3>1. SameProfile(y, x)
      BY <2>2 DEF Compact
    <3>2. x \in B /\ y \in B => y = x
      BY <2>2 DEF FrontierSet
    <3>3. x \in B /\ y = p => x \in same
      BY <3>1, CoversOrder
    <3>4. x = p /\ y \in B => y \in same
      BY <3>1
    <3> QED  BY <1>1, <3>2, <3>3, <3>4 DEF Compact
  <2> QED  BY <2>1, <2>2 DEF FrontierSet, Compact
<1>2. CASE same # {} /\ \E e \in same : p.size < e.size
  <2>1. Merged(B, p) = (B \ same) \union {p}
    BY <1>2 DEF Merged
  <2>2. PICK e \in same : TRUE
    BY <1>2
  <2>3. ASSUME NEW x \in B \ same
        PROVE  ~Covers(p, x) /\ ~Covers(x, p)
    <3>1. Covers(p, e) /\ Covers(e, p)
      BY <2>2, CoversOrder
    <3>2. Covers(p, x) => Covers(e, x)
      BY <2>2, <3>1, CoversOrder
    <3>3. Covers(x, p) => Covers(x, e)
      BY <2>2, <3>1, CoversOrder
    <3> QED  BY <2>2, <3>2, <3>3 DEF FrontierSet
  <2> QED  BY <2>1, <2>3 DEF FrontierSet
<1>3. CASE same # {} /\ ~\E e \in same : p.size < e.size
  BY <1>3 DEF Merged
<1> QED  BY <1>1, <1>2, <1>3

\* A merge covers the new point and all that the bucket held.
LEMMA MergedCovers ==
    ASSUME NEW B \in SUBSET Points, NEW p \in Points, FrontierSet(B), NEW x \in B \union {p}
    PROVE  \E o \in Merged(B, p) : Covers(o, x)
<1> DEFINE same == {e \in B : SameProfile(e, p)}
<1>1. CASE same = {}
  <2>1. Merged(B, p) = Compact(B \union {p})
    BY <1>1 DEF Merged
  <2>2. CASE x \in Compact(B \union {p})
    BY <2>1, <2>2, CoversOrder
  <2>3. CASE x \notin Compact(B \union {p})
    <3>1. PICK o \in B \union {p} : Covers(o, x) /\ ~SameProfile(o, x)
      BY <2>3 DEF Compact
    <3>2. o \in Compact(B \union {p})
      <4>1. SUFFICES ASSUME NEW q \in B \union {p}, Covers(q, o) PROVE SameProfile(q, o)
        BY DEF Compact
      <4>2. CASE x \in B /\ o \in B
        BY <3>1, <4>2, CoversOrder DEF FrontierSet
      <4>3. CASE x \in B /\ o = p
        <5>1. Covers(q, x)
          BY <3>1, <4>1, CoversOrder
        <5>2. q \in B => q = x
          BY <4>3, <5>1 DEF FrontierSet
        <5>3. q = x => SameProfile(o, x)
          BY <3>1, <4>1, CoversOrder
        <5> QED  BY <3>1, <4>3, <5>2, <5>3, CoversOrder
      <4>4. CASE x = p /\ o \in B
        <5>1. q \in B => q = o
          BY <4>1, <4>4 DEF FrontierSet
        <5>2. q = p => SameProfile(o, x)
          BY <3>1, <4>1, <4>4, CoversOrder
        <5> QED  BY <3>1, <5>1, <5>2, CoversOrder
      <4>5. CASE x = p /\ o = p
        BY <3>1, <4>5, CoversOrder
      <4> QED  BY <4>2, <4>3, <4>4, <4>5
    <3> QED  BY <2>1, <3>1, <3>2
  <2> QED  BY <2>2, <2>3
<1>2. CASE same # {} /\ \E e \in same : p.size < e.size
  <2>1. Merged(B, p) = (B \ same) \union {p}
    BY <1>2 DEF Merged
  <2>2. x \in same => Covers(p, x)
    BY CoversOrder
  <2> QED  BY <2>1, <2>2, CoversOrder
<1>3. CASE same # {} /\ ~\E e \in same : p.size < e.size
  <2>1. Merged(B, p) = B
    BY <1>3 DEF Merged
  <2>2. PICK e \in same : TRUE
    BY <1>3
  <2>3. x = p => Covers(e, x)
    BY <2>2, CoversOrder
  <2> QED  BY <2>1, <2>2, <2>3, CoversOrder
<1> QED  BY <1>1, <1>2, <1>3

\* A set of integers bounded from below has a least element.
LEMMA LeastExists ==
    ASSUME NEW S \in SUBSET Int, NEW x0 \in S, NEW b \in Nat, \A x \in S : x + b \in Nat
    PROVE  MinOf(S) \in S /\ \A y \in S : MinOf(S) <= y
<1> DEFINE T == {x + b : x \in S}
<1>1. T \subseteq Nat /\ x0 + b \in T
  OBVIOUS
<1>2. PICK m \in T : \A y \in T : <<y, m>> \notin OpToRel(<, Nat)
  <2> HIDE DEF T
  <2> QED  BY <1>1, NatLessThanWellFounded, WFMin
<1>3. PICK x \in S : m = x + b
  OBVIOUS
<1>4. \A y \in S : x <= y
  <2>1. SUFFICES ASSUME NEW y \in S, y < x PROVE FALSE
    OBVIOUS
  <2>2. y + b \in T /\ y + b \in Nat /\ m \in Nat /\ y + b < m
    BY <1>3, <2>1
  <2> QED  BY <1>2, <2>2 DEF OpToRel
<1> QED  BY <1>3, <1>4 DEF MinOf

\* The summary of a bucket is a pair of integers that bounds its points.
LEMMA SummaryBounds ==
    ASSUME NEW B \in SUBSET Points, B # {}
    PROVE  /\ Summarize(B) \in [duration : Int, legs : Int]
           /\ \A p \in B : Summarize(B).duration <= Duration(p) /\ Summarize(B).legs <= p.legs
<1> DEFINE D == {Duration(p) : p \in B}
           L == {p.legs : p \in B}
<1>0. PICK p0 \in B : TRUE
  OBVIOUS
<1>1. D \in SUBSET Int /\ Duration(p0) \in D /\ (\A x \in D : x + LastReady \in Nat) /\ LastReady \in Nat
  BY PointsAssumption DEF Duration
<1>2. L \in SUBSET Int /\ p0.legs \in L /\ (\A x \in L : x + 0 \in Nat)
  BY PointsAssumption
<1>3. \A p \in B : Duration(p) \in D /\ p.legs \in L
  OBVIOUS
<1>4. Summarize(B) = [duration |-> MinOf(D), legs |-> MinOf(L)]
  BY DEF Summarize
<1> HIDE DEF D, L
<1>5. MinOf(D) \in D /\ \A y \in D : MinOf(D) <= y
  BY <1>1, LeastExists
<1>6. MinOf(L) \in L /\ \A y \in L : MinOf(L) <= y
  BY <1>2, LeastExists
<1>7. MinOf(D) \in Int /\ MinOf(L) \in Int
  BY <1>1, <1>2, <1>5, <1>6
<1>8. Summarize(B) \in [duration : Int, legs : Int]
  BY <1>4, <1>7
<1>9. \A p \in B : MinOf(D) <= Duration(p) /\ MinOf(L) <= p.legs
  BY <1>3, <1>5, <1>6
<1> QED  BY <1>4, <1>8, <1>9

LEMMA InitIInv == Init => IInv
  BY PointsAssumption DEF Init, IInv, TypeOK, Apart, FrontierSet, NothingLost, Bounding, NoSummary

LEMMA MergeIInv ==
    ASSUME IInv, NEW k \in Keys, NEW p \in Points, Merge(k, p)
    PROVE  IInv'
<1> DEFINE M == Merged(bucket[k], p)
<1>1. bucket[k] \in SUBSET Points /\ FrontierSet(bucket[k])
  BY DEF IInv, TypeOK, Apart
<1>2. M \in SUBSET Points /\ FrontierSet(M)
  BY <1>1, MergedFrontier
<1>3. \A x \in bucket[k] \union {p} : \E o \in M : Covers(o, x)
  BY <1>1, MergedCovers
<1>4. /\ Summarize(M) \in [duration : Int, legs : Int]
      /\ \A o \in M : Summarize(M).duration <= Duration(o) /\ Summarize(M).legs <= o.legs
  BY <1>2, <1>3, SummaryBounds
<1>5. /\ bucket' = [bucket EXCEPT ![k] = M]
      /\ summary' = [summary EXCEPT ![k] = Summarize(M)]
      /\ offered' = [offered EXCEPT ![k] = @ \union {p}]
  BY DEF Merge
<1> HIDE DEF M
<1>6. TypeOK'
  BY <1>2, <1>4, <1>5 DEF IInv, TypeOK
<1>7. Apart'
  BY <1>2, <1>5 DEF IInv, TypeOK, Apart
<1>8. NothingLost'
  <2>1. SUFFICES ASSUME NEW l \in Keys, NEW x \in offered'[l]
                 PROVE  \E o \in bucket'[l] : Covers(o, x)
    BY DEF NothingLost
  <2>2. CASE l # k
    <3>1. bucket'[l] = bucket[l] /\ offered'[l] = offered[l]
      BY <1>5, <2>2 DEF IInv, TypeOK
    <3> QED  BY <2>1, <3>1 DEF IInv, NothingLost
  <2>3. CASE l = k
    <3>1. bucket'[l] = M /\ x \in offered[k] \union {p}
      BY <1>5, <2>1, <2>3 DEF IInv, TypeOK
    <3>2. CASE x = p
      BY <1>3, <3>1, <3>2
    <3>3. CASE x \in offered[k]
      <4>1. PICK e \in bucket[k] : Covers(e, x)
        BY <3>3 DEF IInv, NothingLost
      <4>2. PICK o \in M : Covers(o, e)
        BY <1>3
      <4>3. x \in Points /\ e \in Points /\ o \in Points
        BY <1>1, <1>2, <3>3 DEF IInv, TypeOK
      <4> QED  BY <3>1, <4>1, <4>2, <4>3, CoversOrder
    <3> QED  BY <3>1, <3>2, <3>3
  <2> QED  BY <2>2, <2>3
<1>9. Bounding'
  BY <1>4, <1>5 DEF IInv, TypeOK, Bounding, Duration
<1> QED  BY <1>6, <1>7, <1>8, <1>9 DEF IInv

LEMMA InvalidateIInv ==
    ASSUME IInv, NEW changed \in SUBSET Trips, NEW falsePositives \in SUBSET Points,
           Invalidate(changed, falsePositives)
    PROVE  IInv'
<1>1. \A l \in Keys : bucket'[l] \in SUBSET bucket[l] /\ bucket'[l] \in SUBSET Points
  BY DEF Invalidate, IInv, TypeOK
<1>2. bucket' \in [Keys -> SUBSET Points]
  <2>1. bucket' = [l \in Keys |-> {p \in bucket[l] \ falsePositives : p.trips \intersect changed = {}}]
    BY DEF Invalidate
  <2> QED  BY <2>1 DEF IInv, TypeOK
<1>3. \A l \in Keys : /\ summary'[l] \in [duration : Int, legs : Int]
                      /\ \A p \in bucket'[l] : /\ summary'[l].duration <= Duration(p)
                                               /\ summary'[l].legs <= p.legs
  <2>1. SUFFICES ASSUME NEW l \in Keys
                 PROVE  /\ summary'[l] \in [duration : Int, legs : Int]
                        /\ \A p \in bucket'[l] : /\ summary'[l].duration <= Duration(p)
                                                 /\ summary'[l].legs <= p.legs
    OBVIOUS
  <2>2. summary'[l] = IF bucket'[l] = {} THEN NoSummary ELSE Summarize(bucket'[l])
    BY DEF Invalidate
  <2>3. CASE bucket'[l] = {}
    BY <2>2, <2>3, PointsAssumption DEF NoSummary
  <2>4. CASE bucket'[l] # {}
    BY <1>1, <2>2, <2>4, SummaryBounds
  <2> QED  BY <2>3, <2>4
<1>4. TypeOK'
  <2>1. summary' = [l \in Keys |-> summary'[l]]
    BY DEF Invalidate
  <2>2. offered' = bucket'
    BY DEF Invalidate
  <2> QED  BY <1>2, <1>3, <2>1, <2>2 DEF TypeOK
<1>5. Apart'
  BY <1>1 DEF IInv, Apart, FrontierSet
<1>6. NothingLost'
  <2>1. offered' = bucket'
    BY DEF Invalidate
  <2> QED  BY <1>1, <2>1, CoversOrder DEF NothingLost
<1>7. Bounding'
  BY <1>3 DEF Bounding, Duration
<1> QED  BY <1>4, <1>5, <1>6, <1>7 DEF IInv

LEMMA StepIInv == IInv /\ [Next]_vars => IInv'
<1>1. SUFFICES ASSUME IInv, [Next]_vars PROVE IInv'
  OBVIOUS
<1>2. CASE Next
  BY <1>1, <1>2, MergeIInv, InvalidateIInv DEF Next
<1>3. CASE UNCHANGED vars
  BY <1>1, <1>3 DEF vars, IInv, TypeOK, Apart, FrontierSet, NothingLost, Bounding
<1> QED  BY <1>1, <1>2, <1>3

LEMMA Invariant == Spec => []IInv
  BY InitIInv, StepIInv, PTL DEF Spec

\* No sequence of merges, compactions and invalidations loses a way to travel
\* that was offered since the last invalidation (merge_profile_point,
\* compact_bucket).
THEOREM KeepsEverything == Spec => []NothingLost
  BY Invariant, PTL DEF IInv

\* Every bucket is a Pareto frontier (compact_bucket).
THEOREM KeepsFrontier == Spec => []Frontier
<1>1. IInv => Frontier
  BY DEF IInv, Apart, FrontierSet, Frontier
<1> QED  BY <1>1, Invariant, PTL

\* The early exit of lookup_bounded never hides a point that would arrive
\* before the bound of the search.
THEOREM PruneIsSound == Spec => []PruneSound
<1>1. ASSUME IInv PROVE PruneSound
  <2>1. SUFFICES ASSUME NEW k \in Keys, NEW readyAt \in ReadyTimes, NEW left \in LegsLeft,
                        NEW bound \in Bounds, Pruned(summary[k], readyAt, left, bound),
                        NEW p \in Usable(bucket[k], readyAt, left)
                 PROVE  p.arrival >= bound
    BY DEF PruneSound
  <2>2. p \in bucket[k] /\ p \in Points /\ readyAt <= p.ready /\ p.legs <= left
    BY <1>1, <2>1 DEF Usable, IInv, TypeOK
  <2>3. /\ summary[k].duration <= p.arrival - p.ready
        /\ summary[k].legs <= p.legs
        /\ summary[k].duration \in Int
        /\ summary[k].legs \in Int
    BY <1>1, <2>2 DEF IInv, Bounding, TypeOK, Duration
  <2>4. readyAt \in Int /\ left \in Int /\ bound \in Int
    BY LookupsAssumption
  <2>5. p.ready \in Int /\ p.arrival \in Int /\ p.legs \in Int
    BY <2>2, PointsAssumption
  <2> QED  BY <2>1, <2>2, <2>3, <2>4, <2>5 DEF Pruned
<1> QED  BY <1>1, Invariant, PTL

-----------------------------------------------------------------------------
(* Surfaces                                                                *)

\* Of some points one arrives first.
LEMMA EarliestOf ==
    ASSUME NEW S \in SUBSET Points, S # {}
    PROVE  \E x \in S : MinOf({p.arrival : p \in S}) = x.arrival /\ \A p \in S : x.arrival <= p.arrival
<1> DEFINE A == {p.arrival : p \in S}
<1>1. PICK p0 \in S : TRUE
  OBVIOUS
<1>2. A \in SUBSET Int /\ p0.arrival \in A /\ \A x \in A : x + 0 \in Nat
  BY PointsAssumption
<1>3. MinOf(A) \in A /\ \A y \in A : MinOf(A) <= y
  <2> HIDE DEF A
  <2> QED  BY <1>2, LeastExists
<1> QED  BY <1>3

\* Cut to its first points, a set keeps one and the earliest of all.
LEMMA TruncationFirst ==
    ASSUME NEW S \in SUBSET Points, NEW T \in Truncations(S)
    PROVE  /\ T \in SUBSET S
           /\ S # {} => T # {}
           /\ \A p \in T, o \in S \ T : p.arrival <= o.arrival
<1>1. /\ T \in SUBSET S /\ \A p \in T, o \in S \ T : ~Before(o, p)
      /\ T = S \/ Cardinality(T) = Width
  BY DEF Truncations
<1>2. T # S => T # {}
  BY <1>1, PointsAssumption, FS_EmptySet
<1>3. ASSUME NEW p \in T, NEW o \in S \ T PROVE p.arrival <= o.arrival
  <2>1. p.arrival \in Nat /\ o.arrival \in Nat /\ ~Before(o, p)
    BY <1>1, PointsAssumption
  <2> QED  BY <2>1 DEF Before
<1> QED  BY <1>1, <1>2, <1>3

\* A surface that has a way on has one that arrives as early as any the cells
\* have (materialize_spatial_query_surface, lookup_spatial_cells).
THEOREM SurfaceIsEarliest == Spec => []SurfaceEarliest
<1>1. ASSUME IInv PROVE SurfaceEarliest
  <2>1. SUFFICES ASSUME NEW readyAt \in ReadyTimes, NEW left \in LegsLeft,
                        NEW found \in SurfaceMatches(Keys, readyAt, left), found # {},
                        NEW T \in CellMatches(Keys, readyAt, left)
                 PROVE  MinOf({p.arrival : p \in found}) = MinOf({p.arrival : p \in T})
    BY DEF SurfaceEarliest
  <2> DEFINE all == Gathered(Keys)
             usable == Usable(all, readyAt, left)
  <2>2. PICK cut \in Truncations(all) : found = Usable(cut, readyAt, left)
    BY DEF SurfaceMatches
  <2>3. all \in SUBSET Points /\ usable \in SUBSET all
    BY <1>1 DEF IInv, TypeOK, Gathered, Usable
  <2>4. T \in Truncations(usable)
    BY DEF CellMatches
  <2> HIDE DEF all
  <2>5. /\ cut \in SUBSET all
        /\ \A p \in cut, o \in all \ cut : p.arrival <= o.arrival
    BY <2>3, TruncationFirst
  <2>6. found \in SUBSET usable /\ usable # {} /\ found \in SUBSET cut /\ usable \intersect cut \in SUBSET found
    BY <2>1, <2>2, <2>5 DEF Usable
  <2>7. /\ T \in SUBSET usable /\ T # {}
        /\ \A p \in T, o \in usable \ T : p.arrival <= o.arrival
    <3> HIDE DEF usable
    <3> QED  BY <2>3, <2>4, <2>6, TruncationFirst
  <2> HIDE DEF usable
  <2>8. PICK x \in found : /\ MinOf({p.arrival : p \in found}) = x.arrival
                            /\ \A p \in found : x.arrival <= p.arrival
    <3>1. found \in SUBSET Points /\ found # {}
      BY <2>1, <2>3, <2>6
    <3> QED  BY <3>1, EarliestOf
  <2>9. PICK y \in T : /\ MinOf({p.arrival : p \in T}) = y.arrival
                        /\ \A p \in T : y.arrival <= p.arrival
    <3>1. T \in SUBSET Points /\ T # {}
      BY <2>3, <2>7
    <3> QED  BY <3>1, EarliestOf
  <2>10. x.arrival \in Nat /\ y.arrival \in Nat
    BY <2>3, <2>6, <2>7, PointsAssumption
  <2>11. x.arrival <= y.arrival
    BY <2>3, <2>5, <2>6, <2>7, <2>8
  <2>12. y.arrival <= x.arrival
    BY <2>3, <2>6, <2>7, <2>9
  <2> QED  BY <2>8, <2>9, <2>10, <2>11, <2>12
<1> QED  BY <1>1, Invariant, PTL
=============================================================================

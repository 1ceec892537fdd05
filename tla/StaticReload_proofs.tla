------------------------ MODULE StaticReload_proofs ------------------------
(***************************************************************************)
(* Proofs about StaticReload, for all versions of the feeds, tolerances,   *)
(* streets and faults: what is loaded says what its archive says, however  *)
(* often it was merged into, no two stops share a global id, names are     *)
(* read from the slots of the tables served, and the transfers of a stop   *)
(* are those a full build would give it.                                   *)
(***************************************************************************)
EXTENDS StaticReload, WellFoundedInduction, FiniteSetTheorems, TLAPS

(***************************************************************************)
(* Sorting, and looking up by id                                           *)
(***************************************************************************)

\* Where id is among ids in their order.
Rank(ids, id) == Cardinality({k \in ids : k < id}) + 1

\* Sorted lists each id once, at its rank.
LEMMA SortedLists ==
    ASSUME NEW S \in SUBSET Nat, IsFiniteSet(S)
    PROVE  /\ Cardinality(S) \in Nat
           /\ Sorted(S) \in [1..Cardinality(S) -> S]
           /\ \A i \in 1..Cardinality(S) : Rank(S, Sorted(S)[i]) = i
           /\ \A id \in S : Rank(S, id) \in 1..Cardinality(S) /\ Sorted(S)[Rank(S, id)] = id
<1> DEFINE n == Cardinality(S)
           low(id) == {k \in S : k < id}
           f == [id \in S |-> Rank(S, id)]
<1>1. n \in Nat
      BY FS_CardinalityType
<1>2. \A id \in S : IsFiniteSet(low(id)) /\ Cardinality(low(id)) \in Nat
  <2> TAKE id \in S
  <2>1. low(id) \in SUBSET S
        OBVIOUS
  <2> QED BY <2>1, FS_Subset, FS_CardinalityType
<1>3. \A id \in S : Rank(S, id) \in 1..n
  <2> TAKE id \in S
  <2>1. low(id) \union {id} \in SUBSET S /\ id \notin low(id)
        OBVIOUS
  <2>2. Cardinality(low(id) \union {id}) = Cardinality(low(id)) + 1
        BY <1>2, <2>1, FS_AddElement
  <2>3. Cardinality(low(id) \union {id}) <= n
        BY <2>1, FS_Subset
  <2> QED BY <1>1, <1>2, <2>2, <2>3 DEF Rank
<1>4. ASSUME NEW a \in S, NEW b \in S, a < b PROVE Rank(S, a) < Rank(S, b)
  <2>4. a \in Nat /\ b \in Nat /\ \A k \in S : k \in Nat
        OBVIOUS
  <2>5. \A k \in S : k < a => k < b
        BY <1>4, <2>4
  <2>6. a \notin low(a)
        BY <2>4
  <2>7. low(a) \union {a} \subseteq low(b)
        BY <1>4, <2>5
  <2>1. low(a) \union {a} \in SUBSET low(b) /\ a \notin low(a)
        BY <2>6, <2>7
  <2>2. Cardinality(low(a) \union {a}) = Cardinality(low(a)) + 1
        BY <1>2, <2>1, FS_AddElement
  <2>3. Cardinality(low(a) \union {a}) <= Cardinality(low(b))
        BY <1>2, <2>1, FS_Subset
  <2> QED BY <1>2, <2>2, <2>3 DEF Rank
<1>5. \A a, b \in S : Rank(S, a) = Rank(S, b) => a = b
  <2> TAKE a, b \in S
  <2>1. a \in Nat /\ b \in Nat
        OBVIOUS
  <2>2. Rank(S, a) \in Nat /\ Rank(S, b) \in Nat
        BY <1>3
  <2>3. CASE a < b
        BY <1>4, <2>2, <2>3
  <2>4. CASE b < a
        BY <1>4, <2>2, <2>4
  <2> QED BY <2>1, <2>3, <2>4
<1>6. f \in Injection(S, 1..n)
      BY <1>3, <1>5 DEF Injection, IsInjective
<1>7. f \in Surjection(S, 1..n)
  <2>1. IsFiniteSet(1..n) /\ Cardinality(1..n) = n
        BY <1>1, FS_Interval
  <2> QED BY <1>6, <2>1, FS_Injection
<1>8. \A i \in 1..n : \E id \in S : Rank(S, id) = i
      BY <1>7 DEF Surjection
<1>9. \A i \in 1..n : Sorted(S)[i] \in S /\ Rank(S, Sorted(S)[i]) = i
  <2> TAKE i \in 1..n
  <2>1. PICK id \in S : Rank(S, id) = i
        BY <1>8
  <2>2. Cardinality(low(id)) = i - 1
        BY <1>1, <1>2, <2>1 DEF Rank
  <2>3. Sorted(S)[i] = CHOOSE k \in S : Cardinality({l \in S : l < k}) = i - 1
        BY DEF Sorted
  <2>4. Sorted(S)[i] \in S /\ Cardinality(low(Sorted(S)[i])) = i - 1
        BY <2>2, <2>3
  <2> QED BY <1>1, <2>4 DEF Rank
<1>10. Sorted(S) \in [1..n -> S]
      BY <1>9 DEF Sorted
<1>11. \A id \in S : Sorted(S)[Rank(S, id)] = id
      BY <1>3, <1>5, <1>9
<1> QED BY <1>1, <1>3, <1>9, <1>10, <1>11

\* A table whose active entries are told apart by their ids.
IsList(s) == s \in Seq(Range(s))
Tidy(table, active) ==
    /\ IsList(table)
    /\ active \in Seq(DOMAIN table)
    /\ \A i, j \in DOMAIN active : table[active[i]].id = table[active[j]].id => i = j

LEMMA Listed ==
    ASSUME NEW s, IsList(s)
    PROVE  Len(s) \in Nat /\ DOMAIN s = 1..Len(s)
BY DEF IsList

LEMMA ListOf ==
    ASSUME NEW n \in Nat, NEW s, DOMAIN s = 1..n, s = [k \in 1..n |-> s[k]]
    PROVE  IsList(s) /\ Len(s) = n
<1>1. s \in [1..n -> Range(s)]
      BY DEF Range
<1>2. s \in Seq(Range(s))
      BY <1>1
<1> QED BY <1>2 DEF IsList

LEMMA SeqsAreLists ==
    ASSUME NEW R, NEW u \in Seq(R)
    PROVE  IsList(u)
<1>1. Len(u) \in Nat /\ u \in [1..Len(u) -> R]
      OBVIOUS
<1> DEFINE n == Len(u)
<1>2. n \in Nat /\ u \in [1..n -> R]
      BY <1>1
<1> HIDE DEF n
<1>3. DOMAIN u = 1..n /\ u = [k \in 1..n |-> u[k]]
      BY <1>2
<1> QED BY <1>2, <1>3, ListOf

\* What joining two lists does.
Joins(s, t) ==
    /\ IsList(s \o t) /\ Len(s \o t) = Len(s) + Len(t)
    /\ \A i \in DOMAIN s : i \in DOMAIN (s \o t) /\ (s \o t)[i] = s[i]
    /\ \A k \in DOMAIN t : Len(s) + k \in DOMAIN (s \o t) /\ (s \o t)[Len(s) + k] = t[k]
    /\ \A i \in DOMAIN (s \o t) : i \in DOMAIN s \/ \E k \in DOMAIN t : i = Len(s) + k

LEMMA Joined ==
    ASSUME NEW s, IsList(s), NEW t, IsList(t)
    PROVE  Joins(s, t)
<1> DEFINE R == Range(s) \union Range(t)
<1>1. s \in Seq(R) /\ t \in Seq(R)
      BY DEF IsList
<1> HIDE DEF R
<1>2. /\ Len(s) \in Nat /\ Len(t) \in Nat
      /\ DOMAIN s = 1..Len(s) /\ DOMAIN t = 1..Len(t)
      BY <1>1
<1>3. s \o t \in Seq(R) /\ Len(s \o t) = Len(s) + Len(t)
      BY <1>1
<1>4. DOMAIN (s \o t) = 1..(Len(s) + Len(t))
      BY <1>2, <1>3
<1>5. \A i \in 1..(Len(s) + Len(t)) : (s \o t)[i] = IF i <= Len(s) THEN s[i] ELSE t[i - Len(s)]
      BY <1>1
<1>6. s \o t \in Seq(Range(s \o t))
  <2>1. IsList(s \o t)
        BY <1>3, SeqsAreLists
  <2> QED BY <2>1 DEF IsList
<1>7. \A i \in DOMAIN s : i \in DOMAIN (s \o t) /\ (s \o t)[i] = s[i]
      BY <1>2, <1>4, <1>5
<1>8. \A k \in DOMAIN t : Len(s) + k \in DOMAIN (s \o t) /\ (s \o t)[Len(s) + k] = t[k]
  <2> TAKE k \in DOMAIN t
  <2>1. Len(s) + k \in 1..(Len(s) + Len(t)) /\ ~(Len(s) + k <= Len(s)) /\ Len(s) + k - Len(s) = k
        BY <1>2
  <2> QED BY <1>4, <1>5, <2>1
<1>9. ASSUME NEW i \in DOMAIN (s \o t), i \notin DOMAIN s PROVE \E k \in DOMAIN t : i = Len(s) + k
  <2>1. i - Len(s) \in 1..Len(t) /\ i = Len(s) + (i - Len(s))
        BY <1>2, <1>4, <1>9
  <2> QED BY <1>2, <2>1
<1> QED BY <1>3, <1>6, <1>7, <1>8, <1>9 DEF Joins, IsList

\* An id of an active entry leads to this one.
LEMMA LooksUp ==
    ASSUME NEW table, NEW active, Tidy(table, active)
    PROVE  /\ \A i \in Range(active) : /\ i \in DOMAIN table /\ table[i].id \in Ids(table, active)
                                       /\ Lookup(table, active, table[i].id) = i
           /\ \A id \in Ids(table, active) : /\ Lookup(table, active, id) \in Range(active)
                                             /\ table[Lookup(table, active, id)].id = id
<1>1. \A i, j \in Range(active) : table[i].id = table[j].id => i = j
      BY DEF Tidy, Range
<1>2. \A i \in Range(active) : i \in DOMAIN table
  <2>1. active \in [DOMAIN active -> DOMAIN table]
        BY DEF Tidy
  <2> QED BY <2>1 DEF Range
<1>3. \A id \in Ids(table, active) : \E i \in Range(active) : table[i].id = id
      BY DEF Ids
<1>4. \A id \in Ids(table, active) : /\ Lookup(table, active, id) \in Range(active)
                                     /\ table[Lookup(table, active, id)].id = id
      BY <1>3 DEF Lookup
<1>5. \A i \in Range(active) : table[i].id \in Ids(table, active)
      BY DEF Ids
<1> QED BY <1>1, <1>2, <1>4, <1>5

\* The places of a table just built that are appended.
New(table, active, nextTable, same) == DOMAIN nextTable \ Kept(table, active, nextTable, same)

LEMMA Adds ==
    ASSUME NEW table, NEW active, NEW nextTable, IsList(nextTable), NEW same
    PROVE  LET new == New(table, active, nextTable, same)
               added == Appended(table, active, nextTable, same).added
           IN  /\ new \in SUBSET Nat /\ IsFiniteSet(new) /\ Cardinality(new) \in Nat
               /\ added = Sorted(new) /\ added \in [1..Cardinality(new) -> new]
<1> DEFINE new == New(table, active, nextTable, same)
<1>1. Len(nextTable) \in Nat /\ DOMAIN nextTable = 1..Len(nextTable)
      BY Listed
<1>2. IsFiniteSet(DOMAIN nextTable)
      BY <1>1, FS_Interval
<1>3. new \in SUBSET DOMAIN nextTable
      BY DEF New
<1>4. new \in SUBSET Nat /\ IsFiniteSet(new)
      BY <1>1, <1>2, <1>3, FS_Subset
<1>5. Appended(table, active, nextTable, same).added = Sorted(new)
      BY DEF Appended, New
<1> HIDE DEF new
<1>6. Cardinality(new) \in Nat /\ Sorted(new) \in [1..Cardinality(new) -> new]
      BY <1>4, SortedLists
<1> QED BY <1>4, <1>5, <1>6 DEF new

\* What appending does: every entry of the table just built has a place, where an
\* entry of its id is, one that was there and is the same or one appended.
WellAppended(table, active, nextTable, same, more) ==
    LET to == Appended(table, active, nextTable, same).to
        added == Appended(table, active, nextTable, same).added
        whole == table \o more
    IN  /\ Tidy(whole, to) /\ DOMAIN to = DOMAIN nextTable
        /\ \A i \in DOMAIN table : i \in DOMAIN whole /\ whole[i] = table[i]
        /\ \A j \in DOMAIN nextTable :
              /\ to[j] \in DOMAIN whole /\ whole[to[j]].id = nextTable[j].id
              /\ \/ /\ j \in Kept(table, active, nextTable, same)
                    /\ to[j] = Lookup(table, active, nextTable[j].id)
                    /\ to[j] \in Range(active) /\ to[j] \in DOMAIN table
                    /\ <<to[j], j>> \in same
                 \/ /\ j \notin Kept(table, active, nextTable, same)
                    /\ \E k \in DOMAIN more : /\ added[k] = j /\ to[j] = Len(table) + k
                                              /\ whole[to[j]] = more[k]
        /\ \A k \in DOMAIN more : /\ added[k] \in DOMAIN nextTable /\ to[added[k]] = Len(table) + k
                                  /\ whole[Len(table) + k] = more[k]
        /\ \A i \in DOMAIN whole : i \in DOMAIN table \/ \E k \in DOMAIN more : i = Len(table) + k

LEMMA Appends ==
    ASSUME NEW table, NEW active, Tidy(table, active),
           NEW nextTable, Tidy(nextTable, Numbers(nextTable)), NEW same,
           NEW more, IsList(more),
           DOMAIN more = DOMAIN Appended(table, active, nextTable, same).added,
           \A k \in DOMAIN more :
               more[k].id = nextTable[Appended(table, active, nextTable, same).added[k]].id
    PROVE  WellAppended(table, active, nextTable, same, more)
<1> DEFINE a == Appended(table, active, nextTable, same)
           to == a.to
           added == a.added
           new == New(table, active, nextTable, same)
           kept == Kept(table, active, nextTable, same)
           whole == table \o more
<1>1. IsList(table) /\ IsList(nextTable)
      BY DEF Tidy
<1>2. Len(table) \in Nat /\ DOMAIN table = 1..Len(table)
      BY <1>1, Listed
<1>3. /\ new \in SUBSET Nat /\ IsFiniteSet(new) /\ Cardinality(new) \in Nat
      /\ added = Sorted(new) /\ added \in [1..Cardinality(new) -> new]
      BY <1>1, Adds
<1>4. /\ DOMAIN more = 1..Cardinality(new)
      /\ \A k \in DOMAIN more : added[k] \in new /\ more[k].id = nextTable[added[k]].id
      BY <1>3
<1>5. /\ \A i \in 1..Cardinality(new) : Rank(new, added[i]) = i
      /\ \A j \in new : Rank(new, j) \in 1..Cardinality(new) /\ added[Rank(new, j)] = j
  <2> HIDE DEF new, added
  <2> QED BY <1>3, SortedLists
<1>6. /\ DOMAIN to = DOMAIN nextTable
      /\ \A j \in kept : to[j] = Lookup(table, active, nextTable[j].id)
      /\ \A j \in new : to[j] = Len(table) + Cardinality({k \in new : k < j}) + 1
      BY DEF Appended, New, Kept
<1>7. \A j \in new : to[j] = Len(table) + Rank(new, j)
  <2> TAKE j \in new
  <2>1. Cardinality({k \in new : k < j}) \in Nat
    <3>1. {k \in new : k < j} \in SUBSET new
          OBVIOUS
    <3> QED BY <1>3, <3>1, FS_Subset, FS_CardinalityType
  <2> DEFINE c == Cardinality({k \in new : k < j})
  <2>2. to[j] = Len(table) + c + 1 /\ Rank(new, j) = c + 1
        BY <1>6 DEF Rank
  <2>3. c \in Nat /\ Len(table) \in Nat
        BY <1>2, <2>1
  <2> HIDE DEF c, to, new
  <2> QED BY <2>2, <2>3
<1>8. /\ IsList(whole)
      /\ \A i \in DOMAIN table : i \in DOMAIN whole /\ whole[i] = table[i]
      /\ \A k \in DOMAIN more : Len(table) + k \in DOMAIN whole /\ whole[Len(table) + k] = more[k]
      /\ \A i \in DOMAIN whole : i \in DOMAIN table \/ \E k \in DOMAIN more : i = Len(table) + k
  <2>1. Joins(table, more)
        BY <1>1, Joined
  <2> QED BY <2>1 DEF Joins
<1>9. ASSUME NEW j \in kept
      PROVE  /\ j \in DOMAIN nextTable
             /\ to[j] \in Range(active) /\ to[j] \in DOMAIN table /\ <<to[j], j>> \in same
             /\ to[j] \in DOMAIN whole /\ whole[to[j]].id = nextTable[j].id
  <2>1. /\ j \in DOMAIN nextTable /\ nextTable[j].id \in Ids(table, active)
        /\ <<Lookup(table, active, nextTable[j].id), j>> \in same
        BY DEF Kept
  <2>2. to[j] = Lookup(table, active, nextTable[j].id)
        BY <1>6
  <2>3. /\ Lookup(table, active, nextTable[j].id) \in Range(active)
        /\ table[Lookup(table, active, nextTable[j].id)].id = nextTable[j].id
        /\ \A i \in Range(active) : i \in DOMAIN table
        BY <2>1, LooksUp
  <2> HIDE DEF to, whole
  <2> QED BY <1>8, <2>1, <2>2, <2>3
<1>10. ASSUME NEW j \in new
       PROVE  /\ j \in DOMAIN nextTable /\ j \notin kept
              /\ to[j] \in DOMAIN whole /\ whole[to[j]].id = nextTable[j].id
              /\ \E k \in DOMAIN more : /\ added[k] = j /\ to[j] = Len(table) + k
                                        /\ whole[to[j]] = more[k]
  <2>1. Rank(new, j) \in DOMAIN more /\ added[Rank(new, j)] = j /\ to[j] = Len(table) + Rank(new, j)
        BY <1>4, <1>5, <1>7
  <2>2. j \in DOMAIN nextTable /\ j \notin kept
        BY DEF New
  <2> HIDE DEF to, whole, added, new
  <2> QED BY <1>4, <1>8, <2>1, <2>2
<1>11. \A j \in DOMAIN nextTable : j \in kept \/ j \in new
       BY DEF New
<1>12. \A k \in DOMAIN more : added[k] \in DOMAIN nextTable /\ to[added[k]] = Len(table) + k
  <2> TAKE k \in DOMAIN more
  <2>1. added[k] \in new /\ Rank(new, added[k]) = k
        BY <1>4, <1>5
  <2> HIDE DEF to, added, new
  <2> QED BY <1>7, <1>10, <2>1
<1>13. Tidy(whole, to)
  <2>1. \A i, j \in DOMAIN to : whole[to[i]].id = whole[to[j]].id => i = j
    <3> TAKE i, j \in DOMAIN to
    <3>1. i \in DOMAIN nextTable /\ j \in DOMAIN nextTable
          BY <1>6
    <3>2. whole[to[i]].id = nextTable[i].id /\ whole[to[j]].id = nextTable[j].id
          BY <1>9, <1>10, <1>11, <3>1
    <3>3. nextTable[i].id = nextTable[j].id => i = j
          BY <3>1 DEF Tidy, Numbers
    <3> QED BY <3>2, <3>3
  <2>2. to \in [1..Len(nextTable) -> DOMAIN whole] /\ Len(nextTable) \in Nat
    <3>1. Len(nextTable) \in Nat /\ DOMAIN nextTable = 1..Len(nextTable)
          BY <1>1, Listed
    <3>2. to = [j \in DOMAIN nextTable |-> to[j]]
          BY DEF Appended
    <3> HIDE DEF to, whole
    <3> QED BY <1>9, <1>10, <1>11, <3>1, <3>2
  <2> HIDE DEF to, whole
  <2>3. to \in Seq(DOMAIN whole)
        BY <2>2
  <2> QED BY <1>8, <2>1, <2>3 DEF Tidy
<1>14. \A j \in DOMAIN nextTable :
          /\ to[j] \in DOMAIN whole /\ whole[to[j]].id = nextTable[j].id
          /\ \/ /\ j \in kept
                /\ to[j] = Lookup(table, active, nextTable[j].id)
                /\ to[j] \in Range(active) /\ to[j] \in DOMAIN table
                /\ <<to[j], j>> \in same
             \/ /\ j \notin kept
                /\ \E k \in DOMAIN more : /\ added[k] = j /\ to[j] = Len(table) + k
                                          /\ whole[to[j]] = more[k]
  <2> HIDE DEF to, whole, added, new, kept
  <2> QED BY <1>6, <1>9, <1>10, <1>11
<1> QED BY <1>6, <1>8, <1>12, <1>13, <1>14 DEF WellAppended

\* The same of one entry, and of the table.
Placed(table, nextTable, same, added, to, more, j) ==
    /\ to[j] \in DOMAIN (table \o more) /\ (table \o more)[to[j]].id = nextTable[j].id
    /\ \/ to[j] \in DOMAIN table /\ <<to[j], j>> \in same
       \/ \E k \in DOMAIN more : added[k] = j /\ (table \o more)[to[j]] = more[k]

LEMMA PlacedWell ==
    ASSUME NEW table, NEW active, NEW nextTable, NEW same, NEW more,
           WellAppended(table, active, nextTable, same, more)
    PROVE  LET a == Appended(table, active, nextTable, same)
           IN  /\ Tidy(table \o more, a.to) /\ DOMAIN a.to = DOMAIN nextTable
               /\ \A i \in DOMAIN table : /\ i \in DOMAIN (table \o more)
                                         /\ (table \o more)[i] = table[i]
               /\ \A j \in DOMAIN nextTable : Placed(table, nextTable, same, a.added, a.to, more, j)
<1> DEFINE a == Appended(table, active, nextTable, same)
           whole == table \o more
<1>1. /\ Tidy(whole, a.to) /\ DOMAIN a.to = DOMAIN nextTable
      /\ \A i \in DOMAIN table : i \in DOMAIN whole /\ whole[i] = table[i]
      BY DEF WellAppended
<1>2. ASSUME NEW j \in DOMAIN nextTable PROVE Placed(table, nextTable, same, a.added, a.to, more, j)
  <2>1. /\ a.to[j] \in DOMAIN whole /\ whole[a.to[j]].id = nextTable[j].id
        /\ \/ a.to[j] \in DOMAIN table /\ <<a.to[j], j>> \in same
           \/ \E k \in DOMAIN more : a.added[k] = j /\ whole[a.to[j]] = more[k]
        BY DEF WellAppended
  <2> HIDE DEF a
  <2> QED BY <2>1 DEF Placed
<1> QED BY <1>1, <1>2

Grown(table, more) ==
    /\ \A i \in DOMAIN table : i \in DOMAIN (table \o more) /\ (table \o more)[i] = table[i]
    /\ \A k \in DOMAIN more : (table \o more)[Len(table) + k] = more[k]
    /\ \A i \in DOMAIN (table \o more) : i \in DOMAIN table \/ \E k \in DOMAIN more : i = Len(table) + k

LEMMA GrownWell ==
    ASSUME NEW table, NEW active, NEW nextTable, NEW same, NEW more,
           WellAppended(table, active, nextTable, same, more)
    PROVE  Grown(table, more)
BY DEF WellAppended, Grown

-----------------------------------------------------------------------------
(***************************************************************************)
(* Tables just built                                                       *)
(***************************************************************************)

IsStop(s) == s = [id |-> s.id, look |-> s.look, gid |-> s.gid]
IsRoute(r) == r = [id |-> r.id, look |-> r.look]
IsTrip(core, t) ==
    /\ t = [id |-> t.id, look |-> t.look, route |-> t.route, calls |-> t.calls]
    /\ t.route \in DOMAIN core.routes /\ t.calls \in Seq(DOMAIN core.stops)

\* Tables as they are served: records lead to records there are, ids tell active
\* ones apart, and global ids all stops.
Sane(core) ==
    /\ Tidy(core.stops, core.activeStops)
    /\ Tidy(core.routes, core.activeRoutes)
    /\ Tidy(core.trips, core.activeTrips)
    /\ \A i \in DOMAIN core.stops : IsStop(core.stops[i])
    /\ \A i \in DOMAIN core.routes : IsRoute(core.routes[i])
    /\ \A i \in DOMAIN core.trips : IsTrip(core, core.trips[i])
    /\ \A i, j \in DOMAIN core.stops : core.stops[i].gid = core.stops[j].gid => i = j

\* As they are built: everything is active, in its order.
JustBuilt(core) ==
    /\ Sane(core)
    /\ core.activeStops = Numbers(core.stops)
    /\ core.activeRoutes = Numbers(core.routes)
    /\ core.activeTrips = Numbers(core.trips)

\* Where an id is among those sorted.
LEMMA SortedPlaces ==
    ASSUME NEW S \in SUBSET Nat, IsFiniteSet(S)
    PROVE  \A id \in S : LET i == CHOOSE i \in DOMAIN Sorted(S) : Sorted(S)[i] = id
                         IN  i \in DOMAIN Sorted(S) /\ Sorted(S)[i] = id
<1> TAKE id \in S
<1>1. DOMAIN Sorted(S) = 1..Cardinality(S)
      BY SortedLists
<1>2. Rank(S, id) \in DOMAIN Sorted(S) /\ Sorted(S)[Rank(S, id)] = id
      BY <1>1, SortedLists
<1> QED BY <1>2

\* A table of the records of sorted ids.
TableOf(S, table) ==
    /\ Tidy(table, Numbers(table)) /\ Numbers(Sorted(S)) = Numbers(table)
    /\ Ids(table, Numbers(table)) = S
    /\ \A id \in S : /\ Lookup(table, Numbers(table), id) \in DOMAIN Sorted(S)
                     /\ Sorted(S)[Lookup(table, Numbers(table), id)] = id

LEMMA TableBuilt ==
    ASSUME NEW S \in SUBSET Nat, IsFiniteSet(S), NEW table,
           IsList(table), DOMAIN table = DOMAIN Sorted(S),
           \A i \in DOMAIN Sorted(S) : table[i].id = Sorted(S)[i]
    PROVE  TableOf(S, table)
<1> DEFINE n == Cardinality(S)
<1>1. /\ n \in Nat /\ DOMAIN Sorted(S) = 1..n
      /\ \A i \in 1..n : Sorted(S)[i] \in S
      /\ \A i \in 1..n : Rank(S, Sorted(S)[i]) = i
      /\ \A id \in S : Rank(S, id) \in 1..n /\ Sorted(S)[Rank(S, id)] = id
      BY SortedLists
<1>2. DOMAIN table = 1..n
      BY <1>1
<1>4. Numbers(table) = [i \in 1..n |-> i] /\ Numbers(Sorted(S)) = [i \in 1..n |-> i]
      BY <1>1, <1>2 DEF Numbers
<1>5. Numbers(table) \in Seq(DOMAIN table)
  <2>1. Numbers(table) \in [1..n -> DOMAIN table]
        BY <1>2, <1>4
  <2> HIDE DEF n
  <2> QED BY <1>1, <2>1
<1>6. \A i, j \in 1..n : table[i].id = table[j].id => i = j
  <2> TAKE i, j \in 1..n
  <2>1. table[i].id = Sorted(S)[i] /\ table[j].id = Sorted(S)[j]
        BY <1>1
  <2> QED BY <1>1, <2>1
<1>12. DOMAIN Numbers(table) = 1..n /\ \A i \in 1..n : Numbers(table)[i] = i
  <2> HIDE DEF n
  <2> QED BY <1>4
<1>7. Tidy(table, Numbers(table))
  <2> HIDE DEF n
  <2> QED BY <1>5, <1>6, <1>12 DEF Tidy
<1>8. Range(Numbers(table)) = 1..n
  <2> HIDE DEF n
  <2> QED BY <1>12 DEF Range
<1>9. Ids(table, Numbers(table)) = {Sorted(S)[i] : i \in 1..n}
  <2>1. \A i \in 1..n : table[i].id = Sorted(S)[i]
        BY <1>1
  <2> HIDE DEF n
  <2> QED BY <1>8, <2>1 DEF Ids
<1>10. {Sorted(S)[i] : i \in 1..n} = S
      BY <1>1
<1>11. ASSUME NEW id \in S
       PROVE  /\ Lookup(table, Numbers(table), id) \in 1..n
              /\ Sorted(S)[Lookup(table, Numbers(table), id)] = id
  <2>1. id \in Ids(table, Numbers(table))
        BY <1>9, <1>10
  <2>2. /\ Lookup(table, Numbers(table), id) \in Range(Numbers(table))
        /\ table[Lookup(table, Numbers(table), id)].id = id
        BY <1>7, <2>1, LooksUp
  <2> QED BY <1>1, <1>8, <2>2
<1> QED BY <1>1, <1>4, <1>7, <1>9, <1>10, <1>11 DEF TableOf

\* What is built from an archive is fit to be served and says what it says.
LEMMA BuiltSays ==
    ASSUME NEW v, Archive(v)
    PROVE  JustBuilt(Build(v)) /\ Means(Build(v)) = Says(v)
<1> DEFINE core == Build(v)
           S == DOMAIN v.stops
           R == DOMAIN v.routes
           T == {t \in DOMAIN v.trips : Len(v.trips[t].calls) >= 2}
           stopIds == Sorted(S)
           routeIds == Sorted(R)
           tripIds == Sorted(T)
           at(ids, id) == CHOOSE i \in DOMAIN ids : ids[i] = id
<1>1. /\ S \in SUBSET Nat /\ IsFiniteSet(S) /\ R \in SUBSET Nat /\ IsFiniteSet(R)
      /\ v.stops = [id \in S |-> v.stops[id]] /\ v.routes = [id \in R |-> v.routes[id]]
      BY DEF Archive
<1>2. T \in SUBSET Nat /\ IsFiniteSet(T)
  <2>1. DOMAIN v.trips \subseteq Nat /\ IsFiniteSet(DOMAIN v.trips)
        BY DEF Archive
  <2> QED BY <2>1, FS_Subset
<1>3. \A t \in T : v.trips[t].route \in R /\ v.trips[t].calls \in Seq(S)
      BY DEF Archive
<1>4. /\ core.stops = [i \in DOMAIN stopIds |->
                          [id |-> stopIds[i], look |-> v.stops[stopIds[i]], gid |-> <<i, 0>>]]
      /\ core.routes = [i \in DOMAIN routeIds |-> [id |-> routeIds[i], look |-> v.routes[routeIds[i]]]]
      /\ core.trips = [i \in DOMAIN tripIds |->
            [id |-> tripIds[i], look |-> v.trips[tripIds[i]].look,
             route |-> at(routeIds, v.trips[tripIds[i]].route),
             calls |-> [k \in DOMAIN v.trips[tripIds[i]].calls |->
                            at(stopIds, v.trips[tripIds[i]].calls[k])]]]
      /\ core.activeStops = Numbers(stopIds) /\ core.activeRoutes = Numbers(routeIds)
      /\ core.activeTrips = Numbers(tripIds)
      /\ core.services = [i \in DOMAIN tripIds |-> v.trips[tripIds[i]].service]
      /\ core.calendar = v.calendar
      BY DEF Build
<1> HIDE DEF core
<1>5. /\ \A id \in S : at(stopIds, id) \in DOMAIN stopIds /\ stopIds[at(stopIds, id)] = id
      /\ \A id \in R : at(routeIds, id) \in DOMAIN routeIds /\ routeIds[at(routeIds, id)] = id
  <2> HIDE DEF S, R
  <2> QED BY <1>1, SortedPlaces
<1> HIDE DEF at
<1>6. /\ \A i \in DOMAIN stopIds : stopIds[i] \in S
      /\ \A i \in DOMAIN routeIds : routeIds[i] \in R
      /\ \A i \in DOMAIN tripIds : tripIds[i] \in T
  <2> HIDE DEF S, R, T
  <2>1. Sorted(S) \in [1..Cardinality(S) -> S] /\ Sorted(R) \in [1..Cardinality(R) -> R]
        /\ Sorted(T) \in [1..Cardinality(T) -> T]
        BY <1>1, <1>2, SortedLists
  <2> QED BY <2>1
<1> HIDE DEF stopIds, routeIds, tripIds
<1>19. IsList(core.stops) /\ IsList(core.routes) /\ IsList(core.trips)
  <2> HIDE DEF S, R, T
  <2>1. /\ Cardinality(S) \in Nat /\ DOMAIN stopIds = 1..Cardinality(S)
        /\ Cardinality(R) \in Nat /\ DOMAIN routeIds = 1..Cardinality(R)
        /\ Cardinality(T) \in Nat /\ DOMAIN tripIds = 1..Cardinality(T)
        BY <1>1, <1>2, SortedLists DEF stopIds, routeIds, tripIds
  <2>2. IsList(core.stops)
    <3>1. DOMAIN core.stops = DOMAIN stopIds /\ core.stops = [i \in DOMAIN stopIds |-> core.stops[i]]
          BY <1>4
    <3> QED BY <2>1, <3>1, ListOf
  <2>3. IsList(core.routes)
    <3>1. DOMAIN core.routes = DOMAIN routeIds /\ core.routes = [i \in DOMAIN routeIds |-> core.routes[i]]
          BY <1>4
    <3> QED BY <2>1, <3>1, ListOf
  <2>4. IsList(core.trips)
    <3>1. DOMAIN core.trips = DOMAIN tripIds /\ core.trips = [i \in DOMAIN tripIds |-> core.trips[i]]
          BY <1>4
    <3> QED BY <2>1, <3>1, ListOf
  <2> QED BY <2>2, <2>3, <2>4
<1>7. /\ Tidy(core.stops, core.activeStops) /\ core.activeStops = Numbers(core.stops)
      /\ Ids(core.stops, core.activeStops) = S
      /\ \A id \in S : LET i == Lookup(core.stops, core.activeStops, id)
                       IN  i \in DOMAIN stopIds /\ stopIds[i] = id
  <2>1. /\ DOMAIN core.stops = DOMAIN Sorted(S)
        /\ \A i \in DOMAIN Sorted(S) : core.stops[i].id = Sorted(S)[i]
        /\ IsList(core.stops)
        BY <1>4, <1>19 DEF stopIds
  <2> HIDE DEF S
  <2>2. TableOf(S, core.stops)
        BY <1>1, <2>1, TableBuilt
  <2>3. core.activeStops = Numbers(Sorted(S))
        BY <1>4 DEF stopIds
  <2> QED BY <2>2, <2>3 DEF TableOf, stopIds
<1>8. /\ Tidy(core.routes, core.activeRoutes) /\ core.activeRoutes = Numbers(core.routes)
      /\ Ids(core.routes, core.activeRoutes) = R
      /\ \A id \in R : LET i == Lookup(core.routes, core.activeRoutes, id)
                       IN  i \in DOMAIN routeIds /\ routeIds[i] = id
  <2>1. /\ DOMAIN core.routes = DOMAIN Sorted(R)
        /\ \A i \in DOMAIN Sorted(R) : core.routes[i].id = Sorted(R)[i]
        /\ IsList(core.routes)
        BY <1>4, <1>19 DEF routeIds
  <2> HIDE DEF R
  <2>2. TableOf(R, core.routes)
        BY <1>1, <2>1, TableBuilt
  <2>3. core.activeRoutes = Numbers(Sorted(R))
        BY <1>4 DEF routeIds
  <2> QED BY <2>2, <2>3 DEF TableOf, routeIds
<1>9. /\ Tidy(core.trips, core.activeTrips) /\ core.activeTrips = Numbers(core.trips)
      /\ Ids(core.trips, core.activeTrips) = T
      /\ \A id \in T : LET i == Lookup(core.trips, core.activeTrips, id)
                       IN  i \in DOMAIN tripIds /\ tripIds[i] = id
  <2>1. /\ DOMAIN core.trips = DOMAIN Sorted(T)
        /\ \A i \in DOMAIN Sorted(T) : core.trips[i].id = Sorted(T)[i]
        /\ IsList(core.trips)
    <3> HIDE DEF T
    <3> QED BY <1>4, <1>19 DEF tripIds
  <2> HIDE DEF T
  <2>2. TableOf(T, core.trips)
        BY <1>2, <2>1, TableBuilt
  <2>3. core.activeTrips = Numbers(Sorted(T))
        BY <1>4 DEF tripIds
  <2> QED BY <2>2, <2>3 DEF TableOf, tripIds
<1> HIDE DEF T
<1>10. DOMAIN core.stops = DOMAIN stopIds /\ DOMAIN core.routes = DOMAIN routeIds
       /\ DOMAIN core.trips = DOMAIN tripIds
       BY <1>4
<1>11. ASSUME NEW i \in DOMAIN core.trips
       PROVE  /\ IsTrip(core, core.trips[i])
              /\ core.trips[i].look = v.trips[tripIds[i]].look
              /\ core.routes[core.trips[i].route]
                     = [id |-> v.trips[tripIds[i]].route, look |-> v.routes[v.trips[tripIds[i]].route]]
              /\ [c \in DOMAIN core.trips[i].calls |-> core.stops[core.trips[i].calls[c]].id]
                     = v.trips[tripIds[i]].calls
  <2> DEFINE t == core.trips[i]
             u == v.trips[tripIds[i]]
  <2>1. tripIds[i] \in T /\ i \in DOMAIN tripIds
        BY <1>6, <1>10
  <2>2. u.route \in R /\ u.calls \in Seq(S)
        BY <1>3, <2>1
  <2>3. t = [id |-> tripIds[i], look |-> u.look, route |-> at(routeIds, u.route),
             calls |-> [k \in DOMAIN u.calls |-> at(stopIds, u.calls[k])]]
        BY <1>4, <2>1
  <2>4. t.look = u.look /\ t.route = at(routeIds, u.route)
        /\ t.calls = [k \in DOMAIN u.calls |-> at(stopIds, u.calls[k])]
        /\ t = [id |-> t.id, look |-> t.look, route |-> t.route, calls |-> t.calls]
        BY <2>3
  <2> DEFINE n == Len(u.calls)
  <2>5. n \in Nat /\ DOMAIN u.calls = 1..n /\ u.calls \in [1..n -> S]
        BY <2>2
  <2> HIDE DEF t, u, n
  <2>6. \A k \in 1..n : /\ u.calls[k] \in S /\ at(stopIds, u.calls[k]) \in DOMAIN core.stops
                        /\ core.stops[at(stopIds, u.calls[k])].id = u.calls[k]
    <3> TAKE k \in 1..n
    <3>1. u.calls[k] \in S
          BY <2>5
    <3>2. at(stopIds, u.calls[k]) \in DOMAIN stopIds /\ stopIds[at(stopIds, u.calls[k])] = u.calls[k]
          BY <1>5, <3>1
    <3>3. core.stops[at(stopIds, u.calls[k])].id = stopIds[at(stopIds, u.calls[k])]
          BY <1>4, <3>2
    <3> QED BY <1>10, <3>1, <3>2, <3>3
  <2>7. t.calls \in Seq(DOMAIN core.stops)
    <3>1. t.calls \in [1..n -> DOMAIN core.stops]
          BY <2>4, <2>5, <2>6
    <3> QED BY <2>5, <3>1
  <2>8. [c \in DOMAIN t.calls |-> core.stops[t.calls[c]].id] = u.calls
    <3>1. DOMAIN t.calls = 1..n /\ \A c \in 1..n : t.calls[c] = at(stopIds, u.calls[c])
          BY <2>4, <2>5
    <3>2. u.calls = [c \in 1..n |-> u.calls[c]]
          BY <2>5
    <3> QED BY <2>6, <3>1, <3>2
  <2>9. t.route \in DOMAIN core.routes
        /\ core.routes[t.route] = [id |-> u.route, look |-> v.routes[u.route]]
    <3>1. t.route \in DOMAIN routeIds /\ routeIds[t.route] = u.route
          BY <1>5, <2>2, <2>4
    <3>2. core.routes[t.route] = [id |-> routeIds[t.route], look |-> v.routes[routeIds[t.route]]]
          BY <1>4, <3>1
    <3> QED BY <1>10, <3>1, <3>2
  <2> QED BY <2>4, <2>7, <2>8, <2>9 DEF IsTrip, t, u
<1>12. \A i \in DOMAIN core.stops : IsStop(core.stops[i]) /\ core.stops[i].gid = <<i, 0>>
       BY <1>4 DEF IsStop
<1>20. \A i \in DOMAIN core.routes : IsRoute(core.routes[i])
       BY <1>4 DEF IsRoute
<1>13. JustBuilt(core)
  <2>1. \A i, j \in DOMAIN core.stops : core.stops[i].gid = core.stops[j].gid => i = j
    <3> TAKE i, j \in DOMAIN core.stops
    <3>1. core.stops[i].gid = <<i, 0>> /\ core.stops[j].gid = <<j, 0>>
          BY <1>12
    <3> QED BY <3>1
  <2>2. /\ Tidy(core.stops, core.activeStops) /\ Tidy(core.routes, core.activeRoutes)
        /\ Tidy(core.trips, core.activeTrips)
        BY <1>7, <1>8, <1>9
  <2>3. /\ \A i \in DOMAIN core.trips : IsTrip(core, core.trips[i])
        /\ \A i \in DOMAIN core.stops : IsStop(core.stops[i])
        BY <1>11, <1>12
  <2>4. Sane(core)
        BY <1>20, <2>1, <2>2, <2>3 DEF Sane
  <2>5. core.activeStops = Numbers(core.stops)
        BY <1>7
  <2>6. core.activeRoutes = Numbers(core.routes)
        BY <1>8
  <2>7. core.activeTrips = Numbers(core.trips)
        BY <1>9
  <2> QED BY <2>4, <2>5, <2>6, <2>7 DEF JustBuilt
<1>14. [id \in Ids(core.stops, core.activeStops) |-> StopMeant(core, id)] = v.stops
  <2>1. ASSUME NEW id \in S PROVE StopMeant(core, id) = v.stops[id]
    <3> DEFINE i == Lookup(core.stops, core.activeStops, id)
    <3>1. i \in DOMAIN stopIds /\ stopIds[i] = id
          BY <1>7
    <3>2. StopMeant(core, id) = core.stops[i].look
          BY DEF StopMeant
    <3> HIDE DEF i
    <3> QED BY <1>4, <3>1, <3>2
  <2> HIDE DEF S
  <2> QED BY <1>1, <1>7, <2>1
<1>15. [id \in Ids(core.routes, core.activeRoutes) |-> RouteMeant(core, id)] = v.routes
  <2>1. ASSUME NEW id \in R PROVE RouteMeant(core, id) = v.routes[id]
    <3> DEFINE i == Lookup(core.routes, core.activeRoutes, id)
    <3>1. i \in DOMAIN routeIds /\ routeIds[i] = id
          BY <1>8
    <3>2. RouteMeant(core, id) = core.routes[i].look
          BY DEF RouteMeant
    <3> HIDE DEF i
    <3> QED BY <1>4, <3>1, <3>2
  <2> HIDE DEF R
  <2> QED BY <1>1, <1>8, <2>1
<1>16. ASSUME NEW id \in T
       PROVE  TripMeant(core, id) =
                  [route |-> [id |-> v.trips[id].route, look |-> v.routes[v.trips[id].route]],
                   look |-> v.trips[id].look, service |-> v.trips[id].service,
                   calls |-> v.trips[id].calls]
  <2> DEFINE i == Lookup(core.trips, core.activeTrips, id)
             k == CHOOSE k \in DOMAIN core.activeTrips : core.activeTrips[k] = i
  <2>1. i \in DOMAIN core.trips /\ i \in DOMAIN tripIds /\ tripIds[i] = id
        BY <1>9, <1>10
  <2>2. k = i
    <3> HIDE DEF i
    <3>1. DOMAIN core.activeTrips = DOMAIN core.trips /\ \A j \in DOMAIN core.trips : core.activeTrips[j] = j
          BY <1>9 DEF Numbers
    <3> QED BY <2>1, <3>1
  <2>3. core.services[k] = v.trips[id].service
    <3> HIDE DEF i, k
    <3> QED BY <1>4, <2>1, <2>2
  <2>4. TripMeant(core, id) =
            [route |-> core.routes[core.trips[i].route], look |-> core.trips[i].look,
             service |-> core.services[k],
             calls |-> [c \in DOMAIN core.trips[i].calls |-> core.stops[core.trips[i].calls[c]].id]]
        BY DEF TripMeant
  <2> HIDE DEF i, k
  <2> QED BY <1>11, <2>1, <2>3, <2>4
<1>17. [id \in Ids(core.trips, core.activeTrips) |-> TripMeant(core, id)]
           = [id \in T |-> [route |-> [id |-> v.trips[id].route, look |-> v.routes[v.trips[id].route]],
                            look |-> v.trips[id].look, service |-> v.trips[id].service,
                            calls |-> v.trips[id].calls]]
       BY <1>9, <1>16
<1>18. Means(core) = Says(v)
  <2>1. Means(core) = [stops |-> v.stops, routes |-> v.routes,
                       trips |-> [id \in Ids(core.trips, core.activeTrips) |-> TripMeant(core, id)],
                       calendar |-> core.calendar]
        BY <1>14, <1>15 DEF Means
  <2> QED BY <1>4, <1>17, <2>1 DEF Says, T
<1> QED BY <1>13, <1>18 DEF core

-----------------------------------------------------------------------------
(***************************************************************************)
(* Global ids                                                              *)
(***************************************************************************)

LEMMA LeastOf ==
    ASSUME NEW S \in SUBSET Nat, S # {}
    PROVE  \E x \in S : \A y \in S : x <= y
<1>1. PICK x \in S : \A y \in S : <<y, x>> \notin OpToRel(<, Nat)
      BY NatLessThanWellFounded, WFMin
<1>2. \A y \in S : ~(y < x)
      BY <1>1 DEF OpToRel
<1>3. x \in Nat /\ \A y \in S : y \in Nat
      OBVIOUS
<1> QED BY <1>2, <1>3

LEMMA UpTo ==
    ASSUME NEW N \in Nat, NEW S, 0 \in S, \A n \in 1..N : n - 1 \in S => n \in S
    PROVE  0..N \subseteq S
<1> DEFINE T == (0..N) \ S
<1>1. SUFFICES ASSUME T # {} PROVE FALSE
      OBVIOUS
<1>2. T \in SUBSET Nat
      OBVIOUS
<1>3. \E n \in T : \A m \in T : n <= m
  <2> HIDE DEF T
  <2> QED BY <1>1, <1>2, LeastOf
<1> QED BY <1>3

\* The image of an interval is finite.
LEMMA ImageFinite ==
    ASSUME NEW n \in Nat, NEW f
    PROVE  IsFiniteSet({f[m] : m \in 1..n})
<1> DEFINE h == [m \in 1..n |-> f[m]]
           T == {f[m] : m \in 1..n}
<1>1. h \in Surjection(1..n, T)
      BY DEF Surjection
<1>2. IsFiniteSet(1..n)
      BY FS_Interval
<1> HIDE DEF h, T
<1>3. IsFiniteSet(T)
      BY <1>1, <1>2, FS_Surjection
<1> QED BY <1>3 DEF T

\* allocate_unique_global_id finds an id that is not taken.
LEMMA UniqueGidIsNew ==
    ASSUME NEW gid, NEW id, NEW taken, IsFiniteSet(taken)
    PROVE  UniqueGid(gid, id, taken) \notin taken
<1>1. CASE gid \notin taken
      BY <1>1 DEF UniqueGid
<1>2. CASE gid \in taken
  <2> DEFINE c == Cardinality(taken)
             Free(k) == <<id, k>> \notin taken /\ \A m \in 1..(k - 1) : <<id, m>> \in taken
             K == {k \in 1..(c + 1) : <<id, k>> \notin taken}
  <2>1. c \in Nat
        BY FS_CardinalityType
  <2>2. K # {}
    <3> SUFFICES ASSUME \A k \in 1..(c + 1) : <<id, k>> \in taken PROVE FALSE
        OBVIOUS
    <3> DEFINE f == [k \in 1..(c + 1) |-> <<id, k>>]
    <3>1. f \in [1..(c + 1) -> taken]
          OBVIOUS
    <3>2. \A k, l \in 1..(c + 1) : f[k] = f[l] => k = l
          OBVIOUS
    <3>3. IsFiniteSet(1..(c + 1)) /\ Cardinality(1..(c + 1)) = c + 1
          BY <2>1, FS_Interval
    <3> DEFINE I == 1..(c + 1)
    <3> HIDE DEF f, I
    <3>4. f \in Injection(I, taken)
          BY <3>1, <3>2 DEF Injection, IsInjective, I
    <3>5. Cardinality(I) <= c
          BY <3>4, FS_Injection
    <3> QED BY <2>1, <3>3, <3>5 DEF I
  <2>3. K \in SUBSET Nat
        BY <2>1
  <2>4. \E k \in K : \A m \in K : k <= m
    <3> HIDE DEF K
    <3> QED BY <2>2, <2>3, LeastOf
  <2>5. PICK k \in K : \A m \in K : k <= m
        BY <2>4
  <2>6. \A m \in 1..(k - 1) : <<id, m>> \in taken
        BY <2>1, <2>5
  <2>7. k \in 1..(c + 1) /\ Free(k)
        BY <2>5, <2>6
  <2> DEFINE salt == CHOOSE s \in 1..(c + 1) : Free(s)
  <2>8. Free(salt)
    <3> HIDE DEF Free, c
    <3> QED BY <2>7
  <2>9. UniqueGid(gid, id, taken) = <<id, salt>>
        BY <1>2 DEF UniqueGid
  <2> QED BY <2>8, <2>9
<1> QED BY <1>1, <1>2

\* Stops appended one after the other get global ids no stop has.
AllNew(taken, new, gids) ==
    /\ DOMAIN gids = DOMAIN new
    /\ \A k \in DOMAIN new : gids[k] \notin taken
    /\ \A k, l \in DOMAIN new : gids[k] = gids[l] => k = l

LEMMA GidsAreNew ==
    ASSUME NEW taken, IsFiniteSet(taken), NEW new, IsList(new)
    PROVE  AllNew(taken, new, Gids(taken, new))
<1> DEFINE N == Len(new)
           Un(k, f) == UniqueGid(new[k].gid, new[k].id, taken \union {f[m] : m \in 1..(k - 1)})
           Good(n, f) == f = [k \in 1..n |-> Un(k, f)]
           T == {n \in 0..N : \E f : Good(n, f)}
<1>1. N \in Nat /\ DOMAIN new = 1..N
      BY Listed
<1> HIDE DEF N
<1>2. 0 \in T
  <2>1. ASSUME NEW f, f = [k \in {} |-> 0] PROVE Good(0, f)
    <3>1. 1..0 = {}
          OBVIOUS
    <3> HIDE DEF Un
    <3> QED BY <2>1, <3>1
  <2> HIDE DEF Good
  <2>2. Good(0, [k \in {} |-> 0])
        BY <2>1
  <2> QED BY <1>1, <2>2
<1>3. ASSUME NEW n \in 1..N, n - 1 \in T PROVE n \in T
  <2>1. \E f : Good(n - 1, f)
        BY <1>3
  <2>2. PICK f : Good(n - 1, f)
        BY <2>1
  <2> DEFINE h == [k \in 1..n |-> IF k = n THEN Un(n, f) ELSE f[k]]
  <2>3. ASSUME NEW k \in 1..n PROVE Un(k, h) = Un(k, f)
    <3>1. \A m \in 1..(k - 1) : h[m] = f[m]
          OBVIOUS
    <3>2. {h[m] : m \in 1..(k - 1)} = {f[m] : m \in 1..(k - 1)}
      <4> HIDE DEF h
      <4> QED BY <3>1
    <3> HIDE DEF h
    <3> QED BY <3>2
  <2>4. ASSUME NEW k \in 1..n PROVE h[k] = Un(k, f)
    <3>1. CASE k = n
          BY <3>1
    <3>2. CASE k # n
      <4>1. k \in 1..(n - 1)
            BY <3>2
      <4> HIDE DEF Un
      <4> QED BY <2>2, <3>2, <4>1
    <3> QED BY <3>1, <3>2
  <2>5. DOMAIN h = 1..n /\ h = [k \in 1..n |-> h[k]]
        OBVIOUS
  <2> HIDE DEF h, Un
  <2>6. Good(n, h)
        BY <2>3, <2>4, <2>5
  <2> HIDE DEF Good
  <2> QED BY <1>1, <2>6
<1>4. N \in T
  <2> HIDE DEF T
  <2>1. 0..N \subseteq T
        BY <1>1, <1>2, <1>3, UpTo
  <2> QED BY <1>1, <2>1
<1> DEFINE g == Gids(taken, new)
<1>5. Good(N, g)
  <2>1. \E f : Good(N, f)
        BY <1>4
  <2>2. g = CHOOSE f : Good(N, f)
        BY <1>1 DEF Gids
  <2> HIDE DEF Good, g
  <2> QED BY <2>1, <2>2
<1> HIDE DEF g
<1>6. ASSUME NEW k \in 1..N
      PROVE  g[k] \notin taken /\ \A m \in 1..(k - 1) : g[k] # g[m]
  <2> DEFINE before == {g[m] : m \in 1..(k - 1)}
  <2>1. g[k] = UniqueGid(new[k].gid, new[k].id, taken \union before)
        BY <1>5
  <2>2. IsFiniteSet(before)
    <3>1. k - 1 \in Nat
          BY <1>1
    <3> QED BY <3>1, ImageFinite
  <2>3. IsFiniteSet(taken \union before)
    <3> HIDE DEF before
    <3> QED BY <2>2, FS_Union
  <2>4. g[k] \notin taken \union before
        BY <2>1, <2>3, UniqueGidIsNew
  <2> QED BY <2>4
<1>7. ASSUME NEW k \in 1..N, NEW l \in 1..N, g[k] = g[l] PROVE k = l
  <2>1. CASE k < l
    <3>1. k \in 1..(l - 1)
          BY <1>1, <2>1
    <3> QED BY <1>6, <1>7, <3>1
  <2>2. CASE l < k
    <3>1. l \in 1..(k - 1)
          BY <1>1, <2>2
    <3> QED BY <1>6, <1>7, <3>1
  <2> QED BY <2>1, <2>2
<1>8. DOMAIN g = 1..N
      BY <1>5
<1> QED BY <1>1, <1>6, <1>7, <1>8 DEF AllNew, g

-----------------------------------------------------------------------------
(***************************************************************************)
(* Merging                                                                 *)
(***************************************************************************)

\* Two tables in which the same ids are active, in one order.
LooksAlike(whole, to, nextTable) ==
    /\ Ids(whole, to) = Ids(nextTable, Numbers(nextTable))
    /\ \A id \in Ids(whole, to) :
          \E j \in DOMAIN nextTable : /\ Lookup(whole, to, id) = to[j]
                                      /\ Lookup(nextTable, Numbers(nextTable), id) = j

LEMMA LookedUpAlike ==
    ASSUME NEW whole, NEW to, Tidy(whole, to), NEW nextTable, Tidy(nextTable, Numbers(nextTable)),
           DOMAIN to = DOMAIN nextTable,
           \A j \in DOMAIN nextTable : whole[to[j]].id = nextTable[j].id
    PROVE  LooksAlike(whole, to, nextTable)
<1>1. DOMAIN Numbers(nextTable) = DOMAIN nextTable
      /\ \A j \in DOMAIN nextTable : Numbers(nextTable)[j] = j
      BY DEF Numbers
<1>2. Range(Numbers(nextTable)) = DOMAIN nextTable
      BY <1>1 DEF Range
<1>3. Range(to) = {to[j] : j \in DOMAIN nextTable}
      BY DEF Range
<1>4. Ids(whole, to) = {nextTable[j].id : j \in DOMAIN nextTable}
      BY <1>3 DEF Ids
<1>5. Ids(nextTable, Numbers(nextTable)) = {nextTable[j].id : j \in DOMAIN nextTable}
      BY <1>2 DEF Ids
<1>6. ASSUME NEW id \in Ids(whole, to)
      PROVE  \E j \in DOMAIN nextTable : /\ Lookup(whole, to, id) = to[j]
                                         /\ Lookup(nextTable, Numbers(nextTable), id) = j
  <2>1. PICK j \in DOMAIN nextTable : id = nextTable[j].id
        BY <1>4
  <2>2. to[j] \in Range(to) /\ whole[to[j]].id = id
        BY <1>3, <2>1
  <2>3. Lookup(whole, to, id) = to[j]
        BY <2>2, LooksUp
  <2>4. j \in Range(Numbers(nextTable)) /\ nextTable[j].id = id
        BY <1>2, <2>1
  <2>5. Lookup(nextTable, Numbers(nextTable), id) = j
        BY <2>4, LooksUp
  <2> QED BY <2>3, <2>5
<1> QED BY <1>4, <1>5, <1>6 DEF LooksAlike

StopsAppended(p, n) == Appended(p.stops, p.activeStops, n.stops, SameStops(p, n))
RoutesAppended(p, n) == Appended(p.routes, p.activeRoutes, n.routes, SameRoutes(p, n))
TripsAppended(p, n) == Appended(p.trips, p.activeTrips, n.trips, SameTrips(p, n))

\* The records appended by a merge.
GidsTaken(p) == {s.gid : s \in Range(p.stops)}
NewStops(p, n) == [k \in DOMAIN StopsAppended(p, n).added |-> n.stops[StopsAppended(p, n).added[k]]]
MoreStops(p, n) ==
    [k \in DOMAIN NewStops(p, n) |->
        [NewStops(p, n)[k] EXCEPT !.gid = Gids(GidsTaken(p), NewStops(p, n))[k]]]
MoreRoutes(p, n) == [k \in DOMAIN RoutesAppended(p, n).added |-> n.routes[RoutesAppended(p, n).added[k]]]
MoreTrips(p, n) ==
    [k \in DOMAIN TripsAppended(p, n).added |->
        NewTrip(n.trips[TripsAppended(p, n).added[k]], StopsAppended(p, n).to, RoutesAppended(p, n).to)]

LEMMA MergedTables ==
    ASSUME NEW p, NEW n
    PROVE  LET core == Merged(p, n)
           IN  /\ core.stops = p.stops \o MoreStops(p, n)
               /\ core.activeStops = StopsAppended(p, n).to
               /\ core.routes = p.routes \o MoreRoutes(p, n)
               /\ core.activeRoutes = RoutesAppended(p, n).to
               /\ core.trips = p.trips \o MoreTrips(p, n)
               /\ core.activeTrips = TripsAppended(p, n).to
               /\ core.services = n.services /\ core.calendar = n.calendar
BY DEF Merged, StopsAppended, RoutesAppended, TripsAppended, GidsTaken, NewStops, MoreStops,
       MoreRoutes, MoreTrips

StopsMerged(p, n) ==
    WellAppended(p.stops, p.activeStops, n.stops, SameStops(p, n), MoreStops(p, n))
RoutesMerged(p, n) ==
    WellAppended(p.routes, p.activeRoutes, n.routes, SameRoutes(p, n), MoreRoutes(p, n))
TripsMerged(p, n) ==
    WellAppended(p.trips, p.activeTrips, n.trips, SameTrips(p, n), MoreTrips(p, n))

\* An appended stop is the one just built but for its global id.
LEMMA StopsAppend ==
    ASSUME NEW p, Sane(p), NEW n, JustBuilt(n)
    PROVE  /\ StopsMerged(p, n)
           /\ DOMAIN MoreStops(p, n) = DOMAIN StopsAppended(p, n).added
           /\ AllNew(GidsTaken(p), NewStops(p, n), Gids(GidsTaken(p), NewStops(p, n)))
           /\ \A k \in DOMAIN MoreStops(p, n) :
                 LET s == n.stops[StopsAppended(p, n).added[k]]
                 IN  MoreStops(p, n)[k] = [id |-> s.id, look |-> s.look,
                                           gid |-> Gids(GidsTaken(p), NewStops(p, n))[k]]
<1> DEFINE added == StopsAppended(p, n).added
           new == NewStops(p, n)
           more == MoreStops(p, n)
           gids == Gids(GidsTaken(p), new)
<1>1. Tidy(p.stops, p.activeStops) /\ Tidy(n.stops, Numbers(n.stops)) /\ IsList(p.stops)
      BY DEF Sane, JustBuilt, Tidy
<1>2. PICK m \in Nat : DOMAIN added = 1..m /\ \A k \in 1..m : added[k] \in DOMAIN n.stops
  <2> DEFINE fresh == New(p.stops, p.activeStops, n.stops, SameStops(p, n))
  <2>1. Cardinality(fresh) \in Nat /\ added \in [1..Cardinality(fresh) -> fresh]
        BY <1>1, Adds DEF StopsAppended, Tidy
  <2>2. fresh \subseteq DOMAIN n.stops
        BY DEF New
  <2> HIDE DEF fresh, added
  <2> QED BY <2>1, <2>2
<1>3. DOMAIN new = 1..m /\ new = [k \in 1..m |-> new[k]] /\ \A k \in 1..m : new[k] = n.stops[added[k]]
      BY <1>2 DEF NewStops
<1>4. IsList(new)
  <2> HIDE DEF new
  <2> QED BY <1>3, ListOf
<1>5. IsFiniteSet(GidsTaken(p))
  <2> DEFINE l == Len(p.stops)
             g == [i \in 1..l |-> p.stops[i].gid]
  <2>1. l \in Nat /\ DOMAIN p.stops = 1..l
        BY <1>1, Listed
  <2>2. IsFiniteSet({g[i] : i \in 1..l})
    <3> HIDE DEF g, l
    <3> QED BY <2>1, ImageFinite
  <2>3. GidsTaken(p) = {g[i] : i \in 1..l}
        BY <2>1 DEF GidsTaken, Range
  <2> QED BY <2>2, <2>3
<1>6. AllNew(GidsTaken(p), new, gids)
  <2> HIDE DEF new
  <2> QED BY <1>4, <1>5, GidsAreNew
<1>7. DOMAIN more = 1..m /\ \A k \in 1..m : more[k] = [new[k] EXCEPT !.gid = gids[k]]
      BY <1>3 DEF MoreStops
<1>8. \A k \in 1..m : LET s == n.stops[added[k]]
                      IN  more[k] = [id |-> s.id, look |-> s.look, gid |-> gids[k]]
  <2> TAKE k \in 1..m
  <2> DEFINE s == n.stops[added[k]]
  <2>1. s = [id |-> s.id, look |-> s.look, gid |-> s.gid]
    <3>1. IsStop(n.stops[added[k]])
          BY <1>2 DEF JustBuilt, Sane
    <3> QED BY <3>1 DEF IsStop
  <2>2. more[k] = [s EXCEPT !.gid = gids[k]]
        BY <1>3, <1>7
  <2> HIDE DEF s, more, gids
  <2> QED BY <2>1, <2>2 DEF s
<1>9. IsList(more)
  <2>1. more = [k \in 1..m |-> more[k]]
        BY <1>3, <1>7 DEF MoreStops
  <2> HIDE DEF more
  <2> QED BY <1>7, <2>1, ListOf
<1>10. \A k \in DOMAIN more : more[k].id = n.stops[added[k]].id
       BY <1>7, <1>8
<1>11. StopsMerged(p, n)
  <2> HIDE DEF more
  <2> QED BY <1>1, <1>2, <1>7, <1>9, <1>10, Appends DEF StopsMerged, StopsAppended, more
<1> QED BY <1>2, <1>6, <1>7, <1>8, <1>11

LEMMA RoutesAppend ==
    ASSUME NEW p, Sane(p), NEW n, JustBuilt(n)
    PROVE  /\ RoutesMerged(p, n)
           /\ \A k \in DOMAIN MoreRoutes(p, n) :
                 /\ RoutesAppended(p, n).added[k] \in DOMAIN n.routes
                 /\ MoreRoutes(p, n)[k] = n.routes[RoutesAppended(p, n).added[k]]
<1> DEFINE added == RoutesAppended(p, n).added
           more == MoreRoutes(p, n)
<1>1. Tidy(p.routes, p.activeRoutes) /\ Tidy(n.routes, Numbers(n.routes))
      BY DEF Sane, JustBuilt
<1>2. PICK m \in Nat : DOMAIN added = 1..m /\ \A k \in 1..m : added[k] \in DOMAIN n.routes
  <2> DEFINE fresh == New(p.routes, p.activeRoutes, n.routes, SameRoutes(p, n))
  <2>1. Cardinality(fresh) \in Nat /\ added \in [1..Cardinality(fresh) -> fresh]
        BY <1>1, Adds DEF RoutesAppended, Tidy
  <2>2. fresh \subseteq DOMAIN n.routes
        BY DEF New
  <2> HIDE DEF fresh, added
  <2> QED BY <2>1, <2>2
<1>3. /\ DOMAIN more = 1..m /\ more = [k \in 1..m |-> more[k]]
      /\ \A k \in 1..m : more[k] = n.routes[added[k]]
      BY <1>2 DEF MoreRoutes
<1>4. IsList(more)
  <2> HIDE DEF more
  <2> QED BY <1>3, ListOf
<1>5. RoutesMerged(p, n)
  <2> HIDE DEF more
  <2> QED BY <1>1, <1>2, <1>3, <1>4, Appends DEF RoutesMerged, RoutesAppended, more
<1> QED BY <1>2, <1>3, <1>5

LEMMA TripsAppend ==
    ASSUME NEW p, Sane(p), NEW n, JustBuilt(n)
    PROVE  /\ TripsMerged(p, n)
           /\ \A k \in DOMAIN MoreTrips(p, n) :
                 LET j == TripsAppended(p, n).added[k]
                     t == n.trips[j]
                 IN  /\ j \in DOMAIN n.trips
                     /\ MoreTrips(p, n)[k] =
                            [id |-> t.id, look |-> t.look, route |-> RoutesAppended(p, n).to[t.route],
                             calls |-> [c \in DOMAIN t.calls |-> StopsAppended(p, n).to[t.calls[c]]]]
<1> DEFINE added == TripsAppended(p, n).added
           more == MoreTrips(p, n)
<1>1. Tidy(p.trips, p.activeTrips) /\ Tidy(n.trips, Numbers(n.trips))
      BY DEF Sane, JustBuilt
<1>2. PICK m \in Nat : DOMAIN added = 1..m /\ \A k \in 1..m : added[k] \in DOMAIN n.trips
  <2> DEFINE fresh == New(p.trips, p.activeTrips, n.trips, SameTrips(p, n))
  <2>1. Cardinality(fresh) \in Nat /\ added \in [1..Cardinality(fresh) -> fresh]
        BY <1>1, Adds DEF TripsAppended, Tidy
  <2>2. fresh \subseteq DOMAIN n.trips
        BY DEF New
  <2> HIDE DEF fresh, added
  <2> QED BY <2>1, <2>2
<1>3. /\ DOMAIN more = 1..m /\ more = [k \in 1..m |-> more[k]]
      /\ \A k \in 1..m : more[k] = NewTrip(n.trips[added[k]], StopsAppended(p, n).to, RoutesAppended(p, n).to)
      BY <1>2 DEF MoreTrips
<1>4. IsList(more)
  <2> HIDE DEF more
  <2> QED BY <1>3, ListOf
<1>5. ASSUME NEW k \in 1..m
      PROVE  LET t == n.trips[added[k]]
             IN  more[k] = [id |-> t.id, look |-> t.look, route |-> RoutesAppended(p, n).to[t.route],
                            calls |-> [c \in DOMAIN t.calls |-> StopsAppended(p, n).to[t.calls[c]]]]
  <2> DEFINE t == n.trips[added[k]]
  <2>1. t = [id |-> t.id, look |-> t.look, route |-> t.route, calls |-> t.calls]
    <3>1. IsTrip(n, n.trips[added[k]])
          BY <1>2 DEF JustBuilt, Sane
    <3> QED BY <3>1 DEF IsTrip
  <2>2. more[k] = [t EXCEPT !.route = RoutesAppended(p, n).to[t.route],
                            !.calls = [c \in DOMAIN t.calls |-> StopsAppended(p, n).to[t.calls[c]]]]
        BY <1>3 DEF NewTrip
  <2> HIDE DEF t, more
  <2> QED BY <2>1, <2>2 DEF t
<1>6. \A k \in DOMAIN more : more[k].id = n.trips[added[k]].id
      BY <1>3, <1>5
<1>7. TripsMerged(p, n)
  <2> HIDE DEF more
  <2> QED BY <1>1, <1>2, <1>3, <1>4, <1>6, Appends DEF TripsMerged, TripsAppended, more
<1> QED BY <1>2, <1>3, <1>5, <1>7

\* What a trip of the merged tables calls at, and on which route.
TripAlike(core, t, n, u) ==
    /\ t.look = u.look
    /\ t.route \in DOMAIN core.routes /\ core.routes[t.route] = n.routes[u.route]
    /\ DOMAIN t.calls = DOMAIN u.calls
    /\ \A c \in DOMAIN u.calls : core.stops[t.calls[c]].id = n.stops[u.calls[c]].id

\* Every record just built is in the merged tables, where it is active.
Carries(core, n) ==
    /\ Tidy(core.stops, core.activeStops) /\ DOMAIN core.activeStops = DOMAIN n.stops
    /\ \A j \in DOMAIN n.stops : /\ core.activeStops[j] \in DOMAIN core.stops
                                 /\ core.stops[core.activeStops[j]].id = n.stops[j].id
                                 /\ core.stops[core.activeStops[j]].look = n.stops[j].look
    /\ Tidy(core.routes, core.activeRoutes) /\ DOMAIN core.activeRoutes = DOMAIN n.routes
    /\ \A j \in DOMAIN n.routes : /\ core.activeRoutes[j] \in DOMAIN core.routes
                                  /\ core.routes[core.activeRoutes[j]] = n.routes[j]
    /\ Tidy(core.trips, core.activeTrips) /\ DOMAIN core.activeTrips = DOMAIN n.trips
    /\ \A j \in DOMAIN n.trips : /\ core.trips[core.activeTrips[j]].id = n.trips[j].id
                                 /\ TripAlike(core, core.trips[core.activeTrips[j]], n, n.trips[j])

LEMMA MergedCarries ==
    ASSUME NEW p, Sane(p), NEW n, JustBuilt(n)
    PROVE  Carries(Merged(p, n), n)
<1> DEFINE core == Merged(p, n)
           sto == StopsAppended(p, n).to
           rto == RoutesAppended(p, n).to
           tto == TripsAppended(p, n).to
<1>1. /\ core.stops = p.stops \o MoreStops(p, n) /\ core.activeStops = sto
      /\ core.routes = p.routes \o MoreRoutes(p, n) /\ core.activeRoutes = rto
      /\ core.trips = p.trips \o MoreTrips(p, n) /\ core.activeTrips = tto
      BY MergedTables
<1> HIDE DEF core
<1>2. /\ Tidy(core.stops, sto) /\ DOMAIN sto = DOMAIN n.stops
      /\ \A i \in DOMAIN p.stops : i \in DOMAIN core.stops /\ core.stops[i] = p.stops[i]
  <2>1. StopsMerged(p, n)
        BY StopsAppend
  <2> QED BY <1>1, <2>1, PlacedWell DEF StopsMerged, StopsAppended
<1>3. ASSUME NEW j \in DOMAIN n.stops
      PROVE  /\ sto[j] \in DOMAIN core.stops
             /\ core.stops[sto[j]].id = n.stops[j].id /\ core.stops[sto[j]].look = n.stops[j].look
  <2>1. /\ sto[j] \in DOMAIN core.stops /\ core.stops[sto[j]].id = n.stops[j].id
        /\ \/ sto[j] \in DOMAIN p.stops /\ <<sto[j], j>> \in SameStops(p, n)
           \/ \E k \in DOMAIN MoreStops(p, n) : /\ StopsAppended(p, n).added[k] = j
                                                /\ core.stops[sto[j]] = MoreStops(p, n)[k]
    <3>1. StopsMerged(p, n)
          BY StopsAppend
    <3>2. Placed(p.stops, n.stops, SameStops(p, n), StopsAppended(p, n).added, sto, MoreStops(p, n), j)
          BY <3>1, PlacedWell DEF StopsMerged, StopsAppended
    <3> QED BY <1>1, <3>2 DEF Placed
  <2>2. CASE sto[j] \in DOMAIN p.stops /\ <<sto[j], j>> \in SameStops(p, n)
        BY <1>2, <2>1, <2>2 DEF SameStops
  <2>3. CASE \E k \in DOMAIN MoreStops(p, n) : /\ StopsAppended(p, n).added[k] = j
                                               /\ core.stops[sto[j]] = MoreStops(p, n)[k]
        BY <2>1, <2>3, StopsAppend
  <2> QED BY <2>1, <2>2, <2>3
<1>4. /\ Tidy(core.routes, rto) /\ DOMAIN rto = DOMAIN n.routes
      /\ \A i \in DOMAIN p.routes : i \in DOMAIN core.routes /\ core.routes[i] = p.routes[i]
  <2>1. RoutesMerged(p, n)
        BY RoutesAppend
  <2> QED BY <1>1, <2>1, PlacedWell DEF RoutesMerged, RoutesAppended
<1>5. ASSUME NEW j \in DOMAIN n.routes
      PROVE  rto[j] \in DOMAIN core.routes /\ core.routes[rto[j]] = n.routes[j]
  <2>1. /\ rto[j] \in DOMAIN core.routes
        /\ \/ rto[j] \in DOMAIN p.routes /\ <<rto[j], j>> \in SameRoutes(p, n)
           \/ \E k \in DOMAIN MoreRoutes(p, n) : /\ RoutesAppended(p, n).added[k] = j
                                                 /\ core.routes[rto[j]] = MoreRoutes(p, n)[k]
    <3>1. RoutesMerged(p, n)
          BY RoutesAppend
    <3>2. Placed(p.routes, n.routes, SameRoutes(p, n), RoutesAppended(p, n).added, rto, MoreRoutes(p, n), j)
          BY <3>1, PlacedWell DEF RoutesMerged, RoutesAppended
    <3> QED BY <1>1, <3>2 DEF Placed
  <2>2. CASE rto[j] \in DOMAIN p.routes /\ <<rto[j], j>> \in SameRoutes(p, n)
        BY <1>4, <2>1, <2>2 DEF SameRoutes
  <2>3. CASE \E k \in DOMAIN MoreRoutes(p, n) : /\ RoutesAppended(p, n).added[k] = j
                                                /\ core.routes[rto[j]] = MoreRoutes(p, n)[k]
        BY <2>1, <2>3, RoutesAppend
  <2> QED BY <2>1, <2>2, <2>3
<1>6. /\ Tidy(core.trips, tto) /\ DOMAIN tto = DOMAIN n.trips
      /\ \A i \in DOMAIN p.trips : i \in DOMAIN core.trips /\ core.trips[i] = p.trips[i]
  <2>1. TripsMerged(p, n)
        BY TripsAppend
  <2> QED BY <1>1, <2>1, PlacedWell DEF TripsMerged, TripsAppended
<1>7. ASSUME NEW j \in DOMAIN n.trips
      PROVE  core.trips[tto[j]].id = n.trips[j].id /\ TripAlike(core, core.trips[tto[j]], n, n.trips[j])
  <2> DEFINE t == core.trips[tto[j]]
             u == n.trips[j]
  <2>1. /\ t.id = u.id
        /\ \/ tto[j] \in DOMAIN p.trips /\ <<tto[j], j>> \in SameTrips(p, n)
           \/ \E k \in DOMAIN MoreTrips(p, n) : /\ TripsAppended(p, n).added[k] = j
                                                /\ t = MoreTrips(p, n)[k]
    <3>1. TripsMerged(p, n)
          BY TripsAppend
    <3>2. Placed(p.trips, n.trips, SameTrips(p, n), TripsAppended(p, n).added, tto, MoreTrips(p, n), j)
          BY <3>1, PlacedWell DEF TripsMerged, TripsAppended
    <3> QED BY <1>1, <3>2 DEF Placed
  <2>2. u.route \in DOMAIN n.routes /\ u.calls \in Seq(DOMAIN n.stops)
        BY DEF JustBuilt, Sane, IsTrip
  <2>3. Len(u.calls) \in Nat /\ DOMAIN u.calls = 1..Len(u.calls)
        /\ \A c \in DOMAIN u.calls : u.calls[c] \in DOMAIN n.stops
        BY <2>2
  <2>4. ASSUME tto[j] \in DOMAIN p.trips, <<tto[j], j>> \in SameTrips(p, n) PROVE TripAlike(core, t, n, u)
    <3>1. t = p.trips[tto[j]]
          BY <1>6, <2>4
    <3>2. t.look = u.look /\ SameCalls(p, t, n, u) /\ <<t.route, u.route>> \in SameRoutes(p, n)
          BY <2>4, <3>1 DEF SameTrips
    <3>3. t.route \in DOMAIN p.routes /\ t.calls \in Seq(DOMAIN p.stops)
          BY <2>4, <3>1 DEF Sane, IsTrip
    <3> HIDE DEF t, u
    <3>4. t.route \in DOMAIN core.routes /\ core.routes[t.route] = n.routes[u.route]
          BY <1>4, <3>2, <3>3 DEF SameRoutes
    <3>5. /\ DOMAIN t.calls = DOMAIN u.calls
          /\ \A c \in DOMAIN u.calls : /\ t.calls[c] \in DOMAIN p.stops
                                       /\ p.stops[t.calls[c]].id = n.stops[u.calls[c]].id
      <4>1. Len(t.calls) \in Nat /\ DOMAIN t.calls = 1..Len(t.calls)
            /\ \A c \in DOMAIN t.calls : t.calls[c] \in DOMAIN p.stops
            BY <3>3
      <4> QED BY <2>3, <3>2, <4>1 DEF SameCalls
    <3> QED BY <1>2, <3>2, <3>4, <3>5 DEF TripAlike
  <2>5. ASSUME NEW k \in DOMAIN MoreTrips(p, n), TripsAppended(p, n).added[k] = j, t = MoreTrips(p, n)[k]
        PROVE  TripAlike(core, t, n, u)
    <3>1. t = [id |-> u.id, look |-> u.look, route |-> rto[u.route],
               calls |-> [c \in DOMAIN u.calls |-> sto[u.calls[c]]]]
          BY <2>5, TripsAppend
    <3> HIDE DEF t, u
    <3>2. t.look = u.look /\ t.route = rto[u.route] /\ t.calls = [c \in DOMAIN u.calls |-> sto[u.calls[c]]]
          BY <3>1
    <3>3. t.route \in DOMAIN core.routes /\ core.routes[t.route] = n.routes[u.route]
          BY <1>5, <2>2, <3>2
    <3>4. \A c \in DOMAIN u.calls : core.stops[t.calls[c]].id = n.stops[u.calls[c]].id
          BY <1>3, <2>3, <3>2
    <3> QED BY <3>2, <3>3, <3>4 DEF TripAlike
  <2> QED BY <2>1, <2>4, <2>5
<1> QED BY <1>1, <1>2, <1>3, <1>4, <1>5, <1>6, <1>7 DEF Carries, core

LEMMA CarriesMeaning ==
    ASSUME NEW core, NEW n, JustBuilt(n), Carries(core, n),
           core.services = n.services, core.calendar = n.calendar
    PROVE  Means(core) = Means(n)
<1>1. /\ n.activeStops = Numbers(n.stops) /\ n.activeRoutes = Numbers(n.routes)
      /\ n.activeTrips = Numbers(n.trips)
      BY DEF JustBuilt
<1>2. /\ Tidy(n.stops, Numbers(n.stops)) /\ Tidy(n.routes, Numbers(n.routes))
      /\ Tidy(n.trips, Numbers(n.trips))
      BY DEF JustBuilt, Sane
<1>3. LooksAlike(core.stops, core.activeStops, n.stops)
      BY <1>2, LookedUpAlike DEF Carries
<1>4. LooksAlike(core.routes, core.activeRoutes, n.routes)
  <2>1. \A j \in DOMAIN n.routes : core.routes[core.activeRoutes[j]].id = n.routes[j].id
        BY DEF Carries
  <2> QED BY <1>2, <2>1, LookedUpAlike DEF Carries
<1>5. LooksAlike(core.trips, core.activeTrips, n.trips)
      BY <1>2, LookedUpAlike DEF Carries
<1>6. [id \in Ids(core.stops, core.activeStops) |-> StopMeant(core, id)]
          = [id \in Ids(n.stops, n.activeStops) |-> StopMeant(n, id)]
  <2>1. ASSUME NEW id \in Ids(core.stops, core.activeStops) PROVE StopMeant(core, id) = StopMeant(n, id)
    <3>1. PICK j \in DOMAIN n.stops : /\ Lookup(core.stops, core.activeStops, id) = core.activeStops[j]
                                      /\ Lookup(n.stops, Numbers(n.stops), id) = j
          BY <1>3 DEF LooksAlike
    <3> QED BY <1>1, <3>1 DEF StopMeant, Carries
  <2> QED BY <1>1, <1>3, <2>1 DEF LooksAlike
<1>7. [id \in Ids(core.routes, core.activeRoutes) |-> RouteMeant(core, id)]
          = [id \in Ids(n.routes, n.activeRoutes) |-> RouteMeant(n, id)]
  <2>1. ASSUME NEW id \in Ids(core.routes, core.activeRoutes) PROVE RouteMeant(core, id) = RouteMeant(n, id)
    <3>1. PICK j \in DOMAIN n.routes : /\ Lookup(core.routes, core.activeRoutes, id) = core.activeRoutes[j]
                                       /\ Lookup(n.routes, Numbers(n.routes), id) = j
          BY <1>4 DEF LooksAlike
    <3> QED BY <1>1, <3>1 DEF RouteMeant, Carries
  <2> QED BY <1>1, <1>4, <2>1 DEF LooksAlike
<1>8. ASSUME NEW id \in Ids(core.trips, core.activeTrips) PROVE TripMeant(core, id) = TripMeant(n, id)
  <2>1. PICK j \in DOMAIN n.trips : /\ Lookup(core.trips, core.activeTrips, id) = core.activeTrips[j]
                                    /\ Lookup(n.trips, Numbers(n.trips), id) = j
        BY <1>5 DEF LooksAlike
  <2> DEFINE to == core.activeTrips
             t == core.trips[to[j]]
             u == n.trips[j]
  <2>2. (CHOOSE k \in DOMAIN to : to[k] = to[j]) = j
    <3>1. j \in DOMAIN to
          BY DEF Carries
    <3>2. \A k \in DOMAIN to : to[k] = to[j] => k = j
          BY <3>1 DEF Carries, Tidy
    <3> QED BY <3>1, <3>2
  <2>3. (CHOOSE k \in DOMAIN n.activeTrips : n.activeTrips[k] = j) = j
    <3>1. DOMAIN n.activeTrips = DOMAIN n.trips /\ \A k \in DOMAIN n.trips : n.activeTrips[k] = k
          BY <1>1 DEF Numbers
    <3> QED BY <3>1
  <2>4. TripMeant(core, id) =
            [route |-> core.routes[t.route], look |-> t.look, service |-> core.services[j],
             calls |-> [c \in DOMAIN t.calls |-> core.stops[t.calls[c]].id]]
        BY <2>1, <2>2 DEF TripMeant
  <2>5. TripMeant(n, id) =
            [route |-> n.routes[u.route], look |-> u.look, service |-> n.services[j],
             calls |-> [c \in DOMAIN u.calls |-> n.stops[u.calls[c]].id]]
        BY <1>1, <2>1, <2>3 DEF TripMeant
  <2>6. TripAlike(core, t, n, u)
        BY DEF Carries
  <2> HIDE DEF t, u
  <2>7. [c \in DOMAIN t.calls |-> core.stops[t.calls[c]].id] = [c \in DOMAIN u.calls |-> n.stops[u.calls[c]].id]
        BY <2>6 DEF TripAlike
  <2> QED BY <2>4, <2>5, <2>6, <2>7 DEF TripAlike
<1>9. [id \in Ids(core.trips, core.activeTrips) |-> TripMeant(core, id)]
          = [id \in Ids(n.trips, n.activeTrips) |-> TripMeant(n, id)]
      BY <1>1, <1>5, <1>8 DEF LooksAlike
<1> QED BY <1>6, <1>7, <1>9 DEF Means

LEMMA MergedSane ==
    ASSUME NEW p, Sane(p), NEW n, JustBuilt(n)
    PROVE  Sane(Merged(p, n))
<1> DEFINE core == Merged(p, n)
           more == MoreStops(p, n)
           gids == Gids(GidsTaken(p), NewStops(p, n))
<1>1. /\ core.stops = p.stops \o more
      /\ core.routes = p.routes \o MoreRoutes(p, n)
      /\ core.trips = p.trips \o MoreTrips(p, n)
      BY MergedTables
<1>2. Carries(core, n)
      BY MergedCarries
<1> HIDE DEF core
<1>3. /\ \A i \in DOMAIN p.stops : i \in DOMAIN core.stops /\ core.stops[i] = p.stops[i]
      /\ \A k \in DOMAIN more : core.stops[Len(p.stops) + k] = more[k]
      /\ \A i \in DOMAIN core.stops : i \in DOMAIN p.stops \/ \E k \in DOMAIN more : i = Len(p.stops) + k
  <2>1. Grown(p.stops, more)
    <3>1. StopsMerged(p, n)
          BY StopsAppend
    <3> QED BY <3>1, GrownWell DEF StopsMerged
  <2> HIDE DEF more
  <2> QED BY <1>1, <2>1 DEF Grown, more
<1>4. /\ \A i \in DOMAIN p.routes : i \in DOMAIN core.routes /\ core.routes[i] = p.routes[i]
      /\ \A k \in DOMAIN MoreRoutes(p, n) : core.routes[Len(p.routes) + k] = MoreRoutes(p, n)[k]
      /\ \A i \in DOMAIN core.routes : \/ i \in DOMAIN p.routes
                                       \/ \E k \in DOMAIN MoreRoutes(p, n) : i = Len(p.routes) + k
  <2>1. Grown(p.routes, MoreRoutes(p, n))
    <3>1. RoutesMerged(p, n)
          BY RoutesAppend
    <3> QED BY <3>1, GrownWell DEF RoutesMerged
  <2> QED BY <1>1, <2>1 DEF Grown
<1>5. /\ \A i \in DOMAIN p.trips : i \in DOMAIN core.trips /\ core.trips[i] = p.trips[i]
      /\ \A k \in DOMAIN MoreTrips(p, n) : core.trips[Len(p.trips) + k] = MoreTrips(p, n)[k]
      /\ \A i \in DOMAIN core.trips : \/ i \in DOMAIN p.trips
                                      \/ \E k \in DOMAIN MoreTrips(p, n) : i = Len(p.trips) + k
      BY <1>1, TripsAppend DEF TripsMerged, WellAppended
<1>6. \A k \in DOMAIN more : more[k] = [id |-> more[k].id, look |-> more[k].look, gid |-> more[k].gid]
                             /\ more[k].gid = gids[k]
      BY StopsAppend
<1>7. \A i \in DOMAIN core.stops : IsStop(core.stops[i])
  <2> TAKE i \in DOMAIN core.stops
  <2>1. CASE i \in DOMAIN p.stops
        BY <1>3, <2>1 DEF Sane
  <2>2. CASE i \notin DOMAIN p.stops
    <3>1. PICK k \in DOMAIN more : i = Len(p.stops) + k
          BY <1>3, <2>2
    <3>2. core.stops[i] = more[k]
          BY <1>3, <3>1
    <3> HIDE DEF more
    <3> QED BY <1>6, <3>2 DEF IsStop
  <2> QED BY <2>1, <2>2
<1>8. \A i, j \in DOMAIN core.stops : core.stops[i].gid = core.stops[j].gid => i = j
  <2>1. ASSUME NEW i \in DOMAIN p.stops PROVE core.stops[i].gid \in GidsTaken(p)
        BY <1>3 DEF GidsTaken, Range
  <2>2. ASSUME NEW k \in DOMAIN more
        PROVE  /\ core.stops[Len(p.stops) + k].gid = gids[k] /\ gids[k] \notin GidsTaken(p)
               /\ k \in DOMAIN NewStops(p, n)
    <3>1. AllNew(GidsTaken(p), NewStops(p, n), gids)
          BY StopsAppend
    <3>2. k \in DOMAIN NewStops(p, n)
          BY DEF MoreStops
    <3>3. core.stops[Len(p.stops) + k].gid = gids[k]
          BY <1>3, <1>6
    <3> HIDE DEF gids
    <3> QED BY <3>1, <3>2, <3>3 DEF AllNew
  <2>3. \A k, l \in DOMAIN more : gids[k] = gids[l] => k = l
    <3>1. AllNew(GidsTaken(p), NewStops(p, n), gids)
          BY StopsAppend
    <3> HIDE DEF gids
    <3> QED BY <2>2, <3>1 DEF AllNew
  <2> TAKE i, j \in DOMAIN core.stops
  <2> HAVE core.stops[i].gid = core.stops[j].gid
  <2> HIDE DEF gids, more
  <2>4. CASE i \in DOMAIN p.stops /\ j \in DOMAIN p.stops
        BY <1>3, <2>4 DEF Sane
  <2>5. CASE i \notin DOMAIN p.stops /\ j \notin DOMAIN p.stops
    <3>1. PICK k \in DOMAIN more : i = Len(p.stops) + k
          BY <1>3, <2>5
    <3>2. PICK l \in DOMAIN more : j = Len(p.stops) + l
          BY <1>3, <2>5
    <3>3. gids[k] = gids[l]
          BY <2>2, <3>1, <3>2
    <3> QED BY <2>3, <3>1, <3>2, <3>3
  <2>6. CASE i \in DOMAIN p.stops /\ j \notin DOMAIN p.stops
    <3>1. PICK l \in DOMAIN more : j = Len(p.stops) + l
          BY <1>3, <2>6
    <3> QED BY <2>1, <2>2, <2>6, <3>1
  <2>7. CASE i \notin DOMAIN p.stops /\ j \in DOMAIN p.stops
    <3>1. PICK k \in DOMAIN more : i = Len(p.stops) + k
          BY <1>3, <2>7
    <3> QED BY <2>1, <2>2, <2>7, <3>1
  <2> QED BY <2>4, <2>5, <2>6, <2>7
<1>9. \A i \in DOMAIN core.trips : IsTrip(core, core.trips[i])
  <2> TAKE i \in DOMAIN core.trips
  <2>1. CASE i \in DOMAIN p.trips
    <3> DEFINE t == p.trips[i]
    <3>1. core.trips[i] = t /\ IsTrip(p, t)
          BY <1>5, <2>1 DEF Sane
    <3>2. t.route \in DOMAIN core.routes
          BY <1>4, <3>1 DEF IsTrip
    <3>3. t.calls \in Seq(DOMAIN core.stops)
      <4>1. t.calls \in Seq(DOMAIN p.stops) /\ DOMAIN p.stops \subseteq DOMAIN core.stops
            BY <1>3, <3>1 DEF IsTrip
      <4> HIDE DEF t
      <4>2. Len(t.calls) \in Nat /\ t.calls \in [1..Len(t.calls) -> DOMAIN p.stops]
            BY <4>1
      <4>3. t.calls \in [1..Len(t.calls) -> DOMAIN core.stops]
            BY <4>1, <4>2
      <4> QED BY <4>2, <4>3
    <3> HIDE DEF t
    <3> QED BY <3>1, <3>2, <3>3 DEF IsTrip
  <2>2. CASE i \notin DOMAIN p.trips
    <3>1. PICK k \in DOMAIN MoreTrips(p, n) : i = Len(p.trips) + k
          BY <1>5, <2>2
    <3> DEFINE u == n.trips[TripsAppended(p, n).added[k]]
               sto == core.activeStops
               rto == core.activeRoutes
               t == core.trips[i]
    <3>2. /\ TripsAppended(p, n).added[k] \in DOMAIN n.trips
          /\ t = [id |-> u.id, look |-> u.look, route |-> rto[u.route],
                  calls |-> [c \in DOMAIN u.calls |-> sto[u.calls[c]]]]
      <4>1. rto = RoutesAppended(p, n).to /\ sto = StopsAppended(p, n).to
            BY MergedTables DEF core
      <4>2. t = MoreTrips(p, n)[k]
            BY <1>5, <3>1
      <4> HIDE DEF sto, rto, t
      <4> QED BY <3>1, <4>1, <4>2, TripsAppend
    <3>3. u.route \in DOMAIN n.routes /\ u.calls \in Seq(DOMAIN n.stops)
          BY <3>2 DEF JustBuilt, Sane, IsTrip
    <3>4. /\ \A j \in DOMAIN n.stops : sto[j] \in DOMAIN core.stops
          /\ \A j \in DOMAIN n.routes : rto[j] \in DOMAIN core.routes
          BY <1>2 DEF Carries
    <3> HIDE DEF u, t, sto, rto
    <3>5. /\ t.id = u.id /\ t.look = u.look /\ t.route = rto[u.route]
          /\ t.calls = [c \in DOMAIN u.calls |-> sto[u.calls[c]]]
          /\ t = [id |-> t.id, look |-> t.look, route |-> t.route, calls |-> t.calls]
          BY <3>2
    <3>6. Len(u.calls) \in Nat /\ u.calls \in [1..Len(u.calls) -> DOMAIN n.stops]
          BY <3>3
    <3>7. t.calls \in [1..Len(u.calls) -> DOMAIN core.stops]
          BY <3>4, <3>5, <3>6
    <3>8. t.calls \in Seq(DOMAIN core.stops)
          BY <3>6, <3>7
    <3>9. t.route \in DOMAIN core.routes
          BY <3>3, <3>4, <3>5
    <3> QED BY <3>5, <3>8, <3>9 DEF IsTrip, t
  <2> QED BY <2>1, <2>2
<1>10. \A i \in DOMAIN core.routes : IsRoute(core.routes[i])
  <2> TAKE i \in DOMAIN core.routes
  <2>1. CASE i \in DOMAIN p.routes
        BY <1>4, <2>1 DEF Sane
  <2>2. CASE i \notin DOMAIN p.routes
    <3>1. PICK k \in DOMAIN MoreRoutes(p, n) : i = Len(p.routes) + k
          BY <1>4, <2>2
    <3>2. core.routes[i] = n.routes[RoutesAppended(p, n).added[k]]
          BY <1>4, <3>1, RoutesAppend
    <3>3. RoutesAppended(p, n).added[k] \in DOMAIN n.routes
          BY <3>1, RoutesAppend
    <3> QED BY <3>2, <3>3 DEF JustBuilt, Sane
  <2> QED BY <2>1, <2>2
<1> QED BY <1>2, <1>7, <1>8, <1>9, <1>10 DEF Sane, Carries, core

\* However often tables were merged into, those just built are what they say then.
LEMMA MergedSays ==
    ASSUME NEW p, Sane(p), NEW n, JustBuilt(n)
    PROVE  Sane(Merged(p, n)) /\ Means(Merged(p, n)) = Means(n)
<1>1. Merged(p, n).services = n.services /\ Merged(p, n).calendar = n.calendar
      BY MergedTables
<1> QED BY <1>1, MergedCarries, MergedSane, CarriesMeaning

-----------------------------------------------------------------------------
(***************************************************************************)
(* Tables that say the same                                                *)
(***************************************************************************)

LEMMA SameLength ==
    ASSUME NEW m \in Nat, NEW n \in Nat, 1..m = 1..n
    PROVE  m = n
<1>1. \A k \in Nat : k \in 1..m <=> k \in 1..n
      OBVIOUS
<1>2. m <= n
      BY <1>1
<1>3. n <= m
      BY <1>1
<1> QED BY <1>2, <1>3

LEMMA NothingJoined ==
    ASSUME NEW s, IsList(s), NEW t, DOMAIN t = {}, t = [k \in {} |-> t[k]]
    PROVE  s \o t = s
<1>1. IsList(t)
  <2>1. 1..0 = {}
        OBVIOUS
  <2> QED BY <2>1, ListOf
<1>2. Joins(s, t)
      BY <1>1, Joined
<1>3. IsList(s \o t) /\ DOMAIN (s \o t) = DOMAIN s /\ \A i \in DOMAIN s : (s \o t)[i] = s[i]
      BY <1>2 DEF Joins
<1> DEFINE u == s \o t
<1>4. /\ s \in [1..Len(s) -> Range(s)]
      /\ u \in [1..Len(u) -> Range(u)]
      BY <1>3 DEF IsList
<1>5. IsList(u) /\ DOMAIN u = DOMAIN s /\ \A i \in DOMAIN s : u[i] = s[i]
      BY <1>3
<1> HIDE DEF u
<1>6. u = s
      BY <1>4, <1>5
<1> QED BY <1>6 DEF u

\* The same ids, of the same records.
SaysTheSame(table, active, nextTable, same) ==
    /\ Ids(table, active) = Ids(nextTable, Numbers(nextTable))
    /\ \A id \in Ids(table, active) :
          <<Lookup(table, active, id), Lookup(nextTable, Numbers(nextTable), id)>> \in same

LEMMA NothingChanged ==
    ASSUME NEW table, NEW active, NEW nextTable, Tidy(nextTable, Numbers(nextTable)),
           NEW same, SaysTheSame(table, active, nextTable, same)
    PROVE  /\ Changed(table, active, nextTable, Numbers(nextTable), same) = {}
           /\ DOMAIN Appended(table, active, nextTable, same).added = {}
<1>1. Changed(table, active, nextTable, Numbers(nextTable), same) = {}
      BY DEF SaysTheSame, Changed
<1>2. New(table, active, nextTable, same) = {}
  <2>1. ASSUME NEW j \in DOMAIN nextTable PROVE j \in Kept(table, active, nextTable, same)
    <3>1. j \in Range(Numbers(nextTable))
          BY DEF Range, Numbers
    <3>2. nextTable[j].id \in Ids(nextTable, Numbers(nextTable))
          /\ Lookup(nextTable, Numbers(nextTable), nextTable[j].id) = j
          BY <3>1, LooksUp
    <3>3. nextTable[j].id \in Ids(table, active)
          BY <3>2 DEF SaysTheSame
    <3>4. <<Lookup(table, active, nextTable[j].id), j>> \in same
          BY <3>2, <3>3 DEF SaysTheSame
    <3> QED BY <3>3, <3>4 DEF Kept
  <2> QED BY <2>1 DEF New
<1>3. DOMAIN Appended(table, active, nextTable, same).added = 1..Cardinality({})
  <2>1. Appended(table, active, nextTable, same).added = Sorted(New(table, active, nextTable, same))
        BY DEF Appended, New
  <2> QED BY <1>2, <2>1 DEF Sorted
<1>4. Cardinality({}) = 0
      BY FS_EmptySet
<1>5. 1..0 = {}
      OBVIOUS
<1> QED BY <1>1, <1>3, <1>4, <1>5

\* The tables say the same as those just built.
Agree(p, n) ==
    /\ SaysTheSame(p.stops, p.activeStops, n.stops, SameStops(p, n))
    /\ SaysTheSame(p.routes, p.activeRoutes, n.routes, SameRoutes(p, n))
    /\ SaysTheSame(p.trips, p.activeTrips, n.trips, SameTrips(p, n))

LEMMA SameMeaning ==
    ASSUME NEW p, Sane(p), NEW n, JustBuilt(n), Means(p) = Means(n)
    PROVE  Agree(p, n)
<1>1. /\ n.activeStops = Numbers(n.stops) /\ n.activeRoutes = Numbers(n.routes)
      /\ n.activeTrips = Numbers(n.trips) /\ Sane(n)
      BY DEF JustBuilt
<1> DEFINE stopsOf(core) == [id \in Ids(core.stops, core.activeStops) |-> StopMeant(core, id)]
           routesOf(core) == [id \in Ids(core.routes, core.activeRoutes) |-> RouteMeant(core, id)]
           tripsOf(core) == [id \in Ids(core.trips, core.activeTrips) |-> TripMeant(core, id)]
<1>2. stopsOf(p) = stopsOf(n) /\ routesOf(p) = routesOf(n) /\ tripsOf(p) = tripsOf(n)
  <2>1. ASSUME NEW core
        PROVE  Means(core).stops = stopsOf(core) /\ Means(core).routes = routesOf(core)
               /\ Means(core).trips = tripsOf(core)
        BY DEF Means
  <2> HIDE DEF stopsOf, routesOf, tripsOf
  <2> QED BY <2>1
<1>3. /\ Ids(p.stops, p.activeStops) = Ids(n.stops, n.activeStops)
      /\ \A id \in Ids(p.stops, p.activeStops) : StopMeant(p, id) = StopMeant(n, id)
  <2>1. DOMAIN stopsOf(p) = DOMAIN stopsOf(n)
        BY <1>2
  <2>2. \A id \in Ids(p.stops, p.activeStops) : stopsOf(p)[id] = stopsOf(n)[id]
        BY <1>2
  <2> QED BY <2>1, <2>2
<1>4. /\ Ids(p.routes, p.activeRoutes) = Ids(n.routes, n.activeRoutes)
      /\ \A id \in Ids(p.routes, p.activeRoutes) : RouteMeant(p, id) = RouteMeant(n, id)
  <2>1. DOMAIN routesOf(p) = DOMAIN routesOf(n)
        BY <1>2
  <2>2. \A id \in Ids(p.routes, p.activeRoutes) : routesOf(p)[id] = routesOf(n)[id]
        BY <1>2
  <2> QED BY <2>1, <2>2
<1>5. /\ Ids(p.trips, p.activeTrips) = Ids(n.trips, n.activeTrips)
      /\ \A id \in Ids(p.trips, p.activeTrips) : TripMeant(p, id) = TripMeant(n, id)
  <2>1. DOMAIN tripsOf(p) = DOMAIN tripsOf(n)
        BY <1>2
  <2>2. \A id \in Ids(p.trips, p.activeTrips) : tripsOf(p)[id] = tripsOf(n)[id]
        BY <1>2
  <2> QED BY <2>1, <2>2
<1> HIDE DEF stopsOf, routesOf, tripsOf
<1>6. /\ Tidy(p.stops, p.activeStops) /\ Tidy(n.stops, n.activeStops)
      /\ Tidy(p.routes, p.activeRoutes) /\ Tidy(n.routes, n.activeRoutes)
      /\ Tidy(p.trips, p.activeTrips) /\ Tidy(n.trips, n.activeTrips)
      BY <1>1 DEF Sane
<1>7. SaysTheSame(p.stops, p.activeStops, n.stops, SameStops(p, n))
  <2>1. ASSUME NEW id \in Ids(p.stops, p.activeStops)
        PROVE  <<Lookup(p.stops, p.activeStops, id), Lookup(n.stops, n.activeStops, id)>> \in SameStops(p, n)
    <3> DEFINE i == Lookup(p.stops, p.activeStops, id)
               j == Lookup(n.stops, n.activeStops, id)
    <3>1. i \in DOMAIN p.stops /\ p.stops[i].id = id /\ j \in DOMAIN n.stops /\ n.stops[j].id = id
          BY <1>3, <1>6, LooksUp
    <3>2. p.stops[i].look = n.stops[j].look
          BY <1>3 DEF StopMeant
    <3> HIDE DEF i, j
    <3> QED BY <3>1, <3>2 DEF SameStops, i, j
  <2> QED BY <1>1, <1>3, <2>1 DEF SaysTheSame
<1>8. SaysTheSame(p.routes, p.activeRoutes, n.routes, SameRoutes(p, n))
  <2>1. ASSUME NEW id \in Ids(p.routes, p.activeRoutes)
        PROVE  <<Lookup(p.routes, p.activeRoutes, id), Lookup(n.routes, n.activeRoutes, id)>> \in SameRoutes(p, n)
    <3> DEFINE i == Lookup(p.routes, p.activeRoutes, id)
               j == Lookup(n.routes, n.activeRoutes, id)
    <3>1. i \in DOMAIN p.routes /\ p.routes[i].id = id /\ j \in DOMAIN n.routes /\ n.routes[j].id = id
          BY <1>4, <1>6, LooksUp
    <3>2. p.routes[i].look = n.routes[j].look
          BY <1>4 DEF RouteMeant
    <3> HIDE DEF i, j
    <3>3. IsRoute(p.routes[i]) /\ IsRoute(n.routes[j])
          BY <1>1, <3>1 DEF Sane
    <3>4. p.routes[i] = n.routes[j]
          BY <3>1, <3>2, <3>3 DEF IsRoute
    <3> QED BY <3>1, <3>4 DEF SameRoutes, i, j
  <2> QED BY <1>1, <1>4, <2>1 DEF SaysTheSame
<1>9. SaysTheSame(p.trips, p.activeTrips, n.trips, SameTrips(p, n))
  <2>1. ASSUME NEW id \in Ids(p.trips, p.activeTrips)
        PROVE  <<Lookup(p.trips, p.activeTrips, id), Lookup(n.trips, n.activeTrips, id)>> \in SameTrips(p, n)
    <3> DEFINE i == Lookup(p.trips, p.activeTrips, id)
               j == Lookup(n.trips, n.activeTrips, id)
               s == p.trips[i]
               t == n.trips[j]
               calls(core, u) == [c \in DOMAIN u.calls |-> core.stops[u.calls[c]].id]
    <3>1. i \in DOMAIN p.trips /\ j \in DOMAIN n.trips
          BY <1>5, <1>6, LooksUp
    <3>2. TripMeant(p, id) = [route |-> p.routes[s.route], look |-> s.look,
                              service |-> TripMeant(p, id).service, calls |-> calls(p, s)]
          BY DEF TripMeant
    <3>3. TripMeant(n, id) = [route |-> n.routes[t.route], look |-> t.look,
                              service |-> TripMeant(n, id).service, calls |-> calls(n, t)]
          BY DEF TripMeant
    <3>4. TripMeant(p, id) = TripMeant(n, id)
          BY <1>5
    <3>5. IsTrip(p, s) /\ IsTrip(n, t)
          BY <1>1, <3>1 DEF Sane
    <3> HIDE DEF calls, s, t
    <3>6. p.routes[s.route] = n.routes[t.route] /\ s.look = t.look /\ calls(p, s) = calls(n, t)
          BY <3>2, <3>3, <3>4
    <3>7. SameCalls(p, s, n, t)
      <4>1. DOMAIN s.calls = DOMAIN t.calls
            BY <3>6 DEF calls
      <4>2. \A k \in DOMAIN s.calls : p.stops[s.calls[k]].id = n.stops[t.calls[k]].id
        <5> TAKE k \in DOMAIN s.calls
        <5>1. calls(p, s)[k] = p.stops[s.calls[k]].id
              BY DEF calls
        <5>2. calls(n, t)[k] = n.stops[t.calls[k]].id
              BY <4>1 DEF calls
        <5> QED BY <3>6, <5>1, <5>2
      <4>3. Len(s.calls) = Len(t.calls)
        <5>1. s.calls \in Seq(DOMAIN p.stops) /\ t.calls \in Seq(DOMAIN n.stops)
              BY <3>5 DEF IsTrip
        <5>2. /\ Len(s.calls) \in Nat /\ DOMAIN s.calls = 1..Len(s.calls)
              /\ Len(t.calls) \in Nat /\ DOMAIN t.calls = 1..Len(t.calls)
              BY <5>1
        <5> QED BY <4>1, <5>2, SameLength
      <4> QED BY <4>2, <4>3 DEF SameCalls
    <3>8. <<s.route, t.route>> \in SameRoutes(p, n)
          BY <3>5, <3>6 DEF IsTrip, SameRoutes
    <3> HIDE DEF i, j
    <3> QED BY <3>1, <3>6, <3>7, <3>8 DEF SameTrips, s, t, i, j
  <2> QED BY <1>1, <1>5, <2>1 DEF SaysTheSame
<1> QED BY <1>7, <1>8, <1>9 DEF Agree

LEMMA AgreedSlab ==
    ASSUME NEW p, Sane(p), NEW n, JustBuilt(n), Agree(p, n)
    PROVE  /\ Divergence(p, n).mutated = 0 /\ Divergence(p, n).total \in Nat
           /\ Slab(Merged(p, n)) = Slab(p)
<1>1. /\ n.activeStops = Numbers(n.stops) /\ n.activeRoutes = Numbers(n.routes)
      /\ n.activeTrips = Numbers(n.trips) /\ Sane(n)
      BY DEF JustBuilt
<1>2. /\ Tidy(n.stops, Numbers(n.stops)) /\ Tidy(n.routes, Numbers(n.routes))
      /\ Tidy(n.trips, Numbers(n.trips)) /\ IsList(p.stops) /\ IsList(p.routes) /\ IsList(p.trips)
      BY <1>1 DEF Sane, Tidy
<1>3. /\ Changed(p.stops, p.activeStops, n.stops, n.activeStops, SameStops(p, n)) = {}
      /\ DOMAIN StopsAppended(p, n).added = {}
      BY <1>1, <1>2, NothingChanged DEF Agree, StopsAppended
<1>4. /\ Changed(p.routes, p.activeRoutes, n.routes, n.activeRoutes, SameRoutes(p, n)) = {}
      /\ DOMAIN RoutesAppended(p, n).added = {}
      BY <1>1, <1>2, NothingChanged DEF Agree, RoutesAppended
<1>5. /\ Changed(p.trips, p.activeTrips, n.trips, n.activeTrips, SameTrips(p, n)) = {}
      /\ DOMAIN TripsAppended(p, n).added = {}
      BY <1>1, <1>2, NothingChanged DEF Agree, TripsAppended
<1>6. Cardinality({}) = 0
      BY FS_EmptySet
<1>7. Divergence(p, n).mutated = 0
  <2>1. Divergence(p, n).mutated =
            Cardinality(Changed(p.stops, p.activeStops, n.stops, n.activeStops, SameStops(p, n)))
            + Cardinality(Changed(p.routes, p.activeRoutes, n.routes, n.activeRoutes, SameRoutes(p, n)))
            + Cardinality(Changed(p.trips, p.activeTrips, n.trips, n.activeTrips, SameTrips(p, n)))
        BY DEF Divergence
  <2>2. Divergence(p, n).mutated = Cardinality({}) + Cardinality({}) + Cardinality({})
        BY <1>3, <1>4, <1>5, <2>1
  <2> QED BY <1>6, <2>2
<1>8. Divergence(p, n).total \in Nat
  <2> DEFINE size(f, g) == IF Len(f) > Len(g) THEN Len(f) ELSE Len(g)
             a == size(p.activeStops, n.activeStops)
             b == size(p.activeRoutes, n.activeRoutes)
             c == size(p.activeTrips, n.activeTrips)
  <2>1. /\ Len(p.activeStops) \in Nat /\ Len(n.activeStops) \in Nat
        /\ Len(p.activeRoutes) \in Nat /\ Len(n.activeRoutes) \in Nat
        /\ Len(p.activeTrips) \in Nat /\ Len(n.activeTrips) \in Nat
        BY <1>1 DEF Sane, Tidy
  <2>2. a \in Nat /\ b \in Nat /\ c \in Nat
        BY <2>1
  <2>3. Divergence(p, n).total = a + b + c
        BY DEF Divergence
  <2> HIDE DEF a, b, c
  <2> QED BY <2>2, <2>3
<1>9. /\ DOMAIN MoreStops(p, n) = {} /\ MoreStops(p, n) = [k \in {} |-> MoreStops(p, n)[k]]
      /\ DOMAIN MoreRoutes(p, n) = {} /\ MoreRoutes(p, n) = [k \in {} |-> MoreRoutes(p, n)[k]]
      /\ DOMAIN MoreTrips(p, n) = {} /\ MoreTrips(p, n) = [k \in {} |-> MoreTrips(p, n)[k]]
      BY <1>3, <1>4, <1>5 DEF MoreStops, MoreRoutes, MoreTrips, NewStops
<1>10. /\ p.stops \o MoreStops(p, n) = p.stops
       /\ p.routes \o MoreRoutes(p, n) = p.routes
       /\ p.trips \o MoreTrips(p, n) = p.trips
       BY <1>2, <1>9, NothingJoined
<1>11. /\ Merged(p, n).stops = p.stops /\ Merged(p, n).routes = p.routes
       /\ Merged(p, n).trips = p.trips
       BY <1>10, MergedTables
<1> QED BY <1>7, <1>8, <1>11 DEF Slab

\* Of what is served and what is built, what is loaded.
LoadedInto(p, n) ==
    IF Divergence(p, n).mutated * Tolerance[2] <= Divergence(p, n).total * Tolerance[1]
    THEN Merged(p, n) ELSE n

\* Loading what is served already changes no slot.
LEMMA ServedAgain ==
    ASSUME NEW p, Sane(p), NEW n, JustBuilt(n), Means(p) = Means(n)
    PROVE  Slab(LoadedInto(p, n)) = Slab(p)
<1>1. /\ Divergence(p, n).mutated = 0 /\ Divergence(p, n).total \in Nat
      /\ Slab(Merged(p, n)) = Slab(p)
      BY SameMeaning, AgreedSlab
<1> DEFINE total == Divergence(p, n).total
           a == Tolerance[1]
           b == Tolerance[2]
<1>2. a \in Nat /\ b \in Nat /\ total \in Nat
      BY <1>1, ReloadAssumption
<1> HIDE DEF total, a, b
<1>3. 0 * b <= total * a
  <2>1. total * a \in Nat /\ 0 * b = 0
        BY <1>2
  <2> QED BY <2>1
<1> QED BY <1>1, <1>3 DEF LoadedInto, total, a, b
-----------------------------------------------------------------------------
(***************************************************************************)
(* The rows left are those a full build gives                              *)
(***************************************************************************)

LEMMA WithinRadiusOfEachOther ==
    ASSUME NEW s, NEW t
    PROVE  WithinRadius(s, t) <=> WithinRadius(t, s)
<1> DEFINE p == Place(s)
           q == Place(t)
<1>1. {p - q, q - p} = {q - p, p - q}
      OBVIOUS
<1>2. Straight(p, q) = Straight(q, p)
      BY <1>1 DEF Straight
<1> QED BY <1>2 DEF WithinRadius

\* The slots a row is of: those near, and of them those nearer.
Near(stops, i, x) ==
    {j \in DOMAIN stops \ {i} :
        WithinRadius(stops[i], stops[j]) /\ Seconds(x, stops[i], stops[j]) <= WalkRadius}
Nearer(stops, i, x, j) ==
    {k \in Near(stops, i, x) :
        \/ Seconds(x, stops[i], stops[k]) < Seconds(x, stops[i], stops[j])
        \/ Seconds(x, stops[i], stops[k]) = Seconds(x, stops[i], stops[j]) /\ k < j}

\* Slots out of the radius add nothing to a row.
LEMMA TransfersSame ==
    ASSUME NEW s, NEW t, NEW i \in DOMAIN s, NEW x,
           \A j \in DOMAIN s : j \in DOMAIN t /\ t[j] = s[j],
           \A j \in DOMAIN t \ DOMAIN s : ~WithinRadius(t[i], t[j])
    PROVE  Transfers(t, i, x) = Transfers(s, i, x)
<1>1. Near(t, i, x) = Near(s, i, x)
      BY DEF Near
<1>2. \A j \in Near(s, i, x) : t[j] = s[j]
      BY DEF Near
<1>3. t[i] = s[i]
      OBVIOUS
<1>4. ASSUME NEW j \in Near(s, i, x) PROVE Nearer(t, i, x, j) = Nearer(s, i, x, j)
  <2>1. Nearer(t, i, x, j) =
            {k \in Near(s, i, x) :
                \/ Seconds(x, s[i], t[k]) < Seconds(x, s[i], t[j])
                \/ Seconds(x, s[i], t[k]) = Seconds(x, s[i], t[j]) /\ k < j}
        BY <1>1, <1>3 DEF Nearer
  <2> QED BY <1>2, <1>4, <2>1 DEF Nearer
<1> DEFINE chosen(u) == {k \in Near(u, i, x) : Cardinality(Nearer(u, i, x, k)) < MaxCandidates}
           row(u) == {[stop |-> j, secs |-> Seconds(x, u[i], u[j])] : j \in chosen(u)}
<1>5. chosen(t) = chosen(s)
      BY <1>1, <1>4
<1>6. \A j \in chosen(s) : Seconds(x, t[i], t[j]) = Seconds(x, s[i], s[j])
      BY <1>2, <1>3
<1>7. row(t) = row(s)
  <2> HIDE DEF chosen
  <2> QED BY <1>5, <1>6
<1>8. Transfers(s, i, x) = [on |-> x, to |-> row(s)]
      BY DEF Transfers, Near, Nearer
<1>9. Transfers(t, i, x) = [on |-> x, to |-> row(t)]
      BY DEF Transfers, Near, Nearer
<1> QED BY <1>7, <1>8, <1>9

\* A stop that is not affected was served at its slot, and has there the row a
\* full build over the merged tables gives it.
LEMMA UnaffectedFit ==
    ASSUME NEW p, Sane(p), NEW n, JustBuilt(n),
           NEW i \in Range(Merged(p, n).activeStops), i \notin Affected(p, Merged(p, n))
    PROVE  /\ i \in Range(p.activeStops) /\ i \in DOMAIN p.stops
           /\ \A x : Transfers(Merged(p, n).stops, i, x) = Transfers(p.stops, i, x)
<1> DEFINE core == Merged(p, n)
           to == core.activeStops
           kept == Kept(p.stops, p.activeStops, n.stops, SameStops(p, n))
           more == MoreStops(p, n)
           added == StopsAppended(p, n).added
           changed == Changed(p.stops, p.activeStops, core.stops, to, SameStops(p, core))
<1>1. core.stops = p.stops \o more /\ to = StopsAppended(p, n).to
      BY MergedTables
<1>2. Carries(core, n)
      BY MergedCarries
<1>3. StopsMerged(p, n)
      BY StopsAppend
<1>4. /\ Tidy(core.stops, to) /\ DOMAIN to = DOMAIN n.stops
      /\ \A j \in DOMAIN p.stops : j \in DOMAIN core.stops /\ core.stops[j] = p.stops[j]
      /\ \A j \in kept : to[j] \in Range(p.activeStops) /\ to[j] \in DOMAIN p.stops
      /\ \A k \in DOMAIN more : added[k] \in DOMAIN n.stops /\ to[added[k]] = Len(p.stops) + k
      /\ \A j \in DOMAIN core.stops : j \in DOMAIN p.stops \/ \E k \in DOMAIN more : j = Len(p.stops) + k
  <2> HIDE DEF more, added, kept
  <2>1. WellAppended(p.stops, p.activeStops, n.stops, SameStops(p, n), more)
        BY <1>3 DEF StopsMerged, more
  <2>2. kept \subseteq DOMAIN n.stops
        BY DEF kept, Kept
  <2> QED BY <1>1, <2>1, <2>2 DEF WellAppended, StopsAppended, kept, added
<1>5. \A j \in DOMAIN n.stops : /\ to[j] \in DOMAIN core.stops
                                /\ core.stops[to[j]].id = n.stops[j].id
                                /\ core.stops[to[j]].look = n.stops[j].look
      BY <1>2 DEF Carries
<1>6. Affected(p, core) =
          {k \in Range(to) :
              \/ core.stops[k].id \in changed
              \/ \E s \in {p.stops[l] : l \in {m \in Range(p.activeStops) : p.stops[m].id \in changed}}
                          \union {core.stops[l] : l \in {m \in Range(to) : core.stops[m].id \in changed}} :
                    WithinRadius(s, core.stops[k])}
      BY DEF Affected
<1> HIDE DEF core, to, more, added
<1>7. ASSUME NEW j \in DOMAIN n.stops, j \notin kept PROVE core.stops[to[j]].id \in changed
  <2> DEFINE id == n.stops[j].id
             l == Lookup(p.stops, p.activeStops, id)
  <2>1. to[j] \in Range(to) /\ core.stops[to[j]].id = id
        BY <1>4, <1>5 DEF Range
  <2>2. id \in Ids(core.stops, to) /\ Lookup(core.stops, to, id) = to[j]
        BY <1>4, <2>1, LooksUp
  <2>3. CASE id \notin Ids(p.stops, p.activeStops)
        BY <2>1, <2>2, <2>3 DEF Changed
  <2>4. CASE id \in Ids(p.stops, p.activeStops)
    <3>1. l \in DOMAIN p.stops /\ p.stops[l].id = id
          BY <2>4, LooksUp DEF Sane
    <3>2. <<l, j>> \notin SameStops(p, n)
          BY <1>7, <2>4 DEF Kept
    <3> HIDE DEF l
    <3>3. p.stops[l].look # n.stops[j].look
          BY <3>1, <3>2 DEF SameStops
    <3>4. <<l, to[j]>> \notin SameStops(p, core)
          BY <1>5, <3>3 DEF SameStops
    <3>5. id \in changed
          BY <2>2, <2>4, <3>4 DEF Changed, l
    <3> QED BY <2>1, <3>5
  <2> QED BY <2>3, <2>4
<1>8. core.stops[i].id \notin changed
  <2> HIDE DEF changed
  <2> QED BY <1>6 DEF core, to
<1>9. PICK j \in DOMAIN n.stops : i = to[j]
      BY <1>4 DEF Range, core, to
<1> HIDE DEF kept
<1>10. i \in Range(p.activeStops) /\ i \in DOMAIN p.stops
       BY <1>4, <1>7, <1>8, <1>9
<1>11. ASSUME NEW l \in DOMAIN core.stops, l \notin DOMAIN p.stops
       PROVE  ~WithinRadius(core.stops[i], core.stops[l])
  <2>1. PICK k \in DOMAIN more : l = Len(p.stops) + k
        BY <1>4, <1>11
  <2>2. added[k] \in DOMAIN n.stops /\ to[added[k]] = l
        BY <1>4, <2>1
  <2>3. added[k] \notin kept
        BY <1>4, <1>11, <2>2
  <2>4. core.stops[l].id \in changed /\ l \in Range(to)
        BY <1>4, <1>7, <2>2, <2>3 DEF Range
  <2> HIDE DEF changed
  <2>5. ~WithinRadius(core.stops[l], core.stops[i])
        BY <1>6, <2>4 DEF core, to
  <2> QED BY <2>5, WithinRadiusOfEachOther
<1>12. \A x : Transfers(core.stops, i, x) = Transfers(p.stops, i, x)
       BY <1>4, <1>10, <1>11, TransfersSame
<1> QED BY <1>10, <1>12 DEF core

LEMMA FullRows ==
    ASSUME NEW stops, IsList(stops), NEW x
    PROVE  /\ IsList(FullMatrix(stops, x)) /\ DOMAIN FullMatrix(stops, x) = DOMAIN stops
           /\ \A i \in DOMAIN stops : /\ FullMatrix(stops, x)[i] = Transfers(stops, i, x)
                                      /\ Transfers(stops, i, x).on = x
<1> DEFINE rows == FullMatrix(stops, x)
<1>1. DOMAIN rows = DOMAIN stops /\ \A i \in DOMAIN stops : rows[i] = Transfers(stops, i, x)
      BY DEF FullMatrix
<1>2. rows = [i \in DOMAIN rows |-> rows[i]]
      BY DEF FullMatrix
<1>3. Len(stops) \in Nat /\ DOMAIN stops = 1..Len(stops)
      BY Listed
<1> HIDE DEF rows
<1>4. IsList(rows)
      BY <1>1, <1>2, <1>3, ListOf
<1>5. \A i \in DOMAIN stops : Transfers(stops, i, x).on = x
      BY DEF Transfers
<1> QED BY <1>1, <1>4, <1>5 DEF rows

\* Rows are never fewer than slots.
LEMMA RowsCover ==
    ASSUME NEW p, NEW n, IsList(n.stops), NEW rows, IsList(rows), NEW x
    PROVE  LET new == DifferentialMatrix(p, rows, n, x)
           IN  /\ IsList(new) /\ DOMAIN n.stops \subseteq DOMAIN new
               /\ \A i \in DOMAIN n.stops :
                     new[i] = IF i \in Affected(p, n) THEN Transfers(n.stops, i, x)
                              ELSE IF i \in DOMAIN rows THEN rows[i] ELSE [on |-> x, to |-> {}]
<1> DEFINE size == IF Len(rows) > Len(n.stops) THEN Len(rows) ELSE Len(n.stops)
           new == DifferentialMatrix(p, rows, n, x)
           row(i) == IF i \in Affected(p, n) THEN Transfers(n.stops, i, x)
                     ELSE IF i \in DOMAIN rows THEN rows[i] ELSE [on |-> x, to |-> {}]
<1>1. /\ Len(n.stops) \in Nat /\ DOMAIN n.stops = 1..Len(n.stops)
      /\ Len(rows) \in Nat
      BY Listed
<1>2. size \in Nat /\ 1..Len(n.stops) \subseteq 1..size
      BY <1>1
<1>3. new = [i \in 1..size |-> row(i)]
      BY DEF DifferentialMatrix
<1> HIDE DEF size, new, row
<1>4. DOMAIN new = 1..size /\ new = [i \in 1..size |-> new[i]] /\ \A i \in 1..size : new[i] = row(i)
      BY <1>3
<1>5. IsList(new)
      BY <1>2, <1>4, ListOf
<1>6. DOMAIN n.stops \subseteq DOMAIN new /\ \A i \in DOMAIN n.stops : new[i] = row(i)
      BY <1>1, <1>2, <1>4
<1> QED BY <1>5, <1>6 DEF new, row

\* The rows are those a full build over the tables gives, each on its extract.
RowsFit(core, rows) ==
    \A i \in Range(core.activeStops) : rows[i] = Transfers(core.stops, i, rows[i].on)

LEMMA DifferentialFits ==
    ASSUME NEW p, Sane(p), NEW n, JustBuilt(n), NEW rows, IsList(rows),
           DOMAIN p.stops \subseteq DOMAIN rows, RowsFit(p, rows), NEW x
    PROVE  RowsFit(Merged(p, n), DifferentialMatrix(p, rows, Merged(p, n), x))
<1> DEFINE core == Merged(p, n)
           new == DifferentialMatrix(p, rows, core, x)
<1>1. Sane(core)
      BY MergedSane
<1> HIDE DEF core
<1>2. IsList(core.stops) /\ Range(core.activeStops) \subseteq DOMAIN core.stops
  <2>1. Tidy(core.stops, core.activeStops)
        BY <1>1 DEF Sane
  <2> QED BY <2>1, LooksUp DEF Tidy
<1>3. ASSUME NEW i \in Range(core.activeStops)
      PROVE  new[i] = IF i \in Affected(p, core) THEN Transfers(core.stops, i, x)
                      ELSE IF i \in DOMAIN rows THEN rows[i] ELSE [on |-> x, to |-> {}]
      BY <1>2, RowsCover
<1> HIDE DEF new
<1>4. ASSUME NEW i \in Range(core.activeStops) PROVE new[i] = Transfers(core.stops, i, new[i].on)
  <2>1. CASE i \in Affected(p, core)
    <3>1. new[i] = Transfers(core.stops, i, x)
          BY <1>3, <2>1
    <3>2. Transfers(core.stops, i, x).on = x
          BY DEF Transfers
    <3> QED BY <3>1, <3>2
  <2>2. CASE i \notin Affected(p, core)
    <3>1. /\ i \in Range(p.activeStops) /\ i \in DOMAIN p.stops
          /\ \A y : Transfers(core.stops, i, y) = Transfers(p.stops, i, y)
          BY <2>2, UnaffectedFit DEF core
    <3>2. new[i] = rows[i]
          BY <1>3, <2>2, <3>1
    <3>3. rows[i] = Transfers(p.stops, i, rows[i].on)
          BY <3>1 DEF RowsFit
    <3> QED BY <3>1, <3>2, <3>3
  <2> QED BY <2>1, <2>2
<1> QED BY <1>4 DEF RowsFit, core, new

-----------------------------------------------------------------------------
-----------------------------------------------------------------------------
(***************************************************************************)
(* What is loaded says what its archive says                               *)
(***************************************************************************)

GtfsVersions == 1..Newest["gtfs"]
ArchiveFiles == [version : GtfsVersions, mtime : 0..mtime["gtfs"]]
Writing == {<<"write">>, <<"decide">>, <<"open">>}
Loads == {<<"compare">>, <<"read">>} \union Writing

\* Every archive read is one the server published, and is there when it is read.
FilesKnown ==
    /\ DOMAIN cached = Sources /\ DOMAIN remote = Sources /\ DOMAIN mtime = Sources
    /\ mtime["gtfs"] \in Nat
    /\ remote["gtfs"] \in GtfsVersions
    /\ phase \in SyncPhases \union Loads \union {<<"down">>, <<"idle">>}
    /\ phase \in {<<"gtfs", "replace">>, <<"gtfs", "rename">>} => got \in GtfsVersions
    /\ Present("gtfs") => cached["gtfs"] \in ArchiveFiles
    /\ phase \in Loads \union {<<"gtfs", "note">>} => Present("gtfs")

\* Tables are fit to be merged into, and say what the archive they are of says.
TablesKnown ==
    /\ phase \notin Writing => next = NoFile
    /\ phase \in Writing =>
           Sane(next.core) /\ Means(next.core) = Says(Versions[cached["gtfs"].version])
    /\ engine # NoFile =>
           /\ engine = [inputs |-> engine.inputs, core |-> engine.core, store |-> engine.store,
                        transfers |-> engine.transfers, refit |-> engine.refit]
           /\ Sane(engine.core)
    /\ cache \notin {NoFile, Cut} =>
           Sane(cache.core) /\ Means(cache.core) = Says(Versions[cache.inputs["gtfs"].version])

Served == FilesKnown /\ TablesKnown

LEMMA Phases == \A a, b, c : <<a>> # <<b, c>>
<1> TAKE a, b, c
<1>1. Len(<<a>>) = 1 /\ Len(<<b, c>>) = 2
      OBVIOUS
<1> QED BY <1>1

LEMMA InitServed == ASSUME Init PROVE Served
<1>1. FilesKnown
      BY SyncAssumption, Phases DEF Init, SyncInit, FilesKnown, GtfsVersions, Present, SyncPhases, Sources, Loads, Writing
<1>2. TablesKnown
      BY DEF Init, SyncInit, TablesKnown, Writing
<1> QED BY <1>1, <1>2 DEF Served

\* Bringing the inputs to disk leaves what is loaded alone.
LEMMA PublishServed ==
    ASSUME Served, NEW s \in Sources, Publish(s), UNCHANGED loading
    PROVE  Served'
<1>1. remote'["gtfs"] \in GtfsVersions /\ DOMAIN remote' = Sources
      BY SyncAssumption DEF Served, FilesKnown, Publish, GtfsVersions, Sources
<1>2. phase' = phase /\ cached' = cached /\ mtime' = mtime /\ got' = got
      BY DEF Publish, disk
<1>3. FilesKnown'
      BY <1>1, <1>2 DEF Served, FilesKnown, Present, ArchiveFiles
<1>4. TablesKnown'
      BY <1>2 DEF Served, TablesKnown, loading
<1> QED BY <1>3, <1>4 DEF Served

LEMMA SyncFiles ==
    ASSUME FilesKnown, SyncStep \/ SyncFault
    PROVE  FilesKnown' /\ phase \notin Writing /\ phase' \notin Writing
<1> USE Phases DEF FilesKnown, SyncPhases, Sources, Loads, Writing, At, Present, disk
<1>1. ASSUME NEW s \in Sources, Keep(s) \/ KeepUnreached(s) \/ StoreSidecar(s) \/ StoreSidecarFails(s)
      PROVE  FilesKnown' /\ phase \notin Writing /\ phase' \notin Writing
      BY <1>1 DEF Keep, KeepUnreached, StoreSidecar, StoreSidecarFails, Done, ArchiveFiles
<1>2. ASSUME FetchArchive PROVE FilesKnown' /\ phase \notin Writing /\ phase' \notin Writing
  <2>1. Present("gtfs") /\ cached["gtfs"].version = remote["gtfs"] => cached["gtfs"].version \in GtfsVersions
        BY DEF ArchiveFiles
  <2> QED BY <1>2, <2>1 DEF FetchArchive, Downloads, ArchiveFiles
<1>3. ASSUME FetchArchiveFails \/ FetchExtract \/ RangeRefused \/ FetchExtractFails
      PROVE  FilesKnown' /\ phase \notin Writing /\ phase' \notin Writing
  <2>1. UNCHANGED <<remote, cached, mtime>>
        BY <1>3 DEF FetchArchiveFails, FetchExtract, RangeRefused, FetchExtractFails
  <2>2. /\ phase \in {<<"gtfs", "probe">>, <<"osm", "probe">>}
        /\ phase' \in {<<"down">>, <<"idle">>, <<"osm", "replace">>, <<"gtfs", "probe">>}
        BY <1>3 DEF FetchArchiveFails, FetchExtract, RangeRefused, FetchExtractFails, Downloads, Abandon, Done
  <2> QED BY <2>1, <2>2 DEF ArchiveFiles
<1>4. ASSUME NEW s \in Sources, RemoveCached(s)
      PROVE  FilesKnown' /\ phase \notin Writing /\ phase' \notin Writing
      BY <1>4 DEF RemoveCached, ArchiveFiles
<1>5. ASSUME NEW s \in Sources, RenameDownload(s)
      PROVE  FilesKnown' /\ phase \notin Writing /\ phase' \notin Writing
  <2>1. CASE s = "osm"
        BY <1>5, <2>1 DEF RenameDownload, ArchiveFiles
  <2>2. CASE s = "gtfs"
    <3>1. /\ phase = <<"gtfs", "rename">> /\ phase' = <<"gtfs", "note">>
          /\ cached' = [cached EXCEPT !["gtfs"] = [version |-> got, mtime |-> mtime["gtfs"] + 1]]
          /\ mtime' = [mtime EXCEPT !["gtfs"] = @ + 1] /\ remote' = remote
          BY <1>5, <2>2 DEF RenameDownload
    <3>2. got \in GtfsVersions /\ got \in Nat
          BY <3>1, SyncAssumption DEF GtfsVersions
    <3>3. /\ mtime'["gtfs"] = mtime["gtfs"] + 1 /\ mtime'["gtfs"] \in Nat
          /\ cached'["gtfs"] = [version |-> got, mtime |-> mtime["gtfs"] + 1]
          BY <3>1
    <3>4. cached'["gtfs"] \in ArchiveFiles'
          BY <3>2, <3>3 DEF ArchiveFiles, GtfsVersions
    <3>5. cached'["gtfs"] # NoFile
          BY <3>2, <3>3, SyncAssumption
    <3>6. DOMAIN cached' = Sources /\ DOMAIN mtime' = Sources /\ DOMAIN remote' = Sources
          BY <3>1
    <3> QED BY <3>1, <3>3, <3>4, <3>5, <3>6
  <2> QED BY <2>1, <2>2
<1>6. ASSUME NEW s \in Sources, ReplaceFails(s)
      PROVE  FilesKnown' /\ phase \notin Writing /\ phase' \notin Writing
      BY <1>6 DEF ReplaceFails, Abandon, ArchiveFiles
<1> QED BY <1>1, <1>2, <1>3, <1>4, <1>5, <1>6 DEF SyncStep, SyncFault

LEMMA SyncServed ==
    ASSUME Served, SyncStep \/ SyncFault, UNCHANGED loading
    PROVE  Served'
<1>1. FilesKnown' /\ phase \notin Writing /\ phase' \notin Writing
      BY SyncFiles DEF Served
<1>2. TablesKnown'
      BY <1>1 DEF Served, TablesKnown, loading
<1> QED BY <1>1, <1>2 DEF Served
\* Loading leaves the files alone.
LEMMA LoadFiles ==
    ASSUME FilesKnown, LoadStep \/ LoadFault
    PROVE  FilesKnown' /\ cached' = cached
<1>1. cached' = cached /\ remote' = remote /\ mtime' = mtime /\ got' = got
      BY DEF LoadStep, LoadFault, Start, BeginPoll, Compare, ReadCache, BuildCore, WriteCache, Reuse,
             BuildStore, FindStore, Swap, IndexPanics, OpenFails, WriteCacheCut, BuildStoreCut, Crash,
             Go, GoFaulty, disk
<1>2. \/ phase' \in {<<"osm", "probe">>, <<"down">>, <<"idle">>}
      \/ phase \in Loads /\ phase' \in Loads
      BY DEF LoadStep, LoadFault, Start, BeginPoll, Compare, ReadCache, BuildCore, WriteCache, Reuse,
             BuildStore, FindStore, Swap, IndexPanics, OpenFails, WriteCacheCut, BuildStoreCut, Crash,
             Go, GoFaulty, Loads, Writing
<1> QED BY <1>1, <1>2, Phases DEF FilesKnown, SyncPhases, Sources, Loads, Writing, Present, ArchiveFiles

\* The version read is one there is.
LEMMA ReadKnown ==
    ASSUME FilesKnown, phase \in Loads
    PROVE  /\ cached["gtfs"].version \in DOMAIN Versions
           /\ JustBuilt(Built[cached["gtfs"].version])
           /\ Means(Built[cached["gtfs"].version]) = Says(Versions[cached["gtfs"].version])
<1> DEFINE v == cached["gtfs"].version
<1>1. v \in DOMAIN Versions
      BY ReloadAssumption DEF FilesKnown, GtfsVersions, ArchiveFiles
<1>2. Archive(Versions[v]) /\ Built[v] = Build(Versions[v])
      BY <1>1, ReloadAssumption DEF Built
<1> HIDE DEF v
<1>3. JustBuilt(Built[v]) /\ Means(Built[v]) = Says(Versions[v])
      BY <1>2, BuiltSays
<1> QED BY <1>1, <1>3 DEF v

LEMMA LoadedSays ==
    ASSUME Served, phase = <<"read">>
    PROVE  Sane(Loaded.core) /\ Means(Loaded.core) = Says(Versions[cached["gtfs"].version])
<1> DEFINE built == Built[cached["gtfs"].version]
<1>1. JustBuilt(built) /\ Means(built) = Says(Versions[cached["gtfs"].version])
      BY ReadKnown DEF Served, Loads
<1>2. Sane(built)
      BY <1>1 DEF JustBuilt
<1>3. \/ Loaded.core = built
      \/ engine # NoFile /\ Loaded.core = Merged(engine.core, built)
      BY DEF Loaded
<1>4. engine # NoFile => Sane(engine.core)
      BY DEF Served, TablesKnown
<1> HIDE DEF built
<1> QED BY <1>1, <1>2, <1>3, <1>4, MergedSays

LEMMA LoadServed ==
    ASSUME Served, LoadStep \/ LoadFault
    PROVE  Served'
<1>1. FilesKnown' /\ cached' = cached
      BY LoadFiles DEF Served
<1> USE DEF Served, TablesKnown, Writing
<1>2. ASSUME Start \/ BeginPoll \/ Compare PROVE TablesKnown'
      BY <1>2, Phases DEF Start, BeginPoll, Compare, Go, loading
<1>3. ASSUME ReadCache PROVE TablesKnown'
      BY <1>1, <1>3 DEF ReadCache, CacheFits, Inputs, Go
<1>4. ASSUME BuildCore PROVE TablesKnown'
  <2>1. Sane(next'.core) /\ Means(next'.core) = Says(Versions[cached'["gtfs"].version])
        BY <1>1, <1>4, LoadedSays DEF BuildCore
  <2>2. phase' = <<"write">> /\ cache' = Cut /\ engine' = engine
        BY <1>4 DEF BuildCore, Go
  <2> QED BY <2>1, <2>2
<1>5. ASSUME WriteCache PROVE TablesKnown'
      BY <1>1, <1>5 DEF WriteCache, Inputs, Go
<1>6. ASSUME WriteCacheCut PROVE TablesKnown'
      BY <1>1, <1>6 DEF WriteCacheCut, GoFaulty
<1>7. ASSUME Reuse PROVE TablesKnown'
  <2>1. engine # NoFile
        BY <1>7 DEF Reuse, ReusesEngine
  <2>2. engine' = [inputs |-> Inputs, core |-> engine.core, store |-> engine.store,
                   transfers |-> engine.transfers, refit |-> engine.refit]
        BY <1>7, <2>1 DEF Reuse
  <2> QED BY <1>7, <2>1, <2>2 DEF Reuse, Go
<1>8. ASSUME BuildStore \/ FindStore PROVE TablesKnown'
      BY <1>1, <1>8 DEF BuildStore, FindStore, Go, loading
<1>9. ASSUME BuildStoreCut PROVE TablesKnown'
      BY <1>9 DEF BuildStoreCut, GoFaulty
<1>10. ASSUME Swap PROVE TablesKnown'
      BY <1>10 DEF Swap, Go
<1>11. ASSUME IndexPanics \/ OpenFails PROVE TablesKnown'
      BY <1>11 DEF IndexPanics, OpenFails, Go
<1>12. ASSUME Crash PROVE TablesKnown'
      BY <1>12 DEF Crash
<1> QED BY <1>1, <1>2, <1>3, <1>4, <1>5, <1>6, <1>7, <1>8, <1>9, <1>10, <1>11, <1>12
        DEF LoadStep, LoadFault

LEMMA NextServed == ASSUME Served, [Next]_vars PROVE Served'
<1>1. CASE UNCHANGED vars
      BY <1>1 DEF vars, sync, Served, FilesKnown, TablesKnown, Present, ArchiveFiles
<1>2. CASE (SyncStep \/ SyncFault) /\ UNCHANGED loading
      BY <1>2, SyncServed
<1>3. CASE (\E s \in Sources : Publish(s)) /\ UNCHANGED loading
      BY <1>3, PublishServed
<1>4. CASE LoadStep \/ LoadFault
      BY <1>4, LoadServed
<1> QED BY <1>1, <1>2, <1>3, <1>4 DEF Next

LEMMA StaysServed == Spec => []Served
BY InitServed, NextServed, PTL DEF Spec

\* The tables loaded, and those in the static cache, say what their archives
\* say, however often tables were merged into others
\* (load_or_build_static_core, merge_append_only_core).
THEOREM TablesSayTheirInputs == Spec => []CoresMeanTheirInputs
<1>1. Served => CoresMeanTheirInputs
      BY DEF Served, TablesKnown, CoresMeanTheirInputs
<1> QED BY <1>1, StaysServed, PTL

\* No merge ever gives two stops of the tables served one global id
\* (append_stop_record).
THEOREM GlobalIdsStayUnique == Spec => []GlobalIdsUnique
<1>1. Served => GlobalIdsUnique
      BY DEF Served, TablesKnown, GlobalIdsUnique, Sane
<1> QED BY <1>1, StaysServed, PTL
-----------------------------------------------------------------------------
(***************************************************************************)
(* Names are read from the slots of the tables served                      *)
(***************************************************************************)

\* What is built from the archive on disk, and what is loaded of it beside the
\* engine served.
BuiltNow == Built[cached["gtfs"].version]
LoadedNow == LoadedInto(engine.core, BuiltNow)
CacheIsWhole == cache \notin {NoFile, Cut}
StoreIsSound == store # NoFile /\ store.slab # Cut /\ store.token \notin relaid

\* Tokens are of archives there were.
TokensKnown ==
    /\ store # NoFile => store.token \in ArchiveFiles
    /\ CacheIsWhole => cache.inputs["gtfs"] \in ArchiveFiles

\* The tables of one token have the same slots, in the store, in the static
\* cache, in the engine once it loaded them and in the engine being loaded.
SlabsAgree ==
    /\ StoreIsSound /\ CacheIsWhole /\ cache.inputs["gtfs"] = store.token =>
           store.slab = Slab(cache.core)
    /\ StoreIsSound /\ store.token = Token =>
           /\ engine # NoFile => store.slab = Slab(LoadedNow)
           /\ phase \in Writing => store.slab = Slab(next.core)
    /\ CacheIsWhole /\ cache.inputs["gtfs"] = Token /\ engine # NoFile =>
           Slab(cache.core) = Slab(LoadedNow)
    /\ phase \in Writing /\ engine # NoFile => Slab(next.core) = Slab(LoadedNow)

\* Where the load is.
LoadKnown ==
    /\ phase = <<"write">> => cache = Cut
    /\ phase \in {<<"decide">>, <<"open">>} =>
           cache = Cut \/ (cache.inputs = Inputs /\ cache.core = next.core)
    /\ phase = <<"open">> =>
           store.slab = Cut \/ store.token \in relaid \/ store.slab = Slab(next.core)

Hydrated == Served /\ TokensKnown /\ SlabsAgree /\ LoadKnown /\ HydratesServed

LEMMA InitHydrated == ASSUME Init PROVE Hydrated
<1>1. phase = <<"down">> /\ store = NoFile /\ cache = NoFile /\ engine = NoFile
      BY DEF Init, SyncInit
<1> QED BY <1>1, InitServed
        DEF Hydrated, TokensKnown, SlabsAgree, LoadKnown, HydratesServed, Writing, CacheIsWhole, StoreIsSound

\* A new archive is another than any before.
LEMMA SyncToken ==
    ASSUME FilesKnown, SyncStep \/ SyncFault
    PROVE  /\ mtime'["gtfs"] \in Nat /\ mtime["gtfs"] <= mtime'["gtfs"]
           /\ cached'["gtfs"] # cached["gtfs"] => cached'["gtfs"] \notin ArchiveFiles
<1>1. ASSUME NEW s \in Sources, RemoveCached(s)
      PROVE  mtime' = mtime /\ (cached'["gtfs"] = cached["gtfs"] \/ cached'["gtfs"] = NoFile)
      BY <1>1 DEF RemoveCached, Sources, FilesKnown
<1>2. NoFile \notin ArchiveFiles
      BY SyncAssumption DEF ArchiveFiles, FilesKnown, GtfsVersions
<1>3. ASSUME RenameDownload("osm")
      PROVE  mtime'["gtfs"] = mtime["gtfs"] /\ cached'["gtfs"] = cached["gtfs"]
      BY <1>3 DEF RenameDownload, Sources, FilesKnown
<1>4. ASSUME RenameDownload("gtfs")
      PROVE  /\ mtime'["gtfs"] = mtime["gtfs"] + 1
             /\ cached'["gtfs"] = [version |-> got, mtime |-> mtime["gtfs"] + 1]
      BY <1>4 DEF RenameDownload, Sources, FilesKnown
<1>5. [version |-> got, mtime |-> mtime["gtfs"] + 1] \notin ArchiveFiles
      BY DEF ArchiveFiles, FilesKnown
<1>6. \/ mtime' = mtime /\ cached' = cached
      \/ \E s \in Sources : RemoveCached(s) \/ RenameDownload(s)
      BY DEF SyncStep, SyncFault, FetchArchive, FetchArchiveFails, FetchExtract, RangeRefused,
             FetchExtractFails, Keep, KeepUnreached, StoreSidecar, StoreSidecarFails, ReplaceFails, disk
<1>7. mtime["gtfs"] \in Nat
      BY DEF FilesKnown
<1> QED BY <1>1, <1>2, <1>3, <1>4, <1>5, <1>6, <1>7 DEF Sources

\* Archives stay known.
LEMMA ArchivesStay ==
    ASSUME mtime["gtfs"] \in Nat, mtime'["gtfs"] \in Nat, mtime["gtfs"] <= mtime'["gtfs"]
    PROVE  ArchiveFiles \subseteq ArchiveFiles'
BY DEF ArchiveFiles, GtfsVersions

LEMMA OutsideHydrated ==
    ASSUME Hydrated, UNCHANGED loading,
           \/ SyncStep \/ SyncFault
           \/ \E s \in Sources : Publish(s)
    PROVE  Hydrated'
<1>1. CASE \E s \in Sources : Publish(s)
  <2>1. UNCHANGED <<cached, mtime, phase, loading>>
        BY <1>1 DEF Publish, disk
  <2>2. Served'
        BY <1>1, PublishServed DEF Hydrated
  <2>3. UNCHANGED <<TokensKnown, SlabsAgree, LoadKnown, HydratesServed>>
    <3> QED BY <2>1 DEF loading, TokensKnown, SlabsAgree, LoadKnown, HydratesServed, ArchiveFiles,
                CacheIsWhole, StoreIsSound, Token, LoadedNow, BuiltNow, Inputs
  <2> QED BY <2>2, <2>3 DEF Hydrated
<1>2. CASE SyncStep \/ SyncFault
  <2>1. /\ mtime["gtfs"] \in Nat /\ mtime'["gtfs"] \in Nat /\ mtime["gtfs"] <= mtime'["gtfs"]
        /\ cached'["gtfs"] # cached["gtfs"] => cached'["gtfs"] \notin ArchiveFiles
        BY <1>2, SyncToken DEF Hydrated, Served, FilesKnown
  <2>2. ArchiveFiles \subseteq ArchiveFiles'
        BY <2>1, ArchivesStay
  <2>3. Served'
        BY <1>2, SyncServed DEF Hydrated
  <2>4. phase' \notin Writing
        BY <1>2, SyncFiles DEF Hydrated, Served
  <2>5. /\ engine' = engine /\ next' = next /\ cache' = cache /\ store' = store /\ relaid' = relaid
        BY DEF loading
  <2>6. TokensKnown'
        BY <2>2, <2>5 DEF Hydrated, TokensKnown, CacheIsWhole
  <2>7. (StoreIsSound <=> StoreIsSound') /\ (CacheIsWhole <=> CacheIsWhole')
        BY <2>5 DEF StoreIsSound, CacheIsWhole
  <2>8. (StoreIsSound /\ store.token = Token') \/ (CacheIsWhole /\ cache.inputs["gtfs"] = Token') =>
            Token' = Token /\ LoadedNow' = LoadedNow
    <3>1. (StoreIsSound /\ store.token = Token') \/ (CacheIsWhole /\ cache.inputs["gtfs"] = Token') =>
              cached'["gtfs"] = cached["gtfs"]
          BY <2>1 DEF Hydrated, TokensKnown, StoreIsSound, Token
    <3> QED BY <2>5, <3>1 DEF Token, LoadedNow, BuiltNow
  <2>9. SlabsAgree'
    <3> HIDE DEF LoadedNow, Token, StoreIsSound, CacheIsWhole
    <3> QED BY <2>4, <2>5, <2>7, <2>8 DEF Hydrated, SlabsAgree
  <2>10. LoadKnown'
         BY <2>4 DEF LoadKnown, Writing
  <2>11. HydratesServed'
         BY <2>5 DEF Hydrated, HydratesServed
  <2> QED BY <2>3, <2>6, <2>9, <2>10, <2>11 DEF Hydrated
<1> QED BY <1>1, <1>2
\* Loading changes no file, nor what is built from it.
LEMMA LoadToken ==
    ASSUME FilesKnown, LoadStep \/ LoadFault
    PROVE  /\ ArchiveFiles' = ArchiveFiles /\ Token' = Token /\ BuiltNow' = BuiltNow /\ Inputs' = Inputs
           /\ phase \in Loads => Token \in ArchiveFiles
<1>1. mtime' = mtime
      BY DEF LoadStep, LoadFault, Start, BeginPoll, Compare, ReadCache, BuildCore, WriteCache, Reuse,
             BuildStore, FindStore, Swap, IndexPanics, OpenFails, WriteCacheCut, BuildStoreCut, Crash,
             Go, GoFaulty, disk
<1>2. cached' = cached
      BY LoadFiles
<1>3. phase \in Loads => cached["gtfs"] \in ArchiveFiles
      BY DEF FilesKnown
<1> QED BY <1>1, <1>2, <1>3 DEF ArchiveFiles, Token, BuiltNow, Inputs

\* What is about to be served, served, is loaded again as it is.
LEMMA SwappedAgain ==
    ASSUME Served, phase \in Writing
    PROVE  Slab(LoadedInto(next.core, BuiltNow)) = Slab(next.core)
<1>1. JustBuilt(BuiltNow) /\ Means(BuiltNow) = Means(next.core) /\ Sane(next.core)
      BY ReadKnown DEF Served, TablesKnown, BuiltNow, Loads
<1> QED BY <1>1, ServedAgain

LEMMA LoadHydrated ==
    ASSUME Hydrated, LoadStep \/ LoadFault
    PROVE  Hydrated'
<1>1. Served'
      BY LoadServed DEF Hydrated
<1>2. /\ ArchiveFiles' = ArchiveFiles /\ Token' = Token /\ BuiltNow' = BuiltNow /\ Inputs' = Inputs
      /\ phase \in Loads => Token \in ArchiveFiles
      BY LoadToken DEF Hydrated, Served
<1> DEFINE Stays == TokensKnown' /\ SlabsAgree' /\ LoadKnown' /\ HydratesServed'
<1> HIDE DEF Token, BuiltNow, Inputs, ArchiveFiles
<1> USE DEF Hydrated, TokensKnown, SlabsAgree, LoadKnown, HydratesServed, StoreIsSound, CacheIsWhole,
            LoadedNow, Writing, Loads
<1>3. ASSUME Start \/ BeginPoll \/ Compare PROVE Stays
  <2>1. /\ engine' = engine /\ next' = next /\ cache' = cache /\ store' = store /\ relaid' = relaid
        BY <1>3 DEF Start, BeginPoll, Compare, Go, loading
  <2>2. phase' \notin Writing
        BY <1>3, Phases DEF Start, BeginPoll, Compare, Go
  <2> QED BY <1>2, <2>1, <2>2
<1>4. ASSUME ReadCache PROVE Stays
  <2>1. /\ engine' = engine /\ cache' = cache /\ store' = store /\ relaid' = relaid
        /\ next'.core = cache.core /\ CacheIsWhole /\ cache.inputs = Inputs
        /\ phase = <<"read">> /\ phase' = <<"decide">>
        BY <1>4 DEF ReadCache, CacheFits, Go
  <2>2. cache.inputs["gtfs"] = Token
        BY <2>1 DEF Inputs, Token
  <2> QED BY <1>2, <2>1, <2>2
<1>5. ASSUME BuildCore PROVE Stays
  <2>1. /\ engine' = engine /\ cache' = Cut /\ store' = store
        /\ phase = <<"read">> /\ phase' = <<"write">>
        /\ relaid' = IF engine = NoFile /\ StoreIsCurrent THEN relaid \union {Token} ELSE relaid
        BY <1>5 DEF BuildCore, Go
  <2>2. engine # NoFile => next'.core = LoadedInto(engine.core, BuiltNow)
        BY <1>5 DEF BuildCore, Loaded, LoadedInto, BuiltNow
  <2>3. engine = NoFile /\ store # NoFile /\ store.token = Token => store.token \in relaid'
        BY <2>1 DEF StoreIsCurrent
  <2>4. relaid \subseteq relaid'
        BY <2>1
  <2> QED BY <1>2, <2>1, <2>2, <2>3, <2>4
<1>6. ASSUME WriteCache PROVE Stays
  <2>1. /\ engine' = engine /\ next' = next /\ store' = store /\ relaid' = relaid
        /\ cache'.inputs = Inputs /\ cache'.core = next.core
        /\ phase = <<"write">> /\ phase' = <<"decide">>
        BY <1>6 DEF WriteCache, Go
  <2>2. cache'.inputs["gtfs"] = Token
        BY <2>1 DEF Inputs, Token
  <2> QED BY <1>2, <2>1, <2>2
<1>7. ASSUME WriteCacheCut PROVE Stays
  <2>1. /\ engine' = engine /\ cache' = cache /\ store' = store /\ relaid' = relaid
        /\ phase = <<"write">>
        /\ (phase' = <<"decide">> /\ next' = next) \/ phase' \notin Writing
    <3>1. \/ phase' = <<"decide">>
          \/ phase' = <<"down">>
          \/ phase' = <<"idle">>
          BY <1>7 DEF WriteCacheCut, GoFaulty
    <3>2. phase' = <<"decide">> => next' = next
          BY <1>7 DEF WriteCacheCut
    <3>3. /\ engine' = engine /\ cache' = cache /\ store' = store /\ relaid' = relaid
          /\ phase = <<"write">>
          BY <1>7 DEF WriteCacheCut
    <3>4. phase' = <<"decide">> \/ phase' \notin Writing
          BY <3>1
    <3> QED BY <3>2, <3>3, <3>4
  <2> QED BY <1>2, <2>1
<1>8. ASSUME Reuse PROVE Stays
  <2>1. /\ engine # NoFile /\ engine'.core = engine.core /\ engine'.store = engine.store
        /\ cache' = cache /\ store' = store /\ relaid' = relaid /\ phase' \notin Writing
    <3>1. engine # NoFile
          BY <1>8 DEF Reuse, ReusesEngine
    <3>2. engine' = [inputs |-> Inputs, core |-> engine.core, store |-> engine.store,
                     transfers |-> engine.transfers, refit |-> engine.refit]
          BY <1>8, <3>1 DEF Reuse, Served, TablesKnown
    <3> QED BY <1>8, <3>1, <3>2 DEF Reuse, Go
  <2> QED BY <1>2, <2>1
<1>9. ASSUME BuildStore PROVE Stays
  <2>1. /\ engine' = engine /\ next' = next /\ cache' = cache /\ relaid' = relaid
        /\ store'.token = Token /\ store'.slab = Slab(next.core)
        /\ phase = <<"decide">> /\ phase' = <<"open">>
        BY <1>9 DEF BuildStore, Go
  <2> QED BY <1>2, <2>1
<1>10. ASSUME BuildStoreCut PROVE Stays
  <2>1. /\ engine' = engine \/ engine' = NoFile
        /\ cache' = cache /\ relaid' = relaid /\ phase = <<"decide">> /\ phase' \notin Writing
        /\ store' = store \/ (store'.token = Token /\ store'.slab = Cut)
    <3>1. phase' = <<"down">> \/ phase' = <<"idle">>
          BY <1>10 DEF BuildStoreCut, GoFaulty
    <3>2. engine' = engine \/ engine' = NoFile
          BY <1>10 DEF BuildStoreCut
    <3>3. store' = store \/ (store'.token = Token /\ store'.slab = Cut)
          BY <1>10 DEF BuildStoreCut
    <3>4. /\ cache' = cache /\ relaid' = relaid /\ phase = <<"decide">>
          BY <1>10 DEF BuildStoreCut
    <3>5. phase' \notin Writing
          BY <3>1
    <3> QED BY <3>2, <3>3, <3>4, <3>5
  <2> QED BY <1>2, <2>1
<1>11. ASSUME FindStore PROVE Stays
  <2>1. /\ engine' = engine /\ next' = next /\ cache' = cache /\ relaid' = relaid /\ store' = store
        /\ store # NoFile /\ store.token = Token
        /\ phase = <<"decide">> /\ phase' = <<"open">>
        BY <1>11 DEF FindStore, Go, loading, StoreIsCurrent
  <2> QED BY <1>2, <2>1
<1>12. ASSUME Swap PROVE Stays
  <2>1. /\ engine'.core = next.core /\ engine'.store = store
        /\ cache' = cache /\ relaid' = relaid /\ store' = store /\ store.slab # Cut
        /\ phase = <<"open">> /\ phase' \notin Writing
        BY <1>12 DEF Swap, Go
  <2>2. Slab(LoadedInto(next.core, BuiltNow)) = Slab(next.core)
        BY <2>1, SwappedAgain
  <2> QED BY <1>2, <2>1, <2>2
<1>13. ASSUME IndexPanics \/ OpenFails PROVE Stays
  <2>1. /\ engine' = engine /\ cache' = cache /\ relaid' = relaid /\ store' = store /\ phase' \notin Writing
        BY <1>13 DEF IndexPanics, OpenFails, Go
  <2> QED BY <1>2, <2>1
<1>14. ASSUME Crash PROVE Stays
  <2>1. /\ engine' = NoFile /\ cache' = cache /\ relaid' = relaid /\ store' = store /\ phase' \notin Writing
        BY <1>14 DEF Crash
  <2> QED BY <1>2, <2>1
<1> QED BY <1>1, <1>3, <1>4, <1>5, <1>6, <1>7, <1>8, <1>9, <1>10, <1>11, <1>12, <1>13, <1>14
        DEF LoadStep, LoadFault

LEMMA NextHydrated == ASSUME Hydrated, [Next]_vars PROVE Hydrated'
<1>1. CASE UNCHANGED vars
  <2>1. Served'
        BY <1>1, NextServed DEF Hydrated
  <2>2. UNCHANGED <<cached, mtime, phase, engine, next, cache, store, relaid>>
        BY <1>1 DEF vars, sync
  <2>3. UNCHANGED <<TokensKnown, SlabsAgree, LoadKnown, HydratesServed>>
        BY <2>2 DEF TokensKnown, SlabsAgree, LoadKnown, HydratesServed, ArchiveFiles,
                    CacheIsWhole, StoreIsSound, Token, LoadedNow, BuiltNow, Inputs
  <2> QED BY <2>1, <2>3 DEF Hydrated
<1>2. CASE SyncStep /\ UNCHANGED loading
      BY <1>2, OutsideHydrated
<1>3. CASE (SyncFault \/ \E s \in Sources : Publish(s)) /\ UNCHANGED loading
      BY <1>3, OutsideHydrated
<1>4. CASE LoadStep \/ LoadFault
      BY <1>4, LoadHydrated
<1> QED BY <1>1, <1>2, <1>3, <1>4 DEF Next

\* Names are read from the slots of the tables served, unless a start built
\* anew beside a store of its inputs' token: whatever was cut, merged and
\* reused before (ColdStore::load_or_build).
THEOREM HydratesFromItsSlots == Spec => []HydratesServed
<1>1. Spec => []Hydrated
      BY InitHydrated, NextHydrated, PTL DEF Spec
<1> QED BY <1>1, PTL DEF Hydrated
\* What differs from the tables served is merged into them or built anew; and
\* the engine has rows for its slots, those of active stops as they should be.
NextKnown ==
    phase \in Writing /\ engine # NoFile /\ next.mutated > 0 =>
        next.core \in {Merged(engine.core, BuiltNow), BuiltNow}
RowsKnown ==
    engine # NoFile =>
        /\ IsList(engine.transfers) /\ DOMAIN engine.core.stops \subseteq DOMAIN engine.transfers
        /\ ~engine.refit => RowsFit(engine.core, engine.transfers)

Fitted == Served /\ NextKnown /\ RowsKnown

LEMMA SwapFits ==
    ASSUME Fitted, Swap
    PROVE  /\ IsList(NextTransfers) /\ DOMAIN next.core.stops \subseteq DOMAIN NextTransfers
           /\ ~Refit => RowsFit(next.core, NextTransfers)
<1> DEFINE x == Inputs["osm"].version
<1>1. phase \in Writing /\ phase \in Loads
      BY DEF Swap, Writing, Loads
<1>2. Sane(next.core)
      BY <1>1 DEF Fitted, Served, TablesKnown
<1>3. IsList(next.core.stops) /\ Range(next.core.activeStops) \subseteq DOMAIN next.core.stops
  <2>1. Tidy(next.core.stops, next.core.activeStops)
        BY <1>2 DEF Sane
  <2> QED BY <2>1, LooksUp DEF Tidy
<1>4. CASE ~ByRows
  <2>1. NextTransfers = FullMatrix(next.core.stops, x)
        BY <1>4 DEF NextTransfers
  <2> HIDE DEF x
  <2>2. /\ IsList(NextTransfers) /\ DOMAIN NextTransfers = DOMAIN next.core.stops
        /\ \A i \in DOMAIN next.core.stops :
              /\ NextTransfers[i] = Transfers(next.core.stops, i, x)
              /\ Transfers(next.core.stops, i, x).on = x
        BY <1>3, <2>1, FullRows
  <2>3. RowsFit(next.core, NextTransfers)
        BY <1>3, <2>2 DEF RowsFit
  <2> QED BY <2>2, <2>3
<1>5. CASE ByRows
  <2>1. NextTransfers = DifferentialMatrix(engine.core, engine.transfers, next.core, x)
        BY <1>5 DEF NextTransfers
  <2>2. engine # NoFile /\ next.mutated > 0
        BY <1>5 DEF ByRows
  <2>3. /\ IsList(engine.transfers) /\ DOMAIN engine.core.stops \subseteq DOMAIN engine.transfers
        /\ Sane(engine.core)
        /\ ~engine.refit => RowsFit(engine.core, engine.transfers)
        BY <2>2 DEF Fitted, Served, TablesKnown, RowsKnown
  <2> HIDE DEF x
  <2>4. IsList(NextTransfers) /\ DOMAIN next.core.stops \subseteq DOMAIN NextTransfers
        BY <1>3, <2>1, <2>3, RowsCover
  <2>5. ASSUME ~Refit PROVE RowsFit(next.core, NextTransfers)
    <3>1. ~engine.refit /\ next.core # BuiltNow
          BY <1>5, <2>5 DEF Refit, BuiltNow
    <3>2. next.core = Merged(engine.core, BuiltNow)
          BY <1>1, <2>2, <3>1 DEF Fitted, NextKnown
    <3>3. JustBuilt(BuiltNow)
          BY <1>1, ReadKnown DEF Fitted, Served, BuiltNow
    <3> DEFINE p == engine.core
               rows == engine.transfers
               n == BuiltNow
    <3>4. /\ Sane(p) /\ JustBuilt(n) /\ IsList(rows) /\ DOMAIN p.stops \subseteq DOMAIN rows
          /\ RowsFit(p, rows)
          BY <2>3, <3>1, <3>3
    <3>5. next.core = Merged(p, n) /\ NextTransfers = DifferentialMatrix(p, rows, Merged(p, n), x)
          BY <2>1, <3>2
    <3> HIDE DEF p, rows, n
    <3>6. RowsFit(Merged(p, n), DifferentialMatrix(p, rows, Merged(p, n), x))
          BY <3>4, DifferentialFits
    <3> QED BY <3>5, <3>6
  <2> QED BY <2>4, <2>5
<1> QED BY <1>4, <1>5

LEMMA LoadFitted ==
    ASSUME Fitted, LoadStep \/ LoadFault
    PROVE  NextKnown' /\ RowsKnown'
<1>1. BuiltNow' = BuiltNow
      BY LoadToken DEF Fitted, Served
<1> HIDE DEF BuiltNow
<1>2. ASSUME Start \/ BeginPoll \/ Compare \/ IndexPanics \/ OpenFails
      PROVE  NextKnown' /\ RowsKnown'
  <2>1. engine' = engine
        BY <1>2 DEF Start, BeginPoll, Compare, IndexPanics, OpenFails, loading
  <2>2. phase' \notin Writing
        BY <1>2, Phases DEF Start, BeginPoll, Compare, IndexPanics, OpenFails, Go, Writing
  <2> QED BY <2>1, <2>2 DEF Fitted, NextKnown, RowsKnown
<1>3. ASSUME ReadCache \/ BuildCore PROVE NextKnown' /\ RowsKnown'
  <2>1. engine' = engine
        BY <1>3 DEF ReadCache, BuildCore
  <2>2. engine # NoFile /\ next'.mutated > 0 => next'.core \in {Merged(engine.core, BuiltNow), BuiltNow}
        BY <1>3 DEF ReadCache, BuildCore, Loaded, BuiltNow
  <2> QED BY <1>1, <2>1, <2>2 DEF Fitted, NextKnown, RowsKnown
<1>4. ASSUME WriteCache \/ BuildStore \/ FindStore PROVE NextKnown' /\ RowsKnown'
  <2>1. engine' = engine /\ next' = next /\ phase \in Writing
        BY <1>4 DEF WriteCache, BuildStore, FindStore, loading, Writing
  <2> QED BY <1>1, <2>1 DEF Fitted, NextKnown, RowsKnown
<1>5. ASSUME WriteCacheCut PROVE NextKnown' /\ RowsKnown'
  <2>1. engine' = engine /\ phase = <<"write">>
        BY <1>5 DEF WriteCacheCut
  <2>2. \/ phase' = <<"decide">> /\ next' = next
        \/ phase' \notin Writing
    <3>1. \/ phase' = <<"decide">>
          \/ phase' = <<"down">>
          \/ phase' = <<"idle">>
          BY <1>5 DEF WriteCacheCut, GoFaulty
    <3>2. phase' = <<"decide">> => next' = next
          BY <1>5 DEF WriteCacheCut
    <3> QED BY <3>1, <3>2 DEF Writing
  <2> QED BY <1>1, <2>1, <2>2 DEF Fitted, NextKnown, RowsKnown, Writing
<1>6. ASSUME Reuse PROVE NextKnown' /\ RowsKnown'
  <2>1. engine # NoFile
        BY <1>6 DEF Reuse, ReusesEngine
  <2>2. engine' = [inputs |-> Inputs, core |-> engine.core, store |-> engine.store,
                   transfers |-> engine.transfers, refit |-> engine.refit]
        BY <1>6, <2>1 DEF Reuse, Fitted, Served, TablesKnown
  <2>3. /\ engine'.core = engine.core /\ engine'.transfers = engine.transfers
        /\ engine'.refit = engine.refit
        BY <2>2
  <2>4. phase' \notin Writing
        BY <1>6 DEF Reuse, Go, Writing
  <2> QED BY <2>1, <2>3, <2>4 DEF Fitted, NextKnown, RowsKnown
<1>7. ASSUME BuildStoreCut PROVE NextKnown' /\ RowsKnown'
  <2>1. phase' = <<"down">> \/ phase' = <<"idle">>
        BY <1>7 DEF BuildStoreCut, GoFaulty
  <2>2. engine' = engine \/ engine' = NoFile
        BY <1>7 DEF BuildStoreCut
  <2>3. phase' \notin Writing
        BY <2>1 DEF Writing
  <2> QED BY <2>2, <2>3 DEF Fitted, NextKnown, RowsKnown
<1>8. ASSUME Swap PROVE NextKnown' /\ RowsKnown'
  <2>1. phase' \notin Writing
        BY <1>8 DEF Swap, Go, Writing
  <2>2. engine'.core = next.core /\ engine'.transfers = NextTransfers /\ engine'.refit = Refit
        BY <1>8 DEF Swap
  <2>3. /\ IsList(NextTransfers) /\ DOMAIN next.core.stops \subseteq DOMAIN NextTransfers
        /\ ~Refit => RowsFit(next.core, NextTransfers)
        BY <1>8, SwapFits
  <2> QED BY <2>1, <2>2, <2>3 DEF NextKnown, RowsKnown
<1>9. ASSUME Crash PROVE NextKnown' /\ RowsKnown'
      BY <1>9 DEF Crash, NextKnown, RowsKnown
<1> QED BY <1>2, <1>3, <1>4, <1>5, <1>6, <1>7, <1>8, <1>9 DEF LoadStep, LoadFault

LEMMA NextFitted == ASSUME Fitted, [Next]_vars PROVE Fitted'
<1>1. Served'
      BY NextServed DEF Fitted
<1>2. CASE UNCHANGED vars
  <2>1. UNCHANGED <<cached, phase, engine, next>>
        BY <1>2 DEF vars, sync
  <2>2. UNCHANGED <<NextKnown, RowsKnown>>
        BY <2>1 DEF NextKnown, RowsKnown, BuiltNow
  <2> QED BY <1>1, <2>2 DEF Fitted
<1>3. CASE (SyncStep \/ SyncFault) /\ UNCHANGED loading
  <2>1. phase' \notin Writing
        BY <1>3, SyncFiles DEF Fitted, Served
  <2>2. engine' = engine
        BY <1>3 DEF loading
  <2> QED BY <1>1, <2>1, <2>2 DEF Fitted, NextKnown, RowsKnown
<1>4. CASE (\E s \in Sources : Publish(s)) /\ UNCHANGED loading
  <2>1. UNCHANGED <<cached, phase, engine, next>>
        BY <1>4 DEF Publish, disk, loading
  <2>2. UNCHANGED <<NextKnown, RowsKnown>>
        BY <2>1 DEF NextKnown, RowsKnown, BuiltNow
  <2> QED BY <1>1, <2>2 DEF Fitted
<1>5. CASE LoadStep \/ LoadFault
      BY <1>1, <1>5, LoadFitted DEF Fitted
<1> QED BY <1>2, <1>3, <1>4, <1>5 DEF Next

\* The transfers of an active stop are those a full build would give it,
\* however often stops were merged in, moved or retired by rows
\* (rebuild_differential_walker_transfers).
THEOREM TransfersStayFit == Spec => []TransfersFit
<1>1. Init => Fitted
  <2> SUFFICES ASSUME Init PROVE Fitted
      OBVIOUS
  <2>1. engine = NoFile
        BY DEF Init
  <2> QED BY <2>1, InitServed DEF Fitted, NextKnown, RowsKnown
<1>2. Fitted => TransfersFit
      BY DEF Fitted, RowsKnown, RowsFit, TransfersFit
<1> QED BY <1>1, <1>2, NextFitted, PTL DEF Spec
=============================================================================

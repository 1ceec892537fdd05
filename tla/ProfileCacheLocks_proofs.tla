---------------------- MODULE ProfileCacheLocks_proofs ----------------------
(***************************************************************************)
(* Safety of the locks of the profile cache, for any keys, shards, threads *)
(* and batches.  A bucket and its summary differ only while an insertion   *)
(* holds the bucket's shard; no two insertions hold one shard; whoever     *)
(* holds a shard holds the gate.  So a lookup that gets to its bucket, and *)
(* an invalidation that gets the gate, find the two alike.  An insertion   *)
(* holds a shard only while it summarizes, a lookup only past its summary: *)
(* so whoever is held up for ever is so by the two kinds in turn.          *)
(***************************************************************************)
EXTENDS ProfileCacheLocks, SequenceTheorems, TLAPS

Stations == {"idle", "gate", "summary", "compare", "bucket", "entry", "summarize"}

\* Where a thread may stand.
Steps(p) ==
    IF p \in Lookups THEN {"idle", "gate", "summary", "compare", "bucket"}
    ELSE IF p \in Inserters THEN {"idle", "gate", "entry", "summarize"}
    ELSE {"idle", "gate"}

TypeOK ==
    /\ pc \in [Threads -> Stations]
    /\ \A p \in Threads : pc[p] \in Steps(p)
    /\ keys \in [Threads -> Seq(Keys)]
    /\ entries \in [Keys -> Nat]
    /\ summaries \in [Keys -> Nat]

\* A lookup or an insertion inside a call has a key to handle.
HasKey ==
    \A p \in Lookups \union Inserters : pc[p] # "idle" => keys[p] # <<>>

\* The gate is held by those past it; a shard of exact_entries by the
\* insertions that have merged and not yet summarized, that of the key they are
\* at and no other; a shard of exact_summaries by lookups that have read their
\* summary.
Holders ==
    /\ gateReaders = {p \in Lookups \union Inserters : pc[p] \notin {"idle", "gate"}}
    /\ entryGuards = {<<i, Entry(i)>> : i \in {j \in Inserters : pc[j] = "summarize"}}
    /\ summaryGuards = {<<q, Summary(q)>> : q \in {l \in Lookups : pc[l] \in {"compare", "bucket"}}}

\* No two insertions hold one shard.
Exclusive ==
    \A i, j \in Inserters :
        pc[i] = "summarize" /\ pc[j] = "summarize" /\ Entry(i) = Entry(j) => i = j

\* A bucket without its summary is one an insertion holds.
Behind ==
    \A k \in Keys :
        summaries[k] # entries[k] => \E i \in Inserters : pc[i] = "summarize" /\ Key(i) = k

IInv == TypeOK /\ HasKey /\ Holders /\ Exclusive /\ Behind
-----------------------------------------------------------------------------
\* The key a thread handles is one of the keys, and stays while its keys do.
LEMMA KeyKnown ==
    ASSUME IInv, NEW p \in Lookups \union Inserters, pc[p] # "idle"
    PROVE  keys[p] \in Seq(Keys) /\ keys[p] # <<>> /\ Key(p) \in Keys /\ Tail(keys[p]) \in Seq(Keys)
BY DEF IInv, TypeOK, HasKey, Key, Threads

LEMMA InitInvariant == Init => IInv
<1> SUFFICES ASSUME Init PROVE IInv
    OBVIOUS
<1>1. TypeOK
      BY DEF Init, TypeOK, Steps, Stations
<1>2. \A p \in Threads : pc[p] = "idle"
      BY DEF Init
<1>3. HasKey /\ Holders /\ Exclusive /\ Behind
      BY <1>2 DEF Init, HasKey, Holders, Exclusive, Behind, Threads
<1> QED BY <1>1, <1>3 DEF IInv

\* A thread that neither merges nor summarizes leaves the shards of
\* exact_entries as they are held.
LEMMA EntriesHeldOn ==
    ASSUME IInv, NEW p \in Threads, NEW to \in Stations, NEW call,
           pc' = [pc EXCEPT ![p] = to], to # "summarize", pc[p] # "summarize",
           keys' = [keys EXCEPT ![p] = call], UNCHANGED entryGuards
    PROVE  /\ \A i \in Inserters : pc'[i] = "summarize" <=> pc[i] = "summarize"
           /\ \A i \in Inserters : pc[i] = "summarize" => Key(i)' = Key(i) /\ Entry(i)' = Entry(i)
           /\ entryGuards' = {<<i, Entry(i)'>> : i \in {j \in Inserters : pc'[j] = "summarize"}}
<1>1. \A i \in Inserters : pc'[i] = "summarize" <=> pc[i] = "summarize"
      BY DEF IInv, TypeOK, Threads
<1>2. \A i \in Inserters : pc[i] = "summarize" => Key(i)' = Key(i) /\ Entry(i)' = Entry(i)
      BY DEF IInv, TypeOK, Threads, Key, Entry
<1>3. entryGuards = {<<i, Entry(i)>> : i \in {j \in Inserters : pc[j] = "summarize"}}
      BY DEF IInv, Holders
<1> QED BY <1>1, <1>2, <1>3

\* The shards of exact_summaries held after a step of p: those held by others, and
\* the one of p past its summary.
LEMMA SummariesHeldOn ==
    ASSUME IInv, NEW p \in Threads, NEW to \in Stations, NEW call,
           pc' = [pc EXCEPT ![p] = to], keys' = [keys EXCEPT ![p] = call],
           IF p \in Lookups /\ to \in {"compare", "bucket"}
           THEN /\ pc[p] \in {"compare", "bucket"} => keys' = keys
                /\ summaryGuards' = summaryGuards \union {<<p, Summary(p)'>>}
           ELSE summaryGuards' = Without(summaryGuards, p)
    PROVE  summaryGuards'
             = {<<q, Summary(q)'>> : q \in {l \in Lookups : pc'[l] \in {"compare", "bucket"}}}
<1> DEFINE Past == {l \in Lookups : pc[l] \in {"compare", "bucket"}}
<1>1. summaryGuards = {<<q, Summary(q)>> : q \in Past}
      BY DEF IInv, Holders
<1>2. \A q \in Lookups : q # p => pc'[q] = pc[q] /\ Summary(q)' = Summary(q)
      BY DEF IInv, TypeOK, Threads, Key, Summary
<1>3. pc'[p] = to
      BY DEF IInv, TypeOK
<1>4. CASE p \in Lookups /\ to \in {"compare", "bucket"}
  <2>1. p \in Past => Summary(p)' = Summary(p)
        BY <1>4 DEF Summary, Key
  <2> QED BY <1>1, <1>2, <1>3, <1>4, <2>1
<1>5. CASE ~(p \in Lookups /\ to \in {"compare", "bucket"})
  <2>1. summaryGuards' = {g \in summaryGuards : g[1] # p}
        BY <1>5 DEF Without
  <2> QED BY <1>1, <1>2, <1>3, <1>5, <2>1
<1> QED BY <1>4, <1>5

\* The steps of a thread that touch neither map nor the shards of exact_entries.
LEMMA QuietStep ==
    ASSUME IInv, NEW p \in Threads, NEW to \in Stations, NEW call \in Seq(Keys),
           pc' = [pc EXCEPT ![p] = to], to \in Steps(p), to # "summarize",
           pc[p] # "summarize",
           keys' = [keys EXCEPT ![p] = call],
           p \in Lookups \union Inserters /\ to # "idle" => call # <<>>,
           gateReaders' = IF p \in Refreshers \/ to \in {"idle", "gate"}
                          THEN gateReaders \ {p} ELSE gateReaders \union {p},
           IF p \in Lookups /\ to \in {"compare", "bucket"}
           THEN /\ pc[p] \in {"compare", "bucket"} => keys' = keys
                /\ summaryGuards' = summaryGuards \union {<<p, Summary(p)'>>}
           ELSE summaryGuards' = Without(summaryGuards, p),
           UNCHANGED <<entryGuards, entries, summaries>>
    PROVE  IInv'
<1> USE ThreadsAssumption
<1>1. TypeOK'
      BY DEF IInv, TypeOK
<1>2. HasKey'
      BY DEF IInv, TypeOK, HasKey, Threads
<1>3. gateReaders' = {l \in Lookups \union Inserters : pc'[l] \notin {"idle", "gate"}}
      BY DEF IInv, TypeOK, Holders, Threads, Steps
<1>4. /\ \A i \in Inserters : pc'[i] = "summarize" <=> pc[i] = "summarize"
      /\ \A i \in Inserters : pc[i] = "summarize" => Key(i)' = Key(i) /\ Entry(i)' = Entry(i)
      /\ entryGuards' = {<<i, Entry(i)'>> : i \in {j \in Inserters : pc'[j] = "summarize"}}
      BY EntriesHeldOn
<1>5. summaryGuards'
        = {<<q, Summary(q)'>> : q \in {l \in Lookups : pc'[l] \in {"compare", "bucket"}}}
      BY SummariesHeldOn
<1>6. Holders'
      BY <1>3, <1>4, <1>5 DEF Holders
<1>7. Exclusive' /\ Behind'
      BY <1>4 DEF IInv, Exclusive, Behind
<1> QED BY <1>1, <1>2, <1>6, <1>7 DEF IInv

\* A thread that holds no shard of exact_summaries has none to give back.
LEMMA NothingHeld ==
    ASSUME IInv, NEW p \in Threads, ~(p \in Lookups /\ pc[p] \in {"compare", "bucket"})
    PROVE  Without(summaryGuards, p) = summaryGuards
BY DEF IInv, Holders, Without

LEMMA EnterGateStep ==
    ASSUME IInv, NEW p \in Threads, EnterGate(p) PROVE IInv'
<1> DEFINE to == IF p \in Lookups THEN "summary" ELSE "entry"
<1>1. /\ pc' = [pc EXCEPT ![p] = to] /\ to \in Stations /\ to \in Steps(p) /\ to # "summarize"
      /\ to \notin {"idle", "gate", "compare", "bucket"} /\ pc[p] = "gate"
      /\ p \in Lookups \union Inserters
      BY DEF EnterGate, Steps, Stations, Threads
<1>2. keys' = [keys EXCEPT ![p] = keys[p]] /\ keys[p] \in Seq(Keys) /\ keys[p] # <<>>
      BY <1>1, KeyKnown DEF EnterGate, IInv, TypeOK
<1>3. gateReaders' = gateReaders \union {p} /\ p \notin Refreshers
      /\ UNCHANGED <<summaryGuards, entryGuards, entries, summaries>>
      BY DEF EnterGate
<1>4. summaryGuards' = Without(summaryGuards, p)
      BY <1>1, <1>3, NothingHeld
<1> HIDE DEF to
<1> QED BY <1>1, <1>2, <1>3, <1>4, QuietStep

\* A call that begins: the gate is wanted.
LEMMA CallStep ==
    ASSUME IInv, NEW p \in Threads, Call(p) PROVE IInv'
<1> USE ThreadsAssumption, ShardsAssumption
<1>1. PICK call \in Seq(Keys) :
        /\ keys' = [keys EXCEPT ![p] = call]
        /\ p \in Lookups \union Inserters => call # <<>>
  <2>1. CASE p \in Lookups /\ CallLookup(p)
    <3>1. PICK k \in LookupKeys : keys' = [keys EXCEPT ![p] = <<k>>]
          BY <2>1 DEF CallLookup
    <3>2. <<k>> \in Seq(Keys) /\ <<k>> # <<>>
          OBVIOUS
    <3> QED BY <3>1, <3>2
  <2>2. CASE p \in Inserters /\ CallInsert(p)
        BY <2>2 DEF CallInsert
  <2>3. CASE p \in Refreshers /\ CallInvalidate(p)
        BY <2>3 DEF CallInvalidate, IInv, TypeOK
  <2> QED BY <2>1, <2>2, <2>3 DEF Call
<1>2. /\ pc' = [pc EXCEPT ![p] = "gate"] /\ pc[p] = "idle"
      /\ UNCHANGED <<gateReaders, summaryGuards, entryGuards, entries, summaries>>
      BY DEF Call, CallLookup, CallInsert, CallInvalidate, locks
<1>3. gateReaders' = gateReaders \ {p} /\ summaryGuards' = Without(summaryGuards, p)
      BY <1>2, NothingHeld DEF IInv, Holders
<1>4. "gate" \in Steps(p) /\ "gate" \in Stations
      BY DEF Steps, Stations
<1> QED BY <1>1, <1>2, <1>3, <1>4, QuietStep

LEMMA LookupInvariant ==
    ASSUME IInv, NEW q \in Lookups, LookupStep(q) PROVE IInv'
<1> USE ThreadsAssumption
<1>1. /\ q \in Threads /\ q \notin Refreshers /\ keys[q] \in Seq(Keys)
      /\ pc[q] \in {"summary", "compare", "bucket"} /\ q \in gateReaders /\ keys[q] # <<>>
      BY KeyKnown DEF LookupStep, GetSummary, Prune, WantBucket, GetBucket, Threads, IInv, Holders
<1>2. UNCHANGED <<entryGuards, entries, summaries>>
      BY DEF LookupStep, GetSummary, Prune, WantBucket, GetBucket, locks
<1>3. CASE Return(q)
  <2>1. "idle" \in Steps(q) /\ "idle" \in Stations /\ <<>> \in Seq(Keys)
        BY DEF Steps, Stations
  <2> QED BY <1>1, <1>2, <1>3, <2>1, QuietStep DEF Return
<1>4. CASE ~Return(q)
  <2>1. PICK to \in {"compare", "bucket"} :
          /\ pc' = [pc EXCEPT ![q] = to] /\ UNCHANGED <<keys, gateReaders>>
          /\ \/ summaryGuards' = summaryGuards \union {<<q, Summary(q)>>}
             \/ UNCHANGED summaryGuards /\ pc[q] = "compare"
        BY <1>4 DEF LookupStep, GetSummary, Prune, WantBucket, GetBucket, locks
  <2>2. to \in Steps(q) /\ to \in Stations
        BY DEF Steps, Stations
  <2>3. keys' = [keys EXCEPT ![q] = keys[q]] /\ gateReaders' = gateReaders \union {q}
        BY <1>1, <2>1 DEF IInv, TypeOK
  <2>4. pc[q] = "compare" => <<q, Summary(q)>> \in summaryGuards
        BY DEF IInv, Holders
  <2>5. summaryGuards' = summaryGuards \union {<<q, Summary(q)'>>}
        BY <2>1, <2>4 DEF Summary, Key
  <2> QED BY <1>1, <1>2, <2>1, <2>2, <2>3, <2>5, QuietStep
<1> QED BY <1>3, <1>4

\* The merge takes a shard no other insertion holds.
LEMMA MergeStep ==
    ASSUME IInv, NEW i \in Inserters, MergePoint(i) PROVE IInv'
<1> USE ThreadsAssumption
<1>1. /\ pc[i] = "entry" /\ i \in Threads /\ i \notin Lookups /\ Key(i) \in Keys
      /\ pc' = [pc EXCEPT ![i] = "summarize"] /\ entryGuards' = entryGuards \union {<<i, Entry(i)>>}
      /\ entries' = [entries EXCEPT ![Key(i)] = @ + 1]
      /\ UNCHANGED <<keys, gateReaders, summaryGuards, summaries>>
      BY KeyKnown DEF MergePoint, Threads
<1>2. \A p : Key(p)' = Key(p) /\ Entry(p)' = Entry(p) /\ Summary(p)' = Summary(p)
      BY <1>1 DEF Key, Entry, Summary
<1>3. \A p \in Threads : pc'[p] = IF p = i THEN "summarize" ELSE pc[p]
      BY <1>1 DEF IInv, TypeOK
<1>4. TypeOK'
      BY <1>1 DEF IInv, TypeOK, Steps, Stations
<1>5. HasKey'
      BY <1>1 DEF IInv, TypeOK, HasKey, Threads
<1>6. Holders'
  <2>1. gateReaders' = {p \in Lookups \union Inserters : pc'[p] \notin {"idle", "gate"}}
        BY <1>1, <1>3 DEF IInv, Holders, Threads
  <2>2. entryGuards' = {<<p, Entry(p)'>> : p \in {j \in Inserters : pc'[j] = "summarize"}}
    <3>1. entryGuards = {<<p, Entry(p)>> : p \in {j \in Inserters : pc[j] = "summarize"}}
          BY DEF IInv, Holders
    <3> QED BY <3>1, <1>1, <1>2, <1>3 DEF Threads
  <2>3. summaryGuards'
          = {<<q, Summary(q)'>> : q \in {l \in Lookups : pc'[l] \in {"compare", "bucket"}}}
        BY <1>1, <1>2, <1>3 DEF IInv, Holders, Threads
  <2> QED BY <2>1, <2>2, <2>3 DEF Holders
<1>7. \A j \in Inserters : pc[j] = "summarize" => Entry(j) # Entry(i)
  <2> SUFFICES ASSUME NEW j \in Inserters, pc[j] = "summarize", Entry(j) = Entry(i) PROVE FALSE
      OBVIOUS
  <2>1. <<j, Entry(i)>> \in entryGuards
        BY DEF IInv, Holders
  <2>2. j \in Holding(entryGuards, Entry(i))
        BY <2>1 DEF Holding
  <2> QED BY <2>2 DEF MergePoint, EntryFree, Entry
<1>8. Exclusive'
      BY <1>1, <1>2, <1>3, <1>7 DEF IInv, Exclusive, Threads
<1>9. Behind'
      BY <1>1, <1>2, <1>3 DEF IInv, TypeOK, Behind, Threads
<1> QED BY <1>4, <1>5, <1>6, <1>8, <1>9 DEF IInv

\* The summary made is that of the bucket held, which no other insertion holds.
LEMMA SummaryStep ==
    ASSUME IInv, NEW i \in Inserters, InsertSummary(i) PROVE IInv'
<1> USE ThreadsAssumption
<1>1. /\ pc[i] = "summarize" /\ i \in Threads /\ i \notin Lookups
      /\ Key(i) \in Keys /\ keys[i] \in Seq(Keys) /\ Tail(keys[i]) \in Seq(Keys)
      /\ summaries' = [summaries EXCEPT ![Key(i)] = entries[Key(i)]]
      /\ entryGuards' = Without(entryGuards, i) /\ UNCHANGED entries
      BY KeyKnown DEF InsertSummary, Threads
<1>2. Without(summaryGuards, i) = summaryGuards
      BY <1>1, NothingHeld
<1>3. PICK to \in {"idle", "entry"}, rest \in Seq(Keys) :
        /\ pc' = [pc EXCEPT ![i] = to] /\ keys' = [keys EXCEPT ![i] = rest]
        /\ to = "entry" => rest # <<>>
        /\ gateReaders' = IF to = "idle" THEN gateReaders \ {i} ELSE gateReaders
        /\ UNCHANGED summaryGuards
      BY <1>1, <1>2, <<>> \in Seq(Keys) DEF InsertSummary, NextPoint, Return, IInv, TypeOK
<1>4. to \in Steps(i) /\ to \in Stations
      BY <1>1 DEF Steps, Stations
<1>5. TypeOK'
      BY <1>1, <1>3, <1>4 DEF IInv, TypeOK
<1>6. HasKey'
      BY <1>1, <1>3 DEF IInv, TypeOK, HasKey, Threads
<1>7. \A p \in Threads : /\ pc'[p] = IF p = i THEN to ELSE pc[p]
                         /\ p # i => /\ Key(p)' = Key(p) /\ Entry(p)' = Entry(p)
                                     /\ Summary(p)' = Summary(p)
      BY <1>1, <1>3 DEF IInv, TypeOK, Key, Entry, Summary
<1>8. Holders'
  <2>1. gateReaders' = {p \in Lookups \union Inserters : pc'[p] \notin {"idle", "gate"}}
        BY <1>1, <1>3, <1>7 DEF IInv, Holders, Threads
  <2>2. entryGuards' = {<<p, Entry(p)'>> : p \in {j \in Inserters : pc'[j] = "summarize"}}
    <3>1. entryGuards = {<<p, Entry(p)>> : p \in {j \in Inserters : pc[j] = "summarize"}}
          BY DEF IInv, Holders
    <3>2. entryGuards' = {g \in entryGuards : g[1] # i}
          BY <1>1 DEF Without
    <3> QED BY <3>1, <3>2, <1>7 DEF Threads
  <2>3. summaryGuards'
          = {<<q, Summary(q)'>> : q \in {l \in Lookups : pc'[l] \in {"compare", "bucket"}}}
    <3>1. summaryGuards
            = {<<q, Summary(q)>> : q \in {l \in Lookups : pc[l] \in {"compare", "bucket"}}}
          BY DEF IInv, Holders
    <3>2. \A q \in Lookups : pc'[q] = pc[q] /\ Summary(q)' = Summary(q)
          BY <1>1, <1>7 DEF Threads
    <3> QED BY <3>1, <3>2, <1>3
  <2> QED BY <2>1, <2>2, <2>3 DEF Holders
<1>9. \A j \in Inserters : pc'[j] = "summarize" =>
        j # i /\ pc[j] = "summarize" /\ Key(j)' = Key(j) /\ Entry(j)' = Entry(j)
      BY <1>7 DEF Threads
<1>10. Exclusive'
      BY <1>9 DEF IInv, Exclusive
<1>11. Behind'
  <2> SUFFICES ASSUME NEW k \in Keys, summaries'[k] # entries'[k]
               PROVE  \E j \in Inserters : pc'[j] = "summarize" /\ Key(j)' = k
      BY DEF Behind
  <2>1. k # Key(i) /\ summaries[k] # entries[k]
        BY <1>1 DEF IInv, TypeOK
  <2>2. PICK j \in Inserters : pc[j] = "summarize" /\ Key(j) = k
        BY <2>1 DEF IInv, Behind
  <2> QED BY <2>1, <2>2, <1>7 DEF Threads
<1> QED BY <1>5, <1>6, <1>8, <1>10, <1>11 DEF IInv

\* With the gate held for writing no insertion is under way.
LEMMA InvalidateStep ==
    ASSUME IInv, NEW r \in Refreshers, InvalidateTrips(r) PROVE IInv'
<1> USE ThreadsAssumption
<1>1. /\ r \in Threads /\ r \notin Lookups /\ r \notin Inserters
      /\ pc' = [pc EXCEPT ![r] = "idle"] /\ UNCHANGED <<keys, gateReaders, summaryGuards, entryGuards>>
      BY DEF InvalidateTrips, Threads, locks
<1>2. summaries' = entries' /\ entries' \in [Keys -> Nat]
      BY DEF InvalidateTrips, IInv, TypeOK
<1>3. TypeOK'
      BY <1>1, <1>2 DEF IInv, TypeOK, Steps, Stations
<1>4. /\ \A p \in Lookups \union Inserters : pc'[p] = pc[p]
      /\ \A p : Key(p)' = Key(p) /\ Entry(p)' = Entry(p) /\ Summary(p)' = Summary(p)
      BY <1>1 DEF IInv, TypeOK, Threads, Key, Entry, Summary
<1>5. HasKey' /\ Holders'
      BY <1>1, <1>4 DEF IInv, HasKey, Holders
<1>6. Exclusive' /\ Behind'
      BY <1>2, <1>4 DEF IInv, Exclusive, Behind
<1> QED BY <1>3, <1>5, <1>6 DEF IInv

LEMMA StepInvariant == IInv /\ [Next]_vars => IInv'
<1> SUFFICES ASSUME IInv, [Next]_vars PROVE IInv'
    OBVIOUS
<1>1. ASSUME NEW p \in Threads, Call(p) \/ EnterGate(p) PROVE IInv'
      BY <1>1, CallStep, EnterGateStep
<1>2. ASSUME NEW q \in Lookups, LookupStep(q) PROVE IInv'
      BY <1>2, LookupInvariant
<1>3. ASSUME NEW i \in Inserters, InsertStep(i) PROVE IInv'
      BY <1>3, MergeStep, SummaryStep DEF InsertStep
<1>4. ASSUME NEW r \in Refreshers, InvalidateTrips(r) PROVE IInv'
      BY <1>4, InvalidateStep
<1>5. CASE UNCHANGED vars
      BY <1>5 DEF vars, locks, IInv, TypeOK, HasKey, Holders, Exclusive, Behind, Key, Entry, Summary
<1> QED BY <1>1, <1>2, <1>3, <1>4, <1>5 DEF Next

LEMMA Invariant == Spec => []IInv
BY InitInvariant, StepInvariant, PTL DEF Spec
-----------------------------------------------------------------------------
\* Whatever insertions and invalidations go on, a lookup that gets to scan a
\* bucket scans the one the summary now in the table was made from
\* (lookup_bounded, insert_batch).
THEOREM ScansWhatWasSummarized == Spec => []SummaryOfBucket
<1>1. IInv => SummaryOfBucket
  <2> SUFFICES ASSUME IInv, NEW q \in Lookups, pc[q] = "bucket", EntryFree(Key(q))
               PROVE  summaries[Key(q)] = entries[Key(q)]
      BY DEF SummaryOfBucket
  <2>1. Key(q) \in Keys
        BY KeyKnown
  <2>2. \A i \in Inserters : pc[i] = "summarize" => Key(i) # Key(q)
    <3> SUFFICES ASSUME NEW i \in Inserters, pc[i] = "summarize", Key(i) = Key(q) PROVE FALSE
        OBVIOUS
    <3>1. <<i, EntryShard[Key(q)]>> \in entryGuards
          BY DEF IInv, Holders, Entry
    <3> QED BY <3>1 DEF EntryFree, Holding
  <2> QED BY <2>1, <2>2 DEF IInv, Behind
<1> QED BY <1>1, Invariant, PTL

\* Whenever nobody holds the gate for reading, as when an invalidation gets it,
\* every bucket has the summary made of it (insert_batch, invalidate_trips).
THEOREM SummariesKeepUp == Spec => []SummariesComplete
<1>1. IInv => SummariesComplete
  <2> SUFFICES ASSUME IInv, gateReaders = {} PROVE summaries = entries
      BY DEF SummariesComplete
  <2>1. \A i \in Inserters : pc[i] # "summarize"
        BY DEF IInv, Holders
  <2> QED BY <2>1 DEF IInv, TypeOK, Behind
<1> QED BY <1>1, Invariant, PTL

\* Of the holders of a shard: an insertion holds one of exact_entries only while
\* it summarizes, a lookup one of exact_summaries only past its summary.
LEMMA WhoHolds ==
    ASSUME IInv, NEW shard
    PROVE  /\ \A i \in Holding(entryGuards, shard) : pc[i] = "summarize"
           /\ \A q \in Holding(summaryGuards, shard) : pc[q] \in {"compare", "bucket"}
BY DEF IInv, Holders, Holding

\* Calls that hold one another up for ever, any number of them on any shards, do
\* so around lookups that want their buckets and insertions that want to
\* summarize theirs: insertions never hold up one another over a batch, and no
\* invalidation is part of the knot it is held up by (lookup_bounded,
\* insert_batch, invalidate_trips).
THEOREM OnlyKnots == Spec => []OnlyKnotsStick
<1>1. IInv => OnlyKnotsStick
  <2> SUFFICES ASSUME IInv, NEW S \in SUBSET Threads, Stuck(S)
               PROVE  \E T \in SUBSET S : Knot(T)
      BY DEF OnlyKnotsStick
  <2> DEFINE T == {p \in S : pc[p] \in {"bucket", "summarize"}}
  <2>1. ASSUME NEW p \in S, pc[p] \in {"entry", "bucket"} PROVE WaitsFor(p) \intersect T # {}
    <3>1. PICK i \in S : i \in WaitsFor(p)
          BY DEF Stuck
    <3>2. i \in Holding(entryGuards, Entry(p))
          BY <2>1, <3>1 DEF WaitsFor
    <3> QED BY <3>1, <3>2, WhoHolds
  <2>2. ASSUME NEW p \in S, pc[p] = "summarize" PROVE WaitsFor(p) \intersect T # {}
    <3>1. PICK q \in S : q \in WaitsFor(p)
          BY DEF Stuck
    <3>2. q \in Holding(summaryGuards, Summary(p))
          BY <2>2, <3>1 DEF WaitsFor
    <3>3. pc[q] \in {"compare", "bucket"}
          BY <3>2, WhoHolds
    <3>4. pc[q] # "compare"
          BY DEF Stuck, WaitsFor
    <3> QED BY <3>1, <3>2, <3>3, <3>4
  <2>3. ASSUME NEW p \in S PROVE pc[p] \in {"gate", "entry", "bucket", "summarize"}
        BY DEF Stuck, WaitsFor
  <2>4. ASSUME NEW p \in S, pc[p] = "gate"
        PROVE  \E q \in S : pc[q] \in {"entry", "bucket", "summarize"}
    <3>1. ASSUME NEW r \in S, r \in Refreshers, pc[r] = "gate"
          PROVE  \E q \in S : pc[q] \in {"entry", "bucket", "summarize"}
      <4>1. PICK q \in S : q \in gateReaders
            BY <3>1 DEF Stuck, WaitsFor
      <4>2. pc[q] # "gate"
            BY <4>1 DEF IInv, Holders
      <4> QED BY <4>2, <2>3
    <3>2. CASE p \notin Refreshers
          BY <2>4, <3>1, <3>2 DEF Stuck, WaitsFor
    <3> QED BY <2>4, <3>1, <3>2
  <2>5. T # {}
    <3>1. PICK p \in S : pc[p] \in {"entry", "bucket", "summarize"}
          BY <2>3, <2>4 DEF Stuck
    <3> QED BY <3>1, <2>1, <2>2
  <2>6. Knot(T)
    <3>1. \A p \in T : WaitsFor(p) \intersect T # {}
          BY <2>1, <2>2
    <3> QED BY <2>5, <3>1 DEF Knot, Stuck
  <2> QED BY <2>6
<1> QED BY <1>1, Invariant, PTL
=============================================================================

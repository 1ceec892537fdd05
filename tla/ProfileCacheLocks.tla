------------------------- MODULE ProfileCacheLocks -------------------------
(***************************************************************************)
(* The locks of profile_cache.rs.  Every call holds the gate, an RwLock:   *)
(* lookups and insertions for reading, invalidations for writing.  Inside, *)
(* a lookup reads the summary of its key and keeps that shard of           *)
(* exact_summaries locked while it gets the bucket from exact_entries; an  *)
(* insertion keeps the shard of exact_entries locked while it inserts the  *)
(* summary.  What the buckets hold is module ProfileBucket: here a bucket  *)
(* is the number of merges into it, a summary the number it was made at.   *)
(***************************************************************************)
EXTENDS Naturals, Sequences, FiniteSets

CONSTANTS
    Keys,
    EntryShard,    \* the shard of exact_entries of each key
    SummaryShard,  \* the shard of exact_summaries of each key
    Lookups,       \* threads in lookup_bounded
    Inserters,     \* rayon threads in insert_batch
    Refreshers,    \* callers of invalidate_trips
    LookupKeys,    \* the keys looked up
    Batches,       \* the keys of the batches inserted
    MaxMerges      \* bound: merges into a bucket between invalidations

ASSUME ShardsAssumption ==
    /\ DOMAIN EntryShard = Keys
    /\ DOMAIN SummaryShard = Keys
    /\ LookupKeys \subseteq Keys
    /\ \A b \in Batches : b \in Seq(Keys) /\ b # <<>>
    /\ MaxMerges \in Nat

\* A thread makes calls of one kind.
ASSUME ThreadsAssumption ==
    /\ Lookups \intersect Inserters = {}
    /\ Refreshers \intersect (Lookups \union Inserters) = {}

Threads == Lookups \union Inserters \union Refreshers

VARIABLES
    pc,            \* where each thread stands
    keys,          \* the keys its call has still to handle
    gateReaders,   \* who holds the gate for reading
    summaryGuards, \* <<thread, shard of exact_summaries it holds for reading>>
    entryGuards,   \* <<thread, shard of exact_entries it holds for writing>>
    entries,       \* merges into the bucket of each key, 0 when it has none
    summaries      \* merges its summary has seen, 0 when it has none

locks == <<gateReaders, summaryGuards, entryGuards>>
vars == <<pc, keys, locks, entries, summaries>>

Key(p) == Head(keys[p])

\* The shards a thread needs for the key it handles.
Entry(p) == EntryShard[Key(p)]
Summary(p) == SummaryShard[Key(p)]

\* The guards of everyone but p.
Without(guards, p) == {g \in guards : g[1] # p}

Holding(guards, shard) == {g[1] : g \in {h \in guards : h[2] = shard}}

Init ==
    /\ pc = [p \in Threads |-> "idle"]
    /\ keys = [p \in Threads |-> <<>>]
    /\ gateReaders = {}
    /\ summaryGuards = {}
    /\ entryGuards = {}
    /\ entries = [k \in Keys |-> 0]
    /\ summaries = [k \in Keys |-> 0]

----------------------------------------------------------------------------
(* The gate.  A reader waits while a writer holds it or waits for it.       *)

WriterWaits == \E r \in Refreshers : pc[r] = "gate"

EnterGate(p) ==
    /\ pc[p] = "gate"
    /\ p \notin Refreshers
    /\ ~WriterWaits
    /\ gateReaders' = gateReaders \union {p}
    /\ pc' = [pc EXCEPT ![p] = IF p \in Lookups THEN "summary" ELSE "entry"]
    /\ UNCHANGED <<keys, summaryGuards, entryGuards, entries, summaries>>

\* The guards of a finished call are dropped.
Return(p) ==
    /\ pc' = [pc EXCEPT ![p] = "idle"]
    /\ keys' = [keys EXCEPT ![p] = <<>>]
    /\ gateReaders' = gateReaders \ {p}
    /\ summaryGuards' = Without(summaryGuards, p)

----------------------------------------------------------------------------
(* lookup_bounded                                                           *)

CallLookup(q) ==
    /\ pc[q] = "idle"
    /\ \E k \in LookupKeys : keys' = [keys EXCEPT ![q] = <<k>>]
    /\ pc' = [pc EXCEPT ![q] = "gate"]
    /\ UNCHANGED <<locks, entries, summaries>>

\* exact_summaries.get waits for the writer of its shard; no summary is a miss.
GetSummary(q) ==
    /\ pc[q] = "summary"
    /\ IF summaries[Key(q)] = 0
       THEN Return(q)
       ELSE /\ summaryGuards' = summaryGuards \union {<<q, Summary(q)>>}
            /\ pc' = [pc EXCEPT ![q] = "compare"]
            /\ UNCHANGED <<keys, gateReaders>>
    /\ UNCHANGED <<entryGuards, entries, summaries>>

\* The early exit on the summary.
Prune(q) ==
    /\ pc[q] = "compare"
    /\ Return(q)
    /\ UNCHANGED <<entryGuards, entries, summaries>>

\* Not pruned: the bucket is wanted, the summary still borrowed.
WantBucket(q) ==
    /\ pc[q] = "compare"
    /\ pc' = [pc EXCEPT ![q] = "bucket"]
    /\ UNCHANGED <<keys, locks, entries, summaries>>

EntryFree(k) == Holding(entryGuards, EntryShard[k]) = {}

\* Mutant: the scan takes the gate once more, behind a waiting invalidation.
GetBucketGated(q) ==
    /\ pc[q] = "bucket"
    /\ ~WriterWaits
    /\ EntryFree(Key(q))
    /\ Return(q)
    /\ UNCHANGED <<entryGuards, entries, summaries>>

\* exact_entries.get: no insertion holds the shard.  The bucket is scanned and
\* the guards dropped.
GetBucket(q) ==
    /\ pc[q] = "bucket"
    /\ EntryFree(Key(q))
    /\ Return(q)
    /\ UNCHANGED <<entryGuards, entries, summaries>>

----------------------------------------------------------------------------
(* insert_batch                                                             *)

CallInsert(i) ==
    /\ pc[i] = "idle"
    /\ \E b \in Batches :
        /\ \A n \in DOMAIN b : entries[b[n]] < MaxMerges
        /\ keys' = [keys EXCEPT ![i] = b]
    /\ pc' = [pc EXCEPT ![i] = "gate"]
    /\ UNCHANGED <<locks, entries, summaries>>

\* Mutant: the entry is dropped before the summary is inserted.
MergePointUnlocked(i) ==
    /\ pc[i] = "entry"
    /\ EntryFree(Key(i))
    /\ entries' = [entries EXCEPT ![Key(i)] = @ + 1]
    /\ pc' = [pc EXCEPT ![i] = "summarize"]
    /\ UNCHANGED <<keys, locks, summaries>>

\* exact_entries.entry locks the shard; the point is merged.
MergePoint(i) ==
    /\ pc[i] = "entry"
    /\ EntryFree(Key(i))
    /\ entryGuards' = entryGuards \union {<<i, Entry(i)>>}
    /\ entries' = [entries EXCEPT ![Key(i)] = @ + 1]
    /\ pc' = [pc EXCEPT ![i] = "summarize"]
    /\ UNCHANGED <<keys, gateReaders, summaryGuards, summaries>>

SummaryFree(k) == Holding(summaryGuards, SummaryShard[k]) = {}

\* What follows a summary: the next point of the batch, or the end of the call.
NextPoint(i) ==
    IF Tail(keys[i]) = <<>>
    THEN Return(i)
    ELSE /\ keys' = [keys EXCEPT ![i] = Tail(@)]
         /\ pc' = [pc EXCEPT ![i] = "entry"]
         /\ UNCHANGED <<gateReaders, summaryGuards>>

\* Mutant: the entries of a batch stay borrowed until its last point.
InsertSummaryKeepingEntry(i) ==
    /\ pc[i] = "summarize"
    /\ SummaryFree(Key(i))
    /\ summaries' = [summaries EXCEPT ![Key(i)] = entries[Key(i)]]
    /\ entryGuards' = IF Tail(keys[i]) = <<>> THEN Without(entryGuards, i) ELSE entryGuards
    /\ NextPoint(i)
    /\ UNCHANGED entries

\* exact_summaries.insert waits for the readers of its shard; then the entry is
\* dropped and the next point of the batch follows.
InsertSummary(i) ==
    /\ pc[i] = "summarize"
    /\ SummaryFree(Key(i))
    /\ summaries' = [summaries EXCEPT ![Key(i)] = entries[Key(i)]]
    /\ entryGuards' = Without(entryGuards, i)
    /\ NextPoint(i)
    /\ UNCHANGED entries

----------------------------------------------------------------------------
(* invalidate_trips                                                         *)

CallInvalidate(r) ==
    /\ pc[r] = "idle"
    /\ pc' = [pc EXCEPT ![r] = "gate"]
    /\ UNCHANGED <<keys, locks, entries, summaries>>

\* Mutant: a bucket that became empty keeps its summary.
InvalidateEntriesOnly(r) ==
    /\ pc[r] = "gate"
    /\ gateReaders = {}
    /\ \E emptied \in SUBSET Keys :
            entries' = [k \in Keys |-> IF k \in emptied THEN 0 ELSE entries[k]]
    /\ pc' = [pc EXCEPT ![r] = "idle"]
    /\ UNCHANGED <<keys, locks, summaries>>

\* With the gate held for writing nobody else holds a shard: one step.  Some
\* buckets become empty, the others keep their points and get a new summary.
InvalidateTrips(r) ==
    /\ pc[r] = "gate"
    /\ gateReaders = {}
    /\ \E emptied \in SUBSET Keys :
        /\ entries' = [k \in Keys |-> IF k \in emptied THEN 0 ELSE entries[k]]
        /\ summaries' = entries'
    /\ pc' = [pc EXCEPT ![r] = "idle"]
    /\ UNCHANGED <<keys, locks>>

----------------------------------------------------------------------------

Call(p) ==
    \/ p \in Lookups /\ CallLookup(p)
    \/ p \in Inserters /\ CallInsert(p)
    \/ p \in Refreshers /\ CallInvalidate(p)

LookupStep(q) == GetSummary(q) \/ Prune(q) \/ WantBucket(q) \/ GetBucket(q)
InsertStep(i) == MergePoint(i) \/ InsertSummary(i)

Next ==
    \/ \E p \in Threads : Call(p) \/ EnterGate(p)
    \/ \E q \in Lookups : LookupStep(q)
    \/ \E i \in Inserters : InsertStep(i)
    \/ \E r \in Refreshers : InvalidateTrips(r)

\* A thread that can go on inside a call does.  Nothing is assumed of who gets a
\* lock first, and no call is bound to be made.
Fairness ==
    /\ \A p \in Threads : WF_vars(EnterGate(p))
    /\ \A q \in Lookups : WF_vars(LookupStep(q))
    /\ \A i \in Inserters : WF_vars(InsertStep(i))
    /\ \A r \in Refreshers : WF_vars(InvalidateTrips(r))

Spec == Init /\ [][Next]_vars /\ Fairness

----------------------------------------------------------------------------
(* Properties.                                                              *)

\* A lookup that is about to scan a bucket scans the one its summary was made
\* from, whatever insertions went on since it read the summary.
SummaryOfBucket ==
    \A q \in Lookups :
        pc[q] = "bucket" /\ EntryFree(Key(q)) => summaries[Key(q)] = entries[Key(q)]

\* While nobody is inside the cache every bucket has its summary.
SummariesComplete == gateReaders = {} => summaries = entries

\* Whom a thread waits for: those that hold what it wants next, and at the gate
\* the invalidation ahead of it.
WaitsFor(p) == {q \in Threads :
    \/ pc[p] = "gate" /\ p \in Refreshers /\ q \in gateReaders
    \/ pc[p] = "gate" /\ p \notin Refreshers /\ q \in Refreshers /\ pc[q] = "gate"
    \/ pc[p] \in {"entry", "bucket"} /\ q \in Holding(entryGuards, Entry(p))
    \/ pc[p] = "summarize" /\ q \in Holding(summaryGuards, Summary(p))}

\* Each waits for one of them: none can ever go on.
Stuck(S) == S # {} /\ \A p \in S : WaitsFor(p) \intersect S # {}

\* Lookups that want their buckets and insertions that want to summarize theirs,
\* round about: two of one key, or more over several pairs of shards.
Knot(S) == Stuck(S) /\ \A p \in S : pc[p] \in {"bucket", "summarize"}

Knotted == \E S \in SUBSET Threads : Knot(S)

\* However many threads, keys and shards: calls that hold one another up for
\* ever do so around a knot of lookups and insertions.  Neither insertions alone,
\* over the points of their batches, nor calls and invalidations at the gate get
\* stuck (lookup_bounded, insert_batch, invalidate_trips).
OnlyKnotsStick ==
    \A S \in SUBSET Threads : Stuck(S) => \E T \in SUBSET S : Knot(T)

\* An invalidation gets the gate and returns, and so do the calls inside before
\* it, unless a knot ties them: it keeps further calls out, so that lookups
\* cannot go on taking turns at a shard an insertion waits for.
InvalidationsReturn ==
    \A r \in Refreshers : pc[r] = "gate" ~> pc[r] = "idle" \/ Knotted
============================================================================

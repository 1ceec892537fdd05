------------------------- MODULE OverlayPoll_proofs -------------------------
(***************************************************************************)
(* The overlay implements OsmReplica, for every set of extracts, anchored  *)
(* or not, and every interleaving of polls, reloads and crashes.           *)
(***************************************************************************)
EXTENDS OverlayPoll, TLAPS

\* What an overlay of an anchored extract may hold.
Sound(o) ==
    o.inputs.extract \in Anchored =>
        /\ Complete(o)
        /\ o.inputs.extract <= UpTo(o)
        /\ UpTo(o) <= published

\* Nothing is held before a sequence is applied, and no gap after.
Gapless(o) ==
    /\ o.applied = NoSequence => o.held = {}
    /\ NoGap(o)

Fine(o) == o.inputs.extract <= published /\ Sound(o) /\ Gapless(o)

\* The draft is ahead of the runtime it was taken from, while that is served.
DraftAhead ==
    poll.stage # "none" =>
        /\ running
        /\ poll.overlay.applied \in Nat
        /\ poll.target <= published
        /\ poll.stage = "fetch" => poll.overlay.applied < poll.target
        /\ poll.generation <= generation
        /\ poll.generation = generation =>
              /\ poll.overlay.inputs = serving.inputs
              /\ UpTo(serving) <= UpTo(poll.overlay) \/ serving.inputs.extract \notin Anchored

IInv ==
    /\ TypeOK
    /\ disk.extract <= published
    /\ running => Fine(serving)
    /\ rebuilding => running /\ Fine(next)
    /\ poll.stage # "none" => Fine(poll.overlay)
    /\ file.state = "overlay" => Fine(file.overlay)
    /\ DraftAhead
-----------------------------------------------------------------------------
LEMMA NoOverlayType == NoOverlay \in Overlays /\ NoPoll.overlay = NoOverlay /\ NoPoll.stage = "none"
<1>1. Inputs # {}
  <2>1. PICK e \in Extracts : TRUE
    BY OverlayAssumption
  <2>2. PICK t \in StopSets : TRUE
    BY OverlayAssumption
  <2>3. [extract |-> e, stops |-> t] \in Inputs
    BY DEF Inputs
  <2> QED
    BY <2>3
<1>2. (CHOOSE i \in Inputs : TRUE) \in Inputs
  BY <1>1
<1> QED
  BY <1>2 DEF NoOverlay, EmptyOverlay, NoPoll, Overlays, Sequences0

LEMMA NoPollType ==
    NoPoll \in [stage : {"none", "fetch", "remove", "rename", "store"},
                generation : Nat, target : Nat, overlay : Overlays]
BY NoOverlayType DEF NoPoll

\* An empty overlay of inputs no newer than the server is fine.
LEMMA EmptyFine ==
    ASSUME NEW i \in Inputs, published \in Nat, i.extract <= published
    PROVE  EmptyOverlay(i) \in Overlays /\ Fine(EmptyOverlay(i))
<1>1. i.extract \in Nat
  BY OverlayAssumption DEF Inputs
<1>2. (i.extract + 1)..i.extract = {}
  BY <1>1
<1> QED
  BY <1>1, <1>2 DEF EmptyOverlay, Overlays, Sequences0, Fine, Sound, Gapless, NoGap, Complete, UpTo

\* So is what a load finds.
LEMMA LoadedFine ==
    ASSUME IInv
    PROVE  /\ LoadedOverlay(disk) \in Overlays
           /\ LoadedOverlay(disk).inputs = disk
           /\ Fine(LoadedOverlay(disk))
<1>1. disk \in Inputs /\ published \in Nat /\ disk.extract <= published
  BY DEF IInv, TypeOK
<1>2. EmptyOverlay(disk) \in Overlays /\ Fine(EmptyOverlay(disk))
  BY <1>1, EmptyFine
<1>3. file.overlay \in Overlays
  BY DEF IInv, TypeOK
<1> QED
  BY <1>2, <1>3 DEF LoadedOverlay, EmptyOverlay, IInv

\* More published sequences spoil nothing.
LEMMA FineMonotone ==
    ASSUME NEW o \in Overlays, published \in Nat, published' \in Nat,
           published <= published', Fine(o)
    PROVE  /\ o.inputs.extract <= published'
           /\ o.inputs.extract \in Anchored =>
                Complete(o) /\ o.inputs.extract <= UpTo(o) /\ UpTo(o) <= published'
           /\ Gapless(o)
<1>1. o.inputs.extract \in Nat /\ (o.applied # NoSequence => o.applied \in Nat)
  BY OverlayAssumption DEF Overlays, Inputs, Sequences0
<1>2. UpTo(o) \in Nat
  BY <1>1 DEF UpTo
<1> QED
  BY <1>1, <1>2 DEF Fine, Sound

\* Applying the next sequence keeps an overlay fine.
LEMMA FetchFine ==
    ASSUME NEW o \in Overlays, o.applied \in Nat, published \in Nat, Fine(o),
           o.applied + 1 <= published
    PROVE  LET p == [o EXCEPT !.applied = @ + 1, !.held = @ \union {o.applied + 1}]
           IN  p \in Overlays /\ Fine(p)
<1> DEFINE n == o.applied + 1
           p == [o EXCEPT !.applied = @ + 1, !.held = @ \union {o.applied + 1}]
<1>1. /\ p.inputs = o.inputs /\ p.applied = n /\ p.held = o.held \union {n}
      /\ n \in Nat /\ o.inputs.extract \in Nat /\ o.held \subseteq Nat
  BY OverlayAssumption DEF Overlays, Inputs
<1>2. p \in Overlays
  BY <1>1 DEF Overlays, Sequences0
<1>3. NoSequence \notin Nat
  BY OverlayAssumption
<1>4. UpTo(p) = n /\ UpTo(o) = o.applied
  BY <1>1, <1>3 DEF UpTo
<1>5. Sound(p)
  <2> SUFFICES ASSUME p.inputs.extract \in Anchored
               PROVE  Complete(p) /\ p.inputs.extract <= n /\ n <= published
    BY <1>4 DEF Sound
  <2>1. o.held = (o.inputs.extract + 1)..o.applied /\ o.inputs.extract <= o.applied
    BY <1>1, <1>4 DEF Fine, Sound, Complete
  <2>2. ((o.inputs.extract + 1)..o.applied) \union {n} = (o.inputs.extract + 1)..n
    BY <1>1, <2>1
  <2> QED
    BY <1>1, <1>4, <2>1, <2>2 DEF Complete
<1>6. Gapless(p)
  <2>1. CASE o.held = {}
    BY <1>1, <1>3, <2>1 DEF Gapless, NoGap
  <2>2. CASE o.held # {}
    <3>1. PICK from \in o.held : o.held = from..o.applied
      BY <2>2 DEF Fine, Gapless, NoGap
    <3>2. from \in Nat /\ from <= o.applied
      BY <1>1, <3>1
    <3>3. (from..o.applied) \union {n} = from..n
      BY <3>2
    <3> QED
      BY <1>1, <1>3, <3>1, <3>3 DEF Gapless, NoGap
  <2> QED BY <2>1, <2>2
<1>7. p.inputs.extract <= published
  BY <1>1 DEF Fine
<1> QED
  BY <1>2, <1>5, <1>6, <1>7 DEF Fine
-----------------------------------------------------------------------------
(* The invariant                                                           *)

LEMMA InitIInv == Init => IInv
<1> SUFFICES ASSUME Init PROVE IInv
  OBVIOUS
<1>1. published \in Nat /\ disk \in Inputs /\ disk.extract <= published
  BY OverlayAssumption DEF Init
<1>2. file \in [state : {"none", "unreadable", "overlay"}, overlay : Overlays]
  BY NoOverlayType DEF Init
<1>3. TypeOK
  BY <1>1, <1>2, NoOverlayType, NoPollType DEF Init, TypeOK
<1> QED
  BY <1>1, <1>3, NoOverlayType DEF Init, IInv, DraftAhead

LEMMA PublishKeeps == IInv /\ Publish => IInv'
<1> SUFFICES ASSUME IInv, Publish PROVE IInv'
  OBVIOUS
<1>1. published \in Nat /\ published' \in Nat /\ published <= published'
  BY DEF IInv, TypeOK, Publish
<1>2. TypeOK'
  BY <1>1 DEF IInv, TypeOK, Publish
<1>3. disk'.extract <= published'
  <2>1. disk.extract \in Nat
    BY OverlayAssumption DEF IInv, TypeOK, Inputs
  <2> QED
    BY <1>1, <2>1 DEF IInv, Publish
<1>4. ASSUME NEW o \in Overlays, Fine(o)
      PROVE  /\ o.inputs.extract <= published'
             /\ o.inputs.extract \in Anchored =>
                  Complete(o) /\ o.inputs.extract <= UpTo(o) /\ UpTo(o) <= published'
             /\ Gapless(o)
  BY <1>1, <1>4, FineMonotone
<1>5. serving \in Overlays /\ next \in Overlays /\ poll.overlay \in Overlays /\ file.overlay \in Overlays
  BY DEF IInv, TypeOK
<1>6. (running => Fine(serving))'
  BY <1>4, <1>5 DEF IInv, Publish, Fine, Sound, Gapless, NoGap, Complete, UpTo
<1>7. (rebuilding => running /\ Fine(next))'
  BY <1>4, <1>5 DEF IInv, Publish, Fine, Sound, Gapless, NoGap, Complete, UpTo
<1>8. (poll.stage # "none" => Fine(poll.overlay))'
  BY <1>4, <1>5 DEF IInv, Publish, Fine, Sound, Gapless, NoGap, Complete, UpTo
<1>9. (file.state = "overlay" => Fine(file.overlay))'
  BY <1>4, <1>5 DEF IInv, Publish, Fine, Sound, Gapless, NoGap, Complete, UpTo
<1>10. DraftAhead'
  <2>1. poll.target \in Nat
    BY DEF IInv, TypeOK
  <2> QED
    BY <1>1, <2>1 DEF IInv, Publish, DraftAhead, UpTo
<1> QED
  BY <1>2, <1>3, <1>6, <1>7, <1>8, <1>9, <1>10 DEF IInv

LEMMA EnginesKeep == IInv /\ (SyncInputs \/ Start \/ LoadNext \/ Swap \/ Crash) => IInv'
<1> SUFFICES ASSUME IInv, SyncInputs \/ Start \/ LoadNext \/ Swap \/ Crash PROVE IInv'
  OBVIOUS
<1>1. CASE SyncInputs
  <2>1. TypeOK'
    BY <1>1 DEF IInv, TypeOK, SyncInputs
  <2> QED
    BY <1>1, <2>1 DEF SyncInputs, IInv, Fine, Sound, Gapless, NoGap, Complete, UpTo, DraftAhead
<1>2. CASE Start
  <2>1. /\ LoadedOverlay(disk) \in Overlays /\ LoadedOverlay(disk).inputs = disk
        /\ Fine(LoadedOverlay(disk))
    BY LoadedFine
  <2>2. TypeOK'
    BY <1>2, <2>1 DEF IInv, TypeOK, Start
  <2>3. poll.stage = "none" /\ ~rebuilding
    BY <1>2 DEF IInv, DraftAhead, Start
  <2>4. Fine(serving)'
    BY <1>2, <2>1 DEF Start, Fine, Sound, Gapless, NoGap, Complete, UpTo
  <2> QED
    BY <1>2, <2>2, <2>3, <2>4 DEF Start, IInv, Fine, Sound, Gapless, NoGap, Complete, UpTo, DraftAhead
<1>3. CASE LoadNext
  <2>1. /\ LoadedOverlay(disk) \in Overlays /\ LoadedOverlay(disk).inputs = disk
        /\ Fine(LoadedOverlay(disk))
    BY LoadedFine
  <2>2. TypeOK'
    BY <1>3, <2>1 DEF IInv, TypeOK, LoadNext
  <2>3. Fine(next)'
    BY <1>3, <2>1 DEF LoadNext, Fine, Sound, Gapless, NoGap, Complete, UpTo
  <2> QED
    BY <1>3, <2>2, <2>3 DEF LoadNext, IInv, Fine, Sound, Gapless, NoGap, Complete, UpTo, DraftAhead
<1>4. CASE Swap
  <2>1. TypeOK'
    <3>1. serving' \in Overlays /\ next' \in Overlays /\ generation' \in Nat
      BY <1>4, NoOverlayType DEF IInv, TypeOK, Swap
    <3> QED
      BY <1>4, <3>1 DEF IInv, TypeOK, Swap
  <2>2. running /\ Fine(next)
    BY <1>4 DEF IInv, Swap
  <2>3. Fine(serving)'
    BY <1>4, <2>2 DEF Swap, Fine, Sound, Gapless, NoGap, Complete, UpTo
  <2>4. DraftAhead'
    BY <1>4, <2>2 DEF Swap, IInv, DraftAhead, TypeOK
  <2>5. (poll.stage # "none" => Fine(poll.overlay))'
    BY <1>4 DEF Swap, IInv, Fine, Sound, Gapless, NoGap, Complete, UpTo
  <2>6. (file.state = "overlay" => Fine(file.overlay))'
    BY <1>4 DEF Swap, IInv, Fine, Sound, Gapless, NoGap, Complete, UpTo
  <2>7. disk'.extract <= published' /\ ~rebuilding' /\ running'
    BY <1>4, <2>2 DEF Swap, IInv
  <2> QED
    BY <2>1, <2>3, <2>4, <2>5, <2>6, <2>7 DEF IInv
<1>5. CASE Crash
  <2>1. TypeOK'
    <3>1. serving' \in Overlays /\ next' \in Overlays /\ faults' \in Nat
      BY <1>5, NoOverlayType DEF IInv, TypeOK, Crash, Fault
    <3>2. poll' \in [stage : {"none", "fetch", "remove", "rename", "store"},
                     generation : Nat, target : Nat, overlay : Overlays]
      BY <1>5, NoPollType DEF Crash
    <3> QED
      BY <1>5, <3>1, <3>2 DEF IInv, TypeOK, Crash
  <2> QED
    BY <1>5, <2>1, NoOverlayType DEF Crash, IInv, Fine, Sound, Gapless, NoGap, Complete, UpTo, DraftAhead
<1> QED
  BY <1>1, <1>2, <1>3, <1>4, <1>5

\* The draft a poll begins with.
LEMMA BeginKeeps ==
    ASSUME IInv, NEW seen \in 0..published, BeginPoll(seen), faults' \in Nat
    PROVE  IInv'
<1> DEFINE from == StartsAt(serving, seen)
           draft == [serving EXCEPT !.applied = from]
<1>1. /\ running /\ serving \in Overlays /\ Fine(serving) /\ published \in Nat
      /\ generation \in Nat /\ seen \in Nat /\ seen <= published
  BY DEF IInv, BeginPoll, TypeOK
<1>2. /\ serving.inputs.extract \in Nat
      /\ serving.applied # NoSequence => serving.applied \in Nat
      /\ NoSequence \notin Nat
  BY <1>1, OverlayAssumption DEF Overlays, Inputs, Sequences0
<1>3. from \in Nat
  BY <1>1, <1>2 DEF StartsAt, Anchor
<1>4. /\ draft \in Overlays /\ draft.inputs = serving.inputs
      /\ draft.applied = from /\ draft.held = serving.held
  BY <1>1, <1>3 DEF Overlays, Sequences0
<1>5. Fine(draft) /\ (UpTo(serving) <= UpTo(draft) \/ serving.inputs.extract \notin Anchored)
  <2>1. CASE serving.applied # NoSequence
    <3>1. from = serving.applied
      BY <2>1 DEF StartsAt
    <3>2. UpTo(draft) = UpTo(serving) /\ UpTo(serving) \in Nat
      BY <1>2, <1>3, <1>4, <2>1, <3>1 DEF UpTo
    <3> QED
      BY <1>1, <1>2, <1>4, <2>1, <3>1, <3>2 DEF Fine, Sound, Complete, Gapless, NoGap
  <2>2. CASE serving.applied = NoSequence
    <3>1. serving.held = {} /\ UpTo(serving) = serving.inputs.extract
      BY <1>1, <2>2 DEF Fine, Gapless, UpTo
    <3>2. UpTo(draft) = from
      BY <1>2, <1>3, <1>4 DEF UpTo
    <3>3. CASE serving.inputs.extract \in Anchored
      <4>1. from = serving.inputs.extract
        BY <1>2, <2>2, <3>3 DEF StartsAt, Anchor
      <4>2. (from + 1)..from = {}
        BY <1>3
      <4> QED
        BY <1>1, <1>2, <1>3, <1>4, <3>1, <3>2, <4>1, <4>2
           DEF Fine, Sound, Complete, Gapless, NoGap
    <3>4. CASE serving.inputs.extract \notin Anchored
      BY <1>1, <1>2, <1>3, <1>4, <3>1, <3>4 DEF Fine, Sound, Gapless, NoGap
    <3> QED BY <3>3, <3>4
  <2> QED BY <2>1, <2>2
<1>6. /\ poll' = [stage |-> IF seen > from THEN "fetch" ELSE "remove",
                  generation |-> generation, target |-> seen, overlay |-> draft]
      /\ UNCHANGED <<published, disk, file, running, serving, generation, rebuilding, next>>
  BY DEF BeginPoll
<1> HIDE DEF draft
<1>7. TypeOK'
  BY <1>1, <1>4, <1>6 DEF IInv, TypeOK
<1>8. DraftAhead'
  BY <1>1, <1>3, <1>4, <1>5, <1>6 DEF DraftAhead, UpTo
<1>9. Fine(poll.overlay)'
  BY <1>5, <1>6 DEF Fine, Sound, Complete, UpTo, Gapless, NoGap
<1> QED
  BY <1>6, <1>7, <1>8, <1>9 DEF IInv, Fine, Sound, Gapless, NoGap, Complete, UpTo

LEMMA FetchKeeps == IInv /\ FetchDiff => IInv'
<1> SUFFICES ASSUME IInv, FetchDiff PROVE IInv'
  OBVIOUS
<1> DEFINE o == poll.overlay
           p == [o EXCEPT !.applied = @ + 1, !.held = @ \union {o.applied + 1}]
<1>1. /\ o \in Overlays /\ Fine(o) /\ o.applied \in Nat /\ published \in Nat
      /\ poll.target \in Nat /\ o.applied + 1 <= poll.target /\ poll.target <= published
      /\ poll.generation \in Nat /\ running
  BY DEF IInv, TypeOK, DraftAhead, FetchDiff
<1>2. p \in Overlays /\ Fine(p)
  <2>1. o.applied + 1 <= published
    BY <1>1
  <2> QED
    BY <1>1, <2>1, FetchFine
<1>3. p.inputs = o.inputs /\ p.applied = o.applied + 1
  BY <1>1 DEF Overlays
<1>4. /\ poll' = [stage |-> IF o.applied + 1 = poll.target THEN "remove" ELSE "fetch",
                  generation |-> poll.generation, target |-> poll.target, overlay |-> p]
      /\ UNCHANGED <<published, disk, file, running, serving, generation, rebuilding, next, faults>>
  <2>1. poll \in [stage : {"none", "fetch", "remove", "rename", "store"},
                  generation : Nat, target : Nat, overlay : Overlays]
    BY DEF IInv, TypeOK
  <2> QED
    BY <1>1, <2>1 DEF FetchDiff, Overlays
<1> HIDE DEF p
<1>5. TypeOK'
  BY <1>1, <1>2, <1>4 DEF IInv, TypeOK
<1>6. poll.stage = "fetch" /\ NoSequence \notin Nat
  BY OverlayAssumption DEF FetchDiff
<1>7. UpTo(serving) \in Nat
  BY OverlayAssumption DEF IInv, TypeOK, Overlays, Inputs, Sequences0, UpTo
<1>8. UpTo(o) = o.applied /\ UpTo(p) = o.applied + 1
  BY <1>1, <1>3, <1>6 DEF UpTo
<1>9. DraftAhead'
  <2>1. poll.generation = generation =>
           /\ p.inputs = serving.inputs
           /\ UpTo(serving) <= UpTo(p) \/ serving.inputs.extract \notin Anchored
    BY <1>1, <1>3, <1>6, <1>7, <1>8 DEF IInv, DraftAhead
  <2>2. poll.generation <= generation
    BY <1>6 DEF IInv, DraftAhead
  <2> QED
    BY <1>1, <1>3, <1>4, <2>1, <2>2 DEF DraftAhead, UpTo
<1>10. Fine(poll.overlay)'
  BY <1>2, <1>4 DEF Fine, Sound, Complete, UpTo, Gapless, NoGap
<1> QED
  BY <1>4, <1>5, <1>9, <1>10 DEF IInv, Fine, Sound, Gapless, NoGap, Complete, UpTo

LEMMA PersistKeeps ==
    IInv /\ (RemoveFile \/ RenameFile \/ RenameCutFile \/ PollFails \/ StoreRuntime) => IInv'
<1> SUFFICES ASSUME IInv, RemoveFile \/ RenameFile \/ RenameCutFile \/ PollFails \/ StoreRuntime
             PROVE  IInv'
  OBVIOUS
<1>1. CASE RemoveFile
  <2>1. TypeOK'
    BY <1>1, NoOverlayType DEF IInv, TypeOK, RemoveFile
  <2>2. /\ poll'.stage = "rename" /\ poll'.overlay = poll.overlay /\ poll.stage = "remove"
        /\ poll'.generation = poll.generation /\ poll'.target = poll.target
    BY <1>1 DEF IInv, TypeOK, RemoveFile
  <2> QED
    BY <1>1, <2>1, <2>2 DEF RemoveFile, IInv, Fine, Sound, Gapless, NoGap, Complete, UpTo, DraftAhead
<1>2. CASE RenameFile
  <2>1. TypeOK'
    BY <1>2, NoOverlayType DEF IInv, TypeOK, RenameFile
  <2>2. /\ poll'.stage = "store" /\ poll'.overlay = poll.overlay /\ poll.stage = "rename"
        /\ poll'.generation = poll.generation /\ poll'.target = poll.target
    BY <1>2 DEF IInv, TypeOK, RenameFile
  <2>3. Fine(poll.overlay)
    BY <2>2 DEF IInv
  <2> QED
    BY <1>2, <2>1, <2>2, <2>3 DEF RenameFile, IInv, Fine, Sound, Gapless, NoGap, Complete, UpTo, DraftAhead
<1>3. CASE RenameCutFile
  <2>1. TypeOK'
    BY <1>3, NoOverlayType DEF IInv, TypeOK, RenameCutFile, Fault
  <2>2. /\ poll'.stage = "store" /\ poll'.overlay = poll.overlay /\ poll.stage = "rename"
        /\ poll'.generation = poll.generation /\ poll'.target = poll.target
    BY <1>3 DEF IInv, TypeOK, RenameCutFile
  <2> QED
    BY <1>3, <2>1, <2>2 DEF RenameCutFile, IInv, Fine, Sound, Gapless, NoGap, Complete, UpTo, DraftAhead
<1>4. CASE PollFails
  <2>1. TypeOK'
    BY <1>4, NoPollType DEF IInv, TypeOK, PollFails, Fault
  <2> QED
    BY <1>4, <2>1, NoOverlayType DEF PollFails, IInv, Fine, Sound, Gapless, NoGap, Complete, UpTo, DraftAhead
<1>5. CASE StoreRuntime
  <2>1. TypeOK'
    BY <1>5, NoPollType DEF IInv, TypeOK, StoreRuntime
  <2>2. Fine(poll.overlay)
    BY <1>5 DEF IInv, StoreRuntime
  <2>3. (running => Fine(serving))'
    BY <1>5, <2>2 DEF StoreRuntime, IInv, Fine, Sound, Complete, UpTo, Gapless, NoGap
  <2> QED
    BY <1>5, <2>1, <2>3, NoOverlayType DEF StoreRuntime, IInv, Fine, Sound, Gapless, NoGap, Complete, UpTo, DraftAhead
<1> QED
  BY <1>1, <1>2, <1>3, <1>4, <1>5

LEMMA NextIInv == IInv /\ [Next]_vars => IInv'
<1> SUFFICES ASSUME IInv, [Next]_vars PROVE IInv'
  OBVIOUS
<1>1. CASE PollLatest
  BY <1>1, BeginKeeps DEF IInv, TypeOK, PollLatest
<1>2. CASE PollLate
  BY <1>2, BeginKeeps DEF IInv, TypeOK, PollLate, Fault
<1>3. CASE UNCHANGED vars
  BY <1>3 DEF vars, TypeOK, IInv, Fine, Sound, Gapless, NoGap, Complete, UpTo, DraftAhead
<1> QED
  BY <1>1, <1>2, <1>3, PublishKeeps, EnginesKeep, FetchKeeps, PersistKeeps DEF Next

THEOREM Invariant == Spec => []IInv
<1> QED
  BY InitIInv, NextIInv, PTL DEF Spec
-----------------------------------------------------------------------------
(* Refinement                                                              *)

\* No overlay is ever mixed: the two guises of Sound.
LEMMA AsOfServing ==
    IInv =>
        /\ ~running => AsOf = Down
        /\ running /\ serving.inputs.extract \notin Anchored => AsOf = Unknown
        /\ running /\ serving.inputs.extract \in Anchored =>
              AsOf = UpTo(serving) /\ AsOf \in 0..published
<1> SUFFICES ASSUME IInv
             PROVE  /\ ~running => AsOf = Down
                    /\ running /\ serving.inputs.extract \notin Anchored => AsOf = Unknown
                    /\ running /\ serving.inputs.extract \in Anchored =>
                          AsOf = UpTo(serving) /\ AsOf \in 0..published
  OBVIOUS
<1>1. /\ serving.inputs.extract \in Nat /\ published \in Nat
      /\ serving.applied # NoSequence => serving.applied \in Nat
      /\ NoSequence \notin Nat
  BY OverlayAssumption DEF IInv, TypeOK, Overlays, Inputs, Sequences0
<1>2. UpTo(serving) \in Nat
  BY <1>1 DEF UpTo
<1>3. CASE ~running
  BY <1>3 DEF AsOf
<1>4. CASE running /\ serving.inputs.extract \notin Anchored
  BY <1>4 DEF AsOf, Anchor
<1>5. CASE running /\ serving.inputs.extract \in Anchored
  BY <1>1, <1>2, <1>5 DEF AsOf, Anchor, IInv, Fine, Sound
<1> QED
  BY <1>3, <1>4, <1>5

LEMMA AsOfType == IInv => AsOf \in 0..published \union {Unknown, Down}
BY AsOfServing

\* AsOf depends on the engine served alone.
LEMMA AsOfSame == UNCHANGED <<running, serving>> => AsOf' = AsOf
BY DEF AsOf, Anchor, Complete, UpTo

LEMMA ReplicaStep == IInv /\ IInv' /\ [Next]_vars => [Replica!Next]_(Replica!replica)
<1> SUFFICES ASSUME IInv, IInv', [Next]_vars
             PROVE  Replica!Next \/ UNCHANGED <<published, generation, AsOf>>
  BY DEF Replica!replica
<1>1. CASE Publish
  <2>1. AsOf' = AsOf
    BY <1>1, AsOfSame DEF Publish
  <2> QED
    BY <1>1, <2>1 DEF Publish, Replica!Next, Replica!Publish
<1>2. CASE Start \/ Swap
  <2>1. (IInv => AsOf \in 0..published \union {Unknown, Down})'
    BY AsOfType, PTL
  <2> QED
    BY <1>2, <2>1 DEF Start, Swap, Replica!Next, Replica!Replace, Replica!States
<1>3. CASE Crash
  <2>1. AsOf' = Down
    BY <1>3 DEF Crash, AsOf
  <2> QED
    BY <1>3, <2>1 DEF Crash, Replica!Next, Replica!Stop
<1>4. CASE StoreRuntime /\ poll.generation = generation
  <2>1. /\ running /\ running' /\ serving' = poll.overlay
        /\ serving'.inputs = serving.inputs
        /\ UpTo(serving) <= UpTo(poll.overlay) \/ serving.inputs.extract \notin Anchored
    BY <1>4 DEF StoreRuntime, IInv, DraftAhead
  <2>2. CASE serving.inputs.extract \notin Anchored
    <3>1. AsOf = Unknown /\ AsOf' = Unknown
      BY <2>1, <2>2 DEF AsOf, Anchor
    <3> QED
      BY <1>4, <3>1 DEF StoreRuntime
  <2>3. CASE serving.inputs.extract \in Anchored
    <3>1. AsOf = UpTo(serving) /\ AsOf \in 0..published
      BY <2>1, <2>3, AsOfServing
    <3>2. AsOf' = UpTo(serving)' /\ AsOf' \in 0..published'
      <4>1. (IInv => (running /\ serving.inputs.extract \in Anchored =>
                        AsOf = UpTo(serving) /\ AsOf \in 0..published))'
        BY AsOfServing, PTL
      <4> QED
        BY <2>1, <2>3, <4>1
    <3>3. UpTo(serving)' = UpTo(poll.overlay)
      BY <2>1 DEF UpTo
    <3>4. published' = published /\ published \in Nat /\ generation' = generation
      BY <1>4 DEF StoreRuntime, IInv, TypeOK
    <3>5. AsOf \in Nat /\ AsOf' \in AsOf..published
      BY <2>1, <2>3, <3>1, <3>2, <3>3, <3>4
    <3> QED
      BY <3>4, <3>5 DEF Replica!Next, Replica!Advance
  <2> QED BY <2>2, <2>3
<1>5. CASE StoreRuntime /\ poll.generation # generation
  BY <1>5, AsOfSame DEF StoreRuntime
<1>6. CASE SyncInputs \/ LoadNext
  BY <1>6, AsOfSame DEF SyncInputs, LoadNext
<1>7. CASE PollLatest \/ PollLate
  BY <1>7, AsOfSame DEF PollLatest, PollLate, BeginPoll
<1>8. CASE FetchDiff \/ RemoveFile \/ RenameFile \/ RenameCutFile \/ PollFails
  BY <1>8, AsOfSame DEF FetchDiff, RemoveFile, RenameFile, RenameCutFile, PollFails
<1>9. CASE UNCHANGED vars
  BY <1>9, AsOfSame DEF vars
<1> QED
  BY <1>1, <1>2, <1>3, <1>4, <1>5, <1>6, <1>7, <1>8, <1>9 DEF Next

\* Whatever crashes, fails or is replaced, the network served from an anchored
\* extract stands at a published sequence and moves forward under one engine
\* (poll_remote_updates and the load and persist of the overlay file).
THEOREM ImplementsReplica == Spec => ServesPublishedState
<1>1. Init => Replica!Init
  BY OverlayAssumption DEF Init, AsOf, Replica!Init
<1> QED
  BY <1>1, Invariant, ReplicaStep, PTL DEF Spec, ServesPublishedState, Replica!Spec

\* Wherever an overlay is kept, its sequences run without a gap up to the one
\* applied last, for extracts without an anchor as well.
THEOREM NeverAGap == Spec => []NoGaps
<1>1. IInv => NoGaps
  BY DEF IInv, NoGaps, Fine, Gapless
<1> QED
  BY <1>1, Invariant, PTL
=============================================================================

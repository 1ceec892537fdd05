---------------------------- MODULE OverlayPoll ----------------------------
(***************************************************************************)
(* The polling of OSM diffs into an overlay (the pedestrian forest, and    *)
(* each mode of the street router), its file, and the engines that load    *)
(* it: the polling loop, the reload loop that replaces the engine, and     *)
(* crashes.                                                                *)
(*                                                                         *)
(* What an overlay holds is the set of the sequences applied to it.  The   *)
(* inputs of an engine are its extract, known by the sequence it contains, *)
(* and its stops: what the metadata of the file compares.                  *)
(***************************************************************************)
EXTENDS Naturals, FiniteSets

CONSTANTS
    Extracts,       \* sequences at which extracts were cut
    Anchored,       \* those whose header names their sequence
    StopSets,       \* fingerprints of the stops
    NoSequence,     \* applied_sequence: None
    MaxSequence,    \* bound on the sequences published
    MaxFaults,      \* bound on failures, late answers and crashes
    MaxGenerations, \* bound on the engines a reload brings
    Unknown, Down, Mixed \* see OsmReplica; Mixed: no published state

ASSUME OverlayAssumption ==
    /\ Extracts \subseteq Nat /\ Anchored \subseteq Extracts
    /\ MaxSequence \in Nat /\ MaxFaults \in Nat /\ MaxGenerations \in Nat
    /\ Extracts # {} /\ StopSets # {}
    /\ {NoSequence, Unknown, Down, Mixed} \intersect Nat = {}
    /\ Mixed \notin {Unknown, Down}

VARIABLES
    published,  \* the last sequence the server has
    disk,       \* the inputs on disk
    file,       \* the overlay file
    running,    \* the process runs
    serving,    \* the engine served: its inputs and its overlay runtime
    generation, \* how many engines have served
    rebuilding, \* the reload loop holds an engine it has loaded
    next,       \* that engine
    poll,       \* the poll in progress and its draft
    faults      \* faults so far

vars == <<published, disk, file, running, serving, generation, rebuilding, next,
          poll, faults>>

Inputs == [extract : Extracts, stops : StopSets]
Sequences0 == Nat \union {NoSequence}
Overlays == [inputs : Inputs, applied : Sequences0, held : SUBSET Nat]

\* read_pbf_replication_anchor
Anchor(inputs) == IF inputs.extract \in Anchored THEN inputs.extract ELSE NoSequence

\* empty_overlay_runtime
EmptyOverlay(inputs) == [inputs |-> inputs, applied |-> NoSequence, held |-> {}]

\* Mutant: the metadata of the file is not compared.
LoadedWhateverTheInputs(inputs) ==
    IF file.state = "overlay" THEN [file.overlay EXCEPT !.inputs = inputs] ELSE EmptyOverlay(inputs)

\* load_overlay_runtime: a file that is missing, unreadable or of other inputs
\* gives an empty overlay.
LoadedOverlay(inputs) ==
    IF file.state = "overlay" /\ file.overlay.inputs = inputs
    THEN file.overlay ELSE EmptyOverlay(inputs)

\* The sequence a poll starts from: that of the runtime, else the anchor of the
\* extract, else what the server has now, with an empty overlay.
StartsAt(overlay, seen) ==
    IF overlay.applied # NoSequence THEN overlay.applied
    ELSE IF Anchor(overlay.inputs) # NoSequence THEN Anchor(overlay.inputs)
    ELSE seen

\* The values of what is not there.
NoOverlay == EmptyOverlay(CHOOSE i \in Inputs : TRUE)
NoPoll == [stage |-> "none", generation |-> 0, target |-> 0, overlay |-> NoOverlay]

TypeOK ==
    /\ published \in Nat
    /\ disk \in Inputs
    /\ file \in [state : {"none", "unreadable", "overlay"}, overlay : Overlays]
    /\ running \in BOOLEAN /\ rebuilding \in BOOLEAN
    /\ serving \in Overlays /\ next \in Overlays
    /\ generation \in Nat /\ faults \in Nat
    /\ poll \in [stage : {"none", "fetch", "remove", "rename", "store"},
                 generation : Nat, target : Nat, overlay : Overlays]

Init ==
    /\ published \in Extracts
    /\ disk \in {i \in Inputs : i.extract <= published}
    /\ file = [state |-> "none", overlay |-> NoOverlay]
    /\ running = FALSE /\ serving = NoOverlay
    /\ rebuilding = FALSE /\ next = NoOverlay
    /\ generation = 0
    /\ poll = NoPoll
    /\ faults = 0

Fault == faults < MaxFaults /\ faults' = faults + 1
-----------------------------------------------------------------------------
(* The server and the inputs on disk                                       *)

Publish ==
    /\ published < MaxSequence
    /\ published' = published + 1
    /\ UNCHANGED <<disk, file, running, serving, generation, rebuilding, next, poll, faults>>

\* reload_from_source finds a newer extract or other stops.
SyncInputs ==
    /\ ~rebuilding
    /\ generation < MaxGenerations
    /\ disk' \in {i \in Inputs : disk.extract <= i.extract /\ i.extract <= published /\ i # disk}
    /\ UNCHANGED <<published, file, running, serving, generation, rebuilding, next, poll, faults>>
-----------------------------------------------------------------------------
(* Engines                                                                 *)

\* Engine::load at the start of the process.
Start ==
    /\ ~running
    /\ running' = TRUE
    /\ serving' = LoadedOverlay(disk)
    /\ generation' = generation + 1
    /\ UNCHANGED <<published, disk, file, rebuilding, next, poll, faults>>

\* Engine::reload_from_previous of changed inputs.  A rebuild that fails keeps
\* the engine and is tried again: it changes nothing here.
LoadNext ==
    /\ running /\ ~rebuilding
    /\ generation < MaxGenerations
    /\ disk # serving.inputs
    /\ rebuilding' = TRUE
    /\ next' = LoadedOverlay(disk)
    /\ UNCHANGED <<published, disk, file, running, serving, generation, poll, faults>>

\* engine.swap; a poll of the engine it replaces goes on.
Swap ==
    /\ rebuilding
    /\ serving' = next
    /\ generation' = generation + 1
    /\ rebuilding' = FALSE /\ next' = NoOverlay
    /\ UNCHANGED <<published, disk, file, running, poll, faults>>

Crash ==
    /\ running
    /\ Fault
    /\ running' = FALSE /\ serving' = NoOverlay
    /\ rebuilding' = FALSE /\ next' = NoOverlay
    /\ poll' = NoPoll
    /\ UNCHANGED <<published, disk, file, generation>>
-----------------------------------------------------------------------------
(* poll_remote_updates, one poll at a time                                 *)

\* The server answers with its last sequence, or with a late one.  A poll with
\* nothing to apply and nothing to persist only notes its time.
BeginPoll(seen) ==
    LET from == StartsAt(serving, seen)
    IN  /\ running
        /\ poll.stage = "none"
        /\ seen > from \/ serving.applied = NoSequence
        /\ poll' = [stage |-> IF seen > from THEN "fetch" ELSE "remove",
                    generation |-> generation, target |-> seen,
                    overlay |-> [serving EXCEPT !.applied = from]]
        /\ UNCHANGED <<published, disk, file, running, serving, generation, rebuilding, next>>

PollLatest == BeginPoll(published) /\ UNCHANGED faults
PollLate == Fault /\ \E seen \in 0..published : seen < published /\ BeginPoll(seen)

\* Mutant: only the last diff is fetched.
FetchLastDiff ==
    /\ poll.stage = "fetch"
    /\ poll' = [poll EXCEPT !.overlay.applied = poll.target, !.overlay.held = @ \union {poll.target},
                            !.stage = "remove"]
    /\ UNCHANGED <<published, disk, file, running, serving, generation, rebuilding, next, faults>>

\* apply_osc_diff of the next sequence.
FetchDiff ==
    LET n == poll.overlay.applied + 1
    IN  /\ poll.stage = "fetch"
        /\ poll' = [poll EXCEPT !.overlay.applied = n, !.overlay.held = @ \union {n},
                                !.stage = IF n = poll.target THEN "remove" ELSE "fetch"]
        /\ UNCHANGED <<published, disk, file, running, serving, generation, rebuilding, next, faults>>

\* persist_overlay_runtime: the draft is in a file beside; the old file goes.
RemoveFile ==
    /\ poll.stage = "remove"
    /\ file' = [state |-> "none", overlay |-> NoOverlay]
    /\ poll' = [poll EXCEPT !.stage = "rename"]
    /\ UNCHANGED <<published, disk, running, serving, generation, rebuilding, next, faults>>

RenameFile ==
    /\ poll.stage = "rename"
    /\ file' = [state |-> "overlay", overlay |-> poll.overlay]
    /\ poll' = [poll EXCEPT !.stage = "store"]
    /\ UNCHANGED <<published, disk, running, serving, generation, rebuilding, next, faults>>

\* The buffer of the file beside is flushed when it is dropped, and an error
\* there is not seen: what is renamed is cut short.
RenameCutFile ==
    /\ poll.stage = "rename"
    /\ Fault
    /\ file' = [state |-> "unreadable", overlay |-> NoOverlay]
    /\ poll' = [poll EXCEPT !.stage = "store"]
    /\ UNCHANGED <<published, disk, running, serving, generation, rebuilding, next>>

\* A download, a diff or a step of persisting fails: the runtime stays.
PollFails ==
    /\ poll.stage \in {"fetch", "remove", "rename"}
    /\ Fault
    /\ poll' = NoPoll
    /\ UNCHANGED <<published, disk, file, running, serving, generation, rebuilding, next>>

\* Mutant: a poll ends only with the engine it began with.
StoreRuntimeOfServed ==
    /\ poll.stage = "store"
    /\ poll.generation = generation
    /\ serving' = poll.overlay
    /\ poll' = NoPoll
    /\ UNCHANGED <<published, disk, file, running, generation, rebuilding, next, faults>>

\* overlay_runtime.store, of the engine the poll began with.
StoreRuntime ==
    /\ poll.stage = "store"
    /\ serving' = IF poll.generation = generation THEN poll.overlay ELSE serving
    /\ poll' = NoPoll
    /\ UNCHANGED <<published, disk, file, running, generation, rebuilding, next, faults>>

Next ==
    \/ Publish \/ SyncInputs
    \/ Start \/ LoadNext \/ Swap \/ Crash
    \/ PollLatest \/ PollLate
    \/ FetchDiff \/ RemoveFile \/ RenameFile \/ RenameCutFile \/ PollFails \/ StoreRuntime

Spec == Init /\ [][Next]_vars

\* The loops of main.rs never end, and the process is started again.
Fairness ==
    /\ WF_vars(Start) /\ WF_vars(PollLatest) /\ WF_vars(FetchDiff)
    /\ WF_vars(RemoveFile) /\ WF_vars(RenameFile) /\ WF_vars(StoreRuntime)

FairSpec == Spec /\ Fairness
-----------------------------------------------------------------------------
(* Properties                                                              *)

\* The state of the network an overlay stands for.
UpTo(o) == IF o.applied # NoSequence THEN o.applied ELSE o.inputs.extract

\* Every sequence from the extract on, once and without a gap.
Complete(o) == o.held = (o.inputs.extract + 1)..UpTo(o)

AsOf ==
    IF ~running THEN Down
    ELSE IF Anchor(serving.inputs) = NoSequence THEN Unknown
    ELSE IF Complete(serving) THEN UpTo(serving)
    ELSE Mixed

Replica == INSTANCE OsmReplica WITH asOf <- AsOf

\* Whatever crashes, fails or is replaced, the network served from an extract
\* with an anchor is one the server has published, and goes back only with a
\* change of engine (poll_remote_updates, persist and load of the overlay).
ServesPublishedState == Replica!Spec

\* An overlay, wherever it is kept, holds the sequences up to the applied one
\* without a gap, also when the extract has no anchor.
NoGap(o) == \/ o.held = {}
            \/ \E from \in o.held : o.held = from..o.applied
NoGaps ==
    /\ running => NoGap(serving)
    /\ rebuilding => NoGap(next)
    /\ poll.stage # "none" => NoGap(poll.overlay)
    /\ file.state = "overlay" => NoGap(file.overlay)

\* When the server stops publishing and nothing fails any more, the engine
\* served ends at the last sequence.
CatchesUp == <>[](running /\ UpTo(serving) = published)
=============================================================================

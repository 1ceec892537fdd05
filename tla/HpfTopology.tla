---------------------------- MODULE HpfTopology ----------------------------
(***************************************************************************)
(* The differential overlay of the pedestrian forest: how one change of an *)
(* OSM diff blocks the cells of a way, repairs what hung below them and    *)
(* cools the cells of the new course.                                      *)
(*                                                                         *)
(* The plane is a grid of cells.  The forest gives some cells a stop, the  *)
(* cost of walking there and the next cell on the way; an overlay entry    *)
(* overrides the forest at its cell.  Costs are multiples of a unit larger *)
(* than HPF_OVERLAY_EPSILON_METERS, so "better by more than epsilon" is    *)
(* "less".  The queue is kept in a variable, one step per cell popped.     *)
(***************************************************************************)
EXTENDS Integers, Sequences, FiniteSets, SequencesExt

CONSTANTS
    Height, Width,      \* the grid
    Ways,               \* way ids
    Networks,           \* what the forest may have been built from
    Courses,            \* rasterized courses a change may bring, <<>> included
    Inf,                \* HPF_TOPOLOGY_INF_METERS
    PropagationLimit,   \* HPF_LOCAL_PROPAGATION_LIMIT
    MaxChanges,         \* bound on the changes of a behaviour
    NoCell, NoStop, NoEntry, NoWay

Cells == (1..Height) \X (1..Width)

\* HpfOverlayCell, and what effective_cell_state_from_draft makes of a node.
States == [parent : Cells \union {NoCell}, root : Nat \union {NoStop}, cost : Nat,
           blocked : BOOLEAN, synthetic : BOOLEAN]

\* A network: course[w] the cells of way w (<<>> when there is no such way),
\* bends[w] the positions of its OSM nodes, anchor[s] = <<cell, distance>>.
ASSUME TopologyAssumption ==
    /\ Height \in Nat /\ Width \in Nat
    /\ \A n \in Networks :
          /\ n.course \in [Ways -> Seq(Cells)]
          /\ \A w \in Ways : n.bends[w] \subseteq DOMAIN n.course[w]
          /\ \A s \in DOMAIN n.anchor : s \in Nat /\ n.anchor[s] \in Cells \X Nat
    /\ Courses \subseteq Seq(Cells)
    /\ PropagationLimit \in Nat /\ MaxChanges \in Nat /\ Inf \in Nat
    /\ NoCell \notin Cells /\ NoStop \notin Nat /\ NoEntry \notin States

VARIABLES
    network,    \* what the forest was built from; the way index reads its courses
    forest,     \* best_base_node_for_cell: an entry per cell, or NoEntry
    entries,    \* draft.entries: an entry per cell, or NoEntry
    overrides,  \* draft.way_overrides
    change,     \* the change in progress
    phase,      \* where apply_osc_diff stands
    queue,      \* the queue of propagate_overlay_queue
    steps,      \* cells popped
    mapped,     \* environment: the ways that exist
    changes,    \* changes applied
    blockedAny, \* observation: some cell was blocked
    dropped     \* observation: cells queued when a propagation ended at the limit,
                \* and not popped since

vars == <<network, forest, entries, overrides, change, phase, queue, steps,
          mapped, changes, blockedAny, dropped>>

Least(S) == CHOOSE x \in S : \A y \in S : x <= y
Abs(n) == IF n < 0 THEN -n ELSE n

\* overlay_transition_cost: two units to the side, three across a corner.
TransitionCost(c, d) ==
    LET x == Abs(c[1] - d[1])
        y == Abs(c[2] - d[2])
    IN  2 * (IF x > y THEN x ELSE y) + (IF x > y THEN y ELSE x)

\* overlay_moore_neighbors: the cell itself included, cut at the borders.
Near(c) == {d \in Cells : Abs(d[1] - c[1]) <= 1 /\ Abs(d[2] - c[2]) <= 1}

\* The order they come in, row by row.
Before(c, d) == c[1] < d[1] \/ (c[1] = d[1] /\ c[2] < d[2])
MooreNeighbors(c) ==
    << <<c[1]-1, c[2]-1>>, <<c[1]-1, c[2]>>, <<c[1]-1, c[2]+1>>,
       <<c[1],   c[2]-1>>, <<c[1],   c[2]>>, <<c[1],   c[2]+1>>,
       <<c[1]+1, c[2]-1>>, <<c[1]+1, c[2]>>, <<c[1]+1, c[2]+1>> >>
-----------------------------------------------------------------------------
(* The forest                                                              *)

\* How far each cell of a course is from the first.
Along(cells) ==
    LET upTo[k \in 0..Len(cells)] ==
            IF k <= 1 THEN 0 ELSE upTo[k-1] + TransitionCost(cells[k-1], cells[k])
    IN  upTo

\* Walking along a way from one of its nodes to the next, and back.
Edges(n) ==
    LET next(w, i, j) == i < j /\ ~\E k \in n.bends[w] : i < k /\ k < j
        edge(w, i, j) == <<n.course[w][i], n.course[w][j],
                           Along(n.course[w])[j] - Along(n.course[w])[i]>>
    IN  UNION {{edge(w, p[1], p[2]) :
                    p \in {q \in n.bends[w] \X n.bends[w] : next(w, q[1], q[2])}} : w \in Ways}
Links(n) == Edges(n) \union {<<e[2], e[1], e[3]>> : e \in Edges(n)}
Nodes(n) == {e[1] : e \in Links(n)}

\* snap_stop_to_graph: the node next to each stop.
Snap(n, s, c) == IF n.anchor[s][1] = c THEN n.anchor[s][2] ELSE Inf

\* Distances of the nodes from each stop, one more link walked.
Walked(n, far) ==
    [s \in DOMAIN n.anchor |-> [c \in Nodes(n) |->
        Least({far[s][c]} \union {far[s][e[1]] + e[3] : e \in {f \in Links(n) : f[2] = c}})]]

Distances(n) ==
    LET links == Cardinality(Nodes(n))
        far[k \in 0..links] ==
            IF k = 0 THEN [s \in DOMAIN n.anchor |-> [c \in Nodes(n) |-> Snap(n, s, c)]]
            ELSE Walked(n, far[k-1])
    IN  far[links]

\* multi_source_forest: the nearest stop of every node, the lower one on a tie.
Forest(n) ==
    LET far == Distances(n)
        reached(c) == {s \in DOMAIN n.anchor : far[s][c] < Inf}
        cost(c) == Least({far[s][c] : s \in reached(c)})
        root(c) == Least({s \in reached(c) : far[s][c] = cost(c)})
        parent(c) ==
            IF Snap(n, root(c), c) = cost(c) THEN NoCell
            ELSE (CHOOSE e \in Links(n) :
                    /\ e[2] = c /\ reached(e[1]) # {}
                    /\ root(e[1]) = root(c) /\ cost(e[1]) + e[3] = cost(c))[1]
    IN  [c \in Cells |->
            IF c \notin Nodes(n) \/ reached(c) = {} THEN NoEntry
            ELSE [parent |-> parent(c), root |-> root(c), cost |-> cost(c),
                  blocked |-> FALSE, synthetic |-> FALSE]]
-----------------------------------------------------------------------------
(* Reading the draft                                                       *)

\* effective_cell_state_from_draft
StateOf(d, c) == IF d[c] # NoEntry THEN d[c] ELSE forest[c]

Usable(d, c) ==
    LET state == StateOf(d, c)
    IN  state # NoEntry /\ ~state.blocked /\ state.root # NoStop

Synthetic(c) == forest[c] = NoEntry

\* The first of some cells in order that a walk costs least through.
Cheapest(d, c, candidates) ==
    LET through(n) == StateOf(d, n).cost + TransitionCost(c, n)
        least == Least({through(n) : n \in candidates})
        ties == {n \in candidates : through(n) = least}
        best == CHOOSE n \in ties : \A m \in ties : m = n \/ Before(n, m)
    IN  [parent |-> best, root |-> StateOf(d, best).root, cost |-> least,
         blocked |-> FALSE, synthetic |-> TRUE]

\* best_neighbor_relaxation
BestNeighborRelaxation(d, c) ==
    LET open == {n \in Near(c) \ {c} : Usable(d, n)}
    IN  IF open = {} THEN NoEntry ELSE Cheapest(d, c, open)

\* resolve_anchor_state: the cell itself may be its anchor.
ResolveAnchor(d, c) ==
    LET open == {n \in Near(c) : Usable(d, n)}
    IN  IF open = {} THEN NoEntry ELSE Cheapest(d, c, open)

\* select_way_anchor, and the cells in the order they are cooled.
WayAnchor(d, cells) ==
    LET first == ResolveAnchor(d, cells[1])
        last == ResolveAnchor(d, cells[Len(cells)])
    IN  IF first = NoEntry /\ last = NoEntry THEN NoEntry
        ELSE IF last = NoEntry \/ (first # NoEntry /\ first.cost <= last.cost)
             THEN [anchor |-> first, cells |-> cells]
             ELSE [anchor |-> last, cells |-> Reverse(cells)]
-----------------------------------------------------------------------------
(* Writing the draft                                                       *)

\* block_cells
BlockCells(d, cells) ==
    [c \in Cells |->
        IF c \notin Range(cells) THEN d[c]
        ELSE [parent |-> NoCell,
              root |-> IF StateOf(d, c) = NoEntry THEN NoStop ELSE StateOf(d, c).root,
              cost |-> Inf, blocked |-> TRUE,
              synthetic |-> d[c] # NoEntry /\ d[c].synthetic]]

\* Mutant: a cell cooled again keeps the stop it had.
CoolCellForOldStop(so, c, root) ==
    LET cost == so.cost + TransitionCost(c, so.next)
        state == StateOf(so.draft, c)
        cooled == [parent |-> so.next, root |-> IF state = NoEntry THEN root ELSE state.root,
                   cost |-> cost, blocked |-> FALSE, synthetic |-> Synthetic(c)]
    IN  IF c = so.next THEN so
        ELSE [draft |-> IF state = NoEntry \/ state.blocked \/ cost < state.cost
                        THEN [so.draft EXCEPT ![c] = cooled] ELSE so.draft,
              next |-> c, cost |-> cost]

\* One cell of cool_new_way's loop: it hangs below the one before it.
CoolCell(so, c, root) ==
    LET cost == so.cost + TransitionCost(c, so.next)
        state == StateOf(so.draft, c)
        cooled == [parent |-> so.next, root |-> root, cost |-> cost,
                   blocked |-> FALSE, synthetic |-> Synthetic(c)]
    IN  IF c = so.next THEN so
        ELSE [draft |-> IF state = NoEntry \/ state.blocked \/ cost < state.cost
                        THEN [so.draft EXCEPT ![c] = cooled] ELSE so.draft,
              next |-> c, cost |-> cost]

\* The loop over the cells, from the anchor on.
CoolCells(d, from) ==
    LET so[k \in 0..Len(from.cells)] ==
            IF k = 0 THEN [draft |-> d, next |-> from.anchor.parent, cost |-> from.anchor.cost]
            ELSE CoolCell(so[k-1], from.cells[k], from.anchor.root)
    IN  so[Len(from.cells)].draft

\* prune_overlay_entry
Pruned(d, c) ==
    IF d[c].synthetic \/ forest[c] = NoEntry THEN d
    ELSE IF d[c] = forest[c] THEN [d EXCEPT ![c] = NoEntry] ELSE d

\* Cells pushed in order, each once, and none beyond the borders.
Push(q, cells) ==
    LET pushed[k \in 0..Len(cells)] ==
            IF k = 0 THEN q
            ELSE IF cells[k] \notin Cells \/ cells[k] \in Range(pushed[k-1]) THEN pushed[k-1]
                 ELSE Append(pushed[k-1], cells[k])
    IN  pushed[Len(cells)]

PushEach(groups) ==
    LET pushed[k \in 0..Len(groups)] ==
            IF k = 0 THEN <<>> ELSE Push(pushed[k-1], groups[k])
    IN  pushed[Len(groups)]

\* Mutant: nothing is propagated from a cooled way.
NothingQueued(cells) == <<>>

Around(cells) == [k \in 1..Len(cells) |-> MooreNeighbors(cells[k])]
WithAround(cells) == [k \in 1..Len(cells) |-> <<cells[k]>> \o MooreNeighbors(cells[k])]

\* One cell popped by propagate_overlay_queue: the draft it leaves.
Propagated(d, c, allowRepair) ==
    LET state == StateOf(d, c)
        relaxed == BestNeighborRelaxation(d, c)
        orphan == state # NoEntry /\ state.parent # NoCell /\ ~Usable(d, state.parent)
        update == \/ state = NoEntry
                  \/ allowRepair /\ orphan
                  \/ relaxed.cost < state.cost
        entry == [relaxed EXCEPT !.synthetic =
                     IF d[c] # NoEntry THEN d[c].synthetic ELSE Synthetic(c)]
    IN  IF \/ state # NoEntry /\ state.blocked
           \/ relaxed = NoEntry
           \/ ~update
        THEN d
        ELSE Pruned([d EXCEPT ![c] = entry], c)
-----------------------------------------------------------------------------
(* Applying a change                                                       *)

\* current_way_cells
CurrentWayCells(w) ==
    IF overrides[w] = NoWay THEN network.course[w]
    ELSE IF overrides[w].walkable THEN overrides[w].cells ELSE <<>>

\* rasterize_change_cells: a change without coordinates keeps the course.
NextWayCells(ch, current) ==
    IF ch.action = "delete" \/ ~ch.walkable THEN <<>>
    ELSE IF ch.cells = <<>> THEN current ELSE ch.cells

\* update_way_override: no override for what the way index says.
NewOverride(ch, cells) ==
    LET walkable == ch.action # "delete" /\ ch.walkable
        base == network.course[ch.way]
    IN  IF \/ walkable /\ base # <<>> /\ base = cells
           \/ ~walkable /\ base = <<>>
        THEN NoWay
        ELSE [walkable |-> walkable, cells |-> cells]

\* The next change of the diffs: a way is created once and deleted while it exists.
Readable ==
    {ch \in [way : Ways, action : {"create", "modify", "delete"},
             walkable : BOOLEAN, cells : Courses] :
        /\ ch.action = "create" <=> ch.way \notin mapped
        /\ ch.action = "delete" => ch.walkable = FALSE /\ ch.cells = <<>>}

Init ==
    /\ network \in Networks
    /\ forest = Forest(network)
    /\ entries = [c \in Cells |-> NoEntry]
    /\ overrides = [w \in Ways |-> NoWay]
    /\ change = NoWay
    /\ phase = "idle"
    /\ queue = <<>>
    /\ steps = 0
    /\ mapped = {w \in Ways : network.course[w] # <<>>}
    /\ changes = 0
    /\ blockedAny = FALSE
    /\ dropped = {}

\* The next change; the cells the way has now are blocked.
BlockWay(ch) ==
    LET current == CurrentWayCells(ch.way)
    IN  /\ phase = "idle"
        /\ changes < MaxChanges
        /\ change' = [ch EXCEPT !.cells = NextWayCells(ch, current)]
        /\ entries' = BlockCells(entries, current)
        /\ queue' = PushEach(Around(current))
        /\ phase' = IF current = <<>> THEN "reroute" ELSE "shadow"
        /\ steps' = 0
        /\ mapped' = IF ch.action = "delete" THEN mapped \ {ch.way} ELSE mapped \union {ch.way}
        /\ changes' = changes + 1
        /\ blockedAny' = (blockedAny \/ current # <<>>)
        /\ UNCHANGED <<network, forest, overrides, dropped>>

\* One cell of the queue, in shadow_propagate or at the end of cool_new_way.
PropagateCell ==
    /\ phase \in {"shadow", "cool"}
    /\ queue # <<>> /\ steps < PropagationLimit
    /\ LET c == Head(queue)
       IN  /\ entries' = Propagated(entries, c, phase = "shadow")
           /\ queue' = IF entries' = entries THEN Tail(queue)
                       ELSE Push(Tail(queue), MooreNeighbors(c))
           /\ dropped' = dropped \ {c}
    /\ steps' = steps + 1
    /\ UNCHANGED <<network, forest, overrides, change, phase, mapped, changes, blockedAny>>

\* The queue is empty, or the limit reached.
PropagationEnds ==
    /\ phase \in {"shadow", "cool"}
    /\ queue = <<>> \/ steps >= PropagationLimit
    /\ queue' = <<>>
    /\ phase' = IF phase = "shadow" THEN "reroute" ELSE "idle"
    /\ change' = IF phase = "shadow" THEN change ELSE NoWay
    /\ dropped' = dropped \union Range(queue)
    /\ UNCHANGED <<network, forest, entries, overrides, steps, mapped, changes, blockedAny>>

\* update_way_override and cool_new_way.
Reroute ==
    LET cells == change.cells
        anchor == IF cells = <<>> THEN NoEntry ELSE WayAnchor(entries, cells)
    IN  /\ phase = "reroute"
        /\ overrides' = [overrides EXCEPT ![change.way] = NewOverride(change, cells)]
        /\ IF anchor = NoEntry
           THEN phase' = "idle" /\ change' = NoWay /\ UNCHANGED <<entries, queue>>
           ELSE /\ phase' = "cool"
                /\ entries' = CoolCells(entries, anchor)
                /\ queue' = PushEach(WithAround(cells))
                /\ UNCHANGED change
        /\ steps' = 0
        /\ UNCHANGED <<network, forest, mapped, changes, blockedAny, dropped>>

Next ==
    \/ \E ch \in Readable : BlockWay(ch)
    \/ PropagateCell
    \/ PropagationEnds
    \/ Reroute

Spec == Init /\ [][Next]_vars
-----------------------------------------------------------------------------
(* Properties                                                              *)

\* The cell the polyline of c leaves the overlay at: parents of entries are
\* followed until a cell without one (reconstruct_overlay_tail_from_runtime).
TailEnd(c) ==
    LET tail[k \in 0..Cardinality(Cells)] ==
            IF k = 0 THEN c
            ELSE LET d == tail[k-1]
                 IN  IF entries[d] = NoEntry \/ entries[d].parent = NoCell THEN d
                     ELSE entries[d].parent
    IN  tail[Cardinality(Cells)]

\* From there the forest leads to the stop the connector names.
LeadsToItsStop(c) ==
    LET end == TailEnd(c)
    IN  entries[end] = NoEntry /\ forest[end] # NoEntry /\ forest[end].root = StateOf(entries, c).root

\* docs/hpf.md: the polyline is rebuilt by climbing the parent pointers to the
\* stop.  After any diff, from every cell a connector may start at.
PolylinesReachStops ==
    phase = "idle" => \A c \in Cells : Usable(entries, c) => LeadsToItsStop(c)

ParentKeeps(c) ==
    LET p == entries[c].parent
    IN  Usable(entries, p) /\ entries[c].cost >= StateOf(entries, p).cost + TransitionCost(c, p)

NoNearerBy(c, n) ==
    Usable(entries, c) /\ StateOf(entries, c).cost <= StateOf(entries, n).cost + TransitionCost(c, n)

\* As long as ways were only added, the parent of an entry keeps what the entry
\* promises, and a cell beside an entry, or with one, is as near as its neighbours
\* can make it, unless it is in the queue or was when a propagation was cut off.
AddedWaysRelaxed ==
    ~blockedAny =>
        /\ \A c \in Cells : entries[c] # NoEntry => ParentKeeps(c)
        /\ \A c \in Cells \ (Range(queue) \union dropped) : \A n \in Near(c) :
              (entries[c] # NoEntry \/ entries[n] # NoEntry) /\ Usable(entries, n) => NoNearerBy(c, n)

\* Whatever the diffs did, the walk a connector promises to a stop is no
\* shorter than the straight line to that stop.
NeverShorterThanStraight ==
    \A c \in Cells : Usable(entries, c) =>
        LET state == StateOf(entries, c)
            anchor == network.anchor[state.root]
        IN  state.cost >= anchor[2] + TransitionCost(c, anchor[1])
=============================================================================

---------------------------- MODULE StreetSearch ----------------------------
(***************************************************************************)
(* The street router: the graph of an extract, the changes of OSM diffs    *)
(* laid over it, and the search from both ends at once over the two.  How  *)
(* diffs are fetched and the overlay swapped and saved is OverlayPoll; a   *)
(* search holds on to the overlay it began with.                           *)
(*                                                                         *)
(* A map is [ways, places]: of each way that can be used its nodes and     *)
(* direction, of each node its place.  A diff is its elements in the order *)
(* of the document: nodes, [kind, node, place], and changes of ways,       *)
(* [kind, way, action, usable, refs, dir, closed], closed at once, without *)
(* nodes, or not.                                                          *)
(***************************************************************************)
EXTENDS Integers, Sequences, FiniteSets, FiniteSetsExt, SequencesExt

CONSTANTS Nodes,       \* the nodes there are, numbered as the graph numbers them
          Maps,        \* what the extract may say
          Diffs,       \* what may be published then
          MaxDiffs,    \* bound
          MaxCost,     \* u32::MAX
          MaxEdge,     \* u16::MAX
          NoNode

Places == Int \X Int

\* The nodes of every way have places.
IsMap(map) ==
    /\ \A n \in DOMAIN map.places : map.places[n] \in Places
    /\ \A w \in DOMAIN map.ways :
           map.ways[w].refs \in Seq(Nodes) /\ Range(map.ways[w].refs) \subseteq DOMAIN map.places

IsDiff(diff) ==
    /\ diff \in Seq(Range(diff))
    /\ \A k \in DOMAIN diff :
           /\ diff[k].kind = "node" => diff[k].place \in Places
           /\ diff[k].kind = "way" => diff[k].refs \in Seq(Nodes)
           /\ diff[k].kind = "way" /\ diff[k].closed => diff[k].refs = <<>>

ASSUME StreetAssumption ==
    /\ Nodes \subseteq Nat /\ IsFiniteSet(Nodes) /\ NoNode \notin Nodes
    /\ MaxDiffs \in Nat /\ MaxCost \in Nat \ {0} /\ MaxEdge \in Nat \ {0}
ASSUME MapsAssumption ==
    (\A map \in Maps : IsMap(map)) /\ \A diff \in Diffs : IsDiff(diff)

VARIABLES base,        \* the map the graph was built from
          overlay,     \* [blocked, overrides]
          osm,         \* observed: [map, untold], what OSM says, and the ways no diff told
          diffs,       \* how many were applied
          stage,       \* "idle", "search", "back", "ahead", or how the search ended
          graph,       \* the edges of the search: [from, to, secs, way]
          source, target,
          dist,        \* dist[end][node]: its label, MaxCost if it has none
          parent,      \* parent[end][node]: the edge it was reached by, if any
          heap,        \* heap[end]: the entries [cost, node] queued
          best, meeting,
          cursor, length         \* of the route being rebuilt

mapVars == <<base, overlay, osm, diffs>>
routeVars == <<cursor, length>>
queueVars == <<graph, source, target, dist, parent, heap, best, meeting>>
streetVars == <<mapVars, stage, queueVars, routeVars>>

Ends == {"forward", "backward"}
Other(end) == IF end = "forward" THEN "backward" ELSE "forward"
-----------------------------------------------------------------------------
(* The graph                                                               *)

Apart(p, q) == (IF p[1] < q[1] THEN q[1] - p[1] ELSE p[1] - q[1])
               + (IF p[2] < q[2] THEN q[2] - p[2] ELSE p[2] - q[2])
Duration(p, q) ==
    IF Apart(p, q) > MaxEdge THEN MaxEdge ELSE IF Apart(p, q) < 1 THEN 1 ELSE Apart(p, q)

\* The edges of one way, between consecutive nodes that lie apart; nodes and
\* places are matched by position as far as both go.
WayEdges(w, refs, at, dir) ==
    LET both == DOMAIN refs \intersect DOMAIN at
        steps == {i \in both : i + 1 \in both /\ refs[i] # refs[i + 1] /\ at[i] # at[i + 1]}
        edge(i, j) == [from |-> refs[i], to |-> refs[j], secs |-> Duration(at[i], at[j]), way |-> w]
    IN  (IF dir = "reverse" THEN {} ELSE {edge(i, i + 1) : i \in steps})
        \union (IF dir = "forward" THEN {} ELSE {edge(i + 1, i) : i \in steps})

\* build_graph_cache
MapEdges(map) ==
    UNION {LET way == map.ways[w]
           IN  WayEdges(w, way.refs, [i \in DOMAIN way.refs |-> map.places[way.refs[i]]], way.dir)
           : w \in DOMAIN map.ways}

\* build_overlay_graph
OverlayEdges ==
    UNION {LET way == overlay.overrides[w] IN WayEdges(w, way.refs, way.at, way.dir)
           : w \in DOMAIN overlay.overrides}

\* An edge leads from a number to a number and takes some seconds.
IsEdge(e) == e.from \in Nodes /\ e.to \in Nodes /\ e.secs \in 1..MaxEdge

\* The edges a search is given: of the extract those of ways not blocked, and
\* all of the overlay.
Served ==
    {e \in {f \in MapEdges(base) : f.way \notin overlay.blocked} \union OverlayEdges : IsEdge(e)}
-----------------------------------------------------------------------------
(* Diffs                                                                   *)

\* A function that maps x to y, or does not map x, and is else what it was.
Set(f, x, y) == [z \in DOMAIN f \union {x} |-> IF z = x THEN y ELSE f[z]]
Unset(f, x) == [z \in DOMAIN f \ {x} |-> f[z]]

Ways(diff) == {k \in DOMAIN diff : diff[k].kind = "way"}

\* The places of the nodes read ahead of an element, each as it was given last.
NodesAhead(diff, k) ==
    LET given == {j \in DOMAIN diff : j < k /\ diff[j].kind = "node"}
    IN  [n \in {diff[j].node : j \in given} |-> diff[Max({j \in given : diff[j].node = n})].place]

\* At the end of a way: the places of those of its nodes that are among nodes.
PlacesGiven(refs, nodes) ==
    LET upto[i \in 0..Len(refs)] ==
            IF i = 0 THEN <<>>
            ELSE IF refs[i] \in DOMAIN nodes THEN Append(upto[i - 1], nodes[refs[i]])
            ELSE upto[i - 1]
    IN  upto[Len(refs)]

\* Mutant: a deleted way keeps its override.
AppliedKeepingOverride(o, change, nodes) ==
    LET at == PlacesGiven(change.refs, nodes)
    IN  [blocked |-> o.blocked \union {change.way},
         overrides |->
            IF change.action = "delete" \/ ~change.usable \/ Len(at) < 2 THEN o.overrides
            ELSE Set(o.overrides, change.way, [refs |-> change.refs, at |-> at, dir |-> change.dir])]

\* apply_osc_diff, one change: the way of the extract is blocked for good, the
\* new one overrides it if all it takes is there.
Applied(o, change, nodes) ==
    LET at == PlacesGiven(change.refs, nodes)
    IN  [blocked |-> o.blocked \union {change.way},
         overrides |->
            IF change.action = "delete" \/ ~change.usable \/ Len(at) < 2
            THEN Unset(o.overrides, change.way)
            ELSE Set(o.overrides, change.way, [refs |-> change.refs, at |-> at, dir |-> change.dir])]

\* parse_osc_diff and apply_osc_diff, one element and all.  A way that is closed at
\* once is not seen.
ElementApplied(o, diff, k) ==
    IF k \in Ways(diff) /\ ~diff[k].closed THEN Applied(o, diff[k], NodesAhead(diff, k)) ELSE o
AllApplied(o, diff) ==
    LET upto[k \in 0..Len(diff)] ==
            IF k = 0 THEN o ELSE ElementApplied(upto[k - 1], diff, k)
    IN  upto[Len(diff)]

\* What OSM says after an element, after all of a diff, and where its nodes are
\* then.
Says(ways, change) ==
    IF change.action = "delete" \/ ~change.usable THEN Unset(ways, change.way)
    ELSE Set(ways, change.way, [refs |-> change.refs, dir |-> change.dir])
AllSaid(ways, diff) ==
    LET upto[k \in 0..Len(diff)] ==
            IF k = 0 THEN ways
            ELSE IF k \in Ways(diff) THEN Says(upto[k - 1], diff[k]) ELSE upto[k - 1]
    IN  upto[Len(diff)]
Moved(places, nodes) ==
    [n \in DOMAIN places \union DOMAIN nodes |-> IF n \in DOMAIN nodes THEN nodes[n] ELSE places[n]]
After(map, diff) ==
    [ways |-> AllSaid(map.ways, diff), places |-> Moved(map.places, NodesAhead(diff, Len(diff) + 1))]

\* An element tells what became of its way if it is not closed at once and, unless
\* it takes the way away, follows all the nodes of the way, where they end up.
TellsWay(diff, k, places) ==
    /\ ~diff[k].closed
    /\ diff[k].action # "delete" /\ diff[k].usable =>
           \A n \in Range(diff[k].refs) :
               n \in DOMAIN NodesAhead(diff, k) /\ NodesAhead(diff, k)[n] = places[n]

IsLast(diff, k) == \A j \in Ways(diff) : diff[j].way = diff[k].way => j <= k

\* The ways whose last element did not tell, and those without an element that
\* lead through a node that was moved or were untold before.
Untold(diff, places) ==
    LET named == {diff[k].way : k \in Ways(diff)}
    IN  {diff[k].way : k \in {j \in Ways(diff) : IsLast(diff, j) /\ ~TellsWay(diff, j, places)}}
        \union (osm.untold \ named)
        \union {w \in DOMAIN osm.map.ways \ named :
                    \E n \in Range(osm.map.ways[w].refs) : places[n] # osm.map.places[n]}

\* OSM takes no diff that leaves a way without the place of a node of it.
ApplyDiff(diff) ==
    /\ stage = "idle" /\ diffs < MaxDiffs
    /\ IsMap(After(osm.map, diff))
    /\ overlay' = AllApplied(overlay, diff)
    /\ osm' = [map |-> After(osm.map, diff), untold |-> Untold(diff, After(osm.map, diff).places)]
    /\ diffs' = diffs + 1
    /\ UNCHANGED <<base, stage, queueVars, routeVars>>
-----------------------------------------------------------------------------
(* The search                                                              *)

StreetInit ==
    /\ base \in Maps
    /\ overlay = [blocked |-> {}, overrides |-> <<>>]
    /\ osm = [map |-> base, untold |-> {}]
    /\ diffs = 0
    /\ stage = "idle"
    /\ graph = {} /\ source = NoNode /\ target = NoNode
    /\ dist = [end \in Ends |-> [n \in Nodes |-> MaxCost]]
    /\ parent = [end \in Ends |-> <<>>]
    /\ heap = [end \in Ends |-> {}]
    /\ best = MaxCost /\ meeting = NoNode
    /\ cursor = NoNode /\ length = 0

Root(end) == IF end = "forward" THEN source ELSE target
Near(end, e) == IF end = "forward" THEN e.from ELSE e.to
Far(end, e) == IF end = "forward" THEN e.to ELSE e.from

\* u32::saturating_add
Plus(a, b) == IF a + b > MaxCost THEN MaxCost ELSE a + b

\* The nodes two coordinates are snapped to, the same or not.
StartSearch(s, t) ==
    /\ stage = "idle"
    /\ graph' = Served
    /\ source' = s /\ target' = t
    /\ IF s = t THEN stage' = "back" /\ best' = 0 /\ meeting' = s /\ cursor' = s
                ELSE stage' = "search" /\ UNCHANGED <<best, meeting, cursor>>
    /\ dist' = [end \in Ends |-> [dist[end] EXCEPT ![IF end = "forward" THEN s ELSE t] = 0]]
    /\ heap' = [end \in Ends |-> {[cost |-> 0, node |-> IF end = "forward" THEN s ELSE t]}]
    /\ UNCHANGED <<mapVars, parent, length>>

Top(end) == IF heap[end] = {} THEN MaxCost ELSE Min({q.cost : q \in heap[end]})

\* Mutant: the first node the two ends meet at ends the search.
MetOnce == meeting # NoNode \/ Plus(Top("forward"), Top("backward")) >= best

\* No queued pair can lead to a shorter route.
Exhausted == Plus(Top("forward"), Top("backward")) >= best

Turn == IF Top("forward") <= Top("backward") THEN "forward" ELSE "backward"

\* The cheapest entry, among equals that of the last node.
IsNext(end, q) ==
    \A r \in heap[end] : q.cost < r.cost \/ (q.cost = r.cost /\ q.node >= r.node)

\* The cheapest of the edges from one node to another.
Leads(end, e, n, m) ==
    /\ e \in graph /\ Near(end, e) = n /\ Far(end, e) = m
    /\ \A f \in graph : Near(end, f) = n /\ Far(end, f) = m => e.secs <= f.secs
Via(end, n, m) == CHOOSE e \in graph : Leads(end, e, n, m)

\* An edge brings the node it leads to nearer, and stays below the bound.
Improves(end, e, cost, bound) ==
    Plus(cost, e.secs) < bound /\ Plus(cost, e.secs) < dist[end][Far(end, e)]

Nearer(end, n, cost, bound) ==
    {m \in Nodes : \E e \in graph : Leads(end, e, n, m) /\ Improves(end, e, cost, bound)}

\* Mutant: a node keeps the edge it was first reached by.
FirstParents(end, n, nearer) ==
    [m \in DOMAIN parent[end] \union nearer |->
        IF m \in DOMAIN parent[end] THEN parent[end][m] ELSE Via(end, n, m)]

\* The edges nodes are reached by, once those of an entry have been taken.
Parents(end, n, nearer) ==
    [m \in DOMAIN parent[end] \union nearer |->
        IF m \in nearer THEN Via(end, n, m) ELSE parent[end][m]]

\* Of parallel edges a dearer one is queued too, when it comes before.
Dearer(end, n, cost, bound) ==
    {[cost |-> Plus(cost, f.secs), node |-> Far(end, f)] :
        f \in {g \in graph : /\ Near(end, g) = n /\ Improves(end, g, cost, bound)
                             /\ \E e \in graph : Leads(end, e, n, Far(end, g)) /\ e.secs < g.secs}}

Pop(end, q) ==
    /\ stage = "search" /\ ~Exhausted
    /\ end = Turn /\ q \in heap[end] /\ IsNext(end, q)
    /\ q.cost <= dist[end][q.node]
    /\ LET total == Plus(q.cost, dist[Other(end)][q.node])
           bound == IF total < best THEN total ELSE best
           nearer == Nearer(end, q.node, q.cost, bound)
           cost(m) == Plus(q.cost, Via(end, q.node, m).secs)
       IN  /\ best' = bound
           /\ meeting' = IF total < best THEN q.node ELSE meeting
           /\ parent' = [parent EXCEPT ![end] = Parents(end, q.node, nearer)]
           /\ dist' = [dist EXCEPT ![end] = [m \in Nodes |-> IF m \in nearer THEN cost(m) ELSE @[m]]]
           /\ \E dearer \in SUBSET Dearer(end, q.node, q.cost, bound) :
                  heap' = [heap EXCEPT ![end] =
                              (@ \ {q}) \union dearer
                              \union {[cost |-> cost(m), node |-> m] : m \in nearer}]
    /\ UNCHANGED <<mapVars, stage, graph, source, target, routeVars>>

\* An entry that a cheaper one of its node came before.
PopStale(end, q) ==
    /\ stage = "search" /\ ~Exhausted
    /\ end = Turn /\ q \in heap[end] /\ IsNext(end, q)
    /\ q.cost > dist[end][q.node]
    /\ heap' = [heap EXCEPT ![end] = @ \ {q}]
    /\ UNCHANGED <<mapVars, stage, graph, source, target, dist, parent, best, meeting, routeVars>>

Stop ==
    /\ stage = "search" /\ Exhausted
    /\ stage' = IF meeting = NoNode THEN "none" ELSE "back"
    /\ cursor' = meeting
    /\ UNCHANGED <<mapVars, queueVars, length>>

\* reconstruct_path: back to the source, then from the meeting on to the target.
Rebuild(end) ==
    /\ stage = (IF end = "forward" THEN "back" ELSE "ahead")
    /\ IF cursor = Root(end)
       THEN /\ stage' = IF end = "forward" THEN "ahead" ELSE "done"
            /\ cursor' = meeting
            /\ UNCHANGED length
       ELSE IF cursor \notin DOMAIN parent[end]
       THEN stage' = "incomplete" /\ UNCHANGED routeVars
       ELSE LET e == parent[end][cursor]
            IN  cursor' = Near(end, e) /\ length' = length + e.secs /\ UNCHANGED stage
    /\ UNCHANGED <<mapVars, queueVars>>

SearchStep ==
    \/ \E end \in Ends : \/ \E q \in heap[end] : Pop(end, q) \/ PopStale(end, q)
                         \/ Rebuild(end)
    \/ Stop

StreetNext ==
    \/ \E diff \in Diffs : ApplyDiff(diff)
    \/ \E s, t \in Nodes : StartSearch(s, t)
    \/ SearchStep

StreetSpec == StreetInit /\ [][StreetNext]_streetVars
-----------------------------------------------------------------------------
(* Properties                                                              *)

\* The edges of the ways that were told.
EdgesTold(edges) == {e \in edges : e.way \notin osm.untold}

\* Of every way the diffs told, the edges a search is given are those OSM has:
\* ways changed, deleted and created over and over, by elements ahead of their
\* nodes or closed at once in between (parse_osc_diff, apply_osc_diff,
\* build_overlay_graph, for_each_forward_edge).
ServedIsMap == EdgesTold(Served) = EdgesTold(MapEdges(osm.map))

\* What the nodes cost once every edge has been taken from what they did.
Relaxed(cost) ==
    [n \in Nodes |->
        Min({cost[n]} \union {Plus(cost[e.from], e.secs) : e \in {f \in graph : f.to = n}})]

\* The least cost of a route to each node, cut off at MaxCost: by no edge, by at
\* most one, and so on, by as many as there are nodes.
Costs ==
    LET by[k \in 0..Cardinality(Nodes)] ==
            IF k = 0 THEN [n \in Nodes |-> IF n = source THEN 0 ELSE MaxCost]
            ELSE Relaxed(by[k - 1])
    IN  by[Cardinality(Nodes)]

Cheapest == Costs[target]

\* The search stops neither too early nor without cause: what it has found is
\* the shortest route, and when it finds none there is none
\* (bidirectional_search).
ShortestFound ==
    /\ stage \in {"back", "ahead", "done"} => best = Cheapest
    /\ stage = "none" => Cheapest = MaxCost

\* The route is rebuilt whole, from edges that add up to no more than the cost
\* found, though labels and parents went on changing after the two ends met
\* (reconstruct_path).
RouteHolds ==
    /\ stage # "incomplete"
    /\ stage = "done" => length <= best
=============================================================================

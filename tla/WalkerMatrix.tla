---------------------------- MODULE WalkerMatrix ----------------------------
(***************************************************************************)
(* The matrix of walking transfers: for every slot of the stop table its   *)
(* nearest slots on foot.  Built in full at start, and by rows when little *)
(* of the stops differs from those an engine serves.                       *)
(*                                                                         *)
(* A row is [on, to]: the transfers, each a slot and the seconds to it,    *)
(* and, observed only, the extract they were walked on.                    *)
(***************************************************************************)
EXTENDS StaticCore

CONSTANTS Places,          \* Places[<<id, look>>]: where such a stop lies, a coordinate
          Walk,            \* Walk[x][<<p, q>>]: seconds on foot between places on extract x
          WalkRadius,      \* walk_radius, in seconds
          MaxCandidates    \* max_transfer_candidates

ASSUME WalkerAssumption ==
    /\ WalkRadius \in Nat /\ MaxCandidates \in Nat \ {0}
    /\ \A x \in DOMAIN Walk : \A pq \in DOMAIN Walk[x] : Walk[x][pq] >= 0

Place(stop) == Places[<<stop.id, stop.look>>]
Straight(p, q) == Max({p - q, q - p})
WithinRadius(s, t) == Straight(Place(s), Place(t)) <= WalkRadius

\* bounded_dijkstra between the anchors of two stops; an extract that cannot be
\* read (one not in Walk) leaves the straight line (build_haversine_transfers).
Seconds(x, s, t) ==
    IF x \in DOMAIN Walk THEN Walk[x][<<Place(s), Place(t)>>] ELSE Straight(Place(s), Place(t))

\* build_stop_transfers: among all slots of the table, outdated ones too, the
\* first few by time and slot.
Transfers(stops, i, x) ==
    LET secs(j) == Seconds(x, stops[i], stops[j])
        near == {j \in DOMAIN stops \ {i} :
                    WithinRadius(stops[i], stops[j]) /\ secs(j) <= WalkRadius}
        before(j) == {k \in near : secs(k) < secs(j) \/ (secs(k) = secs(j) /\ k < j)}
    IN  [on |-> x,
         to |-> {[stop |-> j, secs |-> secs(j)] :
                    j \in {k \in near : Cardinality(before(k)) < MaxCandidates}}]

\* build_full_walker_matrix
FullMatrix(stops, x) == [i \in DOMAIN stops |-> Transfers(stops, i, x)]

\* Mutant: the rows of the stops around a changed one are left.
ChangedThemselves(p, n) ==
    LET changed == Changed(p.stops, p.activeStops, n.stops, n.activeStops, SameStops(p, n))
    IN  {i \in Range(n.activeStops) : n.stops[i].id \in changed}

\* expand_affected_stop_indices: the active stops that changed, and those within
\* the radius of where a changed one was or is.
Affected(p, n) ==
    LET changed == Changed(p.stops, p.activeStops, n.stops, n.activeStops, SameStops(p, n))
        moved(core) == {core.stops[i] : i \in {k \in Range(core.activeStops) :
                                                   core.stops[k].id \in changed}}
    IN  {i \in Range(n.activeStops) :
            \/ n.stops[i].id \in changed
            \/ \E s \in moved(p) \union moved(n) : WithinRadius(s, n.stops[i])}

\* rebuild_differential_walker_transfers: the rows of the engine served, slot by
\* slot and never fewer, but those affected.
DifferentialMatrix(p, rows, n, x) ==
    LET affected == Affected(p, n)
        size == IF Len(rows) > Len(n.stops) THEN Len(rows) ELSE Len(n.stops)
    IN  [i \in 1..size |->
            IF i \in affected THEN Transfers(n.stops, i, x)
            ELSE IF i \in DOMAIN rows THEN rows[i] ELSE [on |-> x, to |-> {}]]

\* build_transfer_relax_index: a transfer of a slot that exists must lead to one.
Indexable(stops, rows) == \A i \in DOMAIN stops : \A t \in rows[i].to : t.stop \in DOMAIN stops
=============================================================================

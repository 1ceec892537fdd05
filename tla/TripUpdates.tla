---------------------------- MODULE TripUpdates ----------------------------
(***************************************************************************)
(* What the messages of a feed make of one trip: a refresh empties the     *)
(* maps and hands every entity of the trip updates and vehicle positions   *)
(* to the store, in the order of the message.  Entities of trips the feed  *)
(* does not know are skipped; how refreshes overlap is RealtimeProfiles.   *)
(*                                                                         *)
(* A stop update is [seq, stop, arrival, departure, skipped], with None    *)
(* for a field not given; an event that gives a time and no delay is None. *)
(* Sequence numbers are those of the positions, where a call has them.     *)
(***************************************************************************)
EXTENDS Integers, Sequences, FiniteSets, FiniteSetsExt, SequencesExt

CONSTANTS None,
          Calls,             \* the stops of the trip, one may come twice
          Entities,          \* trip updates: [relation, delay, updates]
          Reports,           \* vehicle positions: [relation, status, time]
          MaxDelay,          \* MAX_REASONABLE_DELAY_SECS
          LeastInteger,      \* i32::MIN, which has no absolute value
          MaxHeard           \* bound: entities between two refreshes

ASSUME DelayAssumption == MaxDelay \in Nat /\ LeastInteger \in Int /\ LeastInteger < -MaxDelay

ASSUME EntitiesAssumption ==
    /\ None \notin Int \union {"scheduled", "canceled"}
    /\ DOMAIN Calls = 1..Len(Calls) /\ Len(Calls) \in Nat
    /\ Entities \intersect Reports = {}
    /\ \A e \in Entities : DOMAIN e.updates = 1..Len(e.updates) /\ Len(e.updates) \in Nat

VARIABLES deltas,      \* stop_deltas: position -> [arrival, departure, skipped] or None
          canceled,    \* the trip is in canceled_trips
          metrics,     \* trip_metrics: [relation, status, time]
          heard        \* observed: the entities since the maps were emptied

tripVars == <<deltas, canceled, metrics, heard>>

Positions == DOMAIN Calls
Nothing == [relation |-> None, status |-> None, time |-> None]

NoDeltas == [p \in Positions |-> None]

TripInit == deltas = NoDeltas /\ canceled = FALSE /\ metrics = Nothing /\ heard = <<>>

\* resolve_stop_update_position: by sequence number, else the first call at the stop.
PositionOf(u) ==
    IF u.seq \in Positions THEN u.seq
    ELSE IF \E p \in Positions : Calls[p] = u.stop
         THEN Min({p \in Positions : Calls[p] = u.stop}) ELSE None

\* sanitize_delay: in a release build the absolute value of the least integer
\* is itself.
Sane(delay) ==
    IF delay = None THEN None
    ELSE LET abs == IF delay < 0 /\ delay # LeastInteger THEN -delay ELSE delay
         IN  IF abs <= MaxDelay THEN delay ELSE None

\* merge_schedule_relationship: canceled wins, then the first that is not as
\* scheduled.
Merge(relation, incoming) ==
    IF incoming = None THEN relation
    ELSE IF relation \in {None, "scheduled"} \/ incoming = "canceled" THEN incoming
    ELSE relation

\* The updates that have a position.
Placed(updates) == {k \in DOMAIN updates : PositionOf(updates[k]) # None}

\* Mutant: the updates that have a position, as they come.
AwaitedAsSent(updates, left) ==
    CHOOSE k \in left : \A j \in left : k <= j

\* The first of the updates left in the order of their positions; the sort is
\* stable.
Awaited(updates, left) ==
    CHOOSE k \in left : \A j \in left :
        LET at == PositionOf(updates[k])
            other == PositionOf(updates[j])
        IN  at < other \/ (at = other /\ k <= j)

Given(new, old) == IF Sane(new) # None THEN Sane(new) ELSE old

\* The loop over the positions of the trip: the delays carried so far, the
\* updates left, and the one met, which is the one awaited if it is of the position.
Unmet(e) ==
    [arrival |-> Sane(e.delay), departure |-> Sane(e.delay),
     left |-> Placed(e.updates), met |-> None]

Visit(e, c, p) ==
    LET k == Awaited(e.updates, c.left)
        u == e.updates[k]
    IN  IF c.left # {} /\ PositionOf(u) = p
        THEN [arrival |-> Given(u.arrival, c.arrival),
              departure |-> Given(u.departure, c.departure),
              left |-> c.left \ {k}, met |-> k]
        ELSE [c EXCEPT !.met = None]

Carried(e) ==
    LET carry[p \in 0..Len(Calls)] == IF p = 0 THEN Unmet(e) ELSE Visit(e, carry[p - 1], p)
    IN  carry

Inserted(e) ==
    [p \in Positions |->
        LET c == Carried(e)[p]
        IN  IF c.met # None \/ c.arrival # None \/ c.departure # None
            THEN [arrival |-> c.arrival, departure |-> c.departure,
                  skipped |-> c.met # None /\ e.updates[c.met].skipped]
            ELSE deltas[p]]

\* One entity of refresh_trip_updates.
TripUpdate(e) ==
    /\ Len(heard) < MaxHeard
    /\ metrics' = [metrics EXCEPT !.relation = Merge(@, e.relation)]
    /\ IF e.relation = "canceled" THEN canceled' = TRUE /\ UNCHANGED deltas
                                  ELSE deltas' = Inserted(e) /\ UNCHANGED canceled
    /\ heard' = Append(heard, e)

\* should_replace_vehicle_snapshot
Replaces(r) == metrics.time = None \/ (r.time # None /\ r.time >= metrics.time)

\* note_vehicle_position
VehiclePosition(r) ==
    /\ Len(heard) < MaxHeard
    /\ metrics' = [relation |-> Merge(metrics.relation, r.relation),
                   status |-> IF r.status # None /\ (Replaces(r) \/ metrics.status = None)
                              THEN r.status ELSE metrics.status,
                   time |-> IF Replaces(r) /\ r.time # None THEN r.time ELSE metrics.time]
    /\ heard' = Append(heard, r)
    /\ UNCHANGED <<deltas, canceled>>

\* Mutant: what was noted of the trip outlives the refresh.
RefreshKeepingMetrics ==
    /\ heard # <<>>
    /\ deltas' = NoDeltas /\ canceled' = FALSE /\ heard' = <<>>
    /\ UNCHANGED metrics

\* The next refresh empties the maps.
Refresh ==
    /\ heard # <<>>
    /\ deltas' = NoDeltas /\ canceled' = FALSE /\ metrics' = Nothing /\ heard' = <<>>

TripNext ==
    \/ \E e \in Entities : TripUpdate(e)
    \/ \E r \in Reports : VehiclePosition(r)
    \/ Refresh

TripSpec == TripInit /\ [][TripNext]_tripVars
-----------------------------------------------------------------------------
(* Properties                                                              *)

\* The entities that give delays.
Spoken == {k \in DOMAIN heard : heard[k] \in Entities /\ heard[k].relation # "canceled"}

\* No two stop updates of an entity are of the same position.
Distinct(e) == \A i, j \in DOMAIN e.updates : i # j =>
    PositionOf(e.updates[i]) # PositionOf(e.updates[j]) \/ PositionOf(e.updates[i]) = None

UpdatesAt(e, p) == {k \in DOMAIN e.updates : PositionOf(e.updates[k]) = p}

\* The delay an entity gives for a position: that of the last of its updates
\* up to there that gives one, else that of the trip.
Said(e, field, p) ==
    LET told == {q \in 1..p : \E k \in UpdatesAt(e, q) : Sane(e.updates[k][field]) # None}
    IN  IF told = {} THEN Sane(e.delay)
        ELSE Sane(e.updates[CHOOSE k \in UpdatesAt(e, Max(told)) : TRUE][field])

\* What an entity gives for a position, if anything.
Tells(e, p) ==
    UpdatesAt(e, p) # {} \/ Said(e, "arrival", p) # None \/ Said(e, "departure", p) # None
Told(e, p) ==
    [arrival |-> Said(e, "arrival", p), departure |-> Said(e, "departure", p),
     skipped |-> \E k \in UpdatesAt(e, p) : e.updates[k].skipped]

\* Delays propagate along the trip, each field on its own, from the stop update
\* that gives them to the next that does, and a later entity of a message
\* overrides an earlier one where it says anything; unless two updates of one
\* entity fall on one position, where the loop waits for the second for ever
\* (refresh_trip_updates).
DelaysPropagate ==
    (\A k \in Spoken : Distinct(heard[k])) =>
        \A p \in Positions :
            LET telling == {k \in Spoken : Tells(heard[k], p)}
            IN  deltas[p] = IF telling = {} THEN None ELSE Told(heard[Max(telling)], p)

\* In whatever order the entities of both messages come, a trip that one of
\* them cancels is shown canceled, and scheduled only if none says otherwise;
\* and no trip is left out of searches that is not shown canceled
\* (merge_schedule_relationship, refresh_trip_updates).
RelationAnyOrder ==
    LET said == {e.relation : e \in Range(heard)} \ {None}
    IN  /\ metrics.relation = "canceled" <=> "canceled" \in said
        /\ metrics.relation = "scheduled" <=> said = {"scheduled"}
        /\ metrics.relation = None <=> said = {}
        /\ canceled => metrics.relation = "canceled"
=============================================================================

---------------------------- MODULE MC_Handlers ----------------------------
(***************************************************************************)
(* Three handlers that share no state, each alone from where it begins:    *)
(* the entities of a feed's messages, the street router, and arrive-by     *)
(* queries.                                                                *)
(***************************************************************************)
EXTENDS TripUpdates, StreetSearch, ArriveBy

VARIABLE running
vars == <<running, tripVars, streetVars, arriveVars>>
-----------------------------------------------------------------------------
(* Entities of one trip that calls twice at a stop                         *)

MCCalls == <<"a", "b", "a">>
MCLeast == -8

Update(seq, stop, arrival, departure, skipped) ==
    [seq |-> seq, stop |-> stop, arrival |-> arrival, departure |-> departure, skipped |-> skipped]

\* By sequence number, by the stop called at twice, by both, by neither.
MCUpdates == {Update(2, None, 1, None, FALSE), Update(3, "a", None, 2, FALSE),
              Update(None, "a", 2, 5, FALSE), Update(9, "b", None, None, TRUE),
              Update(None, "c", 1, 1, FALSE)}
MCEntities ==
    [relation : {None, "scheduled", "added", "canceled"}, delay : {None}, updates : {<<>>}]
    \union [relation : {"scheduled"}, delay : {None, 1, MCLeast, -5},
            updates : {<<>>} \union {<<u>> : u \in MCUpdates} \union (MCUpdates \X MCUpdates)]
MCReports ==
    [relation : {None, "canceled", "added"}, status : {"full"}, time : {1}]
    \union [relation : {None}, status : {None, "full", "empty"}, time : {None, 1, 2}]
-----------------------------------------------------------------------------
(* Maps of five nodes and diffs of them                                    *)

MCNodes == 1..5
Spread == <<<<0, 0>>, <<3, 1>>, <<1, 4>>, <<6, 2>>, <<5, 5>>>>
Way(refs, dir) == [refs |-> refs, dir |-> dir]

MCMaps ==
    {[places |-> Spread,
      ways |-> 1 :> Way(<<1, 2, 4>>, "both") @@ 2 :> Way(a, d) @@ 3 :> Way(b, "both")
               @@ 4 :> Way(<<4, 5>>, c)] :
        a \in {<<1, 3, 5>>, <<3, 2>>}, b \in {<<2, 3>>, <<1, 5>>, <<2, 5>>},
        c \in {"forward", "both"}, d \in {"both", "reverse"}}

Node(n) == [kind |-> "node", node |-> n, place |-> Spread[n]]
Change(way, action, refs, dir) ==
    [kind |-> "way", way |-> way, action |-> action, usable |-> TRUE, refs |-> refs,
     dir |-> dir, closed |-> FALSE]

MovedNode(x) == [Node(3) EXCEPT !.place = <<2, x>>]

MCDiffs ==
    {\* A way is deleted, its element closed at once or not.
     <<Change(1, "delete", <<1, 2, 4>>, "both")>>,
     <<[Change(3, "delete", <<>>, "both") EXCEPT !.closed = TRUE]>>,
     \* Another gets a course by a node that is moved, and so does the way through
     \* that; or the node is moved again behind them, and only one is told.
     <<Node(1), MovedNode(2), Node(5),
       Change(2, "modify", <<1, 3, 5>>, "forward"), Change(3, "modify", <<3, 5>>, "both")>>,
     <<MovedNode(2), Node(5), Change(2, "modify", <<3, 5>>, "both"), MovedNode(3),
       Change(3, "modify", <<3, 5>>, "both")>>,
     \* One is created behind its nodes, between them, and made impassable later.
     <<Node(1), Node(5), Change(6, "create", <<1, 5>>, "both")>>,
     <<Node(1), Change(6, "create", <<1, 5>>, "both"), Node(5)>>,
     <<[Change(6, "modify", <<1, 5>>, "both") EXCEPT !.usable = FALSE]>>,
     \* The middle node of a new course is not in the diff; then the way is deleted
     \* and back with all its nodes.
     <<Node(1), Node(5), Change(1, "modify", <<1, 2, 5>>, "both")>>,
     <<Change(1, "delete", <<1, 2, 4>>, "both"), Node(4), Node(2),
       Change(1, "create", <<2, 4>>, "both")>>}
-----------------------------------------------------------------------------
(* Arrivals early and late in a day                                        *)

MCTargets == {5, 20}
MCLatest == {-25, -20, -15, -10, -5, -1, 0, 7, 10, 15, 20}
-----------------------------------------------------------------------------
\* One map, and a query that has ended, while another handler runs.
OneMap ==
    /\ base.ways[2] = Way(<<3, 2>>, "both") /\ base.ways[3].refs = <<2, 3>>
    /\ base.ways[4].dir = "both"
ArriveOver ==
    /\ query = "failed" /\ asked = 5 /\ lookback = Initial /\ early = 5 /\ late = 5
    /\ latest = [day \in {"before", "on"} |-> 0] /\ refreshes = 0

MCInit ==
    /\ running \in {"trips", "street", "arrive"}
    /\ TripInit
    /\ StreetInit /\ (running = "street" \/ OneMap)
    /\ IF running = "arrive" THEN ArriveInit ELSE ArriveOver

MCNext ==
    \/ running = "trips" /\ TripNext /\ UNCHANGED <<running, streetVars, arriveVars>>
    \/ running = "street" /\ StreetNext /\ UNCHANGED <<running, tripVars, arriveVars>>
    \/ running = "arrive" /\ ArriveNext /\ UNCHANGED <<running, tripVars, streetVars>>

MCSpec == MCInit /\ [][MCNext]_vars /\ WF_arriveVars(Search)
=============================================================================

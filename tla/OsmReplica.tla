---------------------------- MODULE OsmReplica ----------------------------
(***************************************************************************)
(* What an overlay promises: the network an engine serves is the extract   *)
(* as of some published sequence, and while one engine serves it only      *)
(* moves forward.  An extract that does not say what it contains is as of  *)
(* Unknown, whatever is applied to it.                                     *)
(***************************************************************************)
EXTENDS Naturals

CONSTANTS Unknown,  \* the state of an extract without a replication anchor
          Down      \* no engine serves

VARIABLES published,    \* the last sequence published
          generation,   \* the engines that have served
          asOf          \* the sequence the served network stands at

replica == <<published, generation, asOf>>

States == 0..published \union {Unknown, Down}

Init == published \in Nat /\ generation = 0 /\ asOf = Down

Publish == published' = published + 1 /\ UNCHANGED <<generation, asOf>>

\* Diffs are applied to the engine that serves.
Advance ==
    /\ asOf \in Nat
    /\ asOf' \in asOf..published
    /\ UNCHANGED <<published, generation>>

\* Another engine serves, or none.
Replace ==
    /\ asOf' \in States
    /\ generation' = generation + 1
    /\ UNCHANGED published

Stop == asOf' = Down /\ UNCHANGED <<published, generation>>

Next == Publish \/ Advance \/ Replace \/ Stop

Spec == Init /\ [][Next]_replica
===========================================================================

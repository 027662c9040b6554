--------------------------- MODULE EventDelivery ---------------------------
(***************************************************************************)
(* What the outbox promises the orchestrator: at-least-once delivery.      *)
(*                                                                         *)
(* An event may reach the orchestrator any number of times and in any      *)
(* order, and the connector is done with it only once it has got there.    *)
(***************************************************************************)
CONSTANT Events

VARIABLES
    recorded,   \* events of committed transactions
    received,   \* events the orchestrator has accepted at least once
    done        \* events the connector will not read again

vars == <<recorded, received, done>>

Init == recorded = {} /\ received = {} /\ done = {}

Record(e) ==
    /\ recorded' = recorded \cup {e}
    /\ UNCHANGED <<received, done>>

Receive(e) ==
    /\ e \in recorded
    /\ received' = received \cup {e}
    /\ UNCHANGED <<recorded, done>>

Finish(e) ==
    /\ e \in received
    /\ done' = done \cup {e}
    /\ UNCHANGED <<recorded, received>>

Next == \E e \in Events : Record(e) \/ Receive(e) \/ Finish(e)

Spec == Init /\ [][Next]_vars
=============================================================================

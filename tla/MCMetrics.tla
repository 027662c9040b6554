------------------------------ MODULE MCMetrics ------------------------------
(* An instance of Metrics for TLC. *)
EXTENDS Metrics

\* A quick request, and an event published.
SomeObservations ==
    {[counter |-> "requests", result |-> "good", within |-> 1],
     [counter |-> "operations", result |-> "good", within |-> 1]}
=============================================================================

------------------------------ MODULE MCOutbox ------------------------------
(* An instance of Outbox for TLC. *)
EXTENDS Outbox, TLC

CONSTANTS e1, e2, e3, r1, r2

OneAfterAnother == e1 :> 1 @@ e2 :> 2 @@ e3 :> 3
=============================================================================

---------------------------- MODULE MCConnector ----------------------------
(* An instance of Connector for TLC: one payment, one replica. *)
EXTENDS Connector

CONSTANTS p1, r1, q1, c1, id1

OneConnection == [p \in {p1} |-> c1]
OnePrepay     == [p \in {p1} |-> id1]

\* The order is paid at once or closed.
ShortMoves == {<<"INITIAL", "PAY_SUCCESS">>, <<"INITIAL", "PAY_CLOSED">>}
=============================================================================

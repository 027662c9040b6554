-------------------------- MODULE MCPaymentStatus --------------------------
(* Instances of PaymentStatus for TLC. *)
EXTENDS PaymentStatus, TLC

CONSTANTS p1, p2, r1, r2, q1, c1, c2, id1

\* One payment, one connection.
OneConnection == [p \in {p1} |-> c1]
OnePrepay     == [p \in {p1} |-> id1]

\* Two payments on two connections that were given the same prepayId.
TwoConnections == (p1 :> c1) @@ (p2 :> c2)
SharedPrepay   == [p \in {p1, p2} |-> id1]

\* PAID or a status the code does not name, and then an outcome; or closed.
\* Outcomes are the last status.
FinalMoves == {<<"INITIAL", "PAID">>, <<"INITIAL", "UNNAMED">>, <<"INITIAL", "PAY_CLOSED">>,
               <<"PAID", "PAY_FAIL">>, <<"UNNAMED", "PAY_SUCCESS">>}

\* The order is paid at once or closed.
ShortMoves == {<<"INITIAL", "PAY_SUCCESS">>, <<"INITIAL", "PAY_CLOSED">>}

\* The replicas are alike, and so are the two payments with their connections.
Interchangeable ==
    Permutations({r1, r2}) \cup {(p1 :> p2) @@ (p2 :> p1) @@ (c1 :> c2) @@ (c2 :> c1)}
=============================================================================

-------------------------- MODULE MCCreatePayment --------------------------
(* An instance of CreatePayment for TLC: two keys, and three bodies.  The   *)
(* first two are of one transaction; the third is of another transaction,   *)
(* whose id has its dashes elsewhere and so gives the same reference.       *)
EXTENDS CreatePayment, TLC

CONSTANTS k1, k2, a1, a2, b1, ta, tb, c1, c2, ref, o1, o2, q1, q2, q3

TransactionOfCommand == a1 :> ta @@ a2 :> ta @@ b1 :> tb
ConnectionOfCommand  == a1 :> c1 @@ a2 :> c2 @@ b1 :> c1
SharedReference      == [t \in {ta, tb} |-> ref]

Interchangeable ==
    Permutations({k1, k2}) \cup Permutations({o1, o2}) \cup Permutations({q1, q2, q3})
=============================================================================

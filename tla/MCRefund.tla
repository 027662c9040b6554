------------------------------ MODULE MCRefund ------------------------------
(* An instance of Refund for TLC.  The ids of ra and rb differ only in their *)
(* dashes, so that they have one refundRequestId; ra has two bodies.  The   *)
(* key k2 is shared by rb and rc, k1 and k3 belong to one refund each.      *)
EXTENDS Refund, TLC

CONSTANTS k1, k2, k3, a1, a2, b1, c1, ra, rb, rc, ia, ic, q1, q2

RefundOfCommand == a1 :> ra @@ a2 :> ra @@ b1 :> rb @@ c1 :> rc
RequestOfRefund == ra :> ia @@ rb :> ia @@ rc :> ic

SentPairs == {<<k1, a1>>, <<k1, a2>>, <<k2, b1>>, <<k2, c1>>, <<k3, c1>>}

Interchangeable == Permutations({q1, q2})
=============================================================================

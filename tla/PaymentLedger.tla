---------------------------- MODULE PaymentLedger ----------------------------
(***************************************************************************)
(* What the connector promises about the end of a payment.                 *)
(*                                                                         *)
(* The provider ends a payment once, in one way.  Webhooks and polls are   *)
(* two sources that may each tell of it, once, after it has happened, and  *)
(* by a name of that outcome.                                              *)
(***************************************************************************)
CONSTANT Payments

VARIABLES
    ended,      \* how a payment has ended at the provider: no way yet, or one
    told        \* verdicts told: payment, source, name of the outcome

vars == <<ended, told>>

Names(end) ==
    CASE end = "PAY_SUCCESS" -> {"confirmed"}
      [] end = "PAY_CLOSED"  -> {"cancelled", "expired"}
      [] end = "PAY_FAIL"    -> {"failed"}
      [] OTHER               -> {}

Init ==
    /\ ended = [p \in Payments |-> {}]
    /\ told = {}

End(p, end) ==
    /\ ended[p] = {}
    /\ ended' = [ended EXCEPT ![p] = {end}]
    /\ UNCHANGED told

Tell(p, source, name) ==
    /\ \E end \in ended[p] : name \in Names(end)
    /\ \A t \in told : <<t.pay, t.source>> # <<p, source>>
    /\ told' = told \cup {[pay |-> p, source |-> source, status |-> name]}
    /\ UNCHANGED ended

Next == \E p \in Payments :
    \/ \E end \in {"PAY_SUCCESS", "PAY_CLOSED", "PAY_FAIL"} : End(p, end)
    \/ \E source \in {"webhook", "poll"}, name \in {"confirmed", "cancelled", "expired", "failed"} :
          Tell(p, source, name)

Spec == Init /\ [][Next]_vars
=============================================================================

----------------------------- MODULE Connector -----------------------------
(***************************************************************************)
(* PaymentStatus and Outbox together: from the provider to the             *)
(* orchestrator.                                                           *)
(*                                                                         *)
(* The transaction that records an event is one step of both: PaymentStatus*)
(* says which event and what else it writes, Outbox adds the pending row.  *)
(* Reconciler and publisher of a replica share its process and die         *)
(* together; otherwise they take turns in any order.                       *)
(***************************************************************************)
EXTENDS PaymentStatus

CONSTANTS Refused, Limit, MaxFaults, MaxRestarts

VARIABLES rows, senders, received, faults, restarts

publishing == <<rows, senders, received, faults, restarts>>

\* event_id of webhooks and polls, for the statuses that may be recorded
EventIDs ==
    ({"webhook"} \X PrepayIDs \X Notified) \cup
    ({"poll"} \X Connections \X PrepayIDs \X {raw \in Outcomes : \E m \in ProviderMoves : m[2] = raw})

ASSUME ConnectorAssumption ==
    /\ Refused \subseteq EventIDs
    /\ IsFiniteSet(EventIDs) /\ IsFiniteSet(Replicas)
    /\ Limit \in Nat \ {0} /\ MaxFaults \in Nat /\ MaxRestarts \in Nat

Pub == INSTANCE Outbox WITH
    Events <- EventIDs, CreatedAt <- [id \in EventIDs |-> 0], outbox <- rows

\* A step of webhook, reconciler, GET, cancel or provider, and the row of the
\* event it records, if it records one.
Learn ==
    /\ \/ \E p \in Payments : Environment(p) \/ CompleteCreate(p) \/ Webhook(p)
       \/ \E q \in Requests : Handler(q)
       \/ \E r \in Replicas : \/ \E batch \in SUBSET Payments : Claim(r, batch)
                              \/ \E p \in Payments : Poll(r, p)
    /\ \/ \E e \in outbox' \ outbox : Pub!Record(e.id)
       \/ outbox' = outbox /\ UNCHANGED publishing

Publish(r) ==
    /\ \/ \E batch \in SUBSET EventIDs : Pub!PendingEvents(r, batch)
       \/ \E id \in EventIDs :
             Pub!Accepted(r, id) \/ Pub!AnswerLost(r, id) \/ Pub!NotAccepted(r, id)
       \/ Pub!MarkPublished(r) \/ Pub!MarkPublishedFails(r)
       \/ Pub!MarkFailed(r) \/ Pub!MarkFailedFails(r)
    /\ UNCHANGED vars

BackoffEnds == (\E id \in EventIDs : Pub!BackoffEnds(id)) /\ UNCHANGED vars

RestartReplica(r) == Restart(r) /\ Pub!Restart(r)

ConnectorNext == Learn \/ BackoffEnds \/ \E r \in Replicas : Publish(r) \/ RestartReplica(r)

ConnectorSpec ==
    /\ Init /\ Pub!Init
    /\ [][ConnectorNext]_<<vars, publishing>>
    /\ Fairness /\ Pub!Fairness

-----------------------------------------------------------------------------
Delivered == {e \in outbox : received[e.id] > 0}

EndToEnd == INSTANCE PaymentLedger WITH
    ended <- [p \in Payments |-> seen[p] \cap Outcomes], told <- Told(Delivered)

\* What the orchestrator hears keeps the ledger too, whatever is lost, sent twice or
\* sent again after a restart: the end of a payment is told after the fact, and by
\* each source at most once, duplicates of an event apart.
TellsOutcomes == EndToEnd!Spec

\* Once the provider has ended a stored, matching payment, the orchestrator is told:
\* no loss between provider, row, outbox and orchestrator stops it.  It takes that
\* nobody asks with GET or cancels: they may settle the row without an event, and
\* then nobody polls it.
OutcomeIsTold ==
    \A p \in Payments \ Mismatched :
        Stored(p) /\ provider[p] \in Outcomes
            ~> \E e \in Delivered : e.pay = p /\ e.status \in Verdicts
=============================================================================

--------------------------- MODULE PaymentStatus ---------------------------
(***************************************************************************)
(* How the connector learns and stores the status of a Binance Pay order.  *)
(*                                                                         *)
(* Four paths write the same row of binancepay_v2_orders: the webhook      *)
(* handler, the reconciler of every running replica, GET and cancel.  Each *)
(* of them reads the provider (or a notification of it) in one step and    *)
(* writes the row in a later one, with no lock held in between.  The       *)
(* webhook handler and the reconciler also record an event: one            *)
(* transaction fills the deduplication table, the outbox and the row.      *)
(*                                                                         *)
(* One SQL statement, or one transaction, is one step.  Timestamps are     *)
(* abstracted to what the code compares: whether next_reconcile_at has     *)
(* come, and whether ExpiresAt has passed.                                 *)
(***************************************************************************)
EXTENDS Naturals, FiniteSets

CONSTANTS
    Payments,       \* orders of the provider, by transaction id
    Connections,    \* provider connections of CONNECTIONS_JSON
    PrepayIDs,      \* ids the provider gives to its orders
    ConnectionOf,   \* connection a payment was created on
    PrepayOf,       \* prepayId of a payment, unique within its connection only
    Mismatched,     \* payments that the provider reports with a contradicting amount
    Replicas,       \* running connectors, each with its reconciler loop
    Requests,       \* HTTP handler goroutines (bound on the ones in flight)
    Calls,          \* what clients ask for: "query" is GET, "close" is cancel
    BatchLimit,     \* rows one claim may take
    ProviderMoves,  \* pairs <<from, to>> of provider statuses
    Notified        \* statuses the provider sends notifications for

(***************************************************************************)
(* UNNAMED stands for every status that NormalizeStatus does not name.     *)
(***************************************************************************)
Outcomes    == {"PAY_SUCCESS", "PAY_CLOSED", "PAY_FAIL"}
RawStatuses == {"INITIAL", "PENDING", "PAID", "UNNAMED"} \cup Outcomes

Open     == {"created", "pending"}
Verdicts == {"confirmed", "cancelled", "failed", "expired"}

ASSUME ConnectionAssumption ==
    /\ ConnectionOf \in [Payments -> Connections]
    /\ PrepayOf \in [Payments -> PrepayIDs]
    /\ \A p, q \in Payments :
          ConnectionOf[p] = ConnectionOf[q] /\ PrepayOf[p] = PrepayOf[q] => p = q
    /\ Mismatched \subseteq Payments

ASSUME ProviderAssumption ==
    /\ ProviderMoves \subseteq RawStatuses \X RawStatuses
    /\ Notified \subseteq RawStatuses
    /\ Calls \subseteq {"query", "close"}

ASSUME BatchAssumption == BatchLimit \in Nat \ {0}

VARIABLES
    provider,   \* status of the order at the provider
    seen,       \* every status the order has had there (history)
    expired,    \* the clock has passed the payment's ExpiresAt
    orders,     \* binancepay_v2_orders
    inbound,    \* binancepay_v2_inbound_events: <<connection, event id>>
    outbox,     \* binancepay_v2_event_outbox
    acked,      \* notifications answered with SUCCESS (history)
    polls,      \* reconciler work items of each replica
    reqs        \* requests in flight

external == <<provider, seen, expired>>
tables   == <<orders, inbound, outbox>>
vars     == <<provider, seen, expired, orders, inbound, outbox, acked, polls, reqs>>

(***************************************************************************)
(* Statuses                                                                *)
(***************************************************************************)
\* Mutant: an unknown status is passed through.
NormalizeStatusPassesUnknown(raw) ==
    CASE raw = "INITIAL"              -> "created"
      [] raw \in {"PENDING", "PAID"}  -> "pending"
      [] raw = "PAY_SUCCESS"          -> "confirmed"
      [] raw = "PAY_CLOSED"           -> "cancelled"
      [] raw = "PAY_FAIL"             -> "failed"
      [] OTHER                        -> raw

\* Mutant: an unknown status is taken for a failure.
NormalizeStatusFailsUnknown(raw) ==
    IF raw = "UNNAMED" THEN "failed" ELSE NormalizeStatusPassesUnknown(raw)

\* Mutant: the failure is not in the list.
NormalizeStatusNoFail(raw) ==
    IF raw \in {"UNNAMED", "PAY_FAIL"} THEN "pending"
    ELSE NormalizeStatusPassesUnknown(raw)

NormalizeStatus(raw) ==
    CASE raw = "INITIAL"              -> "created"
      [] raw \in {"PENDING", "PAID"}  -> "pending"
      [] raw = "PAY_SUCCESS"          -> "confirmed"
      [] raw = "PAY_CLOSED"           -> "cancelled"
      [] raw = "PAY_FAIL"             -> "failed"
      [] OTHER                        -> "pending"

\* Mutant: whatever ends after ExpiresAt has expired.
ObservedStatusAnyExpires(p, raw) ==
    IF raw \in Outcomes /\ expired[p] THEN "expired" ELSE NormalizeStatus(raw)

\* What the webhook handler and the reconciler make of a status they are told.
ObservedStatus(p, raw) ==
    IF raw = "PAY_CLOSED" /\ expired[p] THEN "expired" ELSE NormalizeStatus(raw)

(***************************************************************************)
(* Rows, events, goroutines                                                *)
(***************************************************************************)
Absent == [status |-> "absent", raw |-> "none", next |-> "null"]
Stored(p) == orders[p].status # "absent"

\* next_reconcile_at of a row that takes this status now
Schedule(status) == IF status \in Open THEN "scheduled" ELSE "null"
Row(status, raw) == [status |-> status, raw |-> raw, next |-> Schedule(status)]
Reschedule(row, next) == [row EXCEPT !.next = next]

WebhookID(p, raw) == <<"webhook", PrepayOf[p], raw>>
\* Mutant: the id is built from the normalized status.
PollIDNormalized(p, raw) == <<"poll", ConnectionOf[p], PrepayOf[p], ObservedStatus(p, raw)>>
PollID(p, raw)    == <<"poll", ConnectionOf[p], PrepayOf[p], raw>>
Event(id, p, status, raw) ==
    [id |-> id, source |-> id[1], pay |-> p, status |-> status, raw |-> raw]

Idle == [pc |-> "idle", status |-> "none", raw |-> "none"]
Item(pc, status, raw) == [pc |-> pc, status |-> status, raw |-> raw]

Free == [pc |-> "idle"]
Request(pc, p, status, raw) ==
    [pc |-> pc, pay |-> p, status |-> status, raw |-> raw]

Statuses == Open \cup Verdicts

Rows == [status : Statuses \cup {"absent"}, raw : RawStatuses \cup {"none"},
         next : {"null", "scheduled", "due"}]

Items == {Idle} \cup [pc : {"claimed", "retry"}, status : {"none"}, raw : {"none"}]
                \cup [pc : {"observed"}, status : Statuses, raw : RawStatuses]

Handlers == {Free}
    \cup [pc : {"query", "close"}, pay : Payments, status : {"none"}, raw : {"none"}]
    \cup [pc : {"update", "record"}, pay : Payments, status : Statuses, raw : RawStatuses]

TypeOK ==
    /\ provider \in [Payments -> RawStatuses \cup {"none"}]
    /\ seen \in [Payments -> SUBSET RawStatuses]
    /\ expired \in [Payments -> BOOLEAN]
    /\ orders \in [Payments -> Rows]
    /\ \A e \in outbox : /\ e.source \in {"webhook", "poll"}
                         /\ e.pay \in Payments
                         /\ e.status \in Statuses
                         /\ e.raw \in RawStatuses
    /\ acked \subseteq [pay : Payments, raw : RawStatuses, known : BOOLEAN]
    /\ polls \in [Replicas -> [Payments -> Items]]
    /\ reqs \in [Requests -> Handlers]

Init ==
    /\ provider = [p \in Payments |-> "none"]
    /\ seen     = [p \in Payments |-> {}]
    /\ expired  = [p \in Payments |-> FALSE]
    /\ orders   = [p \in Payments |-> Absent]
    /\ inbound  = {}
    /\ outbox   = {}
    /\ acked    = {}
    /\ polls    = [r \in Replicas |-> [p \in Payments |-> Idle]]
    /\ reqs     = [q \in Requests |-> Free]

(***************************************************************************)
(* The provider and the clock                                              *)
(***************************************************************************)

\* An order ends one way only, and does not return to a status it has left.
MoveTo(p, raw) ==
    /\ <<provider[p], raw>> \in ProviderMoves
    /\ raw \notin seen[p]
    /\ raw \in Outcomes => seen[p] \cap Outcomes = {}
    /\ provider' = [provider EXCEPT ![p] = raw]
    /\ seen'     = [seen EXCEPT ![p] = @ \cup {raw}]

\* CreateOrder succeeds at the provider; the connector has not stored the order.
ProviderCreates(p) ==
    /\ provider[p] = "none"
    /\ provider' = [provider EXCEPT ![p] = "INITIAL"]
    /\ seen'     = [seen EXCEPT ![p] = {"INITIAL"}]
    /\ UNCHANGED <<expired, tables, acked, polls, reqs>>

ProviderAdvances(p) ==
    /\ \E raw \in RawStatuses : MoveTo(p, raw)
    /\ UNCHANGED <<expired, tables, acked, polls, reqs>>

ExpiryPasses(p) ==
    /\ ~expired[p]
    /\ expired' = [expired EXCEPT ![p] = TRUE]
    /\ UNCHANGED <<provider, seen, tables, acked, polls, reqs>>

\* now() reaches next_reconcile_at.
ReconcileFallsDue(p) ==
    /\ orders[p].next = "scheduled"
    /\ orders' = [orders EXCEPT ![p] = Reschedule(@, "due")]
    /\ UNCHANGED <<external, inbound, outbox, acked, polls, reqs>>

(***************************************************************************)
(* The statements of the store                                             *)
(***************************************************************************)
\* UpdateStatus and UpdatePaymentObservation set the same columns, whatever
\* the row holds.
UpdateStatus(p, status, raw) == orders' = [orders EXCEPT ![p] = Row(status, raw)]

\* Mutant: a retry reschedules whatever row it finds.
RetryUnguarded(p) == orders' = [orders EXCEPT ![p] = Reschedule(@, "scheduled")]

\* RetryPaymentReconciliation touches open rows only.
RetryPaymentReconciliation(p) ==
    orders' = [orders EXCEPT ![p] =
                  IF orders[p].status \in Open THEN Reschedule(@, "scheduled") ELSE @]

Recorded(p, id) == <<ConnectionOf[p], id>> \in inbound
KeyTaken(id)    == \E e \in outbox : e.id = id

\* Mutant: three statements without a transaction around them.
RecordWithoutTransaction(p, id, status, raw) ==
    \/ /\ Recorded(p, id)
       /\ UNCHANGED tables
    \/ /\ ~Recorded(p, id)
       /\ inbound' = inbound \cup {<<ConnectionOf[p], id>>}
       /\ \/ UNCHANGED <<outbox, orders>>
          \/ /\ ~KeyTaken(id)
             /\ outbox' = outbox \cup {Event(id, p, status, raw)}
             /\ orders' = [orders EXCEPT ![p] = Row(status, raw)]

\* Mutant: the row is not updated with the event.
RecordEventOnly(p, id, status, raw) ==
    \/ Recorded(p, id) /\ UNCHANGED tables
    \/ /\ ~Recorded(p, id)
       /\ ~KeyTaken(id)
       /\ inbound' = inbound \cup {<<ConnectionOf[p], id>>}
       /\ outbox'  = outbox \cup {Event(id, p, status, raw)}
       /\ UNCHANGED orders

\* Either the event is known and nothing is done, or the three writes commit.
\* The outbox is keyed by the event id alone: a taken key fails the transaction.
RecordProviderEvent(p, id, status, raw) ==
    \/ /\ Recorded(p, id)
       /\ UNCHANGED tables
    \/ /\ ~Recorded(p, id)
       /\ ~KeyTaken(id)
       /\ inbound' = inbound \cup {<<ConnectionOf[p], id>>}
       /\ outbox'  = outbox \cup {Event(id, p, status, raw)}
       /\ orders'  = [orders EXCEPT ![p] = Row(status, raw)]

(***************************************************************************)
(* Create: the end of it.  The order exists at the provider, and may have  *)
(* moved on there, when CompleteCreate inserts the row.                    *)
(***************************************************************************)
CompleteCreate(p) ==
    /\ provider[p] # "none"
    /\ ~Stored(p)
    /\ orders' = [orders EXCEPT ![p] = Row("created", "INITIAL")]
    /\ UNCHANGED <<external, inbound, outbox, acked, polls, reqs>>

(***************************************************************************)
(* GET and cancel                                                          *)
(***************************************************************************)
\* FindPayment; the provider is called next.
FindPayment(q, p, call) ==
    /\ reqs[q] = Free
    /\ Stored(p)
    /\ reqs' = [reqs EXCEPT ![q] = Request(call, p, "none", "none")]
    /\ UNCHANGED <<external, tables, acked, polls>>

\* The provider answers QueryOrder.  GET compares neither amount nor currency,
\* and never says "expired".
GetAnswered(q) ==
    /\ reqs[q].pc = "query"
    /\ LET p == reqs[q].pay
       IN  reqs' = [reqs EXCEPT ![q] =
                      Request("update", p, NormalizeStatus(provider[p]), provider[p])]
    /\ UNCHANGED <<external, tables, acked, polls>>

\* The provider closes the order (or had closed it); the answer may be lost.
CloseAnswered(q) ==
    /\ reqs[q].pc = "close"
    /\ LET p == reqs[q].pay
       IN  /\ \/ MoveTo(p, "PAY_CLOSED")
              \/ provider[p] = "PAY_CLOSED" /\ UNCHANGED <<provider, seen>>
           /\ \/ reqs' = [reqs EXCEPT ![q] =
                            Request("update", p, "cancelled", "PAY_CLOSED")]
              \/ reqs' = [reqs EXCEPT ![q] = Free]
    /\ UNCHANGED <<expired, tables, acked, polls>>

RequestUpdates(q) ==
    /\ reqs[q].pc = "update"
    /\ UpdateStatus(reqs[q].pay, reqs[q].status, reqs[q].raw)
    /\ reqs' = [reqs EXCEPT ![q] = Free]
    /\ UNCHANGED <<external, inbound, outbox, acked, polls>>

\* A handler ends before its next effect: the provider or the store returned an
\* error, the caller went away, the process died.
RequestAborts(q) ==
    /\ reqs[q] # Free
    /\ reqs' = [reqs EXCEPT ![q] = Free]
    /\ UNCHANGED <<external, tables, acked, polls>>

(***************************************************************************)
(* Webhooks.  A notification of any status the order has had may arrive at *)
(* any later time, in any order and any number of times.                   *)
(***************************************************************************)
Notification(p, raw) == raw \in seen[p] \cap Notified
Acknowledge(p, raw, known) ==
    acked' = acked \cup {[pay |-> p, raw |-> raw, known |-> known]}

\* A pending status is dropped unless it is PAID.
Recordable(raw) == NormalizeStatus(raw) = "pending" => raw = "PAID"

\* FindPaymentByReference finds no row: the server answers SUCCESS all the same.
WebhookUnknown(p, raw) ==
    /\ Notification(p, raw)
    /\ ~Stored(p)
    /\ Acknowledge(p, raw, FALSE)
    /\ UNCHANGED <<external, tables, polls, reqs>>

WebhookIgnored(p, raw) ==
    /\ Notification(p, raw)
    /\ Stored(p)
    /\ ~Recordable(raw)
    /\ Acknowledge(p, raw, TRUE)
    /\ UNCHANGED <<external, tables, polls, reqs>>

\* The notification agrees with the row in every field it has (WebhookRoute: one
\* that does not is an error and changes nothing); its status is computed here and
\* stored in a later step.
WebhookAccepted(q, p, raw) ==
    /\ reqs[q] = Free
    /\ Notification(p, raw)
    /\ Stored(p)
    /\ Recordable(raw)
    /\ reqs' = [reqs EXCEPT ![q] = Request("record", p, ObservedStatus(p, raw), raw)]
    /\ UNCHANGED <<external, tables, acked, polls>>

\* Mutant: SUCCESS is answered although the transaction failed.
WebhookIgnoresStoreError(q) ==
    /\ reqs[q].pc = "record"
    /\ LET p == reqs[q].pay
           raw == reqs[q].raw
       IN  /\ \/ RecordProviderEvent(p, WebhookID(p, raw), reqs[q].status, raw)
              \/ UNCHANGED tables
           /\ Acknowledge(p, raw, TRUE)
    /\ reqs' = [reqs EXCEPT ![q] = Free]
    /\ UNCHANGED <<external, polls>>

\* The answer follows the commit.  A commit whose result is lost is answered
\* with an error.
WebhookRecords(q) ==
    /\ reqs[q].pc = "record"
    /\ LET p == reqs[q].pay
           raw == reqs[q].raw
       IN  /\ RecordProviderEvent(p, WebhookID(p, raw), reqs[q].status, raw)
           /\ Acknowledge(p, raw, TRUE) \/ UNCHANGED acked
    /\ reqs' = [reqs EXCEPT ![q] = Free]
    /\ UNCHANGED <<external, polls>>

(***************************************************************************)
(* The reconciler of replica r                                             *)
(***************************************************************************)
SetItem(r, p, item) == polls' = [polls EXCEPT ![r][p] = item]

\* Mutant: the claim takes the row off the schedule.
ClaimedForGood(p) == Reschedule(orders[p], "null")

\* A claimed row comes back in a minute by itself.
Claimed(p) == Reschedule(orders[p], "scheduled")

\* ClaimPaymentsForReconciliation, once the previous batch is done.  Rows locked
\* by another transaction are skipped, so any due rows may be the ones taken.
Claim(r, batch) ==
    /\ \A p \in Payments : polls[r][p] = Idle
    /\ batch # {} /\ Cardinality(batch) <= BatchLimit
    /\ \A p \in batch : orders[p].status \in Open /\ orders[p].next = "due"
    /\ orders' = [p \in Payments |->
                    IF p \in batch THEN Claimed(p) ELSE orders[p]]
    /\ polls'  = [polls EXCEPT ![r] = [p \in Payments |->
                    IF p \in batch THEN Item("claimed", "none", "none") ELSE Idle]]
    /\ UNCHANGED <<external, inbound, outbox, acked, reqs>>

\* The provider answers, and the answer agrees with the claimed row in every field
\* it has.
PollAnswered(r, p) ==
    /\ polls[r][p].pc = "claimed"
    /\ SetItem(r, p, Item("observed", ObservedStatus(p, provider[p]), provider[p]))
    /\ UNCHANGED <<external, tables, acked, reqs>>

\* The provider fails, or its answer contradicts the claimed row.
PollRefused(r, p) ==
    /\ polls[r][p].pc = "claimed"
    /\ SetItem(r, p, Item("retry", "none", "none"))
    /\ UNCHANGED <<external, tables, acked, reqs>>

\* UpdatePaymentObservation: an open status makes no event.
PollObserves(r, p) ==
    /\ polls[r][p].pc = "observed"
    /\ polls[r][p].status \in Open
    /\ UpdateStatus(p, polls[r][p].status, polls[r][p].raw)
    /\ SetItem(r, p, Idle)
    /\ UNCHANGED <<external, inbound, outbox, acked, reqs>>

PollRecords(r, p) ==
    /\ polls[r][p].pc = "observed"
    /\ polls[r][p].status \notin Open
    /\ RecordProviderEvent(p, PollID(p, polls[r][p].raw),
                           polls[r][p].status, polls[r][p].raw)
    /\ SetItem(r, p, Idle)
    /\ UNCHANGED <<external, acked, reqs>>

\* RecordProviderEvent returns an error: rolled back, or committed with the
\* result lost.
PollRecordFails(r, p) ==
    /\ polls[r][p].pc = "observed"
    /\ polls[r][p].status \notin Open
    /\ \/ RecordProviderEvent(p, PollID(p, polls[r][p].raw),
                              polls[r][p].status, polls[r][p].raw)
       \/ UNCHANGED tables
    /\ SetItem(r, p, Item("retry", "none", "none"))
    /\ UNCHANGED <<external, acked, reqs>>

PollRetries(r, p) ==
    /\ polls[r][p].pc = "retry"
    /\ RetryPaymentReconciliation(p)
    /\ SetItem(r, p, Idle)
    /\ UNCHANGED <<external, inbound, outbox, acked, reqs>>

\* A store call fails and its error is dropped, or shutdown cancels the batch:
\* the item ends and only the schedule set by the claim brings it back.
PollDropped(r, p) ==
    /\ polls[r][p] # Idle
    /\ SetItem(r, p, Idle)
    /\ UNCHANGED <<external, tables, acked, reqs>>

\* The replica dies and starts again: Open runs the migration.
Restart(r) ==
    /\ polls' = [polls EXCEPT ![r] = [p \in Payments |-> Idle]]
    /\ orders' = [p \in Payments |->
                    IF orders[p].status \in Open /\ orders[p].next = "null"
                    THEN Reschedule(orders[p], "due") ELSE orders[p]]
    /\ UNCHANGED <<external, inbound, outbox, acked, reqs>>

Environment(p) ==
    \/ ProviderCreates(p) \/ ProviderAdvances(p)
    \/ ExpiryPasses(p) \/ ReconcileFallsDue(p)

Webhook(p) ==
    \E raw \in RawStatuses :
        \/ WebhookUnknown(p, raw) \/ WebhookIgnored(p, raw)
        \/ \E q \in Requests : WebhookAccepted(q, p, raw)

Handler(q) ==
    \/ \E p \in Payments, call \in Calls : FindPayment(q, p, call)
    \/ GetAnswered(q) \/ CloseAnswered(q) \/ RequestUpdates(q)
    \/ WebhookRecords(q) \/ RequestAborts(q)

Poll(r, p) ==
    \/ PollAnswered(r, p) \/ PollRefused(r, p) \/ PollObserves(r, p)
    \/ PollRecords(r, p) \/ PollRecordFails(r, p)
    \/ PollRetries(r, p) \/ PollDropped(r, p)

Reconciler(r) ==
    \/ \E batch \in SUBSET Payments : Claim(r, batch)
    \/ \E p \in Payments : Poll(r, p)
    \/ Restart(r)

Next ==
    \/ \E p \in Payments : Environment(p) \/ CompleteCreate(p) \/ Webhook(p)
    \/ \E q \in Requests : Handler(q)
    \/ \E r \in Replicas : Reconciler(r)

Spec == Init /\ [][Next]_vars

(***************************************************************************)
(* Fairness, for liveness only.  The clock runs and the reconciler loops   *)
(* (weak).  A provider and a database that fail now and then, and replicas *)
(* that restart now and then, still let a call of some replica through     *)
(* eventually (strong).  A GET starts the minute of next_reconcile_at over *)
(* again: an order asked for for ever need never fall due, or be claimed.  *)
(* Events are recorded once, so webhooks do not put it off for ever.       *)
(* Nothing is assumed of requests, notifications, or of the provider ever  *)
(* moving an order; the answers for Mismatched payments may be refused for *)
(* ever.                                                                   *)
(***************************************************************************)
ClaimOf(r, p) == \E batch \in SUBSET Payments : p \in batch /\ Claim(r, batch)

\* The UpdateStatus of a GET or a cancel of p
Asks(p) == \E q \in Requests : reqs[q].pc = "update" /\ reqs[q].pay = p /\ RequestUpdates(q)

Fairness ==
    /\ \A p \in Payments :
          /\ \/ []<><<Asks(p)>>_vars
             \/ /\ WF_vars(ReconcileFallsDue(p))
                /\ SF_vars(\E r \in Replicas : ClaimOf(r, p))
          /\ \A r \in Replicas : WF_vars(Poll(r, p))
          /\ SF_vars(\E r \in Replicas : PollObserves(r, p) \/ PollRecords(r, p))
    /\ \A p \in Payments \ Mismatched : SF_vars(\E r \in Replicas : PollAnswered(r, p))

FairSpec == Spec /\ Fairness

-----------------------------------------------------------------------------
(***************************************************************************)
(* Safety                                                                  *)
(***************************************************************************)

\* A stored row has a next_reconcile_at exactly while its status is open: no
\* race of a retry, a claim or an observation with a final write leaves an open
\* row nobody polls again, or a final row that is polled.
ScheduleFollowsStatus ==
    \A p \in Payments :
        Stored(p) => (orders[p].next # "null" <=> orders[p].status \in Open)

\* A status and raw status that the provider really reported, however late.
Reported(p, status, raw) ==
    /\ raw \in seen[p]
    /\ \/ status = NormalizeStatus(raw)
       \/ raw = "PAY_CLOSED" /\ status = "expired" /\ expired[p]

\* Nothing is invented: the row, and every event handed to the outbox, carry a
\* status the provider gave that order; an event belongs to a stored payment.
StatusesReported ==
    /\ \A p \in Payments : Stored(p) => Reported(p, orders[p].status, orders[p].raw)
    /\ \A e \in outbox : Stored(e.pay) /\ Reported(e.pay, e.status, e.raw)

\* Every final status the connector claims of p, in the row or in an event.
VerdictsOn(p) ==
    Verdicts \cap ({orders[p].status} \cup {e.status : e \in {f \in outbox : f.pay = p}})

\* The four paths never contradict each other about the outcome of a payment:
\* the orchestrator is not told that a payment is confirmed by one and cancelled
\* or failed by another.  Only "cancelled" and "expired" name the same outcome.
VerdictsAgree ==
    \A p \in Payments : \A v, w \in VerdictsOn(p) :
        v = w \/ {v, w} = {"cancelled", "expired"}

\* Webhooks and polls deduplicate on the raw status: each of the two sources
\* emits at most one final event of a payment, even when the same closed order is
\* first seen before its expiry and then after it, or by two replicas.
OneVerdictPerSource ==
    \A e, f \in outbox :
        /\ e.pay = f.pay /\ e.source = f.source
        /\ e.status \in Verdicts /\ f.status \in Verdicts
        => e = f

Told(events) == {[pay |-> e.pay, source |-> e.source, status |-> e.status] :
                    e \in {f \in events : f.status \in Verdicts}}

Ledger == INSTANCE PaymentLedger WITH
    ended <- [p \in Payments |-> seen[p] \cap Outcomes], told <- Told(outbox)

\* Taken together, the four paths keep the ledger: the verdict of a source is
\* recorded after the provider has ended the payment so, never a second time, and
\* never taken back.
RecordsOutcomes == Ledger!Spec

\* RecordProviderEvent is all or nothing: deduplication table and outbox hold the
\* same events, also when two connections share a prepayId.
OutboxMatchesInbound ==
    /\ inbound = {<<ConnectionOf[e.pay], e.id>> : e \in outbox}
    /\ \A e, f \in outbox : e.id = f.id => e = f

\* A notification of a stored payment that was answered SUCCESS, and is not one
\* the connector drops on purpose, is in the outbox: the provider will not send
\* it again.
AcknowledgedIsDurable ==
    \A n \in acked : n.known /\ Recordable(n.raw) =>
        \E e \in outbox : e.id = WebhookID(n.pay, n.raw) /\ e.pay = n.pay

\* README.md: "Provider notifications are persisted to an outbox and sent as
\* normalized events to the V2 orchestrator."  Taken for final statuses only.
NotificationsPersisted ==
    \A n \in acked : n.raw \in Outcomes =>
        \E e \in outbox : e.id = WebhookID(n.pay, n.raw) /\ e.pay = n.pay

(***************************************************************************)
(* Liveness                                                                *)
(***************************************************************************)
Settled(p) == orders[p].status \in Verdicts

\* An open row that clients do not ask for over and over is polled again and again
\* until it is settled: a lost answer, a failed store call, a dropped batch, a
\* restart or another replica's late write never orphans it.
OpenIsPolled ==
    \A p \in Payments :
        <>[][~Asks(p)]_vars =>
            (orders[p].status \in Open ~>
                (\E r \in Replicas : polls[r][p] # Idle) \/ Settled(p))

\* Once the provider has ended a stored, matching order, the connector comes to
\* know without any notification, however often clients ask: the row gets a final
\* status, or the outbox already holds one (a late write may then have reopened
\* the row).
OutcomeIsLearnt ==
    \A p \in Payments \ Mismatched :
        Stored(p) /\ provider[p] \in Outcomes
            ~> Settled(p) \/ \E e \in outbox : e.pay = p /\ e.status \in Verdicts

\* A handler or a reconciler is about to give the row the open status it read of p
\* before.
Reopening(p) ==
    \/ \E q \in Requests : /\ reqs[q].pc \in {"update", "record"}
                           /\ reqs[q].pay = p
                           /\ reqs[q].status \in Open
    \/ \E r \in Replicas : /\ polls[r][p].pc = "observed"
                           /\ polls[r][p].status \in Open

VerdictPolled(p) ==
    \E e \in outbox : e.pay = p /\ e.source = "poll" /\ e.status \in Verdicts

\* ... and does not forget: from some point on the row stays settled, if nobody, on
\* any replica, still holds an open status to write when a poll has recorded the
\* verdict.  Who does may write it last: the poll's event, which would repair the
\* row, is known by then.
OutcomeIsKept ==
    \A p \in Payments \ Mismatched :
        [](VerdictPolled(p) => ~Reopening(p)) =>
            [](Stored(p) /\ provider[p] \in Outcomes => <>[]Settled(p))
=============================================================================

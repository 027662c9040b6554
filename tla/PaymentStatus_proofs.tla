------------------------ MODULE PaymentStatus_proofs ------------------------
(***************************************************************************)
(* Proofs of the safety properties of PaymentStatus, and at the end of     *)
(* Connector, for any number of payments, connections, replicas, requests  *)
(* and events.                                                             *)
(*                                                                         *)
(* The argument: what one step may do to a row, an item, a handler or the  *)
(* outbox is said once (RowStep ... OutboxStep).  Every status kept        *)
(* anywhere was given by the provider (Provenance), which ends a payment   *)
(* once, and the outbox holds one event per id; the verdicts follow.       *)
(***************************************************************************)
EXTENDS Connector, TLAPS

-----------------------------------------------------------------------------
(* Statuses *)

\* NormalizeStatus (service.go) is total, and final exactly on the outcomes.
LEMMA NormalizeFinal ==
    ASSUME NEW raw \in RawStatuses
    PROVE  /\ NormalizeStatus(raw) \in Statuses
           /\ NormalizeStatus(raw) \in Verdicts <=> raw \in Outcomes
           /\ NormalizeStatus(raw) # "expired"
  BY DEF NormalizeStatus, RawStatuses, Outcomes, Statuses, Open, Verdicts

\* What a poll or a webhook makes of a raw status is a status of the row.
LEMMA ObservedType ==
    ASSUME NEW p \in Payments, NEW raw \in RawStatuses
    PROVE  ObservedStatus(p, raw) \in Statuses
  BY NormalizeFinal DEF ObservedStatus, Statuses, Verdicts

-----------------------------------------------------------------------------
(* Type correctness.  It needs a second invariant: no row, item or handler  *)
(* is there before the provider has created the order, so a status that is  *)
(* asked for exists.                                                        *)

KnownOK ==
    /\ \A p \in Payments : Stored(p) => provider[p] # "none"
    /\ \A r \in Replicas, p \in Payments : polls[r][p] # Idle => Stored(p)
    /\ \A q \in Requests : reqs[q] # Free => Stored(reqs[q].pay)

\* The row written with a status fits the table.
LEMMA RowType ==
    ASSUME NEW status \in Statuses, NEW raw \in RawStatuses
    PROVE  Row(status, raw) \in Rows
  BY DEF Row, Schedule, Rows

\* A row that is rescheduled keeps its status.
LEMMA RescheduleType ==
    ASSUME NEW row \in Rows, NEW next \in {"null", "scheduled", "due"}
    PROVE  /\ Reschedule(row, next) \in Rows
           /\ Reschedule(row, next).status = row.status
           /\ Reschedule(row, next).raw = row.raw
           /\ Reschedule(row, next).next = next
  BY DEF Reschedule, Rows

\* RecordProviderEvent keeps the tables well-formed.
LEMMA RecordType ==
    ASSUME TypeOK, NEW p \in Payments, NEW status \in Statuses, NEW raw \in RawStatuses,
           NEW id, id[1] \in {"webhook", "poll"},
           RecordProviderEvent(p, id, status, raw)
    PROVE  /\ orders' \in [Payments -> Rows]
           /\ \A e \in outbox' : /\ e.source \in {"webhook", "poll"}
                                 /\ e.pay \in Payments
                                 /\ e.status \in Statuses
                                 /\ e.raw \in RawStatuses
<1>1. CASE UNCHANGED tables
  BY <1>1 DEF TypeOK, tables
<1>2. CASE /\ outbox' = outbox \cup {Event(id, p, status, raw)}
           /\ orders' = [orders EXCEPT ![p] = Row(status, raw)]
  <2>1. orders' \in [Payments -> Rows]
    BY <1>2, RowType DEF TypeOK
  <2>2. ASSUME NEW e \in outbox'
        PROVE  /\ e.source \in {"webhook", "poll"} /\ e.pay \in Payments
               /\ e.status \in Statuses /\ e.raw \in RawStatuses
    BY <1>2, <2>2 DEF TypeOK, Event
  <2> QED  BY <2>1, <2>2
<1> QED  BY <1>1, <1>2 DEF RecordProviderEvent

\* A reconciler item is replaced by another one.
LEMMA SetItemType ==
    ASSUME TypeOK, NEW r \in Replicas, NEW p \in Payments, NEW item \in Items,
           SetItem(r, p, item)
    PROVE  polls' \in [Replicas -> [Payments -> Items]]
  BY DEF TypeOK, SetItem

\* A handler starts, moves on or ends.
LEMMA HandlerType ==
    ASSUME TypeOK, NEW q \in Requests, NEW h \in Handlers,
           reqs' = [reqs EXCEPT ![q] = h]
    PROVE  reqs' \in [Requests -> Handlers]
  BY DEF TypeOK

\* The provider only takes an order to a status it can have.
LEMMA MoveType ==
    ASSUME TypeOK, NEW p \in Payments, NEW raw \in RawStatuses, MoveTo(p, raw)
    PROVE  /\ provider' \in [Payments -> RawStatuses \cup {"none"}]
           /\ seen' \in [Payments -> SUBSET RawStatuses]
  BY DEF TypeOK, MoveTo

\* Environment steps keep the types.
LEMMA EnvironmentType ==
    ASSUME TypeOK, NEW p \in Payments, Environment(p) \/ CompleteCreate(p)
    PROVE  TypeOK'
<1>1. CASE ProviderCreates(p)
  BY <1>1 DEF ProviderCreates, TypeOK, tables, RawStatuses
<1>2. CASE ProviderAdvances(p)
  <2>1. PICK raw \in RawStatuses : MoveTo(p, raw)
    BY <1>2 DEF ProviderAdvances
  <2> QED  BY <1>2, <2>1, MoveType DEF ProviderAdvances, TypeOK, tables
<1>3. CASE ExpiryPasses(p)
  BY <1>3 DEF ExpiryPasses, TypeOK, tables
<1>4. CASE ReconcileFallsDue(p)
  BY <1>4, RescheduleType DEF ReconcileFallsDue, TypeOK, external
<1>5. CASE CompleteCreate(p)
  <2>1. "created" \in Statuses /\ "INITIAL" \in RawStatuses
    BY DEF Statuses, Open, RawStatuses
  <2> QED  BY <1>5, <2>1, RowType DEF CompleteCreate, TypeOK, external
<1> QED  BY <1>1, <1>2, <1>3, <1>4, <1>5 DEF Environment

\* An answer given to the provider is a well-formed history entry.
LEMMA AcknowledgeType ==
    ASSUME TypeOK, NEW p \in Payments, NEW raw \in RawStatuses, NEW known \in BOOLEAN,
           Acknowledge(p, raw, known)
    PROVE  acked' \subseteq [pay : Payments, raw : RawStatuses, known : BOOLEAN]
<1> DEFINE n == [pay |-> p, raw |-> raw, known |-> known]
<1>1. n \in [pay : Payments, raw : RawStatuses, known : BOOLEAN]
  BY Zenon
<1> HIDE DEF n
<1>2. acked' = acked \cup {n}
  BY Zenon DEF Acknowledge, n
<1> QED  BY <1>1, <1>2 DEF TypeOK

\* Webhook notifications that end at once, or start a handler, keep the types.
LEMMA WebhookType ==
    ASSUME TypeOK, NEW p \in Payments, NEW raw \in RawStatuses,
           \/ WebhookUnknown(p, raw)
           \/ WebhookIgnored(p, raw)
           \/ \E q \in Requests : WebhookAccepted(q, p, raw)
    PROVE  TypeOK'
<1>1. CASE WebhookUnknown(p, raw)
  BY <1>1, AcknowledgeType DEF WebhookUnknown, TypeOK, external, tables
<1>2. CASE WebhookIgnored(p, raw)
  BY <1>2, AcknowledgeType DEF WebhookIgnored, TypeOK, external, tables
<1>3. ASSUME NEW q \in Requests, WebhookAccepted(q, p, raw)
      PROVE  TypeOK'
  <2>1. Request("record", p, ObservedStatus(p, raw), raw) \in Handlers
    BY ObservedType DEF Request, Handlers
  <2> QED  BY <1>3, <2>1, HandlerType DEF WebhookAccepted, TypeOK, external, tables
<1> QED  BY <1>1, <1>2, <1>3

\* The fields of a handler that has a status in hand.
LEMMA HandlerFields ==
    ASSUME TypeOK, NEW q \in Requests
    PROVE  /\ reqs[q].pc \in {"query", "close", "update", "record"} => reqs[q].pay \in Payments
           /\ reqs[q].pc \in {"update", "record"} =>
                 reqs[q].status \in Statuses /\ reqs[q].raw \in RawStatuses
           /\ reqs[q] # Free => reqs[q].pc \in {"query", "close", "update", "record"}
  BY DEF TypeOK, Handlers, Free

\* The fields of a polled item that has a status in hand.
LEMMA ItemFields ==
    ASSUME TypeOK, NEW r \in Replicas, NEW p \in Payments
    PROVE  /\ polls[r][p] \in Items
           /\ polls[r][p].pc = "observed" =>
                 polls[r][p].status \in Statuses /\ polls[r][p].raw \in RawStatuses
  BY DEF TypeOK, Items, Idle

\* The steps of a handler keep the types.
LEMMA HandlerStepType ==
    ASSUME TypeOK, KnownOK, NEW q \in Requests, Handler(q)
    PROVE  TypeOK'
<1> Free \in Handlers
  BY DEF Handlers
<1>1. ASSUME NEW p \in Payments, NEW call \in Calls, FindPayment(q, p, call)
      PROVE  TypeOK'
  <2>1. Request(call, p, "none", "none") \in Handlers
    BY ProviderAssumption DEF Request, Handlers
  <2> QED  BY <1>1, <2>1, HandlerType DEF FindPayment, TypeOK, external, tables
<1>2. CASE GetAnswered(q)
  <2>1. reqs[q].pay \in Payments
    BY <1>2, HandlerFields DEF GetAnswered
  <2> DEFINE raw == provider[reqs[q].pay]
  <2>2. raw \in RawStatuses
    BY <1>2, <2>1 DEF GetAnswered, KnownOK, TypeOK, Free
  <2>3. Request("update", reqs[q].pay, NormalizeStatus(raw), raw) \in Handlers
    BY <2>1, <2>2, NormalizeFinal DEF Request, Handlers
  <2> QED  BY <1>2, <2>3, HandlerType DEF GetAnswered, TypeOK, external, tables
<1>3. CASE CloseAnswered(q)
  <2>1. reqs[q].pay \in Payments /\ "PAY_CLOSED" \in RawStatuses
    BY <1>3, HandlerFields DEF CloseAnswered, RawStatuses, Outcomes
  <2>2. /\ provider' \in [Payments -> RawStatuses \cup {"none"}]
        /\ seen' \in [Payments -> SUBSET RawStatuses]
    BY <1>3, <2>1, MoveType DEF CloseAnswered, TypeOK
  <2>3. Request("update", reqs[q].pay, "cancelled", "PAY_CLOSED") \in Handlers
    BY <2>1 DEF Request, Handlers, Statuses, Verdicts
  <2>4. reqs' \in [Requests -> Handlers]
    BY <1>3, <2>3, HandlerType DEF CloseAnswered
  <2> QED  BY <1>3, <2>2, <2>4 DEF CloseAnswered, TypeOK, tables
<1>4. CASE RequestUpdates(q)
  <2>1. orders' \in [Payments -> Rows]
    BY <1>4, HandlerFields, RowType DEF RequestUpdates, UpdateStatus, TypeOK
  <2> QED  BY <1>4, <2>1, HandlerType DEF RequestUpdates, TypeOK, external
<1>5. CASE WebhookRecords(q)
  <2>1. /\ reqs[q].pay \in Payments
        /\ reqs[q].status \in Statuses
        /\ reqs[q].raw \in RawStatuses
    BY <1>5, HandlerFields DEF WebhookRecords
  <2>2. WebhookID(reqs[q].pay, reqs[q].raw)[1] \in {"webhook", "poll"}
    BY DEF WebhookID
  <2>3. acked' \subseteq [pay : Payments, raw : RawStatuses, known : BOOLEAN]
    BY <1>5, <2>1, AcknowledgeType DEF WebhookRecords, TypeOK
  <2>4. RecordProviderEvent(reqs[q].pay, WebhookID(reqs[q].pay, reqs[q].raw),
                            reqs[q].status, reqs[q].raw)
    BY <1>5 DEF WebhookRecords
  <2>5. /\ orders' \in [Payments -> Rows]
        /\ \A e \in outbox' : /\ e.source \in {"webhook", "poll"}
                              /\ e.pay \in Payments
                              /\ e.status \in Statuses
                              /\ e.raw \in RawStatuses
    BY <2>1, <2>2, <2>4, RecordType
  <2> QED  BY <1>5, <2>3, <2>5, HandlerType DEF WebhookRecords, TypeOK, external
<1>6. CASE RequestAborts(q)
  BY <1>6, HandlerType DEF RequestAborts, TypeOK, external, tables
<1> QED  BY <1>1, <1>2, <1>3, <1>4, <1>5, <1>6 DEF Handler

\* The steps of the reconciler keep the types.
LEMMA ReconcilerType ==
    ASSUME TypeOK, KnownOK, NEW r \in Replicas, Reconciler(r)
    PROVE  TypeOK'
<1> /\ Idle \in Items
    /\ Item("claimed", "none", "none") \in Items
    /\ Item("retry", "none", "none") \in Items
  BY DEF Items, Item
<1>1. ASSUME NEW batch \in SUBSET Payments, Claim(r, batch)
      PROVE  TypeOK'
  <2>1. orders' \in [Payments -> Rows]
    BY <1>1, RescheduleType DEF Claim, Claimed, TypeOK
  <2>2. polls' \in [Replicas -> [Payments -> Items]]
    BY <1>1 DEF Claim, TypeOK
  <2> QED  BY <1>1, <2>1, <2>2 DEF Claim, TypeOK, external
<1>2. ASSUME NEW p \in Payments, Poll(r, p)
      PROVE  TypeOK'
  <2>1. CASE PollAnswered(r, p)
    <3>1. provider[p] \in RawStatuses
      BY <2>1 DEF PollAnswered, KnownOK, TypeOK, Idle
    <3>2. Item("observed", ObservedStatus(p, provider[p]), provider[p]) \in Items
      BY <3>1, ObservedType DEF Item, Items
    <3> QED  BY <2>1, <3>2, SetItemType DEF PollAnswered, TypeOK, external, tables
  <2>2. CASE PollRefused(r, p)
    BY <2>2, SetItemType DEF PollRefused, TypeOK, external, tables
  <2>3. CASE PollObserves(r, p)
    <3>1. orders' \in [Payments -> Rows]
      BY <2>3, ItemFields, RowType DEF PollObserves, UpdateStatus, TypeOK
    <3> QED  BY <2>3, <3>1, SetItemType DEF PollObserves, TypeOK, external
  <2>4. CASE PollRecords(r, p) \/ PollRecordFails(r, p)
    <3>1. /\ polls[r][p].status \in Statuses
          /\ polls[r][p].raw \in RawStatuses
      BY <2>4, ItemFields DEF PollRecords, PollRecordFails
    <3>2. PollID(p, polls[r][p].raw)[1] \in {"webhook", "poll"}
      BY DEF PollID
    <3>3. /\ orders' \in [Payments -> Rows]
          /\ \A e \in outbox' : /\ e.source \in {"webhook", "poll"}
                                /\ e.pay \in Payments
                                /\ e.status \in Statuses
                                /\ e.raw \in RawStatuses
      <4>1. CASE UNCHANGED tables
        BY <4>1 DEF tables, TypeOK
      <4>2. CASE RecordProviderEvent(p, PollID(p, polls[r][p].raw),
                                     polls[r][p].status, polls[r][p].raw)
        BY <4>2, <3>1, <3>2, RecordType
      <4> QED  BY <2>4, <4>1, <4>2 DEF PollRecords, PollRecordFails
    <3>4. polls' \in [Replicas -> [Payments -> Items]]
      BY <2>4, SetItemType DEF PollRecords, PollRecordFails
    <3> QED  BY <2>4, <3>3, <3>4 DEF PollRecords, PollRecordFails, TypeOK, external
  <2>5. CASE PollRetries(r, p)
    <3>1. orders' \in [Payments -> Rows]
      BY <2>5, RescheduleType DEF PollRetries, RetryPaymentReconciliation, TypeOK
    <3> QED  BY <2>5, <3>1, SetItemType DEF PollRetries, TypeOK, external
  <2>6. CASE PollDropped(r, p)
    BY <2>6, SetItemType DEF PollDropped, TypeOK, external, tables
  <2> QED  BY <1>2, <2>1, <2>2, <2>3, <2>4, <2>5, <2>6 DEF Poll
<1>3. CASE Restart(r)
  <2>1. orders' \in [Payments -> Rows]
    BY <1>3, RescheduleType DEF Restart, TypeOK
  <2> QED  BY <1>3, <2>1 DEF Restart, TypeOK, external
<1> QED  BY <1>1, <1>2, <1>3 DEF Reconciler

\* Every step keeps the types.
LEMMA TypeStep ==
    ASSUME TypeOK, KnownOK, [Next]_vars
    PROVE  TypeOK'
<1>1. CASE UNCHANGED vars
  BY <1>1 DEF vars, TypeOK
<1>2. ASSUME NEW p \in Payments, Environment(p) \/ CompleteCreate(p) \/ Webhook(p)
      PROVE  TypeOK'
  BY <1>2, EnvironmentType, WebhookType DEF Webhook
<1>3. ASSUME NEW q \in Requests, Handler(q)
      PROVE  TypeOK'
  BY <1>3, HandlerStepType
<1>4. ASSUME NEW r \in Replicas, Reconciler(r)
      PROVE  TypeOK'
  BY <1>4, ReconcilerType
<1> QED  BY <1>1, <1>2, <1>3, <1>4 DEF Next

-----------------------------------------------------------------------------
(* What one step may do to a row, to the outbox, to an item, to a handler.  *)
(* The invariants below follow from these lemmas, without looking at the    *)
(* actions again.                                                           *)

LeavesOrders(p) ==
    \/ ProviderCreates(p) \/ ProviderAdvances(p) \/ ExpiryPasses(p) \/ Webhook(p)

\* A handler or an item holds this status for payment p, ready to be written.
InHand(p, status, raw) ==
    \/ \E q \in Requests : /\ reqs[q].pc \in {"update", "record"}
                           /\ reqs[q].pay = p
                           /\ reqs[q].status = status /\ reqs[q].raw = raw
    \/ \E r \in Replicas : /\ polls[r][p].pc = "observed"
                           /\ polls[r][p].status = status /\ polls[r][p].raw = raw

\* A row is left alone, rescheduled, created, or overwritten with a status in hand.
RowKept(p)    == orders'[p] = orders[p]
RowMoved(p)   ==
    \E next \in {"scheduled", "due"} :
        /\ orders[p].next # "null" \/ orders[p].status \in Open
        /\ orders'[p] = Reschedule(orders[p], next)
RowCreated(p) ==
    provider[p] # "none" /\ ~Stored(p) /\ orders'[p] = Row("created", "INITIAL")
RowSet(p) ==
    \E status \in Statuses, raw \in RawStatuses :
        InHand(p, status, raw) /\ orders'[p] = Row(status, raw)

RowChange(p) == RowKept(p) \/ RowMoved(p) \/ RowCreated(p) \/ RowSet(p)

\* A transaction writes the row it is about, and no other.
LEMMA RecordRow ==
    ASSUME TypeOK, NEW p \in Payments, NEW x \in Payments,
           NEW status \in Statuses, NEW raw \in RawStatuses, NEW id,
           InHand(p, status, raw),
           UNCHANGED tables \/ RecordProviderEvent(p, id, status, raw)
    PROVE  RowKept(x) \/ RowSet(x)
<1>1. CASE UNCHANGED tables
  BY <1>1 DEF tables, RowKept
<1>2. CASE orders' = [orders EXCEPT ![p] = Row(status, raw)]
  <2>1. CASE x = p
    BY <1>2, <2>1 DEF TypeOK, RowSet
  <2>2. CASE x # p
    BY <1>2, <2>2 DEF TypeOK, RowKept
  <2> QED  BY <2>1, <2>2
<1> QED  BY <1>1, <1>2 DEF RecordProviderEvent

\* Every change of a row is one of the four.
LEMMA RowStep ==
    ASSUME TypeOK, [Next]_vars, NEW x \in Payments
    PROVE  RowChange(x)
<1> USE DEF RowChange
<1>1. CASE UNCHANGED vars
  BY <1>1 DEF vars, RowKept
<1>2. ASSUME NEW p \in Payments, Environment(p) \/ CompleteCreate(p) \/ Webhook(p)
      PROVE  RowChange(x)
  <2>1. CASE LeavesOrders(p)
    BY <2>1 DEF LeavesOrders, ProviderCreates, ProviderAdvances, ExpiryPasses, Webhook,
                WebhookUnknown, WebhookIgnored, WebhookAccepted, tables, RowKept
  <2>2. CASE ReconcileFallsDue(p)
    BY <2>2 DEF ReconcileFallsDue, TypeOK, RowKept, RowMoved
  <2>3. CASE CompleteCreate(p)
    BY <2>3 DEF CompleteCreate, TypeOK, RowKept, RowCreated
  <2> QED  BY <1>2, <2>1, <2>2, <2>3 DEF Environment, LeavesOrders
<1>3. ASSUME NEW q \in Requests, Handler(q)
      PROVE  RowChange(x)
  <2>1. CASE UNCHANGED orders
    BY <2>1 DEF RowKept
  <2>2. CASE RequestUpdates(q)
    <3>1. /\ reqs[q].pay \in Payments
          /\ reqs[q].status \in Statuses
          /\ reqs[q].raw \in RawStatuses
          /\ InHand(reqs[q].pay, reqs[q].status, reqs[q].raw)
      BY <2>2, HandlerFields DEF RequestUpdates, InHand
    <3>2. CASE x = reqs[q].pay
      BY <2>2, <3>1, <3>2 DEF RequestUpdates, UpdateStatus, TypeOK, RowSet
    <3>3. CASE x # reqs[q].pay
      BY <2>2, <3>1, <3>3 DEF RequestUpdates, UpdateStatus, TypeOK, RowKept
    <3> QED  BY <3>2, <3>3
  <2>3. CASE WebhookRecords(q)
    <3>1. /\ reqs[q].pay \in Payments
          /\ reqs[q].status \in Statuses
          /\ reqs[q].raw \in RawStatuses
          /\ InHand(reqs[q].pay, reqs[q].status, reqs[q].raw)
      BY <2>3, HandlerFields DEF WebhookRecords, InHand
    <3>2. RecordProviderEvent(reqs[q].pay, WebhookID(reqs[q].pay, reqs[q].raw),
                              reqs[q].status, reqs[q].raw)
      BY <2>3 DEF WebhookRecords
    <3> QED  BY <3>1, <3>2, RecordRow
  <2>4. Handler(q) => UNCHANGED orders \/ RequestUpdates(q) \/ WebhookRecords(q)
    BY DEF Handler, FindPayment, GetAnswered, CloseAnswered, RequestAborts, tables
  <2> QED  BY <1>3, <2>1, <2>2, <2>3, <2>4
<1>4. ASSUME NEW r \in Replicas, NEW batch \in SUBSET Payments, Claim(r, batch)
      PROVE  RowChange(x)
  BY <1>4 DEF Claim, Claimed, RowKept, RowMoved
<1>5. ASSUME NEW r \in Replicas, NEW p \in Payments, Poll(r, p)
      PROVE  RowChange(x)
  <2>1. CASE UNCHANGED orders
    BY <2>1 DEF RowKept
  <2>2. CASE PollObserves(r, p)
    <3>1. /\ polls[r][p].status \in Statuses
          /\ polls[r][p].raw \in RawStatuses
          /\ InHand(p, polls[r][p].status, polls[r][p].raw)
      BY <2>2, ItemFields DEF PollObserves, InHand
    <3>2. CASE x = p
      BY <2>2, <3>1, <3>2 DEF PollObserves, UpdateStatus, TypeOK, RowSet
    <3>3. CASE x # p
      BY <2>2, <3>3 DEF PollObserves, UpdateStatus, TypeOK, RowKept
    <3> QED  BY <3>2, <3>3
  <2>3. CASE PollRecords(r, p) \/ PollRecordFails(r, p)
    <3>1. /\ polls[r][p].status \in Statuses
          /\ polls[r][p].raw \in RawStatuses
          /\ InHand(p, polls[r][p].status, polls[r][p].raw)
      BY <2>3, ItemFields DEF PollRecords, PollRecordFails, InHand
    <3>2. \/ UNCHANGED tables
          \/ RecordProviderEvent(p, PollID(p, polls[r][p].raw),
                                 polls[r][p].status, polls[r][p].raw)
      BY <2>3 DEF PollRecords, PollRecordFails
    <3> QED  BY <3>1, <3>2, RecordRow
  <2>4. CASE PollRetries(r, p)
    BY <2>4 DEF PollRetries, RetryPaymentReconciliation, TypeOK, RowKept, RowMoved
  <2>5. Poll(r, p) => \/ UNCHANGED orders
                      \/ PollObserves(r, p) \/ PollRecords(r, p)
                      \/ PollRecordFails(r, p) \/ PollRetries(r, p)
    BY DEF Poll, PollAnswered, PollRefused, PollDropped, tables
  <2> QED  BY <1>5, <2>1, <2>2, <2>3, <2>4, <2>5
<1>6. ASSUME NEW r \in Replicas, Restart(r)
      PROVE  RowChange(x)
  BY <1>6 DEF Restart, RowKept, RowMoved
<1> QED  BY <1>1, <1>2, <1>3, <1>4, <1>5, <1>6 DEF Next, Reconciler

\* An item is claimed from a stored open row, answered by the provider, or ends.
ItemChange(r, p) ==
    \/ polls'[r][p] = polls[r][p]
    \/ polls'[r][p] = Idle
    \/ polls'[r][p] = Item("claimed", "none", "none") /\ orders[p].status \in Open
    \/ polls'[r][p] = Item("retry", "none", "none") /\ polls[r][p] # Idle
    \/ /\ polls[r][p] # Idle
       /\ polls'[r][p] = Item("observed", ObservedStatus(p, provider[p]), provider[p])

\* Every change of an item is one of these.
LEMMA ItemStep ==
    ASSUME TypeOK, [Next]_vars, NEW s \in Replicas, NEW x \in Payments
    PROVE  ItemChange(s, x)
<1> USE DEF ItemChange
<1>1. CASE UNCHANGED polls
  BY <1>1
<1>2. ASSUME NEW r \in Replicas, NEW batch \in SUBSET Payments, Claim(r, batch)
      PROVE  ItemChange(s, x)
  BY <1>2 DEF Claim, TypeOK
<1>3. ASSUME NEW r \in Replicas, NEW p \in Payments, Poll(r, p)
      PROVE  ItemChange(s, x)
  <2>1. CASE ~(r = s /\ p = x)
    <3>1. \E item : SetItem(r, p, item)
      BY <1>3 DEF Poll, PollAnswered, PollRefused, PollObserves, PollRecords,
                  PollRecordFails, PollRetries, PollDropped
    <3> QED  BY <2>1, <3>1 DEF SetItem, TypeOK
  <2>2. CASE r = s /\ p = x
    <3>1. PollAnswered(s, x) =>
            /\ polls[s][x] # Idle
            /\ polls'[s][x] = Item("observed", ObservedStatus(x, provider[x]), provider[x])
      BY DEF PollAnswered, SetItem, TypeOK, Idle
    <3>2. PollRefused(s, x) \/ PollRecordFails(s, x) =>
            polls'[s][x] = Item("retry", "none", "none") /\ polls[s][x] # Idle
      BY DEF PollRefused, PollRecordFails, SetItem, TypeOK, Idle
    <3>3. PollObserves(s, x) \/ PollRecords(s, x) \/ PollRetries(s, x) \/ PollDropped(s, x) =>
            polls'[s][x] = Idle
      BY DEF PollObserves, PollRecords, PollRetries, PollDropped, SetItem, TypeOK
    <3> QED  BY <1>3, <2>2, <3>1, <3>2, <3>3 DEF Poll
  <2> QED  BY <2>1, <2>2
<1>4. ASSUME NEW r \in Replicas, Restart(r)
      PROVE  ItemChange(s, x)
  BY <1>4 DEF Restart, TypeOK
<1>5. ASSUME NEW p \in Payments, Environment(p) \/ CompleteCreate(p) \/ Webhook(p)
      PROVE  UNCHANGED polls
  BY <1>5 DEF Environment, ProviderCreates, ProviderAdvances, ExpiryPasses, ReconcileFallsDue,
              CompleteCreate, Webhook, WebhookUnknown, WebhookIgnored, WebhookAccepted
<1>6. ASSUME NEW q \in Requests, Handler(q)
      PROVE  UNCHANGED polls
  BY <1>6 DEF Handler, FindPayment, GetAnswered, CloseAnswered, RequestUpdates,
              WebhookRecords, RequestAborts
<1> QED  BY <1>1, <1>2, <1>3, <1>4, <1>5, <1>6 DEF Next, Reconciler, vars

\* A handler starts on a stored payment, takes a status from the provider or from
\* a notification that agrees with the row, or ends.
HandlerChange(q) ==
    \/ reqs'[q] = reqs[q]
    \/ reqs'[q] = Free
    \/ \E p \in Payments, call \in Calls :
          Stored(p) /\ reqs'[q] = Request(call, p, "none", "none")
    \/ \E p \in Payments, raw \in RawStatuses :
          /\ Stored(p) /\ raw \in seen[p] \cap Notified
          /\ reqs'[q] = Request("record", p, ObservedStatus(p, raw), raw)
    \/ \E p \in Payments :
          /\ reqs[q] # Free /\ reqs[q].pay = p
          /\ reqs'[q] = Request("update", p, NormalizeStatus(provider[p]), provider[p])
    \/ \E p \in Payments :
          /\ reqs[q] # Free /\ reqs[q].pay = p
          /\ provider'[p] = "PAY_CLOSED" /\ "PAY_CLOSED" \in seen'[p] \cup {provider[p]}
          /\ reqs'[q] = Request("update", p, "cancelled", "PAY_CLOSED")

\* Every change of a handler is one of these.
LEMMA HandlerStep ==
    ASSUME TypeOK, [Next]_vars, NEW h \in Requests
    PROVE  HandlerChange(h)
<1>1. CASE UNCHANGED reqs
  BY <1>1 DEF HandlerChange
<1>2. ASSUME NEW p \in Payments, NEW raw \in RawStatuses, NEW q \in Requests,
             WebhookAccepted(q, p, raw)
      PROVE  HandlerChange(h)
  BY <1>2 DEF WebhookAccepted, Notification, HandlerChange, TypeOK
<1>3. ASSUME NEW q \in Requests, Handler(q), q # h
      PROVE  HandlerChange(h)
  BY <1>3 DEF HandlerChange, TypeOK, Handler, FindPayment, GetAnswered, CloseAnswered,
              RequestUpdates, WebhookRecords, RequestAborts
<1>4. CASE Handler(h)
  <2>1. ASSUME NEW p \in Payments, NEW call \in Calls, FindPayment(h, p, call)
        PROVE  HandlerChange(h)
    BY <2>1 DEF FindPayment, HandlerChange, TypeOK
  <2>2. CASE GetAnswered(h)
    BY <2>2, HandlerFields DEF GetAnswered, HandlerChange, TypeOK, Free
  <2>3. CASE CloseAnswered(h)
    <3>1. reqs[h].pay \in Payments /\ reqs[h] # Free
      BY <2>3, HandlerFields DEF CloseAnswered, Free
    <3>2. /\ provider'[reqs[h].pay] = "PAY_CLOSED"
          /\ "PAY_CLOSED" \in seen'[reqs[h].pay] \cup {provider[reqs[h].pay]}
      BY <2>3, <3>1 DEF CloseAnswered, MoveTo, TypeOK
    <3> QED  BY <2>3, <3>1, <3>2 DEF CloseAnswered, HandlerChange, TypeOK
  <2>4. CASE RequestUpdates(h) \/ WebhookRecords(h) \/ RequestAborts(h)
    BY <2>4 DEF RequestUpdates, WebhookRecords, RequestAborts, HandlerChange, TypeOK
  <2> QED  BY <1>4, <2>1, <2>2, <2>3, <2>4 DEF Handler
<1>5. ASSUME NEW p \in Payments, Environment(p) \/ CompleteCreate(p) \/ Webhook(p)
      PROVE  \/ UNCHANGED reqs
             \/ \E raw \in RawStatuses, q \in Requests : WebhookAccepted(q, p, raw)
  BY <1>5 DEF Environment, ProviderCreates, ProviderAdvances, ExpiryPasses, ReconcileFallsDue,
              CompleteCreate, Webhook, WebhookUnknown, WebhookIgnored
<1>6. ASSUME NEW r \in Replicas, Reconciler(r)
      PROVE  UNCHANGED reqs
  BY <1>6 DEF Reconciler, Claim, Poll, PollAnswered, PollRefused, PollObserves, PollRecords,
              PollRecordFails, PollRetries, PollDropped, Restart
<1> QED  BY <1>1, <1>2, <1>3, <1>4, <1>5, <1>6 DEF Next, vars

\* The provider's order keeps existing, and its past with it.
ProviderChange(p) ==
    \/ provider'[p] = provider[p] /\ seen'[p] = seen[p]
    \/ provider[p] = "none" /\ provider'[p] = "INITIAL" /\ seen'[p] = {"INITIAL"}
    \/ \E raw \in RawStatuses :
          /\ provider[p] # "none" /\ <<provider[p], raw>> \in ProviderMoves
          /\ provider'[p] = raw /\ seen'[p] = seen[p] \cup {raw}
          /\ raw \in Outcomes => seen[p] \cap Outcomes = {}

\* Every change at the provider is one of these.
LEMMA ProviderStep ==
    ASSUME TypeOK, [Next]_vars, NEW x \in Payments
    PROVE  ProviderChange(x) /\ (expired[x] => expired'[x])
<1>0. ASSUME NEW p \in Payments, NEW raw \in RawStatuses, MoveTo(p, raw), UNCHANGED expired
      PROVE  ProviderChange(x) /\ (expired[x] => expired'[x])
  <2>1. provider[p] # "none"
    BY <1>0, ProviderAssumption DEF MoveTo, RawStatuses, Outcomes
  <2>2. CASE x = p
    BY <1>0, <2>1, <2>2 DEF MoveTo, ProviderChange, TypeOK
  <2>3. CASE x # p
    BY <1>0, <2>3 DEF MoveTo, ProviderChange, TypeOK
  <2> QED  BY <2>2, <2>3, <1>0
<1>1. CASE UNCHANGED external
  BY <1>1 DEF external, ProviderChange
<1>2. ASSUME NEW p \in Payments, Environment(p) \/ CompleteCreate(p) \/ Webhook(p)
      PROVE  ProviderChange(x) /\ (expired[x] => expired'[x])
  <2>1. CASE ProviderCreates(p)
    BY <2>1 DEF ProviderCreates, ProviderChange, TypeOK
  <2>2. CASE ProviderAdvances(p)
    BY <2>2, <1>0 DEF ProviderAdvances
  <2>3. CASE ExpiryPasses(p)
    BY <2>3 DEF ExpiryPasses, ProviderChange, TypeOK
  <2>4. CASE ReconcileFallsDue(p) \/ CompleteCreate(p) \/ Webhook(p)
    BY <2>4, <1>1 DEF ReconcileFallsDue, CompleteCreate, Webhook, WebhookUnknown,
                      WebhookIgnored, WebhookAccepted
  <2> QED  BY <1>2, <2>1, <2>2, <2>3, <2>4 DEF Environment
<1>3. ASSUME NEW q \in Requests, Handler(q)
      PROVE  ProviderChange(x) /\ (expired[x] => expired'[x])
  <2>1. CASE CloseAnswered(q)
    <3>1. reqs[q].pay \in Payments /\ "PAY_CLOSED" \in RawStatuses /\ UNCHANGED expired
      BY <2>1, HandlerFields DEF CloseAnswered, RawStatuses, Outcomes
    <3>2. CASE MoveTo(reqs[q].pay, "PAY_CLOSED")
      BY <3>1, <3>2, <1>0
    <3>3. CASE UNCHANGED <<provider, seen>>
      BY <3>1, <3>3, <1>1 DEF external
    <3> QED  BY <2>1, <3>2, <3>3 DEF CloseAnswered
  <2>2. CASE ~CloseAnswered(q)
    BY <1>3, <2>2, <1>1 DEF Handler, FindPayment, GetAnswered, RequestUpdates,
                            WebhookRecords, RequestAborts
  <2> QED  BY <2>1, <2>2
<1>4. ASSUME NEW r \in Replicas, Reconciler(r)
      PROVE  UNCHANGED external
  BY <1>4 DEF Reconciler, Claim, Poll, PollAnswered, PollRefused, PollObserves, PollRecords,
              PollRecordFails, PollRetries, PollDropped, Restart
<1> QED  BY <1>1, <1>2, <1>3, <1>4 DEF Next, vars, external

\* A webhook handler or an item is about to record this status as an event.
ToRecord(p, id, status, raw) ==
    \/ \E q \in Requests :
          /\ reqs[q] = Request("record", p, status, raw) /\ id = WebhookID(p, raw)
    \/ \E r \in Replicas :
          /\ polls[r][p] = Item("observed", status, raw) /\ id = PollID(p, raw)
          /\ status \notin Open

\* An event enters the deduplication table and the outbox together.
OutboxChange ==
    \/ UNCHANGED <<inbound, outbox>>
    \/ \E p \in Payments, status \in Statuses, raw \in RawStatuses :
          \E id \in {WebhookID(p, raw), PollID(p, raw)} :
             /\ ToRecord(p, id, status, raw)
             /\ ~KeyTaken(id)
             /\ inbound' = inbound \cup {<<ConnectionOf[p], id>>}
             /\ outbox'  = outbox \cup {Event(id, p, status, raw)}

\* Every change of the event tables is one of the two.
LEMMA OutboxStep ==
    ASSUME TypeOK, [Next]_vars
    PROVE  OutboxChange
<1>1. CASE UNCHANGED <<inbound, outbox>>
  BY <1>1 DEF OutboxChange
<1>2. ASSUME NEW q \in Requests, WebhookRecords(q)
      PROVE  OutboxChange
  <2> DEFINE p == reqs[q].pay
             id == WebhookID(reqs[q].pay, reqs[q].raw)
  <2>1. /\ p \in Payments /\ reqs[q].status \in Statuses /\ reqs[q].raw \in RawStatuses
        /\ reqs[q] = Request("record", p, reqs[q].status, reqs[q].raw)
    BY <1>2 DEF WebhookRecords, TypeOK, Handlers, Free, Request
  <2>2. ToRecord(p, id, reqs[q].status, reqs[q].raw)
    BY <2>1 DEF ToRecord
  <2>3. RecordProviderEvent(p, id, reqs[q].status, reqs[q].raw)
    BY <1>2 DEF WebhookRecords
  <2> QED  BY <2>1, <2>2, <2>3 DEF RecordProviderEvent, OutboxChange, tables
<1>3. ASSUME NEW r \in Replicas, NEW p \in Payments,
             PollRecords(r, p) \/ PollRecordFails(r, p)
      PROVE  OutboxChange
  <2> DEFINE id == PollID(p, polls[r][p].raw)
  <2>1. /\ polls[r][p].status \in Statuses /\ polls[r][p].raw \in RawStatuses
        /\ polls[r][p] = Item("observed", polls[r][p].status, polls[r][p].raw)
    BY <1>3 DEF PollRecords, PollRecordFails, TypeOK, Items, Idle, Item
  <2>2. ToRecord(p, id, polls[r][p].status, polls[r][p].raw)
    BY <1>3, <2>1 DEF PollRecords, PollRecordFails, ToRecord
  <2>3. UNCHANGED tables \/ RecordProviderEvent(p, id, polls[r][p].status, polls[r][p].raw)
    BY <1>3 DEF PollRecords, PollRecordFails
  <2> QED  BY <2>1, <2>2, <2>3 DEF RecordProviderEvent, OutboxChange, tables
<1>4. ASSUME NEW p \in Payments, Environment(p) \/ CompleteCreate(p) \/ Webhook(p)
      PROVE  UNCHANGED <<inbound, outbox>>
  BY <1>4 DEF Environment, ProviderCreates, ProviderAdvances, ExpiryPasses, ReconcileFallsDue,
              CompleteCreate, Webhook, WebhookUnknown, WebhookIgnored, WebhookAccepted, tables
<1>5. ASSUME NEW q \in Requests, Handler(q), ~WebhookRecords(q)
      PROVE  UNCHANGED <<inbound, outbox>>
  BY <1>5 DEF Handler, FindPayment, GetAnswered, CloseAnswered, RequestUpdates,
              RequestAborts, tables
<1>6. ASSUME NEW r \in Replicas, Reconciler(r),
             \A p \in Payments : ~PollRecords(r, p) /\ ~PollRecordFails(r, p)
      PROVE  UNCHANGED <<inbound, outbox>>
  BY <1>6 DEF Reconciler, Claim, Poll, PollAnswered, PollRefused, PollObserves,
              PollRetries, PollDropped, Restart, tables
<1> QED  BY <1>1, <1>2, <1>3, <1>4, <1>5, <1>6 DEF Next, vars

-----------------------------------------------------------------------------
(* The theorems *)

\* A stored row stays stored.
LEMMA StoredStays ==
    ASSUME TypeOK, [Next]_vars, NEW p \in Payments, Stored(p)
    PROVE  Stored(p)'
<1>1. RowChange(p)
  BY RowStep
<1>2. "created" \in Statuses /\ \A status \in Statuses : status # "absent"
  BY DEF Statuses, Open, Verdicts
<1>3. orders[p] \in Rows
  BY DEF TypeOK
<1>4. CASE RowKept(p)
  BY <1>4 DEF RowKept, Stored
<1>5. CASE RowMoved(p)
  <2>1. PICK next \in {"scheduled", "due"} : orders'[p] = Reschedule(orders[p], next)
    BY <1>5 DEF RowMoved
  <2>2. orders'[p].status = orders[p].status
    BY <1>3, <2>1, RescheduleType
  <2> QED  BY <2>2 DEF Stored
<1>6. CASE RowCreated(p) \/ RowSet(p)
  <2>1. PICK status \in Statuses, raw \in RawStatuses \cup {"INITIAL"} :
          orders'[p] = Row(status, raw)
    BY <1>2, <1>6 DEF RowCreated, RowSet
  <2> QED  BY <1>2, <2>1 DEF Stored, Row
<1> QED  BY <1>1, <1>4, <1>5, <1>6 DEF RowChange

\* Every step keeps what is known to rows, items and handlers behind the provider.
LEMMA KnownStep ==
    ASSUME TypeOK, KnownOK, [Next]_vars
    PROVE  KnownOK'
<1>1. ASSUME NEW p \in Payments, provider[p] # "none"
      PROVE  provider'[p] # "none"
  BY <1>1, ProviderStep DEF ProviderChange, RawStatuses, Outcomes
<1>2. ASSUME NEW p \in Payments, Stored(p)'
      PROVE  provider'[p] # "none"
  <2>1. CASE Stored(p)
    BY <2>1, <1>1 DEF KnownOK
  <2>2. CASE ~Stored(p)
    <3>1. RowCreated(p) \/ RowSet(p)
      <4>1. orders[p] \in Rows /\ orders[p].status \notin Open
        BY <2>2 DEF TypeOK, Stored, Open
      <4> QED  BY <1>2, <2>2, <4>1, RowStep, RescheduleType
               DEF RowChange, RowKept, RowMoved, Stored
    <3>2. CASE RowSet(p)
      BY <3>2, <2>2, HandlerFields DEF RowSet, InHand, KnownOK, Free, Idle
    <3>3. CASE RowCreated(p)
      BY <3>3, <1>1 DEF RowCreated
    <3> QED  BY <3>1, <3>2, <3>3
  <2> QED  BY <2>1, <2>2
<1>3. ASSUME NEW r \in Replicas, NEW p \in Payments, polls'[r][p] # Idle
      PROVE  Stored(p)'
  <2>1. Stored(p)
    BY <1>3, ItemStep DEF ItemChange, KnownOK, Stored, Open
  <2> QED  BY <2>1, StoredStays
<1>4. ASSUME NEW q \in Requests, reqs'[q] # Free
      PROVE  orders'[reqs'[q].pay].status # "absent"
  <2>1. PICK p \in Payments : p = reqs'[q].pay /\ Stored(p)
    <3>1. CASE reqs'[q] = reqs[q]
      BY <1>4, <3>1, HandlerFields DEF KnownOK
    <3>2. ASSUME NEW p \in Payments, NEW pc, NEW status, NEW raw,
                 reqs'[q] = Request(pc, p, status, raw),
                 Stored(p) \/ (reqs[q] # Free /\ reqs[q].pay = p)
          PROVE  p = reqs'[q].pay /\ Stored(p)
      BY <3>2 DEF KnownOK, Request
    <3> QED  BY <1>4, <3>1, <3>2, HandlerStep DEF HandlerChange
  <2>2. Stored(p)'
    BY <2>1, StoredStays
  <2> QED  BY <2>1, <2>2 DEF Stored
<1> QED  BY <1>2, <1>3, <1>4 DEF KnownOK, Stored

\* The inductive form of type correctness.
LEMMA TypeAndKnown == Spec => [](TypeOK /\ KnownOK)
<1>1. Init => TypeOK /\ KnownOK
  <2> SUFFICES ASSUME Init PROVE TypeOK /\ KnownOK
    OBVIOUS
  <2>1. TypeOK
    BY DEF Init, TypeOK, Absent, Rows, Items, Handlers
  <2>2. KnownOK
    BY DEF Init, KnownOK, Stored, Absent
  <2> QED  BY <2>1, <2>2
<1>2. TypeOK /\ KnownOK /\ [Next]_vars => (TypeOK /\ KnownOK)'
  BY TypeStep, KnownStep
<1> QED  BY <1>1, <1>2, PTL DEF Spec

\* Rows, outbox events, reconciler items and handlers stay well-formed, for any
\* number of payments, connections, replicas and requests.
THEOREM TypeCorrect == Spec => []TypeOK
  BY TypeAndKnown, PTL

\* A stored row is scheduled exactly while its status is open, whatever claims,
\* retries, observations, events and restarts interleave.
THEOREM ScheduleCorrect == Spec => []ScheduleFollowsStatus
<1>1. Init => ScheduleFollowsStatus
  BY DEF Init, ScheduleFollowsStatus, Stored, Absent
<1>2. ASSUME TypeOK, ScheduleFollowsStatus, [Next]_vars
      PROVE  ScheduleFollowsStatus'
  <2> SUFFICES ASSUME NEW p \in Payments, Stored(p)'
               PROVE  orders'[p].next # "null" <=> orders'[p].status \in Open
    BY DEF ScheduleFollowsStatus
  <2>0. orders[p] \in Rows
    BY <1>2 DEF TypeOK
  <2>1. CASE RowKept(p)
    BY <1>2, <2>1 DEF RowKept, ScheduleFollowsStatus, Stored
  <2>2. CASE RowMoved(p)
    <3>1. PICK next \in {"scheduled", "due"} :
            /\ orders[p].next # "null" \/ orders[p].status \in Open
            /\ orders'[p] = Reschedule(orders[p], next)
      BY <2>2 DEF RowMoved
    <3>2. orders'[p].status = orders[p].status /\ orders'[p].next = next
      BY <2>0, <3>1, RescheduleType
    <3>3. orders[p].status \in Open
      BY <1>2, <3>1, <3>2 DEF ScheduleFollowsStatus, Stored
    <3> QED  BY <3>1, <3>2, <3>3
  <2>3. ASSUME NEW status, NEW raw, orders'[p] = Row(status, raw)
        PROVE  orders'[p].next # "null" <=> orders'[p].status \in Open
    BY <2>3 DEF Row, Schedule
  <2> QED  BY <1>2, <2>1, <2>2, <2>3, RowStep DEF RowChange, RowCreated, RowSet
<1> QED  BY <1>1, <1>2, TypeCorrect, PTL DEF Spec

-----------------------------------------------------------------------------
(* Where statuses come from.  The inductive invariant says of every place a *)
(* status is kept that the provider gave it: the row, the items and the     *)
(* handlers that are about to write it, and the outbox.                     *)

\* An order that exists was INITIAL once, and has had one outcome at most.
HistoryOK ==
    \A p \in Payments :
        /\ provider[p] = "none" => seen[p] = {}
        /\ provider[p] # "none" => provider[p] \in seen[p] /\ "INITIAL" \in seen[p]
        /\ \A a, b \in seen[p] \cap Outcomes : a = b

RowsReported  == \A p \in Payments :
    Stored(p) => Reported(p, orders[p].status, orders[p].raw)
ItemsReported == \A r \in Replicas, p \in Payments :
    polls[r][p].pc = "observed" =>
        Reported(p, polls[r][p].status, polls[r][p].raw)
HandlersReported == \A q \in Requests :
    reqs[q].pc \in {"update", "record"} =>
        Reported(reqs[q].pay, reqs[q].status, reqs[q].raw)
EventReported(e) ==
    /\ Stored(e.pay) /\ Reported(e.pay, e.status, e.raw)
    /\ e.id \in {WebhookID(e.pay, e.raw), PollID(e.pay, e.raw)} /\ e.source = e.id[1]
EventsReported == \A e \in outbox : EventReported(e)

Provenance ==
    HistoryOK /\ RowsReported /\ ItemsReported /\ HandlersReported /\ EventsReported

\* The provider's past only grows.
LEMMA HistoryStep ==
    ASSUME TypeOK, HistoryOK, [Next]_vars
    PROVE  HistoryOK' /\ \A p \in Payments : seen[p] \subseteq seen'[p]
<1> SUFFICES ASSUME NEW p \in Payments
             PROVE  /\ provider'[p] = "none" => seen'[p] = {}
                    /\ provider'[p] # "none" =>
                          provider'[p] \in seen'[p] /\ "INITIAL" \in seen'[p]
                    /\ \A a, b \in seen'[p] \cap Outcomes : a = b
                    /\ seen[p] \subseteq seen'[p]
  BY DEF HistoryOK
<1>1. CASE provider'[p] = provider[p] /\ seen'[p] = seen[p]
  BY <1>1 DEF HistoryOK
<1>2. CASE provider[p] = "none" /\ provider'[p] = "INITIAL" /\ seen'[p] = {"INITIAL"}
  BY <1>2 DEF HistoryOK, Outcomes
<1>3. ASSUME NEW raw \in RawStatuses, provider[p] # "none", provider'[p] = raw,
             seen'[p] = seen[p] \cup {raw}, raw \in Outcomes => seen[p] \cap Outcomes = {}
      PROVE  /\ provider'[p] # "none" /\ provider'[p] \in seen'[p] /\ "INITIAL" \in seen'[p]
             /\ \A a, b \in seen'[p] \cap Outcomes : a = b
             /\ seen[p] \subseteq seen'[p]
  BY <1>3 DEF HistoryOK, RawStatuses, Outcomes
<1> QED  BY <1>1, <1>2, <1>3, ProviderStep DEF ProviderChange

\* What was reported once stays reported.
LEMMA ReportedStays ==
    ASSUME TypeOK, HistoryOK, [Next]_vars,
           NEW p \in Payments, NEW status, NEW raw, Reported(p, status, raw)
    PROVE  Reported(p, status, raw)'
  BY HistoryStep, ProviderStep DEF Reported

\* What the code makes of a status the order has had is reported.
LEMMA ObservedReported ==
    ASSUME NEW p \in Payments, NEW raw \in seen[p]
    PROVE  /\ Reported(p, ObservedStatus(p, raw), raw)
           /\ Reported(p, NormalizeStatus(raw), raw)
  BY DEF Reported, ObservedStatus

\* The rows: a status is created INITIAL or was in hand.
LEMMA RowsReportedStep ==
    ASSUME TypeOK, KnownOK, Provenance, [Next]_vars
    PROVE  RowsReported'
<1> SUFFICES ASSUME NEW p \in Payments, Stored(p)'
             PROVE  \E status, raw : /\ status = orders'[p].status /\ raw = orders'[p].raw
                                    /\ Reported(p, status, raw)'
  BY DEF RowsReported
<1> USE DEF Provenance
<1>0. orders[p] \in Rows
  BY DEF TypeOK
<1>1. CASE orders'[p].status = orders[p].status /\ orders'[p].raw = orders[p].raw
  BY <1>1, ReportedStays DEF RowsReported, Stored
<1>2. ASSUME NEW status, NEW raw, orders'[p] = Row(status, raw), Reported(p, status, raw)
      PROVE  /\ status = orders'[p].status /\ raw = orders'[p].raw
             /\ Reported(p, status, raw)'
  BY <1>2, ReportedStays DEF Row
<1>3. CASE RowKept(p)
  BY <1>1, <1>3 DEF RowKept
<1>4. CASE RowMoved(p)
  BY <1>0, <1>1, <1>4, RescheduleType DEF RowMoved
<1>5. CASE RowCreated(p)
  <2>1. Reported(p, "created", "INITIAL")
    BY <1>5 DEF RowCreated, HistoryOK, Reported, NormalizeStatus
  <2> QED  BY <1>2, <1>5, <2>1 DEF RowCreated
<1>6. CASE RowSet(p)
  <2>1. PICK status \in Statuses, raw \in RawStatuses :
          InHand(p, status, raw) /\ orders'[p] = Row(status, raw)
    BY <1>6 DEF RowSet
  <2>2. Reported(p, status, raw)
    BY <2>1 DEF InHand, ItemsReported, HandlersReported
  <2> QED  BY <1>2, <2>1, <2>2
<1> QED  BY <1>3, <1>4, <1>5, <1>6, RowStep DEF RowChange

\* The items: a status was answered by the provider.
LEMMA ItemsReportedStep ==
    ASSUME TypeOK, KnownOK, Provenance, [Next]_vars
    PROVE  ItemsReported'
<1> SUFFICES ASSUME NEW r \in Replicas, NEW p \in Payments, polls'[r][p].pc = "observed"
             PROVE  \E status, raw : /\ status = polls'[r][p].status /\ raw = polls'[r][p].raw
                                    /\ Reported(p, status, raw)'
  BY DEF ItemsReported
<1> USE DEF Provenance
<1>1. CASE polls'[r][p] = polls[r][p]
  BY <1>1, ReportedStays DEF ItemsReported
<1>2. CASE /\ polls[r][p] # Idle
           /\ polls'[r][p] = Item("observed", ObservedStatus(p, provider[p]), provider[p])
  <2>1. provider[p] \in seen[p]
    BY <1>2 DEF KnownOK, HistoryOK
  <2>2. Reported(p, ObservedStatus(p, provider[p]), provider[p])
    BY <2>1, ObservedReported
  <2>3. \A status, raw : Reported(p, status, raw) => Reported(p, status, raw)'
    BY ReportedStays
  <2> QED  BY <1>2, <2>2, <2>3 DEF Item
<1> QED  BY <1>1, <1>2, ItemStep DEF ItemChange, Item, Idle

\* The handlers: a status came with a notification, or was answered.
LEMMA HandlersReportedStep ==
    ASSUME TypeOK, KnownOK, Provenance, [Next]_vars
    PROVE  HandlersReported'
<1> SUFFICES ASSUME NEW q \in Requests, reqs'[q].pc \in {"update", "record"}
             PROVE  \E p, status, raw :
                       /\ p = reqs'[q].pay /\ status = reqs'[q].status /\ raw = reqs'[q].raw
                       /\ Reported(p, status, raw)'
  BY DEF HandlersReported
<1> USE DEF Provenance
<1>1. CASE reqs'[q] = reqs[q]
  <2>1. reqs[q].pay \in Payments
    BY <1>1, HandlerFields
  <2>2. Reported(reqs[q].pay, reqs[q].status, reqs[q].raw)
    BY <1>1 DEF HandlersReported
  <2>3. \A p \in Payments : \A status, raw :
          Reported(p, status, raw) => Reported(p, status, raw)'
    BY ReportedStays
  <2>4. PICK p, status, raw :
          /\ p = reqs[q].pay /\ status = reqs[q].status /\ raw = reqs[q].raw
          /\ Reported(p, status, raw)'
    BY <2>1, <2>2, <2>3
  <2> QED  BY <1>1, <2>4
<1>2. ASSUME NEW p \in Payments, NEW pc, NEW status, NEW raw,
             reqs'[q] = Request(pc, p, status, raw), Reported(p, status, raw)'
      PROVE  /\ p = reqs'[q].pay /\ status = reqs'[q].status /\ raw = reqs'[q].raw
             /\ Reported(p, status, raw)'
  BY <1>2 DEF Request
<1>3. CASE \E p \in Payments, call \in Calls : reqs'[q] = Request(call, p, "none", "none")
  BY <1>3, ProviderAssumption DEF Request
<1>4. ASSUME NEW p \in Payments, NEW raw \in RawStatuses,
             raw \in seen[p],
             reqs'[q] = Request("record", p, ObservedStatus(p, raw), raw)
      PROVE  Reported(p, ObservedStatus(p, raw), raw)
  BY <1>4, ObservedReported
<1>5. ASSUME NEW p \in Payments, reqs[q] # Free, reqs[q].pay = p
      PROVE  Reported(p, NormalizeStatus(provider[p]), provider[p])
  BY <1>5, ObservedReported DEF KnownOK, HistoryOK
<1>6. ASSUME NEW p \in Payments, reqs[q] # Free, reqs[q].pay = p,
             "PAY_CLOSED" \in seen'[p] \cup {provider[p]}
      PROVE  Reported(p, "cancelled", "PAY_CLOSED")'
  <2>1. "PAY_CLOSED" \in seen'[p]
    BY <1>6, HistoryStep DEF KnownOK, HistoryOK
  <2> QED  BY <2>1 DEF Reported, NormalizeStatus
<1>7. \A p \in Payments : \A status, raw : Reported(p, status, raw) => Reported(p, status, raw)'
  BY ReportedStays
<1>8. \/ reqs'[q] = reqs[q]
      \/ \E p \in Payments, call \in Calls : reqs'[q] = Request(call, p, "none", "none")
      \/ \E p \in Payments : \E pc, status, raw :
            reqs'[q] = Request(pc, p, status, raw) /\ Reported(p, status, raw)'
  BY <1>4, <1>5, <1>6, <1>7, HandlerStep DEF HandlerChange, Free
<1> QED  BY <1>1, <1>2, <1>3, <1>8

\* The events: the status recorded is the one in hand, and its id says which.
LEMMA EventsReportedStep ==
    ASSUME TypeOK, KnownOK, Provenance, [Next]_vars
    PROVE  EventsReported'
<1> SUFFICES ASSUME NEW e \in outbox'
             PROVE  EventReported(e)'
  BY DEF EventsReported
<1> USE DEF Provenance
<1>1. ASSUME e.pay \in Payments, EventReported(e)
      PROVE  EventReported(e)'
  BY <1>1, StoredStays, ReportedStays DEF EventReported, WebhookID, PollID
<1>2. CASE e \in outbox
  BY <1>1, <1>2 DEF EventsReported, TypeOK
<1>3. ASSUME NEW p \in Payments, NEW status \in Statuses, NEW raw \in RawStatuses,
             NEW id \in {WebhookID(p, raw), PollID(p, raw)},
             ToRecord(p, id, status, raw), e = Event(id, p, status, raw)
      PROVE  e.pay \in Payments /\ EventReported(e)
  <2>1. /\ e.pay = p /\ e.status = status /\ e.raw = raw
        /\ e.id = id /\ e.source = id[1]
    BY <1>3 DEF Event
  <2>2. Stored(p) /\ Reported(p, status, raw)
    <3>1. CASE \E q \in Requests : reqs[q] = Request("record", p, status, raw)
      BY <3>1 DEF Request, Free, HandlersReported, KnownOK
    <3>2. CASE \E r \in Replicas : polls[r][p] = Item("observed", status, raw)
      BY <3>2 DEF Item, Idle, ItemsReported, KnownOK
    <3> QED  BY <1>3, <3>1, <3>2 DEF ToRecord
  <2> QED  BY <2>1, <2>2 DEF EventReported
<1>4. \/ e \in outbox
      \/ \E p \in Payments, status \in Statuses, raw \in RawStatuses :
            \E id \in {WebhookID(p, raw), PollID(p, raw)} :
               ToRecord(p, id, status, raw) /\ e = Event(id, p, status, raw)
  BY OutboxStep DEF OutboxChange
<1> QED  BY <1>1, <1>2, <1>3, <1>4

\* Every status kept anywhere was given by the provider.
LEMMA ProvenanceCorrect == Spec => []Provenance
<1>1. Init => Provenance
  BY DEF Init, Provenance, HistoryOK, RowsReported, ItemsReported, HandlersReported,
         EventsReported, Stored, Absent, Idle, Free
<1>2. ASSUME TypeOK, KnownOK, Provenance, [Next]_vars
      PROVE  Provenance'
  <2>1. HistoryOK'
    BY <1>2, HistoryStep DEF Provenance
  <2> QED  BY <1>2, <2>1, RowsReportedStep, ItemsReportedStep, HandlersReportedStep,
              EventsReportedStep DEF Provenance
<1> QED  BY <1>1, <1>2, TypeAndKnown, PTL DEF Spec

\* Nothing is invented: rows and outbox events only carry what the provider
\* reported of a matching payment.
THEOREM StatusesReportedCorrect == Spec => []StatusesReported
<1>1. Provenance => StatusesReported
  BY DEF Provenance, RowsReported, EventsReported, EventReported, StatusesReported
<1> QED  BY <1>1, ProvenanceCorrect, PTL

\* A reported verdict rests on an outcome, and names it.
LEMMA VerdictNamesOutcome ==
    ASSUME TypeOK, NEW p \in Payments, NEW status \in Verdicts, NEW raw,
           Reported(p, status, raw)
    PROVE  /\ raw \in seen[p] \cap Outcomes
           /\ status = NormalizeStatus(raw) \/ (raw = "PAY_CLOSED" /\ status = "expired")
<1>1. raw \in RawStatuses /\ raw \in seen[p]
  BY DEF Reported, TypeOK
<1> QED  BY <1>1, NormalizeFinal DEF Reported, Outcomes

\* The row and the events of a payment never contradict each other about how it
\* ended: the provider ends an order once, and every verdict names that outcome.
THEOREM VerdictsAgreeCorrect == Spec => []VerdictsAgree
<1>1. ASSUME TypeOK, Provenance
      PROVE  VerdictsAgree
  <2> SUFFICES ASSUME NEW p \in Payments, NEW v \in VerdictsOn(p), NEW w \in VerdictsOn(p)
               PROVE  v = w \/ {v, w} = {"cancelled", "expired"}
    BY DEF VerdictsAgree
  <2>1. ASSUME NEW u \in VerdictsOn(p)
        PROVE  u \in Verdicts /\ \E raw : Reported(p, u, raw)
    <3>1. CASE u = orders[p].status
      <4>1. Stored(p)
        BY <2>1, <3>1 DEF VerdictsOn, Verdicts, Stored
      <4> QED  BY <1>1, <2>1, <3>1, <4>1 DEF VerdictsOn, Provenance, RowsReported
    <3>2. CASE \E e \in outbox : e.pay = p /\ e.status = u
      BY <1>1, <2>1, <3>2 DEF VerdictsOn, Provenance, EventsReported, EventReported
    <3> QED  BY <2>1, <3>1, <3>2 DEF VerdictsOn
  <2>2. PICK a : Reported(p, v, a)
    BY <2>1
  <2>3. PICK b : Reported(p, w, b)
    BY <2>1
  <2>4. a = b
    BY <1>1, <2>1, <2>2, <2>3, VerdictNamesOutcome DEF Provenance, HistoryOK
  <2>5. NormalizeStatus("PAY_CLOSED") = "cancelled"
    BY DEF NormalizeStatus
  <2> QED  BY <1>1, <2>1, <2>2, <2>3, <2>4, <2>5, VerdictNamesOutcome
<1> QED  BY <1>1, TypeCorrect, ProvenanceCorrect, PTL

\* A settled row is opened again only by a write of what was read too early: a handler
\* or an item holds an open status that the order had, and the order has ended since.
OnlyStaleReopens ==
    [][\A p \in Payments : Settled(p) /\ ~Settled(p)' =>
          \E raw \in seen[p] \ Outcomes :
              InHand(p, orders'[p].status, raw) /\ seen[p] \cap Outcomes # {}]_vars

\* Claims, retries, the migration and the end of Create never reopen a settled row, nor
\* does a handler or an item that has read the order after its end.
THEOREM ReopensCorrect == Spec => OnlyStaleReopens
<1>1. ASSUME TypeOK, Provenance, [Next]_vars,
             NEW p \in Payments, Settled(p), ~Settled(p)'
      PROVE  \E raw \in seen[p] \ Outcomes :
                 InHand(p, orders'[p].status, raw) /\ seen[p] \cap Outcomes # {}
  <2>1. orders[p] \in Rows /\ orders[p].status \in Verdicts /\ Stored(p)
    BY <1>1 DEF TypeOK, Settled, Stored, Verdicts
  <2>2. seen[p] \cap Outcomes # {}
    BY <1>1, <2>1, VerdictNamesOutcome DEF Provenance, RowsReported
  <2>3. RowSet(p)
    <3>1. CASE RowMoved(p)
      BY <1>1, <2>1, <3>1, RescheduleType DEF RowMoved, Settled
    <3> QED  BY <1>1, <2>1, <3>1, RowStep DEF RowChange, RowKept, RowCreated, Settled
  <2>4. PICK status \in Statuses, raw \in RawStatuses :
          InHand(p, status, raw) /\ orders'[p] = Row(status, raw)
    BY <2>3 DEF RowSet
  <2>5. orders'[p].status = status /\ status \notin Verdicts
    BY <1>1, <2>4 DEF Row, Settled
  <2>6. Reported(p, status, raw)
    BY <1>1, <2>4 DEF InHand, Provenance, ItemsReported, HandlersReported
  <2>7. raw \in seen[p] \ Outcomes
    BY <2>5, <2>6, NormalizeFinal DEF Reported, Verdicts
  <2> QED  BY <2>2, <2>4, <2>5, <2>7
<1>2. TypeOK /\ Provenance /\ [Next]_vars =>
        [\A p \in Payments : Settled(p) /\ ~Settled(p)' =>
            \E raw \in seen[p] \ Outcomes :
                InHand(p, orders'[p].status, raw) /\ seen[p] \cap Outcomes # {}]_vars
  BY <1>1
<1> QED  BY <1>2, TypeCorrect, ProvenanceCorrect, PTL DEF Spec, OnlyStaleReopens

-----------------------------------------------------------------------------
(* Events *)

\* The deduplication table and the outbox hold the same events, one per id.
THEOREM OutboxCorrect == Spec => []OutboxMatchesInbound
<1>1. Init => OutboxMatchesInbound
  BY DEF Init, OutboxMatchesInbound
<1>2. ASSUME TypeOK, OutboxMatchesInbound, [Next]_vars
      PROVE  OutboxMatchesInbound'
  <2>1. CASE UNCHANGED <<inbound, outbox>>
    BY <1>2, <2>1 DEF OutboxMatchesInbound
  <2>2. ASSUME NEW p \in Payments, NEW status \in Statuses, NEW raw \in RawStatuses, NEW id,
               ~KeyTaken(id), inbound' = inbound \cup {<<ConnectionOf[p], id>>},
               outbox' = outbox \cup {Event(id, p, status, raw)}
        PROVE  OutboxMatchesInbound'
    <3> DEFINE new == Event(id, p, status, raw)
    <3>1. new.pay = p /\ new.id = id
      BY DEF Event
    <3> HIDE DEF new
    <3>2. inbound' = {<<ConnectionOf[e.pay], e.id>> : e \in outbox'}
      BY <1>2, <2>2, <3>1 DEF OutboxMatchesInbound, new
    <3>3. \A e, f \in outbox' : e.id = f.id => e = f
      BY <1>2, <2>2, <3>1 DEF OutboxMatchesInbound, KeyTaken, new
    <3> QED  BY <3>2, <3>3 DEF OutboxMatchesInbound
  <2> QED  BY <1>2, <2>1, <2>2, OutboxStep DEF OutboxChange
<1> QED  BY <1>1, <1>2, TypeCorrect, PTL DEF Spec

\* The two kinds of ids are told apart by their first component.
LEMMA IDsDistinct ==
    ASSUME NEW p, NEW q, NEW a, NEW b
    PROVE  /\ WebhookID(p, a)[1] = "webhook" /\ PollID(p, a)[1] = "poll"
           /\ WebhookID(p, a) = WebhookID(q, b) => PrepayOf[p] = PrepayOf[q] /\ a = b
           /\ WebhookID(p, a) # PollID(q, b)
  BY DEF WebhookID, PollID

\* Each source emits at most one final event of a payment: its outcome decides the
\* id, and the outbox holds one event per id.
THEOREM OneVerdictCorrect == Spec => []OneVerdictPerSource
<1>1. ASSUME TypeOK, Provenance, OutboxMatchesInbound
      PROVE  OneVerdictPerSource
  <2> SUFFICES ASSUME NEW e \in outbox, NEW f \in outbox,
                      e.pay = f.pay, e.source = f.source,
                      e.status \in Verdicts, f.status \in Verdicts
               PROVE  e.id = f.id
    BY <1>1 DEF OneVerdictPerSource, OutboxMatchesInbound
  <2>1. e.pay \in Payments /\ EventReported(e) /\ EventReported(f)
    BY <1>1 DEF TypeOK, Provenance, EventsReported
  <2>2. e.raw = f.raw
    <3>1. e.raw \in seen[e.pay] \cap Outcomes /\ f.raw \in seen[e.pay] \cap Outcomes
      BY <1>1, <2>1, VerdictNamesOutcome DEF EventReported
    <3> QED  BY <1>1, <2>1, <3>1 DEF Provenance, HistoryOK
  <2>3. e.id[1] = f.id[1]
    BY <2>1 DEF EventReported
  <2> QED  BY <2>1, <2>2, <2>3, IDsDistinct DEF EventReported
<1> QED  BY <1>1, TypeCorrect, ProvenanceCorrect, OutboxCorrect, PTL

-----------------------------------------------------------------------------
(* The ledger *)

\* A step of the provider moves one order and records nothing.
LEMMA ProviderActs ==
    ASSUME TypeOK, [Next]_vars
    PROVE  \/ UNCHANGED seen
           \/ /\ UNCHANGED outbox
              /\ \E p \in Payments : \A x \in Payments \ {p} : seen'[x] = seen[x]
<1>1. ASSUME NEW p \in Payments, NEW raw, MoveTo(p, raw)
      PROVE  \A x \in Payments \ {p} : seen'[x] = seen[x]
  BY <1>1 DEF MoveTo, TypeOK
<1>2. ASSUME NEW p \in Payments, Environment(p) \/ CompleteCreate(p) \/ Webhook(p)
      PROVE  \/ UNCHANGED seen
             \/ UNCHANGED outbox /\ \A x \in Payments \ {p} : seen'[x] = seen[x]
  <2>1. CASE ProviderCreates(p)
    BY <2>1 DEF ProviderCreates, tables, TypeOK
  <2>2. CASE ProviderAdvances(p)
    BY <2>2, <1>1 DEF ProviderAdvances, tables
  <2>3. CASE ExpiryPasses(p) \/ ReconcileFallsDue(p) \/ CompleteCreate(p) \/ Webhook(p)
    BY <2>3 DEF ExpiryPasses, ReconcileFallsDue, CompleteCreate, Webhook, WebhookUnknown,
                WebhookIgnored, WebhookAccepted, external
  <2> QED  BY <1>2, <2>1, <2>2, <2>3 DEF Environment
<1>3. ASSUME NEW q \in Requests, CloseAnswered(q)
      PROVE  \/ UNCHANGED seen
             \/ UNCHANGED outbox /\ \A x \in Payments \ {reqs[q].pay} : seen'[x] = seen[x]
  <2>1. reqs[q].pay \in Payments
    BY <1>3, HandlerFields DEF CloseAnswered
  <2> QED  BY <1>3, <2>1, <1>1 DEF CloseAnswered, tables
<1>4. ASSUME NEW q \in Requests, Handler(q), ~CloseAnswered(q)
      PROVE  UNCHANGED seen
  BY <1>4 DEF Handler, FindPayment, GetAnswered, RequestUpdates, WebhookRecords,
              RequestAborts, external
<1>5. ASSUME NEW r \in Replicas, Reconciler(r)
      PROVE  UNCHANGED seen
  BY <1>5 DEF Reconciler, Claim, Poll, PollAnswered, PollRefused, PollObserves, PollRecords,
              PollRecordFails, PollRetries, PollDropped, Restart, external
<1>6. ASSUME NEW q \in Requests, CloseAnswered(q)
      PROVE  reqs[q].pay \in Payments
  BY <1>6, HandlerFields DEF CloseAnswered
<1> QED  BY <1>2, <1>3, <1>4, <1>5, <1>6 DEF Next, vars

\* How payments have ended, in the terms of the ledger.
Ended == [p \in Payments |-> seen[p] \cap Outcomes]

\* A payment ends, once, or none does.
EndStep(p, end) ==
    Ended[p] = {} /\ Ended' = [Ended EXCEPT ![p] = {end}]

LEMMA EndedStep ==
    ASSUME TypeOK, Provenance, [Next]_vars,
           NEW p \in Payments, \A x \in Payments \ {p} : seen'[x] = seen[x]
    PROVE  UNCHANGED Ended \/ \E end \in Outcomes : EndStep(p, end)
<1>1. CASE seen'[p] \cap Outcomes = seen[p] \cap Outcomes
  <2>1. \A x \in Payments : seen'[x] \cap Outcomes = seen[x] \cap Outcomes
    BY <1>1
  <2> QED  BY <2>1 DEF Ended
<1>2. ASSUME NEW end \in Outcomes, seen[p] \cap Outcomes = {}, seen'[p] \cap Outcomes = {end}
      PROVE  EndStep(p, end)
  <2>1. \A x \in Payments : seen'[x] \cap Outcomes =
          IF x = p THEN {end} ELSE seen[x] \cap Outcomes
    BY <1>2
  <2> QED  BY <1>2, <2>1 DEF EndStep, Ended
<1>3. \/ seen'[p] \cap Outcomes = seen[p] \cap Outcomes
      \/ \E end \in Outcomes : seen[p] \cap Outcomes = {} /\ seen'[p] \cap Outcomes = {end}
  <2>1. "INITIAL" \notin Outcomes /\ (provider[p] = "none" => seen[p] = {})
    BY DEF Outcomes, Provenance, HistoryOK
  <2>2. CASE provider[p] = "none" /\ provider'[p] = "INITIAL" /\ seen'[p] = {"INITIAL"}
    BY <2>1, <2>2
  <2>3. ASSUME NEW raw \in RawStatuses, seen'[p] = seen[p] \cup {raw},
               raw \in Outcomes => seen[p] \cap Outcomes = {}
        PROVE  \/ seen'[p] \cap Outcomes = seen[p] \cap Outcomes
               \/ \E end \in Outcomes :
                     seen[p] \cap Outcomes = {} /\ seen'[p] \cap Outcomes = {end}
    BY <2>3
  <2> QED  BY <2>2, <2>3, ProviderStep DEF ProviderChange
<1> QED  BY <1>1, <1>2, <1>3

\* A verdict that was reported names the end of the payment.
LEMMA VerdictNames ==
    ASSUME TypeOK, NEW p \in Payments, NEW status \in Verdicts, NEW raw,
           Reported(p, status, raw)
    PROVE  \E end \in Ended[p] : status \in Ledger!Names(end)
<1>1. /\ raw \in Ended[p]
      /\ status = NormalizeStatus(raw) \/ (raw = "PAY_CLOSED" /\ status = "expired")
  BY VerdictNamesOutcome DEF Ended
<1>2. raw \in Outcomes
  BY <1>1 DEF Ended
<1> QED  BY <1>1, <1>2 DEF Ledger!Names, NormalizeStatus, Outcomes

LEMMA LedgerStep ==
    ASSUME TypeOK, Provenance, OneVerdictPerSource', [Next]_vars
    PROVE  [Ledger!Next]_(Ledger!vars)
<1>1. ASSUME UNCHANGED outbox, NEW p \in Payments, \A x \in Payments \ {p} : seen'[x] = seen[x]
      PROVE  UNCHANGED <<Ended, Told(outbox)>> \/ \E end \in Outcomes : Ledger!End(p, end)
  <2>1. Told(outbox)' = Told(outbox)
    BY <1>1 DEF Told
  <2> QED  BY <1>1, <2>1, EndedStep DEF EndStep, Ended, Ledger!End
<1>2. ASSUME UNCHANGED seen, NEW p \in Payments, NEW status \in Statuses, NEW raw \in RawStatuses,
             NEW id \in {WebhookID(p, raw), PollID(p, raw)},
             ToRecord(p, id, status, raw), ~KeyTaken(id),
             outbox' = outbox \cup {Event(id, p, status, raw)}
      PROVE  Told(outbox)' = Told(outbox)
             \/ /\ status \in Verdicts
                /\ \E source \in {"webhook", "poll"} : Ledger!Tell(p, source, status)
  <2> DEFINE e == Event(id, p, status, raw)
  <2>1. e.id = id /\ e.pay = p /\ e.status = status /\ e.source = id[1]
    BY DEF Event
  <2>2. id[1] \in {"webhook", "poll"}
    BY IDsDistinct
  <2>3. CASE status \notin Verdicts
    BY <1>2, <2>1, <2>3 DEF Told
  <2>4. CASE status \in Verdicts
    <3>1. Reported(p, status, raw)
      <4>1. ASSUME NEW q \in Requests, reqs[q] = Request("record", p, status, raw)
            PROVE  Reported(p, status, raw)
        BY <4>1 DEF Provenance, HandlersReported, Request
      <4>2. ASSUME NEW r \in Replicas, polls[r][p] = Item("observed", status, raw)
            PROVE  Reported(p, status, raw)
        BY <4>2 DEF Provenance, ItemsReported, Item
      <4> QED  BY <1>2, <4>1, <4>2 DEF ToRecord
    <3>2. \E end \in Ended[p] : status \in Ledger!Names(end)
      BY <2>4, <3>1, VerdictNames
    <3>3. \A t \in Told(outbox) : <<t.pay, t.source>> # <<p, id[1]>>
      <4> SUFFICES ASSUME NEW f \in outbox, f.status \in Verdicts, f.pay = p, f.source = id[1]
                   PROVE  FALSE
        BY DEF Told
      <4>1. f \in outbox' /\ e \in outbox'
        BY <1>2
      <4>2. f = e
        BY <2>1, <2>4, <4>1 DEF OneVerdictPerSource
      <4> QED  BY <1>2, <2>1, <4>2 DEF KeyTaken
    <3>4. Told(outbox)' = Told(outbox) \cup {[pay |-> p, source |-> id[1], status |-> status]}
      BY <1>2, <2>1, <2>4 DEF Told
    <3>5. Ended' = Ended
      BY <1>2 DEF Ended
    <3> QED  BY <2>2, <2>4, <3>2, <3>3, <3>4, <3>5 DEF Ended, Ledger!Tell
  <2> QED  BY <2>3, <2>4
<1>3. CASE UNCHANGED <<seen, outbox>>
  BY <1>3 DEF Ledger!vars, Told
<1> QED  BY <1>1, <1>2, <1>3, ProviderActs, OutboxStep
         DEF OutboxChange, Ended, Ledger!Next, Ledger!vars, Outcomes, Verdicts, Told

\* The four paths keep the ledger: verdicts are recorded after the fact, once for each
\* source, and never taken back.
THEOREM LedgerCorrect == Spec => RecordsOutcomes
<1>1. Init => Ledger!Init
  BY DEF Init, Ledger!Init, Told
<1>2. TypeOK /\ Provenance /\ OneVerdictPerSource' /\ [Next]_vars => [Ledger!Next]_(Ledger!vars)
  BY LedgerStep
<1> QED  BY <1>1, <1>2, TypeCorrect, ProvenanceCorrect, OneVerdictCorrect, PTL
         DEF Spec, RecordsOutcomes, Ledger!Spec

-----------------------------------------------------------------------------
\* An answer SUCCESS is given to a notification that has no row, to one that is
\* dropped on purpose, or in the step that found or made its event.
AckChange(n) ==
    \/ n \in acked
    \/ ~n.known
    \/ ~Recordable(n.raw)
    \/ /\ n.pay \in Payments
       /\ \/ Recorded(n.pay, WebhookID(n.pay, n.raw))
          \/ \E e \in outbox' : e.id = WebhookID(n.pay, n.raw) /\ e.pay = n.pay

\* Every new answer is one of these.
LEMMA AckStep ==
    ASSUME TypeOK, [Next]_vars, NEW n \in acked'
    PROVE  AckChange(n)
<1>1. CASE UNCHANGED acked
  BY <1>1 DEF AckChange
<1>2. ASSUME NEW p \in Payments, NEW raw \in RawStatuses,
             WebhookUnknown(p, raw) \/ WebhookIgnored(p, raw)
      PROVE  AckChange(n)
  BY <1>2 DEF WebhookUnknown, WebhookIgnored, Acknowledge, AckChange
<1>3. ASSUME NEW q \in Requests, WebhookRecords(q)
      PROVE  AckChange(n)
  <2> DEFINE p == reqs[q].pay
             raw == reqs[q].raw
             id == WebhookID(reqs[q].pay, reqs[q].raw)
  <2>1. p \in Payments
    BY <1>3, HandlerFields DEF WebhookRecords
  <2>2. Acknowledge(p, raw, TRUE) \/ UNCHANGED acked
    BY <1>3 DEF WebhookRecords
  <2>3. CASE n \in acked
    BY <2>3 DEF AckChange
  <2>4. CASE n = [pay |-> p, raw |-> raw, known |-> TRUE]
    <3>1. RecordProviderEvent(p, id, reqs[q].status, raw)
      BY <1>3 DEF WebhookRecords
    <3>2. Recorded(p, id) \/ \E e \in outbox' : e.id = id /\ e.pay = p
      BY <3>1 DEF RecordProviderEvent, Event
    <3> QED  BY <2>1, <2>4, <3>2 DEF AckChange
  <2> QED  BY <2>2, <2>3, <2>4 DEF Acknowledge
<1>4. ASSUME NEW p \in Payments, Environment(p) \/ CompleteCreate(p) \/ Webhook(p)
      PROVE  \/ UNCHANGED acked
             \/ \E raw \in RawStatuses : WebhookUnknown(p, raw) \/ WebhookIgnored(p, raw)
  BY <1>4 DEF Environment, ProviderCreates, ProviderAdvances, ExpiryPasses, ReconcileFallsDue,
              CompleteCreate, Webhook, WebhookAccepted
<1>5. ASSUME NEW q \in Requests, Handler(q), ~WebhookRecords(q)
      PROVE  UNCHANGED acked
  BY <1>5 DEF Handler, FindPayment, GetAnswered, CloseAnswered, RequestUpdates, RequestAborts
<1>6. ASSUME NEW r \in Replicas, Reconciler(r)
      PROVE  UNCHANGED acked
  BY <1>6 DEF Reconciler, Claim, Poll, PollAnswered, PollRefused, PollObserves, PollRecords,
              PollRecordFails, PollRetries, PollDropped, Restart
<1> QED  BY <1>1, <1>2, <1>3, <1>4, <1>5, <1>6 DEF Next, vars

\* An acknowledged notification of a stored payment is in the outbox, under its own
\* payment: an id that is known on the connection can only be this payment's.
THEOREM AcknowledgedCorrect == Spec => []AcknowledgedIsDurable
<1>1. Init => AcknowledgedIsDurable
  BY DEF Init, AcknowledgedIsDurable
<1>2. ASSUME TypeOK, Provenance, OutboxMatchesInbound, AcknowledgedIsDurable, [Next]_vars
      PROVE  AcknowledgedIsDurable'
  <2> SUFFICES ASSUME NEW n \in acked', n.known, Recordable(n.raw)
               PROVE  \E e \in outbox' : e.id = WebhookID(n.pay, n.raw) /\ e.pay = n.pay
    BY DEF AcknowledgedIsDurable, WebhookID, Recordable
  <2>1. outbox \subseteq outbox'
    BY <1>2, OutboxStep DEF OutboxChange
  <2>2. CASE n \in acked
    BY <1>2, <2>1, <2>2 DEF AcknowledgedIsDurable
  <2>3. ASSUME n.pay \in Payments, Recorded(n.pay, WebhookID(n.pay, n.raw))
        PROVE  \E e \in outbox : e.id = WebhookID(n.pay, n.raw) /\ e.pay = n.pay
    <3>1. PICK e \in outbox :
            ConnectionOf[e.pay] = ConnectionOf[n.pay] /\ e.id = WebhookID(n.pay, n.raw)
      BY <1>2, <2>3 DEF OutboxMatchesInbound, Recorded
    <3>2. e.pay \in Payments /\ EventReported(e)
      BY <1>2 DEF TypeOK, Provenance, EventsReported
    <3>3. PrepayOf[e.pay] = PrepayOf[n.pay]
      BY <3>1, <3>2, IDsDistinct DEF EventReported
    <3> QED  BY <2>3, <3>1, <3>2, <3>3, ConnectionAssumption
  <2> QED  BY <1>2, <2>1, <2>2, <2>3, AckStep DEF AckChange
<1> QED  BY <1>1, <1>2, TypeCorrect, ProvenanceCorrect, OutboxCorrect, PTL DEF Spec
-----------------------------------------------------------------------------
(***************************************************************************)
(* Connector: PaymentStatus and Outbox together.  Each of its steps is one *)
(* of PaymentStatus and one of Outbox, or none of either, so what is       *)
(* proved of the two components holds of the whole.                        *)
(***************************************************************************)
PubP == INSTANCE Outbox_proofs WITH
    Events <- EventIDs, CreatedAt <- [id \in EventIDs |-> 0], outbox <- rows

\* The publisher's assumptions are the connector's.
LEMMA PubAssumption == PubP!OutboxAssumption
<1>1. ASSUME NEW S, IsFiniteSet(S)
      PROVE  PubP!IsFiniteSet(S)
  BY <1>1 DEF IsFiniteSet, PubP!IsFiniteSet
<1> QED  BY <1>1, ConnectorAssumption DEF PubP!OutboxAssumption

\* Each step of the whole is one of PaymentStatus or leaves it alone, so that every
\* theorem above holds of the whole too.
THEOREM PaymentSide == ConnectorSpec => Spec
<1>1. [ConnectorNext]_<<vars, publishing>> => [Next]_vars
  BY DEF ConnectorNext, Learn, Publish, BackoffEnds, RestartReplica, Next, Reconciler
<1> QED  BY <1>1, PTL DEF ConnectorSpec, Spec

-----------------------------------------------------------------------------
(* The ids of events are among those the publisher knows: a webhook is only *)
(* about a status the provider notifies of, and a poll only records what an *)
(* order may end as.                                                        *)

MovedTo == {raw \in RawStatuses : \E m \in ProviderMoves : m[2] = raw}

SeenOK     == \A p \in Payments : seen[p] \subseteq {"INITIAL"} \cup MovedTo
NotifiedOK == \A q \in Requests : reqs[q].pc = "record" => reqs[q].raw \in Notified
NamesOK    == SeenOK /\ NotifiedOK /\ \A e \in outbox : e.id \in EventIDs

LEMMA SeenStep ==
    ASSUME TypeOK, SeenOK, [Next]_vars
    PROVE  SeenOK'
<1> SUFFICES ASSUME NEW p \in Payments
             PROVE  seen'[p] \subseteq {"INITIAL"} \cup MovedTo
  BY DEF SeenOK
<1>1. ASSUME NEW raw \in RawStatuses, <<provider[p], raw>> \in ProviderMoves
      PROVE  raw \in MovedTo
  BY <1>1 DEF MovedTo
<1> QED  BY <1>1, ProviderStep DEF ProviderChange, SeenOK

LEMMA NotifiedStep ==
    ASSUME TypeOK, NotifiedOK, [Next]_vars
    PROVE  NotifiedOK'
<1> SUFFICES ASSUME NEW q \in Requests, reqs'[q].pc = "record"
             PROVE  reqs'[q].raw \in Notified
  BY DEF NotifiedOK
<1>1. CASE reqs'[q] = reqs[q]
  BY <1>1 DEF NotifiedOK
<1>2. ASSUME NEW p, NEW status, NEW raw \in Notified, reqs'[q] = Request("record", p, status, raw)
      PROVE  reqs'[q].raw \in Notified
  BY <1>2 DEF Request
<1>3. ASSUME NEW pc, pc # "record", NEW p, NEW status, NEW raw, reqs'[q] = Request(pc, p, status, raw)
      PROVE  FALSE
  BY <1>3 DEF Request
<1>4. \A call \in Calls : call # "record"
  BY ProviderAssumption
<1>5. reqs'[q] # Free
  BY DEF Free
<1> QED  BY <1>1, <1>2, <1>3, <1>4, <1>5, HandlerStep DEF HandlerChange

\* What is recorded gets an id that the publisher knows.
LEMMA NewNames ==
    ASSUME TypeOK, Provenance, SeenOK, NotifiedOK,
           NEW p \in Payments, NEW status \in Statuses, NEW raw \in RawStatuses, NEW id,
           ToRecord(p, id, status, raw)
    PROVE  id \in EventIDs
<1>1. PrepayOf[p] \in PrepayIDs /\ ConnectionOf[p] \in Connections
  BY ConnectionAssumption
<1>2. ASSUME NEW q \in Requests, reqs[q] = Request("record", p, status, raw), id = WebhookID(p, raw)
      PROVE  id \in EventIDs
  <2>1. raw \in Notified
    BY <1>2 DEF Request, NotifiedOK
  <2> QED  BY <1>1, <1>2, <2>1 DEF WebhookID, EventIDs
<1>3. ASSUME NEW r \in Replicas, polls[r][p] = Item("observed", status, raw),
             id = PollID(p, raw), status \notin Open
      PROVE  id \in EventIDs
  <2>1. status \in Verdicts /\ Reported(p, status, raw)
    BY <1>3 DEF Statuses, Item, Provenance, ItemsReported
  <2>2. raw \in seen[p] \cap Outcomes
    BY <2>1, VerdictNamesOutcome
  <2>3. \E m \in ProviderMoves : m[2] = raw
    BY <2>2 DEF SeenOK, MovedTo, Outcomes
  <2> QED  BY <1>1, <1>3, <2>2, <2>3 DEF PollID, EventIDs
<1> QED  BY <1>2, <1>3 DEF ToRecord

LEMMA NamesCorrect == Spec => []NamesOK
<1>1. Init => NamesOK
  BY DEF Init, NamesOK, SeenOK, NotifiedOK, Free
<1>2. ASSUME TypeOK, Provenance, NamesOK, [Next]_vars
      PROVE  NamesOK'
  <2>1. SeenOK' /\ NotifiedOK'
    BY <1>2, SeenStep, NotifiedStep DEF NamesOK
  <2>2. ASSUME NEW p \in Payments, NEW status \in Statuses, NEW raw \in RawStatuses, NEW id,
               ToRecord(p, id, status, raw)
        PROVE  Event(id, p, status, raw).id \in EventIDs
    BY <1>2, <2>2, NewNames DEF NamesOK, Event
  <2>3. \A e \in outbox' : e.id \in EventIDs
    BY <1>2, <2>2, OutboxStep DEF OutboxChange, NamesOK
  <2> QED  BY <2>1, <2>3 DEF NamesOK
<1> QED  BY <1>1, <1>2, TypeCorrect, ProvenanceCorrect, PTL DEF Spec
-----------------------------------------------------------------------------
(* The publisher's side *)

LEMMA PublisherStep ==
    ASSUME NamesOK', [ConnectorNext]_<<vars, publishing>>
    PROVE  [PubP!Next]_(PubP!vars)
<1>1. ASSUME Learn
      PROVE  (\E id \in EventIDs : PubP!Record(id)) \/ UNCHANGED publishing
  <2>1. \A e \in outbox' \ outbox : e.id \in EventIDs
    BY DEF NamesOK
  <2> QED  BY <1>1, <2>1 DEF Learn, Pub!Record, PubP!Record, Pub!Row, PubP!Row
<1>2. ASSUME BackoffEnds
      PROVE  \E id \in EventIDs : PubP!BackoffEnds(id)
  BY <1>2 DEF BackoffEnds, Pub!BackoffEnds, PubP!BackoffEnds, Pub!Row, PubP!Row
<1>3. ASSUME NEW r \in Replicas, Publish(r)
      PROVE  PubP!Publisher(r)
  BY <1>3 DEF Publish, PubP!Publisher,
     Pub!PendingEvents, PubP!PendingEvents, Pub!Pending, PubP!Pending,
     Pub!Oldest, PubP!Oldest, Pub!Cardinality, PubP!Cardinality, Pub!Flush, PubP!Flush,
     Pub!Accepted, PubP!Accepted, Pub!AnswerLost, PubP!AnswerLost,
     Pub!NotAccepted, PubP!NotAccepted, Pub!First, PubP!First,
     Pub!Outcome, PubP!Outcome, Pub!Sent, PubP!Sent,
     Pub!MarkPublished, PubP!MarkPublished, Pub!MarkPublishedFails, PubP!MarkPublishedFails,
     Pub!MarkFailed, PubP!MarkFailed, Pub!MarkFailedFails, PubP!MarkFailedFails,
     Pub!Continue, PubP!Continue, Pub!Row, PubP!Row
<1>4. ASSUME NEW r \in Replicas, RestartReplica(r)
      PROVE  PubP!Publisher(r)
  BY <1>4 DEF RestartReplica, PubP!Publisher, Pub!Restart, PubP!Restart, Pub!Flush, PubP!Flush
<1>5. ASSUME UNCHANGED publishing
      PROVE  UNCHANGED PubP!vars
  BY <1>5 DEF publishing, PubP!vars
<1> QED  BY <1>1, <1>2, <1>3, <1>4, <1>5 DEF ConnectorNext, PubP!Next

\* Each step of the whole is one of Outbox or leaves it alone: what is recorded was not
\* in the table, and has an id the publisher knows.
THEOREM PublisherSide == ConnectorSpec => PubP!Spec
<1>1. Pub!Init => PubP!Init
  BY DEF Pub!Init, PubP!Init, Pub!Row, PubP!Row, Pub!Flush, PubP!Flush
<1>2. NamesOK' /\ [ConnectorNext]_<<vars, publishing>> => [PubP!Next]_(PubP!vars)
  BY PublisherStep
<1> QED  BY <1>1, <1>2, PaymentSide, NamesCorrect, PTL DEF ConnectorSpec, PubP!Spec

LEMMA PublisherInvariant == ConnectorSpec => []PubP!IInv
  BY PublisherSide, PubAssumption, PubP!Inductive, PTL

\* Beside the connector as by itself, the publisher accounts for every duplicate.
THEOREM ConnectorDuplicatesCorrect == ConnectorSpec => []Pub!DuplicatesHaveACause
<1>1. ASSUME NEW S, NEW T, S = T
      PROVE  Pub!Cardinality(S) = PubP!Cardinality(T)
  BY <1>1 DEF Pub!Cardinality, PubP!Cardinality, Pub!IsFiniteSet, PubP!IsFiniteSet
<1>2. PubP!DuplicatesHaveACause => Pub!DuplicatesHaveACause
  BY <1>1 DEF PubP!DuplicatesHaveACause, Pub!DuplicatesHaveACause
<1> QED  BY <1>2, PublisherSide, PubAssumption, PubP!DuplicatesCorrect, PTL

\* Beside the connector as by itself, the publisher delivers at least once.
THEOREM ConnectorDeliveryCorrect == ConnectorSpec => Pub!DeliversAtLeastOnce
<1>1. /\ Pub!Recorded = PubP!Recorded /\ Pub!Received = PubP!Received
      /\ Pub!Published = PubP!Published
  BY DEF Pub!Recorded, PubP!Recorded, Pub!Received, PubP!Received, Pub!Published, PubP!Published
<1>2. PubP!Delivery!Init => Pub!Delivery!Init
  BY <1>1 DEF Pub!Delivery!Init, PubP!Delivery!Init
<1>3. [PubP!Delivery!Next]_(PubP!Delivery!vars) => [Pub!Delivery!Next]_(Pub!Delivery!vars)
  BY DEF Pub!Delivery!Next, PubP!Delivery!Next, Pub!Delivery!vars, PubP!Delivery!vars,
      Pub!Delivery!Record, PubP!Delivery!Record, Pub!Delivery!Receive, PubP!Delivery!Receive,
      Pub!Delivery!Finish, PubP!Delivery!Finish,
      Pub!Recorded, PubP!Recorded, Pub!Received, PubP!Received, Pub!Published, PubP!Published
<1> QED  BY <1>2, <1>3, PublisherSide, PubAssumption, PubP!DeliveryCorrect, PTL
         DEF Pub!DeliversAtLeastOnce, PubP!DeliversAtLeastOnce, Pub!Delivery!Spec, PubP!Delivery!Spec

-----------------------------------------------------------------------------
(* From end to end *)

\* An event that is new to the outbox is new to the publisher, and has not been
\* received: the orchestrator does not hear of it before it is recorded.
LEMMA NewIsUnheard ==
    ASSUME PubP!TypeOK, PubP!ReceiptsOK, NEW id \in EventIDs, Pub!Record(id)
    PROVE  received[id] = 0
<1>1. received[id] \in Nat
  BY DEF PubP!TypeOK
<1>2. id \notin PubP!Recorded
  BY DEF Pub!Record, PubP!Recorded
<1> QED  BY <1>1, <1>2 DEF PubP!ReceiptsOK, PubP!Received

\* What was told is not changed by what has not been heard.
LEMMA ToldStays ==
    ASSUME Delivered' = Delivered
    PROVE  Told(Delivered)' = Told(Delivered)
  BY DEF Told

\* A step of PaymentStatus may end a payment; the orchestrator hears nothing of it yet.
LEMMA LearnTells ==
    ASSUME TypeOK, Provenance, NamesOK', PubP!TypeOK, PubP!ReceiptsOK, [Next]_vars, Learn
    PROVE  UNCHANGED <<Ended, Told(Delivered)>>
           \/ \E p \in Payments, end \in Outcomes : EndToEnd!End(p, end)
<1>1. received' = received
  BY DEF Learn, publishing, Pub!Record
<1>2. CASE outbox' = outbox
  <2>1. Told(Delivered)' = Told(Delivered)
    BY <1>1, <1>2, ToldStays DEF Delivered
  <2>2. CASE UNCHANGED seen
    BY <2>1, <2>2 DEF Ended
  <2>3. ASSUME NEW p \in Payments, \A x \in Payments \ {p} : seen'[x] = seen[x]
        PROVE  UNCHANGED <<Ended, Told(Delivered)>>
               \/ \E end \in Outcomes : EndToEnd!End(p, end)
    BY <2>1, <2>3, EndedStep DEF EndStep, Ended, EndToEnd!End
  <2> QED  BY <2>2, <2>3, ProviderActs
<1>3. CASE outbox' # outbox
  <2>1. Ended' = Ended
    BY <1>3, ProviderActs DEF Ended
  <2>2. PICK new \in outbox' \ outbox : Pub!Record(new.id)
    BY <1>3 DEF Learn
  <2>3. new.id \in EventIDs /\ received[new.id] = 0
    BY <2>2, NewIsUnheard DEF NamesOK
  <2>4. outbox' = outbox \cup {new}
    BY <1>3, OutboxStep DEF OutboxChange
  <2>5. Delivered' = Delivered
    BY <1>1, <2>3, <2>4 DEF Delivered
  <2> QED  BY <2>1, <2>5, ToldStays
<1> QED  BY <1>2, <1>3

\* A receipt tells the verdict of the event, if it has one and it is the first.
LEMMA ReceiptTells ==
    ASSUME TypeOK, Provenance, OneVerdictPerSource, OutboxMatchesInbound, NamesOK,
           UNCHANGED vars, NEW id \in EventIDs,
           received[id] \in Nat, received'[id] = received[id] + 1,
           \A x \in EventIDs \ {id} : received'[x] = received[x]
    PROVE  UNCHANGED <<Ended, Told(Delivered)>>
           \/ \E p \in Payments, source \in {"webhook", "poll"}, status \in Verdicts :
                 EndToEnd!Tell(p, source, status)
<1>1. Ended' = Ended /\ outbox' = outbox
  BY DEF vars, Ended
<1>2. Delivered' = Delivered \cup {e \in outbox : e.id = id}
  BY <1>1 DEF Delivered, NamesOK
<1>3. CASE received[id] > 0 \/ ~\E e \in outbox : e.id = id
  <2>1. Delivered' = Delivered
    BY <1>2, <1>3 DEF Delivered
  <2> QED  BY <1>1, <2>1, ToldStays
<1>4. ASSUME NEW e \in outbox, e.id = id, received[id] = 0
      PROVE  UNCHANGED Told(Delivered)
             \/ /\ e.status \in Verdicts
                /\ EndToEnd!Tell(e.pay, e.source, e.status)
  <2>1. Delivered' = Delivered \cup {e} /\ e \notin Delivered
    BY <1>2, <1>4 DEF OutboxMatchesInbound, Delivered
  <2>2. CASE e.status \notin Verdicts
    BY <2>1, <2>2 DEF Told
  <2>3. CASE e.status \in Verdicts
    <3>1. \E end \in Ended[e.pay] : e.status \in Ledger!Names(end)
      BY <2>3, VerdictNames DEF TypeOK, Provenance, EventsReported, EventReported
    <3>2. \A t \in Told(Delivered) : <<t.pay, t.source>> # <<e.pay, e.source>>
      BY <2>1, <2>3 DEF Told, Delivered, OneVerdictPerSource
    <3>3. Told(Delivered)' =
            Told(Delivered) \cup {[pay |-> e.pay, source |-> e.source, status |-> e.status]}
      BY <2>1, <2>3 DEF Told
    <3> QED  BY <1>1, <2>3, <3>1, <3>2, <3>3 DEF Ended, Ledger!Names, EndToEnd!Names, EndToEnd!Tell
  <2> QED  BY <2>2, <2>3
<1>5. \A e \in outbox : e.pay \in Payments /\ e.source \in {"webhook", "poll"}
  BY DEF TypeOK
<1>6. received[id] > 0 \/ received[id] = 0
  OBVIOUS
<1> QED  BY <1>1, <1>3, <1>4, <1>5, <1>6

\* Every step of the connector is one of the ledger or none at all.
LEMMA TellsStep ==
    ASSUME TypeOK, Provenance, OneVerdictPerSource, OutboxMatchesInbound, NamesOK, NamesOK',
           PubP!IInv, [Next]_vars, [ConnectorNext]_<<vars, publishing>>
    PROVE  [EndToEnd!Next]_(EndToEnd!vars)
<1> DEFINE Stutters == UNCHANGED <<Ended, Told(Delivered)>>
<1>1. PubP!TypeOK /\ PubP!ReceiptsOK
  BY DEF PubP!IInv
<1>2. ASSUME UNCHANGED <<seen, outbox, received>>
      PROVE  Stutters
  BY <1>2, ToldStays DEF Ended, Delivered
<1>3. ASSUME Learn
      PROVE  Stutters \/ EndToEnd!Next
  BY <1>1, <1>3, LearnTells DEF EndToEnd!Next, Outcomes
<1>4. ASSUME NEW r \in Replicas, NEW id \in EventIDs, Pub!Accepted(r, id) \/ Pub!AnswerLost(r, id),
             UNCHANGED vars
      PROVE  Stutters \/ EndToEnd!Next
  <2>1. received' = [received EXCEPT ![id] = @ + 1] /\ received \in [EventIDs -> Nat]
    BY <1>1, <1>4 DEF Pub!Accepted, Pub!AnswerLost, PubP!TypeOK
  <2> QED  BY <1>4, <2>1, ReceiptTells DEF EndToEnd!Next, Verdicts
<1>5. ASSUME NEW r \in Replicas, Publish(r),
             ~\E id \in EventIDs : Pub!Accepted(r, id) \/ Pub!AnswerLost(r, id)
      PROVE  UNCHANGED <<seen, outbox, received>>
  BY <1>5 DEF Publish, vars, Pub!PendingEvents, Pub!NotAccepted, Pub!MarkPublished,
              Pub!MarkPublishedFails, Pub!MarkFailed, Pub!MarkFailedFails
<1>6. ASSUME NEW r \in Replicas, Publish(r)
      PROVE  UNCHANGED vars
  BY <1>6 DEF Publish
<1>7. ASSUME BackoffEnds \/ (\E r \in Replicas : RestartReplica(r)) \/ UNCHANGED <<vars, publishing>>
      PROVE  UNCHANGED <<seen, outbox, received>>
  BY <1>7 DEF BackoffEnds, RestartReplica, vars, publishing, external, Restart,
              Pub!BackoffEnds, Pub!Restart
<1>8. Stutters \/ EndToEnd!Next
  BY <1>2, <1>3, <1>4, <1>5, <1>6, <1>7 DEF ConnectorNext
<1> QED  BY <1>8 DEF Ended, EndToEnd!vars

\* What the orchestrator hears keeps the ledger, for any losses, restarts and
\* duplicates: a verdict is heard after the payment has ended so, at most once from
\* each source.
THEOREM TellsCorrect == ConnectorSpec => TellsOutcomes
<1>1. Init => EndToEnd!Init
  BY DEF Init, Told, Delivered, EndToEnd!Init
<1>2. /\ TypeOK /\ Provenance /\ OneVerdictPerSource /\ OutboxMatchesInbound /\ NamesOK /\ NamesOK'
      /\ PubP!IInv /\ [Next]_vars /\ [ConnectorNext]_<<vars, publishing>>
      => [EndToEnd!Next]_(EndToEnd!vars)
  BY TellsStep
<1> QED  BY <1>1, <1>2, PaymentSide, TypeCorrect, ProvenanceCorrect, OneVerdictCorrect, OutboxCorrect,
            NamesCorrect, PublisherInvariant, PTL
         DEF ConnectorSpec, Spec, TellsOutcomes, EndToEnd!Spec

-----------------------------------------------------------------------------
(* The outbox of both: the same events, seen as records and as rows. *)

RowsMatch ==
    \A id \in EventIDs : rows[id].status # "absent" <=> \E e \in outbox : e.id = id

\* Whatever PaymentStatus is about to record, the publisher has room for: taking the
\* two together keeps none of its steps from happening.
LEMMA RecordIsFree ==
    ASSUME TypeOK, Provenance, NamesOK, RowsMatch, [Next]_vars, NEW e \in outbox' \ outbox
    PROVE  e.id \in EventIDs /\ rows[e.id].status = "absent"
<1>1. PICK p \in Payments, status \in Statuses, raw \in RawStatuses :
        \E id \in {WebhookID(p, raw), PollID(p, raw)} :
           /\ ToRecord(p, id, status, raw) /\ ~KeyTaken(id)
           /\ e = Event(id, p, status, raw)
  BY OutboxStep DEF OutboxChange
<1>2. PICK id : ToRecord(p, id, status, raw) /\ ~KeyTaken(id) /\ e.id = id
  BY <1>1 DEF Event
<1>3. id \in EventIDs
  BY <1>2, NewNames DEF NamesOK
<1> QED  BY <1>2, <1>3 DEF RowsMatch, KeyTaken

\* Sending, marking and dying leave every row in the table, and add none.
LEMMA RowsStay ==
    ASSUME PubP!TypeOK, PubP!SendersOK,
           \/ \E r \in Replicas : Publish(r) \/ RestartReplica(r)
           \/ BackoffEnds
           \/ UNCHANGED publishing
    PROVE  \A id \in EventIDs : rows'[id].status = "absent" <=> rows[id].status = "absent"
<1> SUFFICES ASSUME NEW id \in EventIDs
             PROVE  rows'[id].status = "absent" <=> rows[id].status = "absent"
  OBVIOUS
<1>0. \A status, due : Pub!Row(status, due).status = status
  BY DEF Pub!Row
<1>1. CASE UNCHANGED rows
  BY <1>1
<1>2. ASSUME NEW r \in Replicas, Pub!MarkPublished(r)
      PROVE  rows'[id].status = "absent" <=> rows[id].status = "absent"
  <2>1. senders[r].item \in PubP!Recorded
    BY <1>2 DEF Pub!MarkPublished, PubP!SendersOK
  <2> QED  BY <1>0, <1>2, <2>1 DEF Pub!MarkPublished, PubP!Recorded, PubP!TypeOK
<1>3. ASSUME NEW r \in Replicas, Pub!MarkFailed(r)
      PROVE  rows'[id].status = "absent" <=> rows[id].status = "absent"
  <2>1. rows'[id] \in {rows[id], Pub!Row(rows[id].status, FALSE)}
    BY <1>3 DEF Pub!MarkFailed, PubP!TypeOK
  <2> QED  BY <1>0, <2>1
<1>4. ASSUME NEW x \in EventIDs, Pub!BackoffEnds(x)
      PROVE  rows'[id].status = "absent" <=> rows[id].status = "absent"
  BY <1>0, <1>4 DEF Pub!BackoffEnds, PubP!TypeOK
<1>5. \/ UNCHANGED rows
      \/ \E r \in Replicas : Pub!MarkPublished(r) \/ Pub!MarkFailed(r)
      \/ \E x \in EventIDs : Pub!BackoffEnds(x)
  BY DEF Publish, RestartReplica, BackoffEnds, publishing, Pub!PendingEvents, Pub!Accepted,
         Pub!AnswerLost, Pub!NotAccepted, Pub!MarkPublishedFails, Pub!MarkFailedFails, Pub!Restart
<1> QED  BY <1>1, <1>2, <1>3, <1>4, <1>5

LEMMA RowsMatchStep ==
    ASSUME TypeOK, Provenance, NamesOK, NamesOK', PubP!IInv, RowsMatch, [Next]_vars,
           [ConnectorNext]_<<vars, publishing>>
    PROVE  RowsMatch'
<1>0. PubP!TypeOK /\ PubP!SendersOK
  BY DEF PubP!IInv
<1>1. CASE Learn /\ outbox' # outbox
  <2>1. PICK new \in outbox' \ outbox : Pub!Record(new.id)
    BY <1>1 DEF Learn
  <2>2. outbox' = outbox \cup {new} /\ new.id \in EventIDs
    BY <2>1, OutboxStep DEF OutboxChange, NamesOK
  <2>3. \A id \in EventIDs : rows'[id] = IF id = new.id THEN Pub!Row("pending", TRUE) ELSE rows[id]
    BY <1>0, <2>1, <2>2 DEF Pub!Record, PubP!TypeOK
  <2>4. Pub!Row("pending", TRUE).status = "pending"
    BY Zenon DEF Pub!Row
  <2> QED  BY <2>2, <2>3, <2>4 DEF RowsMatch
<1>2. CASE outbox' = outbox /\ \A id \in EventIDs : rows'[id].status = "absent" <=> rows[id].status = "absent"
  BY <1>2 DEF RowsMatch
<1>3. CASE Learn /\ outbox' = outbox
  BY <1>0, <1>2, <1>3, RowsStay DEF Learn
<1>4. CASE \/ \E r \in Replicas : Publish(r) \/ RestartReplica(r)
           \/ BackoffEnds
           \/ UNCHANGED <<vars, publishing>>
  <2>1. outbox' = outbox
    BY <1>4 DEF Publish, RestartReplica, Restart, BackoffEnds, vars
  <2> QED  BY <1>0, <1>2, <1>4, <2>1, RowsStay
<1> QED  BY <1>1, <1>3, <1>4 DEF ConnectorNext

LEMMA RowsMatchCorrect == ConnectorSpec => []RowsMatch
<1>1. Init /\ Pub!Init => RowsMatch
  BY DEF Init, Pub!Init, Pub!Row, RowsMatch
<1>2. TypeOK /\ Provenance /\ NamesOK /\ NamesOK' /\ PubP!IInv /\ RowsMatch /\ [Next]_vars
      /\ [ConnectorNext]_<<vars, publishing>> => RowsMatch'
  BY RowsMatchStep
<1> QED  BY <1>1, <1>2, PaymentSide, TypeCorrect, ProvenanceCorrect, NamesCorrect,
            PublisherInvariant, PTL DEF ConnectorSpec, Spec

\* The orchestrator hears of nothing but what the provider has reported of a stored
\* payment.
HeardIsReported ==
    \A id \in EventIDs : received[id] > 0 =>
        \E e \in outbox : e.id = id /\ Stored(e.pay) /\ Reported(e.pay, e.status, e.raw)

\* A notification that was answered SUCCESS, of a stored payment and not one the
\* connector drops on purpose, waits for the publisher or has been received: the
\* provider will not send it again, and it is not lost.
AcknowledgedIsDelivered ==
    \A n \in acked : n.known /\ Recordable(n.raw) =>
        \/ rows[WebhookID(n.pay, n.raw)].status = "pending"
        \/ received[WebhookID(n.pay, n.raw)] > 0

\* Both of them hold, whatever is lost and whichever replica dies where.
THEOREM EndToEndCorrect == ConnectorSpec => [](HeardIsReported /\ AcknowledgedIsDelivered)
<1>1. ASSUME TypeOK, Provenance, NamesOK, PubP!IInv, RowsMatch, AcknowledgedIsDurable
      PROVE  HeardIsReported /\ AcknowledgedIsDelivered
  <2>1. PubP!TypeOK /\ PubP!ReceiptsOK
    BY <1>1 DEF PubP!IInv
  <2>2. ASSUME NEW id \in EventIDs, received[id] > 0
        PROVE  \E e \in outbox : e.id = id /\ Stored(e.pay) /\ Reported(e.pay, e.status, e.raw)
    <3>1. rows[id].status # "absent"
      BY <2>1, <2>2 DEF PubP!ReceiptsOK, PubP!Received, PubP!Recorded
    <3>2. PICK e \in outbox : e.id = id
      BY <1>1, <3>1 DEF RowsMatch
    <3> QED  BY <1>1, <3>2 DEF Provenance, EventsReported, EventReported
  <2>3. ASSUME NEW n \in acked, n.known, Recordable(n.raw)
        PROVE  \/ rows[WebhookID(n.pay, n.raw)].status = "pending"
               \/ received[WebhookID(n.pay, n.raw)] > 0
    <3> DEFINE id == WebhookID(n.pay, n.raw)
    <3>1. id \in EventIDs /\ \E e \in outbox : e.id = id
      BY <1>1, <2>3 DEF AcknowledgedIsDurable, NamesOK
    <3>2. rows[id].status \in {"pending", "published"}
      BY <1>1, <2>1, <3>1 DEF RowsMatch, PubP!TypeOK
    <3>3. CASE rows[id].status = "published"
      BY <2>1, <3>1, <3>3 DEF PubP!ReceiptsOK, PubP!Received, PubP!Published
    <3> QED  BY <3>2, <3>3
  <2> QED  BY <2>2, <2>3 DEF HeardIsReported, AcknowledgedIsDelivered
<1> QED  BY <1>1, PaymentSide, TypeCorrect, ProvenanceCorrect, NamesCorrect, PublisherInvariant,
            RowsMatchCorrect, AcknowledgedCorrect, PTL
=============================================================================

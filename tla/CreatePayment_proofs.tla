------------------------ MODULE CreatePayment_proofs ------------------------
(***************************************************************************)
(* Proofs of the safety properties of CreatePayment, for any number of     *)
(* keys, commands and handlers, whatever transactions and references the   *)
(* commands share.                                                         *)
(*                                                                         *)
(* The argument: the handler that inserted the operation owns it until the *)
(* operation is completed or failed, and only an owner calls the provider  *)
(* or writes.                                                              *)
(***************************************************************************)
EXTENDS CreatePayment, TLAPS

Owning == {"call", "fail", "store"}

\* A handler past its reservation has the operation to itself.
OwnersOK ==
    /\ \A q \in Requests : reqs[q].pc \in Owning =>
          operations[reqs[q].key] = Operation(reqs[q].cmd, "processing", NoOrder)
    /\ \A q, r \in Requests :
          reqs[q].pc \in Owning /\ reqs[r].pc \in Owning /\ reqs[q].key = reqs[r].key => q = r

\* What the provider has made, and for whom.
PlacedOK ==
    /\ \A o \in placed : operations[o.key].status # "absent"
    /\ \A q \in Requests : reqs[q].pc = "call" => \A o \in placed : o.key # reqs[q].key
    /\ \A q \in Requests : reqs[q].pc = "store" =>
          Placed(reqs[q].key, reqs[q].cmd, reqs[q].order) \in placed
    /\ \A o, p \in placed :
          o.order = p.order /\ ConnectionOf[o.cmd] = ConnectionOf[p.cmd] => o = p

\* What is stored, and what was answered.
StoredOK ==
    /\ \A k \in Keys : operations[k].status = "completed" =>
          /\ Placed(k, operations[k].cmd, operations[k].order) \in placed
          /\ OrderRow(operations[k].cmd, operations[k].order) \in orders
    /\ \A row \in orders : \E o \in placed :
          row = OrderRow(o.cmd, o.order) /\ operations[o.key].status = "completed"
    /\ \A r, s \in orders : r.transaction = s.transaction => r = s
    /\ \A a \in answered : operations[a.key] = Operation(a.cmd, "completed", a.order)

IInv == TypeOK /\ OwnersOK /\ PlacedOK /\ OneOrderPerKey /\ StoredOK

-----------------------------------------------------------------------------
\* The request of a busy handler.
LEMMA RequestFields ==
    ASSUME TypeOK, NEW q \in Requests, reqs[q].pc # "idle"
    PROVE  /\ reqs[q].key \in Keys /\ reqs[q].cmd \in Commands
           /\ reqs[q].pc \in {"read", "call", "fail", "store"}
           /\ reqs[q].pc = "store" => reqs[q].order \in OrderIDs
  BY DEF TypeOK, Free

\* The fields of an operation and of a provider's order.
LEMMA OperationFields ==
    ASSUME NEW cmd, NEW status, NEW order
    PROVE  /\ Operation(cmd, status, order).cmd = cmd
           /\ Operation(cmd, status, order).status = status
           /\ Operation(cmd, status, order).order = order
  BY DEF Operation

\* The row of a command is well-formed.
LEMMA OrderRowType ==
    ASSUME NEW cmd \in Commands, NEW order \in OrderIDs
    PROVE  OrderRow(cmd, order) \in [order : OrderIDs, transaction : Transactions,
                                     connection : Connections, reference : References]
  BY CommandAssumption DEF OrderRow

\* Every step keeps the types.
LEMMA TypeStep ==
    ASSUME IInv, [Next]_vars
    PROVE  TypeOK'
<1> USE DEF IInv
<1>1. CASE UNCHANGED vars
  BY <1>1 DEF vars, TypeOK
<1>2. ASSUME NEW q \in Requests, NEW key \in Keys, NEW cmd \in Commands,
             Reserve(q, key, cmd) \/ ReserveLoses(q, key, cmd)
      PROVE  TypeOK'
  BY <1>2 DEF Reserve, ReserveLoses, Become, Request, Operation, Statuses, TypeOK
<1>3. ASSUME NEW q \in Requests, Replay(q)
      PROVE  TypeOK'
  <2>1. reqs[q].key \in Keys /\ reqs[q].cmd \in Commands
    BY <1>3, RequestFields DEF Replay
  <2>2. operations[reqs[q].key].order \in OrderIDs
    BY <1>3, <2>1 DEF Replay, SameRequest, StoredOK, Placed, TypeOK
  <2> QED  BY <1>3, <2>1, <2>2 DEF Replay, Become, Answer, Placed, Free, TypeOK
<1>4. ASSUME NEW q \in Requests, NEW order \in OrderIDs, ProviderAccepts(q, order)
      PROVE  TypeOK'
  <2>1. reqs[q].key \in Keys /\ reqs[q].cmd \in Commands
    BY <1>4, RequestFields DEF ProviderAccepts
  <2> QED  BY <1>4, <2>1 DEF ProviderAccepts, Become, Request, Placed, TypeOK
<1>5. ASSUME NEW q \in Requests, ProviderFails(q)
      PROVE  TypeOK'
  <2>1. reqs[q].key \in Keys /\ reqs[q].cmd \in Commands
    BY <1>5, RequestFields DEF ProviderFails
  <2> QED  BY <1>5, <2>1 DEF ProviderFails, Become, Request, TypeOK
<1>6. ASSUME NEW q \in Requests, FailCreate(q)
      PROVE  TypeOK'
  <2>1. reqs[q].key \in Keys
    BY <1>6, RequestFields DEF FailCreate
  <2>2. Operation(operations[reqs[q].key].cmd, "failed", operations[reqs[q].key].order)
          \in [cmd : Commands \cup {NoCommand}, status : Statuses, order : OrderIDs \cup {NoOrder}]
    BY <2>1 DEF Operation, Statuses, TypeOK
  <2> QED  BY <1>6, <2>1, <2>2 DEF FailCreate, Become, Free, TypeOK
<1>7. ASSUME NEW q \in Requests, CompleteCreate(q)
      PROVE  TypeOK'
  <2>1. reqs[q].key \in Keys /\ reqs[q].cmd \in Commands /\ reqs[q].order \in OrderIDs
    BY <1>7, RequestFields DEF CompleteCreate
  <2> QED  BY <1>7, <2>1, OrderRowType
           DEF CompleteCreate, Become, Answer, Placed, Free, Operation, Statuses, TypeOK
<1>8. ASSUME NEW q \in Requests, Conflict(q) \/ CompleteRefused(q) \/ Abort(q)
      PROVE  TypeOK'
  BY <1>8 DEF Conflict, CompleteRefused, Abort, Become, Free, TypeOK
<1> QED  BY <1>1, <1>2, <1>3, <1>4, <1>5, <1>6, <1>7, <1>8 DEF Next, Create

-----------------------------------------------------------------------------
\* What one step does to the operation of a key: it is reserved by a handler that was
\* free, or one of the handlers that own it ends it.
LEMMA OperationStep ==
    ASSUME TypeOK, [Next]_vars, NEW k \in Keys, operations'[k] # operations[k]
    PROVE  \/ operations[k] = NoOperation /\ operations'[k].status = "processing"
           \/ \E q \in Requests : reqs[q].pc \in Owning /\ reqs[q].key = k
<1>1. CASE UNCHANGED vars
  BY <1>1 DEF vars
<1>2. ASSUME NEW q \in Requests, NEW key \in Keys, NEW cmd \in Commands, Reserve(q, key, cmd)
      PROVE  operations[k] = NoOperation /\ operations'[k].status = "processing"
  BY <1>2 DEF Reserve, Operation, TypeOK
<1>3. ASSUME NEW q \in Requests, FailCreate(q) \/ CompleteCreate(q)
      PROVE  reqs[q].pc \in Owning /\ reqs[q].key = k
  BY <1>3, RequestFields DEF FailCreate, CompleteCreate, Owning, TypeOK
<1> QED
  BY <1>1, <1>2, <1>3
  DEF Next, Create, ReserveLoses, Replay, Conflict, ProviderAccepts, ProviderFails,
      CompleteRefused, Abort

\* Every step keeps the ownership: a reservation finds no operation, so nobody owns
\* its key; whoever ends an operation stops owning it.
LEMMA OwnersStep ==
    ASSUME IInv, [Next]_vars
    PROVE  OwnersOK'
<1> USE DEF IInv
<1>1. CASE UNCHANGED vars
  BY <1>1 DEF vars, OwnersOK
<1>2. ASSUME NEW q \in Requests, NEW key \in Keys, NEW cmd \in Commands, Reserve(q, key, cmd)
      PROVE  OwnersOK'
  <2>1. \A r \in Requests : reqs[r].pc \in Owning => reqs[r].key # key
    BY <1>2, OperationFields DEF Reserve, NoOperation, OwnersOK
  <2>2. \A r \in Requests : reqs'[r] = IF r = q THEN Request("call", key, cmd, NoOrder) ELSE reqs[r]
    BY <1>2 DEF Reserve, Become, TypeOK
  <2>3. \A k \in Keys : operations'[k] =
           IF k = key THEN Operation(cmd, "processing", NoOrder) ELSE operations[k]
    BY <1>2 DEF Reserve, TypeOK
  <2>4. \A r \in Requests : reqs[r].pc \in Owning => reqs[r].key \in Keys
    BY RequestFields DEF Owning
  <2> QED  BY <2>1, <2>2, <2>3, <2>4 DEF Request, Owning, OwnersOK
<1>3. ASSUME NEW q \in Requests,
             ProviderFails(q) \/ \E order \in OrderIDs : ProviderAccepts(q, order)
      PROVE  OwnersOK'
  <2>1. reqs[q].pc \in Owning /\ operations' = operations
    BY <1>3 DEF ProviderAccepts, ProviderFails, Owning
  <2>2. PICK pc \in Owning, o \in OrderIDs \cup {NoOrder} :
          \A r \in Requests :
            reqs'[r] = IF r = q THEN Request(pc, reqs[q].key, reqs[q].cmd, o) ELSE reqs[r]
    BY <1>3 DEF ProviderAccepts, ProviderFails, Become, Owning, TypeOK
  <2> QED  BY <2>1, <2>2 DEF Request, OwnersOK
<1>4. ASSUME NEW q \in Requests, FailCreate(q) \/ CompleteCreate(q)
      PROVE  OwnersOK'
  <2>1. reqs[q].pc \in Owning /\ reqs[q].key \in Keys
    BY <1>4, RequestFields DEF FailCreate, CompleteCreate, Owning
  <2>2. \A r \in Requests : reqs'[r] = IF r = q THEN Free ELSE reqs[r]
    BY <1>4 DEF FailCreate, CompleteCreate, Become, TypeOK
  <2>3. \A k \in Keys : k # reqs[q].key => operations'[k] = operations[k]
    BY <1>4 DEF FailCreate, CompleteCreate, TypeOK
  <2>4. \A r \in Requests : reqs[r].pc \in Owning => reqs[r].key \in Keys
    BY RequestFields DEF Owning
  <2> QED  BY <2>1, <2>2, <2>3, <2>4 DEF Free, Owning, OwnersOK
<1>5. ASSUME NEW q \in Requests, NEW key \in Keys, NEW cmd \in Commands, ReserveLoses(q, key, cmd)
      PROVE  OwnersOK'
  BY <1>5 DEF ReserveLoses, Become, Request, Owning, OwnersOK, TypeOK
<1>6. ASSUME NEW q \in Requests,
             Replay(q) \/ Conflict(q) \/ CompleteRefused(q) \/ Abort(q)
      PROVE  OwnersOK'
  <2>1. \A r \in Requests : reqs'[r] = IF r = q THEN Free ELSE reqs[r]
    BY <1>6 DEF Replay, Conflict, CompleteRefused, Abort, Become, TypeOK
  <2>2. operations' = operations
    BY <1>6 DEF Replay, Conflict, CompleteRefused, Abort
  <2> QED  BY <2>1, <2>2 DEF Free, Owning, OwnersOK
<1> QED  BY <1>1, <1>2, <1>3, <1>4, <1>5, <1>6 DEF Next, Create

\* An operation that is completed, or any other that no handler owns, stays as it is.
LEMMA CompletedStays ==
    ASSUME IInv, [Next]_vars, NEW k \in Keys, operations[k].status = "completed"
    PROVE  operations'[k] = operations[k]
<1>1. ~\E q \in Requests : reqs[q].pc \in Owning /\ reqs[q].key = k
  BY OperationFields DEF IInv, OwnersOK
<1> QED  BY <1>1, OperationStep DEF IInv, NoOperation, Operation

\* Every step keeps what is known of the orders at the provider.
LEMMA PlacedStep ==
    ASSUME IInv, [Next]_vars
    PROVE  PlacedOK' /\ OneOrderPerKey'
<1> USE DEF IInv
<1>1. CASE UNCHANGED vars
  BY <1>1 DEF vars, PlacedOK, OneOrderPerKey
<1>2. ASSUME NEW q \in Requests, NEW key \in Keys, NEW cmd \in Commands, Reserve(q, key, cmd)
      PROVE  PlacedOK' /\ OneOrderPerKey'
  <2>1. \A o \in placed : o.key # key /\ o.key \in Keys
    BY <1>2 DEF Reserve, NoOperation, Operation, PlacedOK, TypeOK
  <2>2. \A r \in Requests : reqs'[r] = IF r = q THEN Request("call", key, cmd, NoOrder) ELSE reqs[r]
    BY <1>2 DEF Reserve, Become, TypeOK
  <2>3. \A k \in Keys : k # key => operations'[k] = operations[k]
    BY <1>2 DEF Reserve, TypeOK
  <2>4. placed' = placed
    BY <1>2 DEF Reserve
  <2> QED  BY <2>1, <2>2, <2>3, <2>4 DEF Request, PlacedOK, OneOrderPerKey
<1>3. ASSUME NEW q \in Requests, NEW order \in OrderIDs, ProviderAccepts(q, order)
      PROVE  PlacedOK' /\ OneOrderPerKey'
  <2> DEFINE new == Placed(reqs[q].key, reqs[q].cmd, order)
  <2>1. /\ reqs[q].pc = "call" /\ Unused(ConnectionOf[reqs[q].cmd], order)
        /\ placed' = placed \cup {new} /\ operations' = operations
    BY <1>3 DEF ProviderAccepts
  <2>2. \A o \in placed : o.key # reqs[q].key
    BY <2>1 DEF PlacedOK
  <2>3. \A r \in Requests : r # q => reqs'[r] = reqs[r]
    BY <1>3 DEF ProviderAccepts, Become, TypeOK
  <2>4. \/ reqs'[q] = Request("store", reqs[q].key, reqs[q].cmd, order)
        \/ reqs'[q] = Request("fail", reqs[q].key, reqs[q].cmd, NoOrder)
    BY <1>3 DEF ProviderAccepts, Become, TypeOK
  <2>5. /\ operations[reqs[q].key] = Operation(reqs[q].cmd, "processing", NoOrder)
        /\ \A r \in Requests : r # q /\ reqs[r].pc = "call" => reqs[r].key # reqs[q].key
    BY <2>1 DEF Owning, OwnersOK
  <2>6. \A o \in placed' : operations'[o.key].status # "absent"
    BY <2>1, <2>5 DEF Placed, Operation, PlacedOK
  <2>7. \A r \in Requests : reqs'[r].pc = "call" => \A o \in placed' : o.key # reqs'[r].key
    BY <2>1, <2>3, <2>4, <2>5 DEF Placed, Request, PlacedOK
  <2>8. \A r \in Requests : reqs'[r].pc = "store" =>
          Placed(reqs'[r].key, reqs'[r].cmd, reqs'[r].order) \in placed'
    BY <2>1, <2>3, <2>4 DEF Request, PlacedOK
  <2>9. \A o, p \in placed' :
          o.order = p.order /\ ConnectionOf[o.cmd] = ConnectionOf[p.cmd] => o = p
    BY <2>1 DEF Unused, Placed, PlacedOK
  <2>10. OneOrderPerKey'
    BY <2>1, <2>2 DEF Placed, OneOrderPerKey
  <2> QED  BY <2>6, <2>7, <2>8, <2>9, <2>10 DEF PlacedOK
<1>4. ASSUME NEW q \in Requests, ProviderFails(q)
      PROVE  PlacedOK' /\ OneOrderPerKey'
  <2>1. \A r \in Requests : reqs'[r] =
          IF r = q THEN Request("fail", reqs[q].key, reqs[q].cmd, NoOrder) ELSE reqs[r]
    BY <1>4 DEF ProviderFails, Become, TypeOK
  <2>2. placed' = placed /\ operations' = operations
    BY <1>4 DEF ProviderFails
  <2> QED  BY <2>1, <2>2 DEF Request, PlacedOK, OneOrderPerKey
<1>5. ASSUME NEW q \in Requests, FailCreate(q) \/ CompleteCreate(q)
      PROVE  PlacedOK' /\ OneOrderPerKey'
  <2>1. \A r \in Requests : reqs'[r] = IF r = q THEN Free ELSE reqs[r]
    BY <1>5 DEF FailCreate, CompleteCreate, Become, TypeOK
  <2>2. placed' = placed /\ \A o \in placed : o.key \in Keys
    BY <1>5 DEF FailCreate, CompleteCreate, TypeOK
  <2>3. \A k \in Keys : operations'[k] = operations[k] \/ operations'[k].status # "absent"
    BY <1>5 DEF FailCreate, CompleteCreate, Operation, TypeOK
  <2> QED  BY <2>1, <2>2, <2>3 DEF Free, PlacedOK, OneOrderPerKey
<1>6. ASSUME NEW q \in Requests, NEW key \in Keys, NEW cmd \in Commands, ReserveLoses(q, key, cmd)
      PROVE  PlacedOK' /\ OneOrderPerKey'
  <2>1. \A r \in Requests : reqs'[r] = IF r = q THEN Request("read", key, cmd, NoOrder) ELSE reqs[r]
    BY <1>6 DEF ReserveLoses, Become, TypeOK
  <2>2. placed' = placed /\ operations' = operations
    BY <1>6 DEF ReserveLoses
  <2> QED  BY <2>1, <2>2 DEF Request, PlacedOK, OneOrderPerKey
<1>7. ASSUME NEW q \in Requests,
             Replay(q) \/ Conflict(q) \/ CompleteRefused(q) \/ Abort(q)
      PROVE  PlacedOK' /\ OneOrderPerKey'
  <2>1. \A r \in Requests : reqs'[r] = IF r = q THEN Free ELSE reqs[r]
    BY <1>7 DEF Replay, Conflict, CompleteRefused, Abort, Become, TypeOK
  <2>2. placed' = placed /\ operations' = operations
    BY <1>7 DEF Replay, Conflict, CompleteRefused, Abort
  <2> QED  BY <2>1, <2>2 DEF Free, PlacedOK, OneOrderPerKey
<1> QED  BY <1>1, <1>2, <1>3, <1>4, <1>5, <1>6, <1>7 DEF Next, Create

\* Nothing is taken back: what the provider made, what is stored, what was answered.
LEMMA Grows ==
    ASSUME [Next]_vars
    PROVE  placed \subseteq placed' /\ orders \subseteq orders' /\ answered \subseteq answered'
<1>1. ASSUME NEW q \in Requests, CompleteCreate(q)
      PROVE  placed \subseteq placed' /\ orders \subseteq orders' /\ answered \subseteq answered'
  BY <1>1 DEF CompleteCreate, Answer
<1>2. ASSUME NEW q \in Requests, Replay(q)
      PROVE  placed \subseteq placed' /\ orders \subseteq orders' /\ answered \subseteq answered'
  BY <1>2 DEF Replay, Answer
<1>3. ASSUME NEW q \in Requests, NEW order \in OrderIDs, ProviderAccepts(q, order)
      PROVE  placed \subseteq placed' /\ orders \subseteq orders' /\ answered \subseteq answered'
  BY <1>3 DEF ProviderAccepts
<1> QED
  BY <1>1, <1>2, <1>3
  DEF Next, Create, Reserve, ReserveLoses, Conflict, ProviderFails, FailCreate,
      CompleteRefused, Abort, vars

\* Only CompleteCreate stores an order.
LEMMA StoredStep ==
    ASSUME IInv, [Next]_vars
    PROVE  StoredOK'
<1> USE DEF IInv
<1>1. ASSUME NEW q \in Requests, CompleteCreate(q)
      PROVE  StoredOK'
  <2> DEFINE key == reqs[q].key
             cmd == reqs[q].cmd
             order == reqs[q].order
  <2>1. key \in Keys /\ cmd \in Commands /\ order \in OrderIDs /\ reqs[q].pc \in Owning
    BY <1>1, RequestFields DEF CompleteCreate, Owning
  <2>2. Placed(key, cmd, order) \in placed /\ placed' = placed
    BY <1>1 DEF CompleteCreate, PlacedOK
  <2>3. \A k \in Keys : operations'[k] =
          IF k = key THEN Operation(cmd, "completed", order) ELSE operations[k]
    BY <1>1 DEF CompleteCreate, TypeOK
  <2>4. orders' = orders \cup {OrderRow(cmd, order)} /\ Insertable(OrderRow(cmd, order))
    BY <1>1 DEF CompleteCreate
  <2>5. answered' \subseteq answered \cup {Placed(key, cmd, order)}
    BY <1>1 DEF CompleteCreate, Answer
  <2>6. operations[key].status = "processing"
    BY <2>1, OperationFields DEF OwnersOK
  <2>7. \A k \in Keys : operations'[k].status = "completed" =>
          /\ Placed(k, operations'[k].cmd, operations'[k].order) \in placed'
          /\ OrderRow(operations'[k].cmd, operations'[k].order) \in orders'
    BY <2>2, <2>3, <2>4 DEF Operation, StoredOK
  <2>8. \A row \in orders' : \E o \in placed' :
          row = OrderRow(o.cmd, o.order) /\ operations'[o.key].status = "completed"
    <3>1. CASE orders' = orders
      BY <3>1, <2>1, <2>2, <2>3, <2>4 DEF Operation, Placed, StoredOK, TypeOK
    <3>2. ASSUME NEW row \in orders
          PROVE  \E o \in placed' :
                   row = OrderRow(o.cmd, o.order) /\ operations'[o.key].status = "completed"
      BY <2>2, <2>3 DEF Operation, StoredOK, TypeOK
    <3>3. /\ OrderRow(cmd, order) = OrderRow(Placed(key, cmd, order).cmd, Placed(key, cmd, order).order)
          /\ operations'[Placed(key, cmd, order).key].status = "completed"
      BY <2>1, <2>3 DEF Placed, Operation
    <3> QED  BY <3>2, <3>3, <2>2, <2>4
  <2>9. \A r, s \in orders' : r.transaction = s.transaction => r = s
    BY <2>4 DEF Insertable, StoredOK
  <2>10. \A a \in answered' : operations'[a.key] = Operation(a.cmd, "completed", a.order)
    <3>1. ASSUME NEW a \in answered
          PROVE  operations'[a.key] = Operation(a.cmd, "completed", a.order)
      BY <2>3, <2>6, OperationFields DEF StoredOK, TypeOK
    <3>2. operations'[Placed(key, cmd, order).key]
            = Operation(Placed(key, cmd, order).cmd, "completed", Placed(key, cmd, order).order)
      BY <2>1, <2>3 DEF Placed
    <3> QED  BY <3>1, <3>2, <2>5
  <2> QED  BY <2>7, <2>8, <2>9, <2>10 DEF StoredOK
<1>2. ASSUME NEW q \in Requests, Replay(q)
      PROVE  StoredOK'
  <2>1. reqs[q].key \in Keys
    BY <1>2, RequestFields DEF Replay
  <2>2. operations[reqs[q].key] =
          Operation(reqs[q].cmd, "completed", operations[reqs[q].key].order)
    BY <1>2, <2>1 DEF Replay, SameRequest, Operation, TypeOK
  <2> QED  BY <1>2, <2>2 DEF Replay, Answer, Placed, StoredOK
<1>3. ASSUME orders' = orders, answered' = answered,
             \A k \in Keys : operations'[k].status = "completed" =>
                operations[k] = operations'[k]
      PROVE  StoredOK'
  <2>1. \A k \in Keys : operations[k].status = "completed" => operations'[k] = operations[k]
    BY CompletedStays
  <2>2. \A o \in placed : o \in placed' /\ o.key \in Keys
    BY Grows DEF TypeOK
  <2>3. \A a \in answered : a.key \in Keys
    BY DEF TypeOK
  <2> QED  BY <1>3, <2>1, <2>2, <2>3 DEF Operation, StoredOK
<1>4. CASE UNCHANGED vars
  BY <1>4, <1>3 DEF vars
<1>5. ASSUME NEW q \in Requests, NEW key \in Keys, NEW cmd \in Commands, Reserve(q, key, cmd)
      PROVE  StoredOK'
  BY <1>5, <1>3 DEF Reserve, Operation, TypeOK
<1>6. ASSUME NEW q \in Requests, FailCreate(q)
      PROVE  StoredOK'
  BY <1>6, <1>3 DEF FailCreate, Operation, TypeOK
<1>7. ASSUME NEW q \in Requests, NEW key \in Keys, NEW cmd \in Commands, NEW order \in OrderIDs,
             \/ ReserveLoses(q, key, cmd) \/ Conflict(q) \/ ProviderAccepts(q, order)
             \/ ProviderFails(q) \/ CompleteRefused(q) \/ Abort(q)
      PROVE  StoredOK'
  BY <1>7, <1>3 DEF ReserveLoses, Conflict, ProviderAccepts, ProviderFails, CompleteRefused, Abort
<1> QED
  BY <1>1, <1>2, <1>3, <1>4, <1>5, <1>6, <1>7
  DEF Next, Create, ReserveLoses, Conflict, ProviderAccepts, ProviderFails, CompleteRefused, Abort

-----------------------------------------------------------------------------
\* The inductive invariant holds.
LEMMA Inductive == Spec => []IInv
<1>1. Init => IInv
  BY DEF Init, IInv, TypeOK, OwnersOK, PlacedOK, OneOrderPerKey, StoredOK, Free, NoOperation,
         Operation, Statuses, Owning
<1>2. IInv /\ [Next]_vars => IInv'
  BY TypeStep, OwnersStep, PlacedStep, StoredStep DEF IInv
<1> QED  BY <1>1, <1>2, PTL DEF Spec

\* The types hold of the tables, the handlers and the history.
THEOREM TypeCorrect == Spec => []TypeOK
<1>1. IInv => TypeOK
  BY DEF IInv
<1> QED  BY <1>1, Inductive, PTL

\* However many handlers and retries of a key there are, and wherever they die, the
\* provider is given one order for it at most.
THEOREM OneOrderCorrect == Spec => []OneOrderPerKey
<1>1. IInv => OneOrderPerKey
  BY DEF IInv
<1> QED  BY <1>1, Inductive, PTL

\* An operation is completed exactly when the order made for it has its row.
THEOREM StoredCorrect == Spec => []CompletedIsStored
<1>1. ASSUME IInv
      PROVE  CompletedIsStored
  <2> USE <1>1 DEF IInv
  <2> SUFFICES ASSUME NEW o \in placed
               PROVE  operations[o.key].status = "completed"
                        <=> OrderRow(o.cmd, o.order) \in orders
    BY DEF CompletedIsStored
  <2>1. o.key \in Keys
    BY DEF TypeOK
  <2>2. ASSUME operations[o.key].status = "completed"
        PROVE  OrderRow(o.cmd, o.order) \in orders
    <3>1. o = Placed(o.key, operations[o.key].cmd, operations[o.key].order)
      BY <2>1, <2>2 DEF Placed, StoredOK, OneOrderPerKey
    <3> QED  BY <3>1, <2>1, <2>2 DEF Placed, StoredOK
  <2>3. ASSUME OrderRow(o.cmd, o.order) \in orders
        PROVE  operations[o.key].status = "completed"
    <3>1. PICK p \in placed : /\ OrderRow(o.cmd, o.order) = OrderRow(p.cmd, p.order)
                              /\ operations[p.key].status = "completed"
      BY <2>3 DEF StoredOK
    <3>2. o = p
      BY <3>1 DEF OrderRow, PlacedOK
    <3> QED  BY <3>1, <3>2
  <2> QED  BY <2>2, <2>3
<1> QED  BY <1>1, Inductive, PTL

\* Every answer names the one stored order of its key and of its transaction.
THEOREM AnswersCorrect == Spec => []AnswersAgree
<1>1. ASSUME IInv
      PROVE  AnswersAgree
  <2> USE <1>1 DEF IInv
  <2>1. ASSUME NEW a \in answered
        PROVE  a \in placed /\ OrderRow(a.cmd, a.order) \in orders
    <3>1. a.key \in Keys /\ a = Placed(a.key, a.cmd, a.order)
      BY DEF Placed, TypeOK
    <3>2. /\ operations[a.key].status = "completed"
          /\ operations[a.key].cmd = a.cmd /\ operations[a.key].order = a.order
      BY OperationFields DEF StoredOK
    <3> QED  BY <3>1, <3>2 DEF StoredOK
  <2>2. ASSUME NEW a \in answered, NEW b \in answered, a.key = b.key
        PROVE  a.order = b.order
    BY <2>2, OperationFields DEF StoredOK
  <2>3. ASSUME NEW a \in answered, NEW b \in answered,
               TransactionOf[a.cmd] = TransactionOf[b.cmd]
        PROVE  a.order = b.order
    BY <2>1, <2>3 DEF OrderRow, StoredOK
  <2> QED  BY <2>1, <2>2, <2>3 DEF AnswersAgree
<1> QED  BY <1>1, Inductive, PTL

\* No step touches a completed operation.
THEOREM FinalCorrect == Spec => CompletedIsFinal
<1>1. IInv /\ [Next]_vars =>
        [\A k \in Keys : operations[k].status = "completed" => operations'[k] = operations[k]]_vars
  BY CompletedStays
<1> QED  BY <1>1, Inductive, PTL DEF Spec, CompletedIsFinal
=============================================================================

--------------------------- MODULE CreatePayment ---------------------------
(***************************************************************************)
(* POST /v1/payments: one order at the provider per idempotency key.       *)
(*                                                                         *)
(* Create reserves the key in binancepay_v2_operations, calls the          *)
(* provider, and stores the order and the answer in one transaction.       *)
(* Handlers of one or of many connectors run it concurrently, retries of   *)
(* one command included.  The provider's answer may be lost after it made  *)
(* the order, any store call may fail, a connector may die at any point.   *)
(***************************************************************************)
EXTENDS Naturals, FiniteSets

CONSTANTS
    Keys,           \* Idempotency-Key headers
    Commands,       \* request bodies, told apart by their hash
    Transactions,
    Connections,
    References,     \* merchantTradeNo: the transaction id without its dashes
    OrderIDs,       \* prepayIds, unique within a connection only
    TransactionOf,  \* of a command
    ConnectionOf,   \* of a command
    ReferenceOf,    \* of a transaction
    Requests        \* HTTP handler goroutines (bound on the ones in flight)

ASSUME CommandAssumption ==
    /\ TransactionOf \in [Commands -> Transactions]
    /\ ConnectionOf \in [Commands -> Connections]
    /\ ReferenceOf \in [Transactions -> References]

CONSTANT NoCommand, NoOrder
ASSUME NoneAssumption == NoCommand \notin Commands /\ NoOrder \notin OrderIDs

VARIABLES
    operations,     \* binancepay_v2_operations, by key
    orders,         \* binancepay_v2_orders
    placed,         \* orders made by the provider
    reqs,           \* requests in flight
    answered        \* 201 answers (history)

vars == <<operations, orders, placed, reqs, answered>>

\* response_payload holds the payment, here its order.
Operation(cmd, status, order) == [cmd |-> cmd, status |-> status, order |-> order]
NoOperation == Operation(NoCommand, "absent", NoOrder)

OrderRow(cmd, order) ==
    [order |-> order, transaction |-> TransactionOf[cmd],
     connection |-> ConnectionOf[cmd], reference |-> ReferenceOf[TransactionOf[cmd]]]

Placed(key, cmd, order) == [key |-> key, cmd |-> cmd, order |-> order]

Free == [pc |-> "idle"]
Request(pc, key, cmd, order) == [pc |-> pc, key |-> key, cmd |-> cmd, order |-> order]

Statuses == {"absent", "processing", "completed", "failed"}

TypeOK ==
    /\ operations \in [Keys -> [cmd : Commands \cup {NoCommand}, status : Statuses,
                                order : OrderIDs \cup {NoOrder}]]
    /\ orders \subseteq [order : OrderIDs, transaction : Transactions,
                         connection : Connections, reference : References]
    /\ placed \subseteq [key : Keys, cmd : Commands, order : OrderIDs]
    /\ reqs \in [Requests ->
          {Free} \cup [pc : {"read", "call", "fail"}, key : Keys, cmd : Commands, order : {NoOrder}]
                 \cup [pc : {"store"}, key : Keys, cmd : Commands, order : OrderIDs]]
    /\ answered \subseteq [key : Keys, cmd : Commands, order : OrderIDs]

Init ==
    /\ operations = [k \in Keys |-> NoOperation]
    /\ orders   = {}
    /\ placed   = {}
    /\ reqs     = [q \in Requests |-> Free]
    /\ answered = {}

Become(q, request) == reqs' = [reqs EXCEPT ![q] = request]
Answer(key, cmd, order) == answered' = answered \cup {Placed(key, cmd, order)}

(***************************************************************************)
(* ReserveCreate: the INSERT wins or loses; whoever loses reads the row in *)
(* a second statement.                                                     *)
(***************************************************************************)

\* Mutant: a failed operation may be taken over.
ReserveOrTakeOver(q, key, cmd) ==
    /\ reqs[q] = Free
    /\ operations[key].status \in {"absent", "failed"}
    /\ operations' = [operations EXCEPT ![key] = Operation(cmd, "processing", NoOrder)]
    /\ Become(q, Request("call", key, cmd, NoOrder))
    /\ UNCHANGED <<orders, placed, answered>>

Reserve(q, key, cmd) ==
    /\ reqs[q] = Free
    /\ operations[key] = NoOperation
    /\ operations' = [operations EXCEPT ![key] = Operation(cmd, "processing", NoOrder)]
    /\ Become(q, Request("call", key, cmd, NoOrder))
    /\ UNCHANGED <<orders, placed, answered>>

\* Mutant: the INSERT is an upsert of the request.
ReserveUpserts(q, key, cmd) ==
    /\ reqs[q] = Free
    /\ operations[key] # NoOperation
    /\ operations' = [operations EXCEPT ![key] = Operation(cmd, @.status, @.order)]
    /\ Become(q, Request("read", key, cmd, NoOrder))
    /\ UNCHANGED <<orders, placed, answered>>

ReserveLoses(q, key, cmd) ==
    /\ reqs[q] = Free
    /\ operations[key] # NoOperation
    /\ Become(q, Request("read", key, cmd, NoOrder))
    /\ UNCHANGED <<operations, orders, placed, answered>>

\* Mutant: the hash of the request is not compared.
SameRequestAnyHash(op, cmd) == op.status = "completed"

SameRequest(op, cmd) == op.cmd = cmd /\ op.status = "completed"

\* The stored answer is given again.
Replay(q) ==
    /\ reqs[q].pc = "read"
    /\ SameRequest(operations[reqs[q].key], reqs[q].cmd)
    /\ Answer(reqs[q].key, reqs[q].cmd, operations[reqs[q].key].order)
    /\ Become(q, Free)
    /\ UNCHANGED <<operations, orders, placed>>

\* ErrConflict: another body, or an operation that is not completed.
Conflict(q) ==
    /\ reqs[q].pc = "read"
    /\ ~SameRequest(operations[reqs[q].key], reqs[q].cmd)
    /\ Become(q, Free)
    /\ UNCHANGED <<operations, orders, placed, answered>>

(***************************************************************************)
(* The call.  The provider makes an order or not, and the answer arrives   *)
(* or not.                                                                 *)
(***************************************************************************)
Unused(connection, order) ==
    \A o \in placed : o.order = order => ConnectionOf[o.cmd] # connection

ProviderAccepts(q, order) ==
    /\ reqs[q].pc = "call"
    /\ Unused(ConnectionOf[reqs[q].cmd], order)
    /\ placed' = placed \cup {Placed(reqs[q].key, reqs[q].cmd, order)}
    /\ \/ Become(q, Request("store", reqs[q].key, reqs[q].cmd, order))
       \/ Become(q, Request("fail", reqs[q].key, reqs[q].cmd, NoOrder))
    /\ UNCHANGED <<operations, orders, answered>>

ProviderFails(q) ==
    /\ reqs[q].pc = "call"
    /\ Become(q, Request("fail", reqs[q].key, reqs[q].cmd, NoOrder))
    /\ UNCHANGED <<operations, orders, placed, answered>>

FailCreate(q) ==
    /\ reqs[q].pc = "fail"
    /\ operations' = [operations EXCEPT ![reqs[q].key] = Operation(@.cmd, "failed", @.order)]
    /\ Become(q, Free)
    /\ UNCHANGED <<orders, placed, answered>>

(***************************************************************************)
(* CompleteCreate: one transaction inserts the row and completes the       *)
(* operation.                                                              *)
(***************************************************************************)

\* PRIMARY KEY and UNIQUE constraints of binancepay_v2_orders
Insertable(row) ==
    \A r \in orders :
        /\ r.transaction # row.transaction
        /\ r.connection = row.connection =>
              r.order # row.order /\ r.reference # row.reference

\* Mutant: the two statements are committed one by one.
CompleteInTwoSteps(q) ==
    /\ reqs[q].pc = "store"
    /\ LET key == reqs[q].key
           cmd == reqs[q].cmd
           order == reqs[q].order
       IN  /\ Insertable(OrderRow(cmd, order))
           /\ orders' = orders \cup {OrderRow(cmd, order)}
           /\ \/ UNCHANGED <<operations, answered>>
              \/ /\ operations' = [operations EXCEPT ![key] = Operation(cmd, "completed", order)]
                 /\ Answer(key, cmd, order)
    /\ Become(q, Free)
    /\ UNCHANGED placed

\* The answer may be lost: the commit's result, or the caller, is gone.
CompleteCreate(q) ==
    /\ reqs[q].pc = "store"
    /\ LET key == reqs[q].key
           cmd == reqs[q].cmd
           order == reqs[q].order
       IN  /\ Insertable(OrderRow(cmd, order))
           /\ orders' = orders \cup {OrderRow(cmd, order)}
           /\ operations' = [operations EXCEPT ![key] = Operation(cmd, "completed", order)]
           /\ Answer(key, cmd, order) \/ UNCHANGED answered
    /\ Become(q, Free)
    /\ UNCHANGED placed

\* A constraint fails: rolled back, and the operation stays "processing".
CompleteRefused(q) ==
    /\ reqs[q].pc = "store"
    /\ ~Insertable(OrderRow(reqs[q].cmd, reqs[q].order))
    /\ Become(q, Free)
    /\ UNCHANGED <<operations, orders, placed, answered>>

\* A handler ends before its next effect: a store call failed (the error of
\* FailCreate is dropped), or the connector died.
Abort(q) ==
    /\ reqs[q] # Free
    /\ Become(q, Free)
    /\ UNCHANGED <<operations, orders, placed, answered>>

Create(q) ==
    \/ \E key \in Keys, cmd \in Commands : Reserve(q, key, cmd) \/ ReserveLoses(q, key, cmd)
    \/ Replay(q) \/ Conflict(q)
    \/ \E order \in OrderIDs : ProviderAccepts(q, order)
    \/ ProviderFails(q) \/ FailCreate(q)
    \/ CompleteCreate(q) \/ CompleteRefused(q)
    \/ Abort(q)

Next == \E q \in Requests : Create(q)

Spec == Init /\ [][Next]_vars

-----------------------------------------------------------------------------
\* However requests of one key race, retry or die, the provider is given one order
\* for it at most: nobody can pay twice.
OneOrderPerKey == \A o, p \in placed : o.key = p.key => o = p

\* The row and the answer of an operation are stored together: an operation is
\* completed with an order of its own key exactly when that order has its row.
CompletedIsStored ==
    \A o \in placed :
        operations[o.key].status = "completed"
            <=> OrderRow(o.cmd, o.order) \in orders

\* Every 201 names an order that is stored and was made for that very body; a
\* retry is never given another one, and no other key is answered with a second
\* order for the same transaction.
AnswersAgree ==
    \A a \in answered :
        /\ a \in placed
        /\ OrderRow(a.cmd, a.order) \in orders
        /\ \A b \in answered :
              a.key = b.key \/ TransactionOf[a.cmd] = TransactionOf[b.cmd]
                  => a.order = b.order

\* A completed operation is never touched again: what a retry is answered with does
\* not depend on when it comes, and no late FailCreate spoils it.
CompletedIsFinal ==
    [][\A k \in Keys : operations[k].status = "completed"
                           => operations'[k] = operations[k]]_vars
=============================================================================

------------------------------- MODULE Refund -------------------------------
(***************************************************************************)
(* POST /v1/payments/{id}/refunds and GET /v1/refunds/{id}.                *)
(*                                                                         *)
(* Like a payment, a refund is reserved, asked of the provider, and        *)
(* completed or failed.  Unlike it, the reservation is the refund's own    *)
(* row, which has three unique keys: refund_id, refund_request_id and      *)
(* idempotency_key.  A handler whose INSERT gave way to another row, and   *)
(* that finds none under its own key, goes on as if it had reserved.       *)
(*                                                                         *)
(* All refunds are of one connection, so that FindRefund's condition on it *)
(* always holds.                                                           *)
(***************************************************************************)
EXTENDS Naturals, FiniteSets

CONSTANTS
    Keys,           \* Idempotency-Key headers
    Commands,       \* request bodies, told apart by their hash
    Refunds,        \* refund_id
    RequestIDs,     \* refundRequestId: the refund id without its dashes; it stands
                    \* for the id the provider gives to that refund as well
    RefundOf,       \* of a command
    RequestOf,      \* of a refund
    Sent,           \* pairs <<key, command>> the clients send
    Requests        \* HTTP handler goroutines (bound on the ones in flight)

ASSUME RefundAssumption ==
    /\ RefundOf \in [Commands -> Refunds]
    /\ RequestOf \in [Refunds -> RequestIDs]
    /\ Sent \subseteq Keys \X Commands
    /\ Refunds \cap RequestIDs = {}

VARIABLES
    refunds,    \* binancepay_v2_refunds, by refund_id
    provider,   \* status of a refund at the provider
    reqs,       \* requests in flight
    answered    \* 201 answers (history)

vars == <<refunds, provider, reqs, answered>>

Asked(cmd) == RequestOf[RefundOf[cmd]]

\* REFUNDING stands for every status the code does not name.
NormalizeRefundStatus(raw) ==
    CASE raw = "REFUNDED" -> "confirmed" [] raw = "FAILED" -> "failed" [] OTHER -> "pending"

Normalized == {"pending", "confirmed", "failed"}
RawStatuses == {"REFUNDING", "REFUNDED", "FAILED"}

\* A present row has the key and the command of its INSERT, the refundRequestId
\* of provider_data, and the answer of response_payload, if any.
NoRow == [status |-> "absent"]
NoAnswer == [status |-> "none"]
Answer(cmd, status) == [refund |-> RefundOf[cmd], status |-> status]
Answers == [refund : Refunds, status : Normalized]
Rows == [status : Normalized \cup {"processing"}, key : Keys, cmd : Commands,
         request : RequestIDs, answer : {NoAnswer} \cup Answers]

Free == [pc |-> "idle"]

Request(pc, key, cmd) == [pc |-> pc, key |-> key, cmd |-> cmd]
Storing(key, cmd, status) == [pc |-> "store", key |-> key, cmd |-> cmd, status |-> status]

TypeOK ==
    /\ refunds \in [Refunds -> {NoRow} \cup Rows]
    /\ provider \in [RequestIDs -> RawStatuses \cup {"none"}]
    /\ reqs \in [Requests ->
          {Free} \cup [pc : {"read", "call", "fail"}, key : Keys, cmd : Commands]
                 \cup [pc : {"store"}, key : Keys, cmd : Commands, status : Normalized]]
    /\ answered \subseteq [key : Keys, cmd : Commands, answer : Answers]

Init ==
    /\ refunds  = [r \in Refunds |-> NoRow]
    /\ provider = [i \in RequestIDs |-> "none"]
    /\ reqs     = [q \in Requests |-> Free]
    /\ answered = {}

Become(q, request) == reqs' = [reqs EXCEPT ![q] = request]
Tell(q, answer) ==
    answered' = answered \cup {[key |-> reqs[q].key, cmd |-> reqs[q].cmd, answer |-> answer]}

Present == {r \in Refunds : refunds[r].status # "absent"}
Under(key) == {r \in Present : refunds[r].key = key}

(***************************************************************************)
(* ReserveRefund: an INSERT, and a SELECT when it gave way.                *)
(***************************************************************************)
Taken(key, cmd) == \E r \in Present : RequestOf[r] = Asked(cmd) \/ refunds[r].key = key

Reserve(q, key, cmd) ==
    /\ reqs[q] = Free
    /\ ~Taken(key, cmd)
    /\ refunds' = [refunds EXCEPT ![RefundOf[cmd]] =
          [status |-> "processing", key |-> key, cmd |-> cmd,
           request |-> Asked(cmd), answer |-> NoAnswer]]
    /\ Become(q, Request("call", key, cmd))
    /\ UNCHANGED <<provider, answered>>

ReserveGivesWay(q, key, cmd) ==
    /\ reqs[q] = Free
    /\ Taken(key, cmd)
    /\ Become(q, Request("read", key, cmd))
    /\ UNCHANGED <<refunds, provider, answered>>

\* No row under the key: nil, which the caller takes for a reservation.
Unreserved(q) ==
    /\ reqs[q].pc = "read"
    /\ Under(reqs[q].key) = {}
    /\ Become(q, Request("call", reqs[q].key, reqs[q].cmd))
    /\ UNCHANGED <<refunds, provider, answered>>

Replayable(row, cmd) == row.cmd = cmd /\ row.status # "processing" /\ row.answer # NoAnswer

Replay(q) ==
    /\ reqs[q].pc = "read"
    /\ \E r \in Under(reqs[q].key) :
          /\ Replayable(refunds[r], reqs[q].cmd)
          /\ Tell(q, refunds[r].answer)
    /\ Become(q, Free)
    /\ UNCHANGED <<refunds, provider>>

\* ErrConflict.
Conflict(q) ==
    /\ reqs[q].pc = "read"
    /\ \E r \in Under(reqs[q].key) : ~Replayable(refunds[r], reqs[q].cmd)
    /\ Become(q, Free)
    /\ UNCHANGED <<refunds, provider, answered>>

(***************************************************************************)
(* RefundOrder.  The provider makes one refund per refundRequestId; its    *)
(* answer may be lost.                                                     *)
(***************************************************************************)
ProviderRefunds(q, raw) ==
    /\ reqs[q].pc = "call"
    /\ LET key == reqs[q].key
           cmd == reqs[q].cmd
       IN  /\ raw = provider[Asked(cmd)] \/ provider[Asked(cmd)] = "none"
           /\ provider' = [provider EXCEPT ![Asked(cmd)] = raw]
           /\ \/ Become(q, Storing(key, cmd, NormalizeRefundStatus(raw)))
              \/ Become(q, Request("fail", key, cmd))
    /\ UNCHANGED <<refunds, answered>>

CallFails(q) ==
    /\ reqs[q].pc = "call"
    /\ Become(q, Request("fail", reqs[q].key, reqs[q].cmd))
    /\ UNCHANGED <<refunds, provider, answered>>

ProviderSettles(i) ==
    /\ provider[i] = "REFUNDING"
    /\ \E raw \in {"REFUNDED", "FAILED"} : provider' = [provider EXCEPT ![i] = raw]
    /\ UNCHANGED <<refunds, reqs, answered>>

(***************************************************************************)
(* FailRefund and CompleteRefund address the row by idempotency_key.       *)
(***************************************************************************)
\* Mutants: the row is deleted; it is looked up by refund_id.
FailRefundDeletes(q) ==
    /\ reqs[q].pc = "fail"
    /\ refunds' = [r \in Refunds |-> IF r \in Under(reqs[q].key) THEN NoRow ELSE refunds[r]]
    /\ Become(q, Free)
    /\ UNCHANGED <<provider, answered>>
FailRefundByID(q) ==
    /\ reqs[q].pc = "fail"
    /\ refunds' = [refunds EXCEPT ![RefundOf[reqs[q].cmd]] = IF @.status = "absent" THEN @
                                      ELSE [@ EXCEPT !.status = "failed"]]
    /\ Become(q, Free)
    /\ UNCHANGED <<provider, answered>>

FailRefund(q) ==
    /\ reqs[q].pc = "fail"
    /\ refunds' = [r \in Refunds |-> IF r \in Under(reqs[q].key)
                      THEN [refunds[r] EXCEPT !.status = "failed"] ELSE refunds[r]]
    /\ Become(q, Free)
    /\ UNCHANGED <<provider, answered>>

Completed(row, cmd, status) ==
    [row EXCEPT !.status = status, !.request = Asked(cmd), !.answer = Answer(cmd, status)]

\* Stores into rows; the 201 may be lost.  No row is ErrNotFound: nothing to tell.
CompleteIn(q, rows) ==
    /\ reqs[q].pc = "store"
    /\ LET cmd == reqs[q].cmd
       IN  /\ refunds' = [r \in Refunds |-> IF r \in rows
                             THEN Completed(refunds[r], cmd, reqs[q].status) ELSE refunds[r]]
           /\ \/ rows # {} /\ Tell(q, Answer(cmd, reqs[q].status))
              \/ UNCHANGED answered
    /\ Become(q, Free)
    /\ UNCHANGED provider

\* Mutant: RowsAffected is not looked at.
CompleteUnchecked(q) ==
    \/ CompleteIn(q, Under(reqs[q].key))
    \/ /\ reqs[q].pc = "store"
       /\ Under(reqs[q].key) = {}
       /\ Tell(q, Answer(reqs[q].cmd, reqs[q].status))
       /\ Become(q, Free)
       /\ UNCHANGED <<refunds, provider>>

CompleteRefund(q) == CompleteIn(q, Under(reqs[q].key))

\* A handler ends before its next effect: a store call failed (the error of
\* FailRefund is dropped), or the connector died.
Abort(q) ==
    /\ reqs[q] # Free
    /\ Become(q, Free)
    /\ UNCHANGED <<refunds, provider, answered>>

(***************************************************************************)
(* GET changes nothing.  These are the statuses it may answer when it is   *)
(* asked for a refund_id or a provider_refund_id: FindRefund and           *)
(* QueryRefund are one step, as of the row the answer needs only the       *)
(* refundRequestId.  A row has a provider_refund_id once it has an answer; *)
(* of several rows that have the id any may be returned.                   *)
(***************************************************************************)
Found(id) ==
    {r \in Present : id = r \/ (refunds[r].answer # NoAnswer /\ id = refunds[r].request)}

\* Mutant: a status stored as final is not asked for again.
GetRefundFromRow(id) == {refunds[r].status : r \in Found(id)} \cap Normalized

GetRefund(id) ==
    LET raws == {provider[refunds[r].request] : r \in Found(id)} \ {"none"}
    IN  {NormalizeRefundStatus(raw) : raw \in raws}

CreateRefund(q) ==
    \/ \E s \in Sent : Reserve(q, s[1], s[2]) \/ ReserveGivesWay(q, s[1], s[2])
    \/ Unreserved(q) \/ Replay(q) \/ Conflict(q)
    \/ \E raw \in RawStatuses : ProviderRefunds(q, raw)
    \/ CallFails(q) \/ FailRefund(q) \/ CompleteRefund(q) \/ Abort(q)

Next ==
    \/ \E q \in Requests : CreateRefund(q)
    \/ \E i \in RequestIDs : ProviderSettles(i)

Spec == Init /\ [][Next]_vars

-----------------------------------------------------------------------------
\* What a client owes: the key is used for one refund, with any number of bodies.
\* The code does not enforce it: an UPDATE by a shared key may overwrite the row of
\* another refund, its provider_data included.
Belongs(key) ==
    \A s, t \in Sent : s[1] = key /\ t[1] = key => RefundOf[s[2]] = RefundOf[t[2]]

\* No money is given back that no row knows of, whatever keys the clients use and
\* whatever dies or gets lost: every refund the provider has made has the row of its
\* refundRequestId.  If the key of that row is used for one refund, GET by its
\* refund_id still asks the provider for this refund; under a shared key the row may
\* have been overwritten, and GET then asks for the other one.
RefundsAreKnown ==
    \A i \in RequestIDs : provider[i] # "none" =>
        \E r \in Present :
            /\ RequestOf[r] = i
            /\ Belongs(refunds[r].key) => refunds[r].request = i

Agrees(status, raw) ==
    (status = "confirmed" => raw = "REFUNDED") /\ (status = "failed" => raw = "FAILED")

\* Every 201 under a key of one refund is the answer stored in the row of the refund
\* asked for, under the key and for the body it was asked with, and the provider's
\* outcome agrees, whatever clients with shared keys do: a handler that reserved
\* nothing answers nothing.
AnswersAreStored ==
    \A a \in answered : Belongs(a.key) =>
        LET row == refunds[RefundOf[a.cmd]]
        IN  /\ RefundOf[a.cmd] \in Present
            /\ row.key = a.key /\ row.cmd = a.cmd /\ row.answer = a.answer
            /\ Agrees(a.answer.status, provider[Asked(a.cmd)])

\* A lost answer leaves a row "failed" that the provider has refunded; GET still
\* tells the outcome: a refund it calls failed or confirmed is so at the provider.
\* A refund_id stands for the refund asked for with it, if the key of its row is used
\* for one refund; a provider_refund_id for the refund the provider gave it to.
GetTellsOutcome ==
    /\ \A r \in Present : Belongs(refunds[r].key) =>
          \A status \in GetRefund(r) : Agrees(status, provider[RequestOf[r]])
    /\ \A i \in RequestIDs : \A status \in GetRefund(i) : Agrees(status, provider[i])

\* A refund that is completed or failed under a key of one refund is never touched
\* again, least of all by a handler that took another's reservation for its own.
SettledIsFinal ==
    [][\A r \in Present :
          refunds[r].status # "processing" /\ Belongs(refunds[r].key) => refunds'[r] = refunds[r]]_vars
=============================================================================

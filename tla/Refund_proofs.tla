---------------------------- MODULE Refund_proofs ----------------------------
(***************************************************************************)
(* Proofs of the safety properties of Refund, for any number of refunds,   *)
(* keys, commands and handlers.                                            *)
(*                                                                         *)
(* The argument: rows are never deleted, so a refundRequestId that is      *)
(* taken stays taken.  Under a key that belongs to one refund, a handler   *)
(* that reserved owns the row until it ends it, and one that did not       *)
(* reserve will never find a row.  A row is written by its key alone, so   *)
(* that what happens under shared keys does not matter.                    *)
(***************************************************************************)
EXTENDS Refund, TLAPS

Working == {"call", "fail", "store"}

RequestTaken(cmd) == \E r \in Present : RequestOf[r] = Asked(cmd)

RequestsTaken ==
    \A i \in RequestIDs : provider[i] # "none" => \E r \in Present : RequestOf[r] = i

\* What keys have no part in.
KInv ==
    /\ TypeOK
    /\ RequestsTaken
    /\ \A q \in Requests : reqs[q].pc = "read" => Taken(reqs[q].key, reqs[q].cmd)
    /\ \A q \in Requests : reqs[q].pc \in Working => RequestTaken(reqs[q].cmd)

\* Every row is of its own refund; the answer stored under a key of one refund is the
\* one this refund has come to.
RowOK(r, row) ==
    /\ <<row.key, row.cmd>> \in Sent /\ RefundOf[row.cmd] = r
    /\ row.status = "processing" => row.answer = NoAnswer

AnswerOK(r, row, raw) ==
    /\ row.request = RequestOf[r]
    /\ row.answer # NoAnswer => row.answer.refund = r /\ Agrees(row.answer.status, raw)

RowsOK ==
    \A r \in Present :
        /\ RowOK(r, refunds[r])
        /\ Belongs(refunds[r].key) => AnswerOK(r, refunds[r], provider[RequestOf[r]])

\* The row under the key of a working handler is the handler's alone.
HandlersOK ==
    /\ \A q \in Requests : reqs[q].pc # "idle" => <<reqs[q].key, reqs[q].cmd>> \in Sent
    /\ \A q \in Requests : reqs[q].pc = "store" => Agrees(reqs[q].status, provider[Asked(reqs[q].cmd)])
    /\ \A q \in Requests : reqs[q].pc \in Working /\ Belongs(reqs[q].key) =>
          \A r \in Under(reqs[q].key) :
              refunds[r].status = "processing" /\ refunds[r].cmd = reqs[q].cmd
    /\ \A p, q \in Requests :
          reqs[p].pc \in Working /\ reqs[q].pc \in Working /\ reqs[p].key = reqs[q].key
          /\ Belongs(reqs[q].key) /\ Under(reqs[q].key) # {} => p = q

IInv == KInv /\ RowsOK /\ HandlersOK /\ AnswersAreStored

-----------------------------------------------------------------------------
\* The request of a busy handler.
LEMMA RequestFields ==
    ASSUME TypeOK, NEW q \in Requests, reqs[q].pc # "idle"
    PROVE  /\ reqs[q].key \in Keys /\ reqs[q].cmd \in Commands
           /\ reqs[q].pc \in {"read", "call", "fail", "store"}
           /\ reqs[q].pc = "store" => reqs[q].status \in Normalized
  BY DEF TypeOK, Free

\* The fields of a row that is there.
LEMMA RowFields ==
    ASSUME TypeOK, NEW r \in Present
    PROVE  refunds[r] \in Rows
  BY DEF TypeOK, Present, NoRow

\* Every step keeps the types.
LEMMA TypeStep ==
    ASSUME TypeOK, [Next]_vars
    PROVE  TypeOK'
<1>1. CASE UNCHANGED vars
  BY <1>1 DEF vars, TypeOK
<1>2. ASSUME NEW q \in Requests, NEW s \in Sent,
             Reserve(q, s[1], s[2]) \/ ReserveGivesWay(q, s[1], s[2])
      PROVE  TypeOK'
  <2>1. s[1] \in Keys /\ s[2] \in Commands
    BY RefundAssumption
  <2>2. RefundOf[s[2]] \in Refunds /\ Asked(s[2]) \in RequestIDs
    BY <2>1, RefundAssumption DEF Asked
  <2> QED  BY <1>2, <2>1, <2>2 DEF Reserve, ReserveGivesWay, Become, Request, Rows, TypeOK
<1>3. ASSUME NEW q \in Requests, Unreserved(q) \/ Conflict(q) \/ CallFails(q) \/ Abort(q)
      PROVE  TypeOK'
  <2>1. reqs[q].pc # "idle"
    BY <1>3 DEF Unreserved, Conflict, CallFails, Abort, TypeOK, Free
  <2> QED  BY <1>3, <2>1, RequestFields
           DEF Unreserved, Conflict, CallFails, Abort, Become, Request, Free, TypeOK
<1>4. ASSUME NEW q \in Requests, Replay(q)
      PROVE  TypeOK'
  <2>1. reqs[q].key \in Keys /\ reqs[q].cmd \in Commands
    BY <1>4, RequestFields DEF Replay
  <2>2. PICK r \in Under(reqs[q].key) : refunds[r].answer # NoAnswer /\ Tell(q, refunds[r].answer)
    BY <1>4 DEF Replay, Replayable
  <2>3. refunds[r].answer \in Answers
    BY <2>2, RowFields DEF Under, Rows
  <2> QED  BY <1>4, <2>1, <2>2, <2>3 DEF Replay, Tell, Become, Free, TypeOK
<1>5. ASSUME NEW q \in Requests, NEW raw \in RawStatuses, ProviderRefunds(q, raw)
      PROVE  TypeOK'
  <2>1. reqs[q].key \in Keys /\ reqs[q].cmd \in Commands
    BY <1>5, RequestFields DEF ProviderRefunds
  <2>2. NormalizeRefundStatus(raw) \in Normalized
    BY DEF NormalizeRefundStatus, Normalized
  <2>3. provider' \in [RequestIDs -> RawStatuses \cup {"none"}]
    BY <1>5 DEF ProviderRefunds, TypeOK
  <2>4. reqs' = [reqs EXCEPT ![q] = Storing(reqs[q].key, reqs[q].cmd, NormalizeRefundStatus(raw))]
        \/ reqs' = [reqs EXCEPT ![q] = Request("fail", reqs[q].key, reqs[q].cmd)]
    BY <1>5 DEF ProviderRefunds, Become
  <2> QED  BY <1>5, <2>1, <2>2, <2>3, <2>4 DEF ProviderRefunds, Request, Storing, TypeOK
<1>6. ASSUME NEW q \in Requests, FailRefund(q)
      PROVE  TypeOK'
  <2>1. \A r \in Under(reqs[q].key) : [refunds[r] EXCEPT !.status = "failed"] \in Rows
    BY RowFields DEF Under, Rows, Normalized
  <2> QED  BY <1>6, <2>1 DEF FailRefund, Become, Free, TypeOK
<1>7. ASSUME NEW q \in Requests, CompleteRefund(q)
      PROVE  TypeOK'
  <2>1. reqs[q].key \in Keys /\ reqs[q].cmd \in Commands /\ reqs[q].status \in Normalized
    BY <1>7, RequestFields DEF CompleteRefund, CompleteIn
  <2>2. /\ RefundOf[reqs[q].cmd] \in Refunds /\ Asked(reqs[q].cmd) \in RequestIDs
        /\ Answer(reqs[q].cmd, reqs[q].status) \in Answers
    BY <2>1, RefundAssumption DEF Asked, Answer, Answers
  <2>3. \A r \in Under(reqs[q].key) :
           Completed(refunds[r], reqs[q].cmd, reqs[q].status) \in Rows
    BY <2>1, <2>2, RowFields DEF Under, Rows, Completed
  <2> QED  BY <1>7, <2>1, <2>2, <2>3
           DEF CompleteRefund, CompleteIn, Tell, Become, Free, TypeOK
<1>8. ASSUME NEW i \in RequestIDs, ProviderSettles(i)
      PROVE  TypeOK'
  BY <1>8 DEF ProviderSettles, RawStatuses, TypeOK
<1> QED  BY <1>1, <1>2, <1>3, <1>4, <1>5, <1>6, <1>7, <1>8 DEF Next, CreateRefund

\* Rows are never deleted and keep the key and the command of their INSERT.
LEMMA RowStep ==
    ASSUME TypeOK, [Next]_vars, NEW r \in Present
    PROVE  r \in Present' /\ refunds'[r].key = refunds[r].key /\ refunds'[r].cmd = refunds[r].cmd
<1> refunds[r] \in Rows /\ r \in Refunds
  BY RowFields DEF Present
<1>1. CASE UNCHANGED refunds
  BY <1>1 DEF Present
<1>2. ASSUME NEW q \in Requests, NEW s \in Sent, Reserve(q, s[1], s[2])
      PROVE  refunds'[r] = refunds[r]
  BY <1>2 DEF Reserve, Taken, Asked
<1>3. ASSUME NEW q \in Requests, FailRefund(q)
      PROVE  refunds'[r] = refunds[r] \/ refunds'[r] = [refunds[r] EXCEPT !.status = "failed"]
  BY <1>3 DEF FailRefund
<1>4. ASSUME NEW q \in Requests, CompleteRefund(q)
      PROVE  refunds'[r] = refunds[r]
             \/ /\ refunds'[r] = Completed(refunds[r], reqs[q].cmd, reqs[q].status)
                /\ reqs[q].status \in Normalized
  <2>1. reqs[q].status \in Normalized
    BY <1>4, RequestFields DEF CompleteRefund, CompleteIn
  <2> QED  BY <1>4, <2>1 DEF CompleteRefund, CompleteIn
<1>5. \/ UNCHANGED refunds
      \/ \E q \in Requests : (\E s \in Sent : Reserve(q, s[1], s[2]))
                               \/ FailRefund(q) \/ CompleteRefund(q)
  BY DEF Next, CreateRefund, ReserveGivesWay, Unreserved, Replay, Conflict, ProviderRefunds,
         CallFails, Abort, ProviderSettles, vars
<1> QED  BY <1>1, <1>2, <1>3, <1>4, <1>5 DEF Present, Rows, Completed, Normalized

\* What a step makes of a handler: it starts, reserving or giving way; it goes on with
\* the same request; or it ends.
LEMMA HandlerStep ==
    ASSUME TypeOK, [Next]_vars, NEW q \in Requests, reqs'[q].pc # "idle"
    PROVE  \/ reqs'[q] = reqs[q]
           \/ \E s \in Sent : /\ reqs[q] = Free
                              /\ \/ Reserve(q, s[1], s[2]) /\ reqs'[q] = Request("call", s[1], s[2])
                                 \/ ReserveGivesWay(q, s[1], s[2])
                                    /\ reqs'[q] = Request("read", s[1], s[2])
           \/ /\ reqs'[q].key = reqs[q].key /\ reqs'[q].cmd = reqs[q].cmd
              /\ \/ Unreserved(q) /\ reqs'[q].pc = "call"
                 \/ CallFails(q) /\ reqs'[q].pc = "fail"
                 \/ \E raw \in RawStatuses :
                       /\ ProviderRefunds(q, raw)
                       /\ \/ reqs'[q].pc = "fail"
                          \/ /\ reqs'[q].pc = "store"
                             /\ reqs'[q].status = NormalizeRefundStatus(raw)
<1>1. CASE \E p \in Requests : p # q /\ CreateRefund(p)
  BY <1>1 DEF CreateRefund, Reserve, ReserveGivesWay, Unreserved, Replay, Conflict,
              ProviderRefunds, CallFails, FailRefund, CompleteRefund, CompleteIn, Abort, Become, TypeOK
<1>2. CASE Replay(q) \/ Conflict(q) \/ FailRefund(q) \/ CompleteRefund(q) \/ Abort(q)
  BY <1>2 DEF Replay, Conflict, FailRefund, CompleteRefund, CompleteIn, Abort, Become, Free, TypeOK
<1>3. ASSUME NEW s \in Sent, Reserve(q, s[1], s[2]) \/ ReserveGivesWay(q, s[1], s[2])
      PROVE  /\ reqs[q] = Free
             /\ \/ Reserve(q, s[1], s[2]) /\ reqs'[q] = Request("call", s[1], s[2])
                \/ ReserveGivesWay(q, s[1], s[2]) /\ reqs'[q] = Request("read", s[1], s[2])
  BY <1>3 DEF Reserve, ReserveGivesWay, Become, TypeOK
<1>4. ASSUME Unreserved(q) \/ CallFails(q)
      PROVE  /\ reqs'[q].key = reqs[q].key /\ reqs'[q].cmd = reqs[q].cmd
             /\ \/ Unreserved(q) /\ reqs'[q].pc = "call"
                \/ CallFails(q) /\ reqs'[q].pc = "fail"
  BY <1>4 DEF Unreserved, CallFails, Become, Request, TypeOK
<1>5. ASSUME NEW raw \in RawStatuses, ProviderRefunds(q, raw)
      PROVE  /\ reqs'[q].key = reqs[q].key /\ reqs'[q].cmd = reqs[q].cmd
             /\ \/ reqs'[q].pc = "fail"
                \/ reqs'[q].pc = "store" /\ reqs'[q].status = NormalizeRefundStatus(raw)
  BY <1>5 DEF ProviderRefunds, Become, Request, Storing, TypeOK
<1>6. CASE UNCHANGED reqs
  BY <1>6
<1> QED  BY <1>1, <1>2, <1>3, <1>4, <1>5, <1>6
         DEF Next, CreateRefund, ProviderSettles, vars

\* A refundRequestId, or a key, that is taken stays taken.
LEMMA TakenStays ==
    ASSUME TypeOK, [Next]_vars, NEW key, NEW cmd
    PROVE  /\ Taken(key, cmd) => Taken(key, cmd)'
           /\ RequestTaken(cmd) => RequestTaken(cmd)'
  BY RowStep DEF Taken, RequestTaken

LEMMA KnownStep ==
    ASSUME KInv, [Next]_vars
    PROVE  KInv'
<1> USE DEF KInv
<1>1. TypeOK'
  BY TypeStep
<1>2. ASSUME NEW q \in Requests, reqs'[q].pc = "read"
      PROVE  Taken(reqs[q].key, reqs[q].cmd)'
  <2>1. CASE reqs'[q] = reqs[q]
    BY <1>2, <2>1, TakenStays
  <2>2. ASSUME NEW s \in Sent, ReserveGivesWay(q, s[1], s[2]), reqs'[q] = Request("read", s[1], s[2])
        PROVE  Taken(reqs[q].key, reqs[q].cmd)'
    <3>1. Taken(s[1], s[2])'
      BY <2>2, TakenStays DEF ReserveGivesWay
    <3> QED  BY <2>2, <3>1 DEF Request
  <2>3. reqs'[q].pc # "idle" /\ reqs'[q].pc \notin {"call", "fail", "store"}
    BY <1>2
  <2>4. ASSUME NEW s \in Sent, Reserve(q, s[1], s[2]), reqs'[q] = Request("call", s[1], s[2])
        PROVE  FALSE
    BY <2>3, <2>4 DEF Request
  <2>5. TypeOK /\ reqs'[q].pc # "idle"
    BY <2>3
  <2>6. \/ reqs'[q] = reqs[q]
        \/ \E s \in Sent : \/ Reserve(q, s[1], s[2]) /\ reqs'[q] = Request("call", s[1], s[2])
                           \/ ReserveGivesWay(q, s[1], s[2]) /\ reqs'[q] = Request("read", s[1], s[2])
    BY <2>3, <2>5, HandlerStep
  <2> QED  BY <2>1, <2>2, <2>4, <2>6
<1>3. ASSUME NEW q \in Requests, reqs'[q].pc \in Working
      PROVE  RequestTaken(reqs[q].cmd)'
  <2>1. CASE reqs'[q] = reqs[q]
    BY <1>3, <2>1, TakenStays
  <2>2. ASSUME NEW s \in Sent, Reserve(q, s[1], s[2]), reqs'[q] = Request("call", s[1], s[2])
        PROVE  RequestTaken(s[2])'
    BY <2>2, RefundAssumption DEF Reserve, RequestTaken, Present, Asked, TypeOK
  <2>3. CASE Unreserved(q) /\ reqs'[q].cmd = reqs[q].cmd
    <3>1. RequestTaken(reqs[q].cmd)
      BY <2>3 DEF Unreserved, Taken, Under, RequestTaken
    <3> QED  BY <2>3, <3>1, TakenStays
  <2>4. CASE reqs[q].pc \in Working /\ reqs'[q].cmd = reqs[q].cmd
    BY <2>4, TakenStays
  <2>5. ASSUME NEW s \in Sent, Reserve(q, s[1], s[2]), reqs'[q] = Request("call", s[1], s[2])
        PROVE  RequestTaken(reqs[q].cmd)'
    BY <2>2, <2>5 DEF Request
  <2>6. CallFails(q) \/ (\E raw \in RawStatuses : ProviderRefunds(q, raw)) => reqs[q].pc \in Working
    BY DEF CallFails, ProviderRefunds, Working
  <2>7. TypeOK /\ reqs'[q].pc # "idle" /\ reqs'[q].pc # "read"
    BY <1>3 DEF Working
  <2>8. \/ reqs'[q] = reqs[q]
        \/ \E s \in Sent : \/ Reserve(q, s[1], s[2]) /\ reqs'[q] = Request("call", s[1], s[2])
                           \/ reqs'[q] = Request("read", s[1], s[2])
        \/ /\ reqs'[q].cmd = reqs[q].cmd
           /\ Unreserved(q) \/ CallFails(q) \/ \E raw \in RawStatuses : ProviderRefunds(q, raw)
    BY <2>7, HandlerStep
  <2>9. ASSUME NEW s \in Sent, reqs'[q] = Request("read", s[1], s[2])
        PROVE  FALSE
    BY <2>7, <2>9 DEF Request
  <2> QED  BY <2>1, <2>3, <2>4, <2>5, <2>6, <2>8, <2>9
<1>4. RequestsTaken'
  <2> SUFFICES ASSUME NEW i \in RequestIDs, provider'[i] # "none"
               PROVE  \E r \in Present' : RequestOf[r] = i
    BY DEF RequestsTaken
  <2>1. CASE provider[i] # "none"
    BY <2>1, RowStep DEF RequestsTaken
  <2>2. ASSUME NEW q \in Requests, NEW raw \in RawStatuses, ProviderRefunds(q, raw), provider[i] = "none"
        PROVE  RequestTaken(reqs[q].cmd) /\ Asked(reqs[q].cmd) = i
    BY <2>2 DEF ProviderRefunds, Working, TypeOK
  <2>3. provider[i] # "none" \/ \E q \in Requests, raw \in RawStatuses : ProviderRefunds(q, raw)
    BY DEF Next, CreateRefund, Reserve, ReserveGivesWay, Unreserved, Replay, Conflict, CallFails,
           FailRefund, CompleteRefund, CompleteIn, Abort, ProviderSettles, TypeOK, vars
  <2> QED  BY <2>1, <2>2, <2>3, RowStep DEF RequestTaken
<1> QED  BY <1>1, <1>2, <1>3, <1>4

-----------------------------------------------------------------------------
NewRow(key, cmd) ==
    [status |-> "processing", key |-> key, cmd |-> cmd,
     request |-> Asked(cmd), answer |-> NoAnswer]

\* What a step may have made of a row.
LEMMA RowCases ==
    ASSUME TypeOK, [Next]_vars, NEW r \in Present'
    PROVE  \/ r \in Present /\ refunds'[r] = refunds[r]
           \/ \E q \in Requests, s \in Sent :
                 /\ Reserve(q, s[1], s[2])
                 /\ r = RefundOf[s[2]] /\ refunds'[r] = NewRow(s[1], s[2])
           \/ \E q \in Requests :
                 /\ r \in Under(reqs[q].key)
                 /\ \/ /\ FailRefund(q)
                       /\ refunds'[r] = [refunds[r] EXCEPT !.status = "failed"]
                    \/ /\ CompleteRefund(q)
                       /\ refunds'[r] = Completed(refunds[r], reqs[q].cmd, reqs[q].status)
<1> r \in Refunds
  BY DEF Present
<1>1. CASE UNCHANGED refunds
  BY <1>1 DEF Present
<1>2. ASSUME NEW q \in Requests, NEW s \in Sent, Reserve(q, s[1], s[2])
      PROVE  \/ r \in Present /\ refunds'[r] = refunds[r]
             \/ r = RefundOf[s[2]] /\ refunds'[r] = NewRow(s[1], s[2])
  BY <1>2 DEF Reserve, NewRow, Present, TypeOK
<1>3. ASSUME NEW q \in Requests, FailRefund(q)
      PROVE  \/ r \in Present /\ refunds'[r] = refunds[r]
             \/ /\ r \in Under(reqs[q].key)
                /\ refunds'[r] = [refunds[r] EXCEPT !.status = "failed"]
  BY <1>3 DEF FailRefund, Present
<1>4. ASSUME NEW q \in Requests, CompleteRefund(q)
      PROVE  \/ r \in Present /\ refunds'[r] = refunds[r]
             \/ /\ r \in Under(reqs[q].key)
                /\ refunds'[r] = Completed(refunds[r], reqs[q].cmd, reqs[q].status)
  BY <1>4 DEF CompleteRefund, CompleteIn, Present
<1>5. \/ UNCHANGED refunds
      \/ \E q \in Requests : (\E s \in Sent : Reserve(q, s[1], s[2]))
                               \/ FailRefund(q) \/ CompleteRefund(q)
  BY DEF Next, CreateRefund, ReserveGivesWay, Unreserved, Replay, Conflict, ProviderRefunds,
         CallFails, Abort, ProviderSettles, vars
<1> QED  BY <1>1, <1>2, <1>3, <1>4, <1>5

\* The provider's outcome of a refund is its last status.
LEMMA OutcomeStays ==
    ASSUME TypeOK, [Next]_vars, NEW status, NEW i \in RequestIDs, Agrees(status, provider[i])
    PROVE  Agrees(status, provider'[i])
<1>1. provider[i] \in {"REFUNDED", "FAILED"} => provider'[i] = provider[i]
  <2>1. ASSUME NEW q \in Requests, NEW raw \in RawStatuses, ProviderRefunds(q, raw)
        PROVE  provider[i] \in {"REFUNDED", "FAILED"} => provider'[i] = provider[i]
    BY <2>1 DEF ProviderRefunds, TypeOK
  <2>2. ASSUME NEW j \in RequestIDs, ProviderSettles(j)
        PROVE  provider[i] \in {"REFUNDED", "FAILED"} => provider'[i] = provider[i]
    BY <2>2 DEF ProviderSettles, TypeOK
  <2> QED  BY <2>1, <2>2
           DEF Next, CreateRefund, Reserve, ReserveGivesWay, Unreserved, Replay, Conflict, CallFails,
               FailRefund, CompleteRefund, CompleteIn, Abort, vars
<1> QED  BY <1>1 DEF Agrees

\* The row under a key that belongs to one refund is the row of the refund asked for.
LEMMA OwnRow ==
    ASSUME RowsOK, NEW s \in Sent, Belongs(s[1]), NEW r \in Under(s[1])
    PROVE  r = RefundOf[s[2]]
<1> DEFINE t == <<refunds[r].key, refunds[r].cmd>>
<1>1. t \in Sent /\ RefundOf[refunds[r].cmd] = r /\ refunds[r].key = s[1]
  BY DEF RowsOK, RowOK, Under
<1>2. t[1] = s[1] /\ t[2] = refunds[r].cmd
  BY <1>1
<1> QED  BY <1>1, <1>2 DEF Belongs

LEMMA RowsStep ==
    ASSUME IInv, [Next]_vars
    PROVE  RowsOK'
<1> DEFINE Good(r) ==
        /\ RowOK(r, refunds'[r])
        /\ Belongs(refunds'[r].key) => AnswerOK(r, refunds'[r], provider'[RequestOf[r]])
<1> SUFFICES ASSUME NEW r \in Present'
             PROVE  Good(r)
  BY DEF RowsOK, Belongs
<1>0. TypeOK /\ RowsOK /\ r \in Refunds /\ RequestOf[r] \in RequestIDs
  BY RefundAssumption DEF IInv, KInv, Present
<1>1. CASE r \in Present /\ refunds'[r] = refunds[r]
  BY <1>0, <1>1, OutcomeStays DEF RowsOK, AnswerOK
<1>2. ASSUME NEW q \in Requests, NEW s \in Sent, r = RefundOf[s[2]], refunds'[r] = NewRow(s[1], s[2])
      PROVE  Good(r)
  <2>1. s = <<s[1], s[2]>>
    BY RefundAssumption
  <2> QED  BY <1>2, <2>1 DEF NewRow, Asked, RowOK, AnswerOK
<1>3. ASSUME NEW q \in Requests, r \in Under(reqs[q].key), FailRefund(q),
             refunds'[r] = [refunds[r] EXCEPT !.status = "failed"]
      PROVE  Good(r)
  <2>1. r \in Present /\ provider' = provider
    BY <1>3 DEF FailRefund, Under
  <2>2. refunds[r] \in Rows
    BY <1>0, <2>1, RowFields
  <2>3. /\ RowOK(r, refunds[r])
        /\ Belongs(refunds[r].key) => AnswerOK(r, refunds[r], provider[RequestOf[r]])
    BY <1>0, <2>1 DEF RowsOK
  <2>4. /\ refunds'[r].key = refunds[r].key /\ refunds'[r].cmd = refunds[r].cmd
        /\ refunds'[r].request = refunds[r].request /\ refunds'[r].answer = refunds[r].answer
        /\ refunds'[r].status = "failed"
    BY <1>3, <2>2 DEF Rows
  <2> QED  BY <2>1, <2>3, <2>4 DEF RowOK, AnswerOK
<1>4. ASSUME NEW q \in Requests, r \in Under(reqs[q].key), CompleteRefund(q),
             refunds'[r] = Completed(refunds[r], reqs[q].cmd, reqs[q].status)
      PROVE  Good(r)
  <2> DEFINE s == <<reqs[q].key, reqs[q].cmd>>
  <2>1. reqs[q].pc = "store" /\ reqs[q].status \in Normalized
    BY <1>0, <1>4, RequestFields DEF CompleteRefund, CompleteIn
  <2>2. s \in Sent /\ Agrees(reqs[q].status, provider[Asked(reqs[q].cmd)])
    BY <2>1 DEF IInv, HandlersOK
  <2>3. Belongs(reqs[q].key) => r = RefundOf[reqs[q].cmd] /\ Asked(reqs[q].cmd) = RequestOf[r]
    BY <1>0, <1>4, <2>2, OwnRow DEF Asked
  <2>4. r \in Present /\ refunds[r] \in Rows /\ refunds[r].key = reqs[q].key
    BY <1>0, <1>4, RowFields DEF Under
  <2>5. provider' = provider
    BY <1>4 DEF CompleteRefund, CompleteIn
  <2>6. /\ refunds'[r].answer = Answer(reqs[q].cmd, reqs[q].status)
        /\ refunds'[r].status = reqs[q].status /\ refunds'[r].request = Asked(reqs[q].cmd)
        /\ refunds'[r].key = refunds[r].key /\ refunds'[r].cmd = refunds[r].cmd
    BY <1>4, <2>4 DEF Completed, Rows
  <2>7. RowOK(r, refunds'[r])
    BY <1>0, <2>1, <2>4, <2>6 DEF RowOK, RowsOK, Normalized
  <2>8. Belongs(reqs[q].key) => AnswerOK(r, refunds'[r], provider'[RequestOf[r]])
    BY <2>2, <2>3, <2>5, <2>6 DEF AnswerOK, Answer
  <2> QED  BY <2>4, <2>6, <2>7, <2>8
<1> QED  BY <1>0, <1>1, <1>2, <1>3, <1>4, RowCases

\* A handler that works has worked before, has reserved now, or goes on unreserved.
LEMMA WorkingStep ==
    ASSUME TypeOK, [Next]_vars, NEW q \in Requests, reqs'[q].pc \in Working
    PROVE  \/ reqs[q].pc \in Working /\ reqs'[q].key = reqs[q].key /\ reqs'[q].cmd = reqs[q].cmd
           \/ \E s \in Sent : /\ Reserve(q, s[1], s[2])
                              /\ reqs'[q].key = s[1] /\ reqs'[q].cmd = s[2]
           \/ Unreserved(q) /\ reqs'[q].key = reqs[q].key
<1>1. reqs'[q].pc # "idle" /\ reqs'[q].pc # "read"
  BY DEF Working
<1>2. ASSUME NEW s \in Sent, Reserve(q, s[1], s[2]), reqs'[q] = Request("call", s[1], s[2])
      PROVE  reqs'[q].key = s[1] /\ reqs'[q].cmd = s[2]
  BY <1>2 DEF Request
<1>3. ASSUME NEW s \in Sent, reqs'[q] = Request("read", s[1], s[2])
      PROVE  FALSE
  BY <1>1, <1>3 DEF Request
<1>4. CallFails(q) \/ (\E raw \in RawStatuses : ProviderRefunds(q, raw)) => reqs[q].pc \in Working
  BY DEF CallFails, ProviderRefunds, Working
<1>5. \/ reqs'[q] = reqs[q]
      \/ \E s \in Sent : \/ Reserve(q, s[1], s[2]) /\ reqs'[q] = Request("call", s[1], s[2])
                         \/ reqs'[q] = Request("read", s[1], s[2])
      \/ /\ reqs'[q].key = reqs[q].key /\ reqs'[q].cmd = reqs[q].cmd
         /\ Unreserved(q) \/ CallFails(q) \/ \E raw \in RawStatuses : ProviderRefunds(q, raw)
  BY <1>1, HandlerStep
<1> QED  BY <1>2, <1>3, <1>4, <1>5

\* Nobody reserves with the key of a handler that works: the one request asked for under
\* that key is taken.
LEMMA NobodyReserves ==
    ASSUME IInv, NEW q \in Requests, reqs[q].pc \in Working, Belongs(reqs[q].key),
           NEW p \in Requests, NEW s \in Sent, Reserve(p, s[1], s[2]), s[1] = reqs[q].key
    PROVE  FALSE
<1> DEFINE t == <<reqs[q].key, reqs[q].cmd>>
<1>1. t \in Sent
  BY DEF IInv, HandlersOK, Working
<1>2. RefundOf[s[2]] = RefundOf[t[2]] /\ t[2] = reqs[q].cmd
  BY <1>1 DEF Belongs
<1>3. RequestTaken(reqs[q].cmd) /\ Asked(s[2]) = Asked(reqs[q].cmd)
  BY <1>2 DEF IInv, KInv, Asked
<1> QED  BY <1>3 DEF Reserve, Taken, RequestTaken

\* A settled row stays as it is: the one who would write it works on a row in process.
LEMMA SettledStep ==
    ASSUME IInv, [Next]_vars, NEW r \in Present, refunds[r].status # "processing",
           Belongs(refunds[r].key)
    PROVE  refunds'[r] = refunds[r]
<1>1. TypeOK /\ r \in Present'
  BY RowStep DEF IInv, KInv
<1>2. ASSUME NEW q \in Requests, NEW s \in Sent, Reserve(q, s[1], s[2]), r = RefundOf[s[2]]
      PROVE  FALSE
  BY <1>2 DEF Reserve, Taken, Asked
<1>3. ASSUME NEW q \in Requests, r \in Under(reqs[q].key), FailRefund(q) \/ CompleteRefund(q)
      PROVE  FALSE
  <2>1. reqs[q].pc \in Working /\ refunds[r].key = reqs[q].key
    BY <1>3 DEF Working, FailRefund, CompleteRefund, CompleteIn, Under
  <2>2. Belongs(reqs[q].key)
    BY <2>1
  <2> QED  BY <1>3, <2>1, <2>2 DEF IInv, HandlersOK
<1> QED  BY <1>1, <1>2, <1>3, RowCases

LEMMA HandlersStep ==
    ASSUME IInv, [Next]_vars
    PROVE  HandlersOK'
<1>0. TypeOK /\ RowsOK
  BY DEF IInv, KInv
<1>1. ASSUME NEW q \in Requests, reqs'[q].pc # "idle"
      PROVE  <<reqs'[q].key, reqs'[q].cmd>> \in Sent
  <2>1. CASE reqs[q].pc # "idle" /\ reqs'[q].key = reqs[q].key /\ reqs'[q].cmd = reqs[q].cmd
    BY <2>1 DEF IInv, HandlersOK
  <2>2. ASSUME NEW s \in Sent, \E pc : reqs'[q] = Request(pc, s[1], s[2])
        PROVE  <<reqs'[q].key, reqs'[q].cmd>> \in Sent
    <3>1. s = <<s[1], s[2]>>
      BY RefundAssumption
    <3> QED  BY <2>2, <3>1 DEF Request
  <2>3. Unreserved(q) \/ CallFails(q) \/ (\E raw \in RawStatuses : ProviderRefunds(q, raw))
           => reqs[q].pc # "idle"
    BY DEF Unreserved, CallFails, ProviderRefunds
  <2>4. \/ reqs'[q] = reqs[q]
        \/ \E s \in Sent : \E pc : reqs'[q] = Request(pc, s[1], s[2])
        \/ /\ reqs'[q].key = reqs[q].key /\ reqs'[q].cmd = reqs[q].cmd
           /\ Unreserved(q) \/ CallFails(q) \/ \E raw \in RawStatuses : ProviderRefunds(q, raw)
    BY <1>0, <1>1, HandlerStep
  <2> QED  BY <1>1, <2>1, <2>2, <2>3, <2>4
<1>2. ASSUME NEW q \in Requests, reqs'[q].pc = "store"
      PROVE  Agrees(reqs'[q].status, provider'[Asked(reqs'[q].cmd)])
  <2>1. CASE reqs'[q] = reqs[q]
    <3>1. Asked(reqs[q].cmd) \in RequestIDs
      BY <1>0, <1>2, <2>1, RequestFields, RefundAssumption DEF Asked
    <3>2. Agrees(reqs[q].status, provider[Asked(reqs[q].cmd)])
      BY <1>2, <2>1 DEF IInv, HandlersOK
    <3> QED  BY <1>0, <2>1, <3>1, <3>2, OutcomeStays
  <2>2. ASSUME NEW raw \in RawStatuses, ProviderRefunds(q, raw),
               reqs'[q].cmd = reqs[q].cmd, reqs'[q].status = NormalizeRefundStatus(raw)
        PROVE  Agrees(reqs'[q].status, provider'[Asked(reqs'[q].cmd)])
    <3>1. Asked(reqs[q].cmd) \in RequestIDs
      BY <1>0, <2>2, RequestFields, RefundAssumption DEF Asked, ProviderRefunds
    <3>2. provider'[Asked(reqs[q].cmd)] = raw
      BY <1>0, <2>2, <3>1 DEF ProviderRefunds, TypeOK
    <3> QED  BY <2>2, <3>2 DEF Agrees, NormalizeRefundStatus
  <2>3. ASSUME NEW s \in Sent, reqs'[q] = Request("call", s[1], s[2]) \/ reqs'[q] = Request("read", s[1], s[2])
        PROVE  FALSE
    BY <1>2, <2>3 DEF Request
  <2>4. \/ reqs'[q] = reqs[q]
        \/ \E s \in Sent : \/ reqs'[q] = Request("call", s[1], s[2])
                           \/ reqs'[q] = Request("read", s[1], s[2])
        \/ \E raw \in RawStatuses :
              /\ ProviderRefunds(q, raw)
              /\ reqs'[q].cmd = reqs[q].cmd /\ reqs'[q].status = NormalizeRefundStatus(raw)
    BY <1>0, <1>2, HandlerStep
  <2> QED  BY <2>1, <2>2, <2>3, <2>4
<1>3. ASSUME NEW q \in Requests, reqs'[q].pc \in Working, NEW r \in Present',
             refunds'[r].key = reqs'[q].key, Belongs(reqs'[q].key)
      PROVE  refunds'[r].status = "processing" /\ refunds'[r].cmd = reqs'[q].cmd
  <2> DEFINE Fine == refunds'[r].status = "processing" /\ refunds'[r].cmd = reqs'[q].cmd
  <2>1. ASSUME NEW s \in Sent, Reserve(q, s[1], s[2]), reqs'[q].key = s[1], reqs'[q].cmd = s[2]
        PROVE  Fine
    <3>1. CASE r \in Present /\ refunds'[r] = refunds[r]
      BY <1>3, <2>1, <3>1 DEF Reserve, Taken
    <3>2. CASE refunds'[r] = NewRow(s[1], s[2])
      BY <2>1, <3>2 DEF NewRow
    <3>3. r \in Refunds
      BY DEF Present
    <3> QED  BY <1>0, <2>1, <3>1, <3>2, <3>3 DEF Reserve, NewRow, Present, TypeOK
  <2>2. CASE Unreserved(q) /\ reqs'[q].key = reqs[q].key
    BY <1>3, <2>2 DEF Unreserved, Under, Present
  <2>3. CASE reqs[q].pc \in Working /\ reqs'[q].key = reqs[q].key /\ reqs'[q].cmd = reqs[q].cmd
    <3>1. CASE r \in Present /\ refunds'[r] = refunds[r]
      BY <1>3, <2>3, <3>1 DEF IInv, HandlersOK, Under
    <3>2. ASSUME NEW p \in Requests, NEW s \in Sent, Reserve(p, s[1], s[2]),
                 refunds'[r] = NewRow(s[1], s[2])
          PROVE  Fine
      <4>1. s[1] = reqs[q].key
        BY <1>3, <2>3, <3>2 DEF NewRow
      <4> QED  BY <1>3, <2>3, <3>2, <4>1, NobodyReserves
    <3>3. ASSUME NEW p \in Requests, r \in Under(reqs[p].key), FailRefund(p) \/ CompleteRefund(p)
          PROVE  Fine
      <4>1. r \in Present /\ refunds'[r].key = refunds[r].key /\ refunds[r].key = reqs[p].key
        BY <1>0, <3>3, RowStep DEF Under
      <4>2. reqs[p].pc \in Working /\ reqs'[p] = Free
        BY <1>0, <3>3 DEF FailRefund, CompleteRefund, CompleteIn, Become, Working, TypeOK
      <4>3. reqs[p].key = reqs[q].key /\ Under(reqs[q].key) # {}
        BY <1>3, <2>3, <4>1 DEF Under
      <4>4. p = q
        BY <1>3, <2>3, <4>2, <4>3 DEF IInv, HandlersOK
      <4> QED  BY <1>3, <4>2, <4>4 DEF Free, Working
    <3> QED  BY <1>0, <3>1, <3>2, <3>3, RowCases
  <2> QED  BY <1>0, <1>3, <2>1, <2>2, <2>3, WorkingStep
<1>4. ASSUME NEW p \in Requests, NEW q \in Requests, reqs'[p].pc \in Working, reqs'[q].pc \in Working,
             reqs'[p].key = reqs'[q].key, NEW r \in Present', refunds'[r].key = reqs'[q].key, p # q,
             Belongs(reqs'[q].key)
      PROVE  FALSE
  <2>1. \/ r \in Present /\ refunds'[r].key = refunds[r].key
        \/ \E x \in Requests, s \in Sent : Reserve(x, s[1], s[2]) /\ refunds'[r] = NewRow(s[1], s[2])
    <3>1. r \in Present => refunds'[r].key = refunds[r].key
      BY <1>0, RowStep
    <3> QED  BY <1>0, <3>1, RowCases DEF Under
  <2>2. CASE r \in Present /\ refunds'[r].key = refunds[r].key
    <3>1. ASSUME NEW x \in Requests, x \in {p, q}
          PROVE  reqs[x].pc \in Working /\ reqs'[x].key = reqs[x].key
      <4>1. ASSUME NEW s \in Sent, Reserve(x, s[1], s[2]), reqs'[x].key = s[1]
            PROVE  FALSE
        BY <1>4, <2>2, <3>1, <4>1 DEF Reserve, Taken
      <4>2. ASSUME Unreserved(x), reqs'[x].key = reqs[x].key
            PROVE  FALSE
        BY <1>4, <2>2, <3>1, <4>2 DEF Unreserved, Under
      <4> QED  BY <1>0, <1>4, <3>1, <4>1, <4>2, WorkingStep
    <3>2. r \in Under(reqs[q].key) /\ reqs[p].key = reqs[q].key
      BY <1>4, <2>2, <3>1 DEF Under
    <3> QED  BY <1>4, <3>1, <3>2 DEF IInv, HandlersOK
  <2>3. ASSUME NEW x \in Requests, NEW s \in Sent, Reserve(x, s[1], s[2]),
               refunds'[r] = NewRow(s[1], s[2])
        PROVE  FALSE
    <3>1. PICK y \in {p, q} : y # x
      BY <1>4
    <3>2. reqs'[y] = reqs[y]
      BY <1>0, <2>3, <3>1 DEF Reserve, Become, TypeOK
    <3>3. reqs[y].pc \in Working /\ s[1] = reqs[y].key /\ Belongs(reqs[y].key)
      BY <1>4, <2>3, <3>1, <3>2 DEF NewRow
    <3> QED  BY <2>3, <3>1, <3>3, NobodyReserves
  <2> QED  BY <2>1, <2>2, <2>3
<1> QED  BY <1>1, <1>2, <1>3, <1>4 DEF HandlersOK, Under

LEMMA AnswersStep ==
    ASSUME IInv, [Next]_vars
    PROVE  AnswersAreStored'
<1>0. TypeOK /\ RowsOK
  BY DEF IInv, KInv
<1> SUFFICES ASSUME NEW a \in answered', Belongs(a.key)
             PROVE  LET r == RefundOf[a.cmd]
                    IN  /\ r \in Present'
                        /\ refunds'[r].key = a.key /\ refunds'[r].cmd = a.cmd
                        /\ refunds'[r].answer = a.answer
                        /\ Agrees(a.answer.status, provider'[Asked(a.cmd)])
  BY DEF AnswersAreStored, Belongs
<1> DEFINE r == RefundOf[a.cmd]
<1>1. CASE a \in answered
  <2>1. /\ r \in Present /\ refunds[r].key = a.key /\ refunds[r].cmd = a.cmd
        /\ refunds[r].answer = a.answer
        /\ Agrees(a.answer.status, provider[Asked(a.cmd)])
    BY <1>1 DEF IInv, AnswersAreStored
  <2>2. a.answer # NoAnswer /\ Asked(a.cmd) \in RequestIDs
    BY <1>0, <1>1, RefundAssumption DEF TypeOK, Answers, NoAnswer, Normalized, Asked
  <2>3. refunds[r].status # "processing" /\ Belongs(refunds[r].key)
    BY <1>0, <2>1, <2>2 DEF RowsOK, RowOK
  <2>4. refunds'[r] = refunds[r] /\ r \in Present'
    BY <1>0, <2>1, <2>3, SettledStep, RowStep
  <2> QED  BY <1>0, <2>1, <2>2, <2>4, OutcomeStays
<1>2. ASSUME NEW q \in Requests, NEW s \in Under(reqs[q].key), Replay(q),
             Replayable(refunds[s], reqs[q].cmd),
             a = [key |-> reqs[q].key, cmd |-> reqs[q].cmd, answer |-> refunds[s].answer]
      PROVE  /\ r \in Present'
             /\ refunds'[r].key = a.key /\ refunds'[r].cmd = a.cmd
             /\ refunds'[r].answer = a.answer
             /\ Agrees(a.answer.status, provider'[Asked(a.cmd)])
  <2> DEFINE t == <<reqs[q].key, reqs[q].cmd>>
  <2>1. t \in Sent
    BY <1>2 DEF IInv, HandlersOK, Replay
  <2>2. s = RefundOf[reqs[q].cmd]
    BY <1>0, <1>2, <2>1, OwnRow
  <2>3. UNCHANGED <<refunds, provider>> /\ s \in Present
    BY <1>2 DEF Replay, Under
  <2>4. /\ refunds[s].key = reqs[q].key /\ refunds[s].cmd = reqs[q].cmd
        /\ refunds[s].answer # NoAnswer
    BY <1>2 DEF Under, Replayable
  <2>5. Agrees(refunds[s].answer.status, provider[RequestOf[s]])
    BY <1>0, <1>2, <2>3, <2>4 DEF RowsOK, AnswerOK
  <2> QED  BY <1>2, <2>2, <2>3, <2>4, <2>5 DEF Asked, Present
<1>3. ASSUME NEW q \in Requests, CompleteRefund(q), NEW s \in Under(reqs[q].key),
             a = [key |-> reqs[q].key, cmd |-> reqs[q].cmd, answer |-> Answer(reqs[q].cmd, reqs[q].status)]
      PROVE  /\ r \in Present'
             /\ refunds'[r].key = a.key /\ refunds'[r].cmd = a.cmd
             /\ refunds'[r].answer = a.answer
             /\ Agrees(a.answer.status, provider'[Asked(a.cmd)])
  <2> DEFINE t == <<reqs[q].key, reqs[q].cmd>>
  <2>1. t \in Sent /\ Agrees(reqs[q].status, provider[Asked(reqs[q].cmd)])
    BY <1>3 DEF IInv, HandlersOK, CompleteRefund, CompleteIn
  <2>2. s = RefundOf[reqs[q].cmd]
    BY <1>0, <1>3, <2>1, OwnRow
  <2>3. s \in Present /\ refunds[s].key = reqs[q].key /\ refunds[s].cmd = reqs[q].cmd
    BY <1>3 DEF IInv, HandlersOK, CompleteRefund, CompleteIn, Working, Under
  <2>4. refunds[s] \in Rows /\ s \in Refunds /\ s \in Present'
    BY <1>0, <2>3, RowFields, RowStep DEF Present
  <2>5. refunds'[s] = Completed(refunds[s], reqs[q].cmd, reqs[q].status) /\ provider' = provider
    BY <1>3, <2>4 DEF CompleteRefund, CompleteIn
  <2>6. /\ refunds'[s].key = refunds[s].key /\ refunds'[s].cmd = refunds[s].cmd
        /\ refunds'[s].answer = Answer(reqs[q].cmd, reqs[q].status)
    BY <2>4, <2>5 DEF Completed, Rows
  <2> QED  BY <1>3, <2>1, <2>2, <2>3, <2>4, <2>5, <2>6 DEF Answer
<1>4. \/ a \in answered
      \/ \E q \in Requests : \E s \in Under(reqs[q].key) :
            \/ /\ Replay(q) /\ Replayable(refunds[s], reqs[q].cmd)
               /\ a = [key |-> reqs[q].key, cmd |-> reqs[q].cmd, answer |-> refunds[s].answer]
            \/ /\ CompleteRefund(q)
               /\ a = [key |-> reqs[q].key, cmd |-> reqs[q].cmd,
                       answer |-> Answer(reqs[q].cmd, reqs[q].status)]
  <2>1. ASSUME NEW q \in Requests, Replay(q), a \notin answered
        PROVE  \E s \in Under(reqs[q].key) :
                  /\ Replayable(refunds[s], reqs[q].cmd)
                  /\ a = [key |-> reqs[q].key, cmd |-> reqs[q].cmd, answer |-> refunds[s].answer]
    BY <2>1 DEF Replay, Tell
  <2>2. ASSUME NEW q \in Requests, CompleteRefund(q), a \notin answered
        PROVE  /\ Under(reqs[q].key) # {}
               /\ a = [key |-> reqs[q].key, cmd |-> reqs[q].cmd,
                       answer |-> Answer(reqs[q].cmd, reqs[q].status)]
    BY <2>2 DEF CompleteRefund, CompleteIn, Tell
  <2>3. answered' = answered \/ \E q \in Requests : Replay(q) \/ CompleteRefund(q)
    BY DEF Next, CreateRefund, Reserve, ReserveGivesWay, Unreserved, Conflict, ProviderRefunds,
           CallFails, FailRefund, Abort, ProviderSettles, vars
  <2> QED  BY <2>1, <2>2, <2>3
<1> QED  BY <1>1, <1>2, <1>3, <1>4

\* A status of the provider, normalized, says what the provider says.
LEMMA NormalizedAgrees ==
    ASSUME NEW raw
    PROVE  Agrees(NormalizeRefundStatus(raw), raw)
  BY DEF Agrees, NormalizeRefundStatus

\* What GET tells, and whom it asks, follows from the rows.
LEMMA GetStep ==
    ASSUME TypeOK, RowsOK
    PROVE  GetTellsOutcome
<1>1. ASSUME NEW id, NEW status \in GetRefund(id)
      PROVE  \E r \in Found(id) : Agrees(status, provider[refunds[r].request])
  BY <1>1, NormalizedAgrees DEF GetRefund
<1>2. ASSUME NEW r \in Present, refunds[r].answer # NoAnswer
      PROVE  refunds[r].request \in RequestIDs
  BY RowFields DEF Rows
<1>3. ASSUME NEW r \in Present, Belongs(refunds[r].key), NEW status \in GetRefund(r)
      PROVE  Agrees(status, provider[RequestOf[r]])
  <2>1. PICK x \in Found(r) : Agrees(status, provider[refunds[x].request])
    BY <1>1
  <2>2. x = r
    BY <1>2, RefundAssumption DEF Found, Present
  <2>3. refunds[r].request = RequestOf[r]
    BY <1>3 DEF RowsOK, AnswerOK
  <2> QED  BY <2>1, <2>2, <2>3
<1>4. ASSUME NEW i \in RequestIDs, NEW status \in GetRefund(i)
      PROVE  Agrees(status, provider[i])
  <2>1. PICK x \in Found(i) : Agrees(status, provider[refunds[x].request])
    BY <1>1
  <2>2. refunds[x].request = i
    BY RefundAssumption DEF Found, Present
  <2> QED  BY <2>1, <2>2
<1> QED  BY <1>3, <1>4 DEF GetTellsOutcome

-----------------------------------------------------------------------------
LEMMA InitOK == Init => IInv
<1> SUFFICES ASSUME Init
             PROVE  IInv
  OBVIOUS
<1>1. TypeOK
  BY DEF Init, TypeOK, NoRow, Free
<1>2. Present = {}
  BY DEF Init, Present, NoRow
<1>3. \A q \in Requests : reqs[q].pc = "idle"
  BY DEF Init, Free
<1>4. KInv
  BY <1>1, <1>3 DEF KInv, RequestsTaken, Init, Working
<1>5. RowsOK /\ HandlersOK
  BY <1>2, <1>3 DEF RowsOK, HandlersOK, Working
<1> QED  BY <1>4, <1>5 DEF IInv, Init, AnswersAreStored

\* Rows, provider refunds, handlers and answers stay well-formed.
THEOREM TypeCorrect == Spec => []TypeOK
<1>1. Init => TypeOK
  BY InitOK DEF IInv, KInv
<1>2. TypeOK /\ [Next]_vars => TypeOK'
  BY TypeStep
<1> QED  BY <1>1, <1>2, PTL DEF Spec

LEMMA Invariant == Spec => []IInv
<1>1. Init => IInv
  BY InitOK
<1>2. IInv /\ [Next]_vars => IInv'
  BY KnownStep, RowsStep, HandlersStep, AnswersStep DEF IInv
<1> QED  BY <1>1, <1>2, PTL DEF Spec

\* Whatever keys the clients use, every refund the provider has made has the row of its
\* refundRequestId; if the key of the row is used for one refund, provider_data still
\* names that request.
THEOREM KnownCorrect == Spec => []RefundsAreKnown
<1>1. IInv => RefundsAreKnown
  BY DEF IInv, KInv, RequestsTaken, RowsOK, AnswerOK, RefundsAreKnown
<1> QED  BY <1>1, Invariant, PTL

\* Every 201 under a key that is used for one refund is the answer stored for that
\* refund, key and body, and the provider's outcome agrees with it.
THEOREM AnswersCorrect == Spec => []AnswersAreStored
<1>1. IInv => AnswersAreStored
  BY DEF IInv
<1> QED  BY <1>1, Invariant, PTL

\* GET by refund_id calls a refund, whose row's key is used for one refund, confirmed or
\* failed only when it is so at the provider; GET by provider_refund_id any refund.
THEOREM GetCorrect == Spec => []GetTellsOutcome
<1>1. IInv => GetTellsOutcome
  BY GetStep DEF IInv, KInv
<1> QED  BY <1>1, Invariant, PTL

\* A refund completed or failed under a key that is used for one refund never changes
\* again, whatever is sent under other keys.
THEOREM FinalCorrect == Spec => SettledIsFinal
<1>1. IInv /\ [Next]_vars =>
         [\A r \in Present :
             refunds[r].status # "processing" /\ Belongs(refunds[r].key)
                => refunds'[r] = refunds[r]]_vars
  BY SettledStep
<1> QED  BY <1>1, Invariant, PTL DEF Spec, SettledIsFinal
=============================================================================

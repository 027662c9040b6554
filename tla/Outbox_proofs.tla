--------------------------- MODULE Outbox_proofs ---------------------------
(***************************************************************************)
(* Proofs about Outbox for any number of events and replicas and any       *)
(* bounds: it implements EventDelivery, and duplicates have a cause.       *)
(*                                                                         *)
(* The argument for the duplicates: as long as an event is unpublished,    *)
(* each receipt of it has left a fault or a replica about to mark it.      *)
(* From the first mark on, nobody reads it again, and each replica that    *)
(* still has it in its batch sends it once more at most.                   *)
(***************************************************************************)
EXTENDS Outbox, FiniteSetTheorems, TLAPS

\* Replicas about to mark e published, and replicas that are still to send it.
Marking(e) == {r \in Replicas : senders[r].pc = "mark" /\ senders[r].item = e}
Holding(e) == {r \in Replicas : e \in senders[r].todo}

\* What a replica handles was recorded, is handled once, and is marked published
\* only when it was received.
SendersOK ==
    \A r \in Replicas :
        /\ senders[r].todo \subseteq Recorded
        /\ senders[r].pc \in {"mark", "fail"} =>
              senders[r].item \in Recorded \ senders[r].todo
        /\ senders[r].pc = "mark" => senders[r].item \in Received

ReceiptsOK == Published \subseteq Received /\ Received \subseteq Recorded

CountsOK ==
    \A e \in Events :
        /\ e \notin Published => received[e] <= faults[e] + Cardinality(Marking(e))
        /\ e \in Published =>
              received[e] + Cardinality(Holding(e)) <= faults[e] + Cardinality(Replicas)

IInv == TypeOK /\ SendersOK /\ ReceiptsOK /\ CountsOK

-----------------------------------------------------------------------------
\* Removing an event from a batch leaves a batch.
LEMMA BatchType ==
    /\ {} \in Batches
    /\ \A batch \in Batches : \A e : batch \ {e} \in Batches
<1>1. {} \in Batches
  BY FS_EmptySet, OutboxAssumption DEF Batches
<1>2. ASSUME NEW batch \in Batches, NEW e
      PROVE  batch \ {e} \in Batches
  <2>1. IsFiniteSet(batch) /\ Cardinality(batch) \in Nat
    BY FS_Subset, FS_CardinalityType, OutboxAssumption DEF Batches
  <2>2. batch \ {e} \in SUBSET batch
    OBVIOUS
  <2>3. Cardinality(batch \ {e}) <= Cardinality(batch) /\ IsFiniteSet(batch \ {e})
    BY <2>1, <2>2, FS_Subset
  <2>4. Cardinality(batch \ {e}) \in Nat
    BY <2>3, FS_CardinalityType
  <2> QED  BY <2>1, <2>3, <2>4, OutboxAssumption DEF Batches
<1> QED  BY <1>1, <1>2

\* The status of a row that was written.
LEMMA RowStatus == \A status, due : Row(status, due).status = status
  BY DEF Row

\* What a busy replica handles is an event.
LEMMA SenderFields ==
    ASSUME TypeOK, NEW r \in Replicas
    PROVE  /\ senders[r].pc \in {"flush", "mark", "fail"}
           /\ senders[r].todo \in Batches
           /\ senders[r].pc # "flush" => senders[r].item \in Events
           /\ senders[r].pc = "flush" => senders[r] = Flush(senders[r].todo)
  BY DEF TypeOK, Flush

-----------------------------------------------------------------------------
(***************************************************************************)
(* What one step may do: to the senders, and to the rows.                  *)
(***************************************************************************)
Sends(r, e)  == Accepted(r, e) \/ AnswerLost(r, e) \/ NotAccepted(r, e)
Marks(r)     == MarkPublished(r) \/ MarkPublishedFails(r) \/ MarkFailed(r) \/ MarkFailedFails(r)

\* A replica that sends takes the item out of its batch.
LEMMA SendStep ==
    ASSUME TypeOK, NEW r \in Replicas, NEW e \in Events, Sends(r, e)
    PROVE  /\ senders[r].pc = "flush" /\ e \in senders[r].todo
           /\ outbox' = outbox /\ restarts' = restarts
           /\ \/ /\ Accepted(r, e)
                 /\ senders' = [senders EXCEPT ![r] = Sent("mark", senders[r].todo \ {e}, e)]
              \/ /\ AnswerLost(r, e) \/ NotAccepted(r, e)
                 /\ senders' = [senders EXCEPT ![r] = Sent("fail", senders[r].todo \ {e}, e)]
  BY DEF Sends, Accepted, AnswerLost, NotAccepted, First, Outcome

\* A replica that marks goes on with its batch.
LEMMA MarkStep ==
    ASSUME TypeOK, NEW r \in Replicas, Marks(r)
    PROVE  /\ senders[r].pc \in {"mark", "fail"} /\ senders[r].item \in Events
           /\ senders' = [senders EXCEPT ![r] = Flush(senders[r].todo)]
           /\ received' = received /\ restarts' = restarts
<1>1. senders[r].pc \in {"mark", "fail"}
  BY DEF Marks, MarkPublished, MarkPublishedFails, MarkFailed, MarkFailedFails
<1> QED
  BY <1>1, SenderFields
  DEF Marks, MarkPublished, MarkPublishedFails, MarkFailed, MarkFailedFails, Continue

\* Rows: recorded once, and published only by a replica about to mark.
LEMMA RowStep ==
    ASSUME TypeOK, [Next]_vars, NEW e \in Events
    PROVE  /\ outbox'[e] \in [status : {"absent", "pending", "published"}, due : BOOLEAN]
           /\ e \in Recorded => e \in Recorded'
           /\ e \in Published => e \in Published'
           /\ e \in Published' /\ e \notin Published =>
                 \E r \in Replicas : MarkPublished(r) /\ senders[r].item = e
<1>0. outbox[e] \in [status : {"absent", "pending", "published"}, due : BOOLEAN]
  BY DEF TypeOK
<1>1. CASE outbox' = outbox
  BY <1>0, <1>1 DEF Recorded, Published
<1>2. ASSUME NEW f \in Events, Record(f) \/ BackoffEnds(f)
      PROVE  /\ outbox'[e] \in [status : {"absent", "pending", "published"}, due : BOOLEAN]
             /\ outbox'[e].status # outbox[e].status =>
                   outbox[e].status = "absent" /\ outbox'[e].status = "pending"
  <2>1. \/ outbox'[e] = outbox[e]
        \/ outbox[e].status = "absent" /\ outbox'[e] = Row("pending", TRUE)
        \/ outbox[e].status = "pending" /\ outbox'[e] = Row("pending", TRUE)
    BY <1>2 DEF Record, BackoffEnds, TypeOK
  <2>2. /\ Row("pending", TRUE) \in [status : {"absent", "pending", "published"}, due : BOOLEAN]
        /\ Row("pending", TRUE).status = "pending"
    BY Zenon DEF Row
  <2> QED  BY <1>0, <2>1, <2>2
<1>3. ASSUME NEW r \in Replicas, MarkPublished(r)
      PROVE  /\ outbox'[e] \in [status : {"absent", "pending", "published"}, due : BOOLEAN]
             /\ \/ outbox'[e] = outbox[e]
                \/ outbox'[e].status = "published" /\ senders[r].item = e
  BY <1>0, <1>3 DEF MarkPublished, Row, TypeOK
<1>4. ASSUME NEW r \in Replicas, MarkFailed(r)
      PROVE  /\ outbox'[e] \in [status : {"absent", "pending", "published"}, due : BOOLEAN]
             /\ outbox'[e].status = outbox[e].status
  BY <1>0, <1>4 DEF MarkFailed, Row, TypeOK
<1>5. \/ outbox' = outbox
      \/ \E f \in Events : Record(f) \/ BackoffEnds(f)
      \/ \E r \in Replicas : MarkPublished(r) \/ MarkFailed(r)
  BY DEF Next, Publisher, PendingEvents, Accepted, AnswerLost, NotAccepted, MarkPublishedFails,
         MarkFailedFails, Restart, vars
<1> QED  BY <1>1, <1>2, <1>3, <1>4, <1>5 DEF Recorded, Published

\* Every step keeps the types.
LEMMA TypeStep ==
    ASSUME TypeOK, [Next]_vars
    PROVE  TypeOK'
<1>1. outbox' \in [Events -> [status : {"absent", "pending", "published"}, due : BOOLEAN]]
  <2>1. DOMAIN outbox' = Events /\ outbox' = [e \in Events |-> outbox'[e]]
    BY DEF Next, Publisher, Record, BackoffEnds, PendingEvents, Accepted, AnswerLost,
           NotAccepted, MarkPublished, MarkPublishedFails, MarkFailed, MarkFailedFails,
           Restart, vars, TypeOK
  <2> QED  BY <2>1, RowStep
<1>2. CASE UNCHANGED vars
  BY <1>2 DEF vars, TypeOK
<1>3. ASSUME NEW e \in Events, Record(e) \/ BackoffEnds(e)
      PROVE  TypeOK'
  BY <1>1, <1>3 DEF Record, BackoffEnds, TypeOK
<1>4. ASSUME NEW r \in Replicas, NEW batch \in SUBSET Events, PendingEvents(r, batch)
      PROVE  TypeOK'
  BY <1>1, <1>4 DEF PendingEvents, Oldest, Batches, Flush, TypeOK
<1>5. ASSUME NEW r \in Replicas, NEW e \in Events, Sends(r, e)
      PROVE  TypeOK'
  <2>1. \A pc \in {"mark", "fail"} : Sent(pc, senders[r].todo \ {e}, e)
           \in [pc : {"mark", "fail"}, todo : Batches, item : Events]
    BY SenderFields, BatchType DEF Sent
  <2>2. senders' \in [Replicas -> [pc : {"flush"}, todo : Batches] \cup
                                  [pc : {"mark", "fail"}, todo : Batches, item : Events]]
    BY <1>5, <2>1, SendStep DEF TypeOK
  <2>3. received' \in [Events -> Nat] /\ faults' \in [Events -> 0..MaxFaults]
    BY <1>5, OutboxAssumption DEF Sends, Accepted, AnswerLost, NotAccepted, TypeOK
  <2> QED  BY <1>1, <1>5, <2>2, <2>3, SendStep DEF TypeOK
<1>6. ASSUME NEW r \in Replicas, Marks(r)
      PROVE  TypeOK'
  <2>1. senders' \in [Replicas -> [pc : {"flush"}, todo : Batches] \cup
                                  [pc : {"mark", "fail"}, todo : Batches, item : Events]]
    BY <1>6, SenderFields, MarkStep DEF Flush, TypeOK
  <2>2. faults' \in [Events -> 0..MaxFaults]
    <3>1. CASE MarkPublishedFails(r)
      <4>1. senders[r].item \in Events
        BY <1>6, MarkStep
      <4> QED  BY <3>1, <4>1, OutboxAssumption DEF MarkPublishedFails, TypeOK
    <3>2. CASE faults' = faults
      BY <3>2 DEF TypeOK
    <3> QED  BY <1>6, <3>1, <3>2 DEF Marks, MarkPublished, MarkFailed, MarkFailedFails
  <2> QED  BY <1>1, <1>6, <2>1, <2>2, MarkStep DEF TypeOK
<1>7. ASSUME NEW r \in Replicas, Restart(r)
      PROVE  TypeOK'
  <2>1. senders' \in [Replicas -> [pc : {"flush"}, todo : Batches] \cup
                                  [pc : {"mark", "fail"}, todo : Batches, item : Events]]
    BY <1>7, BatchType DEF Restart, Flush, TypeOK
  <2>2. faults' \in [Events -> 0..MaxFaults] /\ restarts' \in 0..MaxRestarts
    BY <1>7, SenderFields, OutboxAssumption DEF Restart, TypeOK
  <2> QED  BY <1>1, <1>7, <2>1, <2>2 DEF Restart, TypeOK
<1> QED
  BY <1>2, <1>3, <1>4, <1>5, <1>6, <1>7 DEF Next, Publisher, Sends, Marks

\* Receipts are counted up, of an event that some replica had in its batch.
LEMMA ReceiptStep ==
    ASSUME TypeOK, [Next]_vars, NEW e \in Events
    PROVE  /\ e \in Received => e \in Received'
           /\ e \in Received' /\ e \notin Received => \E r \in Replicas : e \in senders[r].todo
<1>1. CASE received' = received
  BY <1>1 DEF Received
<1>2. ASSUME NEW r \in Replicas, NEW f \in Events, Accepted(r, f) \/ AnswerLost(r, f)
      PROVE  /\ received'[e] = received[e] \/ (received'[e] = received[e] + 1 /\ f = e)
             /\ f \in senders[r].todo
  <2>1. received' = [received EXCEPT ![f] = @ + 1] /\ f \in senders[r].todo
    BY <1>2 DEF Accepted, AnswerLost, First
  <2>2. CASE f = e
    BY <2>1, <2>2 DEF TypeOK
  <2>3. CASE f # e
    BY <2>1, <2>3 DEF TypeOK
  <2> QED  BY <2>2, <2>3
<1>3. received[e] \in Nat
  BY DEF TypeOK
<1>4. \/ received' = received
      \/ \E r \in Replicas, f \in Events : Accepted(r, f) \/ AnswerLost(r, f)
  BY DEF Next, Publisher, Record, BackoffEnds, PendingEvents, NotAccepted, MarkPublished,
         MarkPublishedFails, MarkFailed, MarkFailedFails, Restart, vars
<1> QED  BY <1>1, <1>2, <1>3, <1>4 DEF Received

-----------------------------------------------------------------------------
\* What the replicas handle stays recorded, and received before it is marked.
LEMMA SendersStep ==
    ASSUME TypeOK, SendersOK, [Next]_vars
    PROVE  SendersOK'
<1>0. Recorded \subseteq Recorded' /\ Received \subseteq Received'
  BY RowStep, ReceiptStep DEF Recorded, Received
<1>1. ASSUME NEW s \in Replicas, senders'[s] = senders[s]
      PROVE  /\ senders'[s].todo \subseteq Recorded'
             /\ senders'[s].pc \in {"mark", "fail"} =>
                   senders'[s].item \in Recorded' \ senders'[s].todo
             /\ senders'[s].pc = "mark" => senders'[s].item \in Received'
  BY <1>0, <1>1 DEF SendersOK
<1>2. CASE senders' = senders
  BY <1>1, <1>2 DEF SendersOK
<1>3. ASSUME NEW r \in Replicas, NEW batch \in SUBSET Recorded,
             senders' = [senders EXCEPT ![r] = Flush(batch)]
      PROVE  SendersOK'
  <2>1. \A s \in Replicas : senders'[s] = IF s = r THEN Flush(batch) ELSE senders[s]
    BY <1>3 DEF TypeOK
  <2> QED  BY <1>0, <1>1, <2>1 DEF Flush, SendersOK
<1>4. ASSUME NEW r \in Replicas, NEW batch \in SUBSET Events, PendingEvents(r, batch)
      PROVE  SendersOK'
  BY <1>3, <1>4 DEF PendingEvents, Pending, Recorded
<1>5. ASSUME NEW r \in Replicas, NEW e \in Events, Sends(r, e)
      PROVE  SendersOK'
  <2>1. PICK pc \in {"mark", "fail"} :
          /\ senders' = [senders EXCEPT ![r] = Sent(pc, senders[r].todo \ {e}, e)]
          /\ pc = "mark" => Accepted(r, e)
    BY <1>5, SendStep
  <2>2. \A s \in Replicas :
          senders'[s] = IF s = r THEN Sent(pc, senders[r].todo \ {e}, e) ELSE senders[s]
    BY <2>1 DEF TypeOK
  <2>3. e \in Recorded /\ senders[r].todo \subseteq Recorded
    BY <1>5, SendStep DEF SendersOK
  <2>4. pc = "mark" => e \in Received'
    BY <2>1 DEF Accepted, Received, TypeOK
  <2>5. ASSUME NEW s \in Replicas
        PROVE  /\ senders'[s].todo \subseteq Recorded'
               /\ senders'[s].pc \in {"mark", "fail"} =>
                     senders'[s].item \in Recorded' \ senders'[s].todo
               /\ senders'[s].pc = "mark" => senders'[s].item \in Received'
    <3>1. CASE s = r
      BY <1>0, <2>2, <2>3, <2>4, <3>1 DEF Sent
    <3>2. CASE s # r
      BY <1>1, <2>2, <3>2
    <3> QED  BY <3>1, <3>2
  <2> QED  BY <2>5 DEF SendersOK
<1>6. ASSUME NEW r \in Replicas, Marks(r)
      PROVE  SendersOK'
  BY <1>3, <1>6, MarkStep DEF SendersOK
<1>7. ASSUME NEW r \in Replicas, Restart(r)
      PROVE  SendersOK'
  <2>1. senders' = [senders EXCEPT ![r] = Flush({})] /\ {} \in SUBSET Recorded
    BY <1>7 DEF Restart
  <2> QED  BY <1>3, <2>1
<1>8. ASSUME NEW e \in Events, Record(e) \/ BackoffEnds(e)
      PROVE  SendersOK'
  BY <1>2, <1>8 DEF Record, BackoffEnds
<1> QED
  BY <1>2, <1>4, <1>5, <1>6, <1>7, <1>8 DEF Next, Publisher, Sends, Marks, vars

\* Published events were received, received events were recorded.
LEMMA ReceiptsStep ==
    ASSUME TypeOK, SendersOK, ReceiptsOK, [Next]_vars
    PROVE  ReceiptsOK'
<1>1. ASSUME NEW e \in Published'
      PROVE  e \in Received'
  <2>1. e \in Events
    BY DEF Published
  <2>2. CASE e \in Published
    BY <2>1, <2>2, ReceiptStep DEF ReceiptsOK
  <2>3. CASE e \notin Published
    <3>1. PICK r \in Replicas : MarkPublished(r) /\ senders[r].item = e
      BY <2>1, <2>3, RowStep
    <3> QED  BY <2>1, <3>1, ReceiptStep DEF MarkPublished, SendersOK
  <2> QED  BY <2>2, <2>3
<1>2. ASSUME NEW e \in Received'
      PROVE  e \in Recorded'
  <2>1. e \in Events
    BY DEF Received
  <2> QED  BY <2>1, RowStep, ReceiptStep DEF SendersOK, ReceiptsOK
<1> QED  BY <1>1, <1>2 DEF ReceiptsOK

-----------------------------------------------------------------------------
(***************************************************************************)
(* Counting                                                                *)
(***************************************************************************)
\* The replicas about to mark an event and those still to send it are different
\* ones, and finitely many.
LEMMA CountTypes ==
    ASSUME TypeOK, NEW e \in Events
    PROVE  /\ received[e] \in Nat /\ faults[e] \in Nat /\ Cardinality(Replicas) \in Nat
           /\ IsFiniteSet(Marking(e)) /\ Cardinality(Marking(e)) \in Nat
           /\ IsFiniteSet(Holding(e)) /\ Cardinality(Holding(e)) \in Nat
<1>1. Marking(e) \in SUBSET Replicas /\ Holding(e) \in SUBSET Replicas
  BY DEF Marking, Holding
<1>2. IsFiniteSet(Marking(e)) /\ IsFiniteSet(Holding(e))
  BY <1>1, FS_Subset, OutboxAssumption
<1>3. received[e] \in Nat /\ faults[e] \in Nat
  BY OutboxAssumption DEF TypeOK
<1> QED  BY <1>2, <1>3, FS_CardinalityType, OutboxAssumption

\* A replica leaves a group.
LEMMA Leaves ==
    ASSUME NEW A, IsFiniteSet(A), NEW r
    PROVE  /\ Cardinality(A \ {r}) \in Nat /\ Cardinality(A \ {r}) <= Cardinality(A)
           /\ r \in A => Cardinality(A \ {r}) = Cardinality(A) - 1
<1>1. IsFiniteSet(A \ {r})
  BY FS_RemoveElement
<1>2. Cardinality(A \ {r}) \in Nat /\ Cardinality(A) \in Nat
  BY <1>1, FS_CardinalityType
<1>3. Cardinality(A \ {r}) = IF r \in A THEN Cardinality(A) - 1 ELSE Cardinality(A)
  BY FS_RemoveElement
<1> QED  BY <1>2, <1>3

\* Two disjoint groups of replicas.
LEMMA DisjointGroups ==
    ASSUME NEW A \in SUBSET Replicas, NEW B \in SUBSET Replicas, A \cap B = {}
    PROVE  Cardinality(A) + Cardinality(B) <= Cardinality(Replicas)
<1>1. IsFiniteSet(A) /\ IsFiniteSet(B)
  BY FS_Subset, OutboxAssumption
<1>2. Cardinality(A \cup B) = Cardinality(A) + Cardinality(B) - Cardinality(A \cap B)
  BY <1>1, FS_Union
<1>3. Cardinality(A \cup B) <= Cardinality(Replicas)
  <2>1. A \cup B \in SUBSET Replicas
    OBVIOUS
  <2> QED  BY <2>1, FS_Subset, OutboxAssumption
<1>4. Cardinality(A \cap B) = 0
  BY FS_EmptySet
<1> QED  BY <1>1, <1>2, <1>3, <1>4, FS_CardinalityType

\* The counts of one event; CountsOK says it of all of them.
CountOK(e) ==
    /\ e \notin Published => received[e] <= faults[e] + Cardinality(Marking(e))
    /\ e \in Published =>
          received[e] + Cardinality(Holding(e)) <= faults[e] + Cardinality(Replicas)

\* Every step keeps the counts.
LEMMA CountsStep ==
    ASSUME IInv, [Next]_vars
    PROVE  CountsOK'
<1> USE DEF IInv
<1> SUFFICES ASSUME NEW e \in Events
             PROVE  CountOK(e)'
  BY DEF CountsOK, CountOK
<1>0. CountOK(e)
  BY DEF CountsOK, CountOK
<1>t. TypeOK'
  BY TypeStep
<1>n. /\ received[e] \in Nat /\ faults[e] \in Nat /\ Cardinality(Replicas) \in Nat
      /\ IsFiniteSet(Marking(e)) /\ Cardinality(Marking(e)) \in Nat
      /\ IsFiniteSet(Holding(e)) /\ Cardinality(Holding(e)) \in Nat
  BY CountTypes
<1>1. ASSUME senders' = senders, received' = received, faults' = faults,
             e \in Published' <=> e \in Published
      PROVE  CountOK(e)'
  <2>1. Marking(e)' = Marking(e) /\ Holding(e)' = Holding(e)
    BY <1>1 DEF Marking, Holding
  <2> QED  BY <1>0, <1>1, <2>1 DEF CountOK
<1>2. CASE UNCHANGED vars
  BY <1>1, <1>2 DEF vars, Published
<1>3. ASSUME NEW f \in Events, Record(f) \/ BackoffEnds(f)
      PROVE  CountOK(e)'
  <2>1. e \in Published' <=> e \in Published
    BY <1>3 DEF Record, BackoffEnds, Row, Published, TypeOK
  <2> QED  BY <1>1, <1>3, <2>1 DEF Record, BackoffEnds
<1>4. ASSUME NEW r \in Replicas, NEW batch \in SUBSET Events, PendingEvents(r, batch)
      PROVE  CountOK(e)'
  <2>1. /\ senders' = [senders EXCEPT ![r] = Flush(batch)] /\ senders[r] = Flush({})
        /\ received' = received /\ faults' = faults /\ outbox' = outbox
        /\ e \in Published => e \notin batch
    BY <1>4 DEF PendingEvents, Pending, Published
  <2>2. \A q \in Replicas : senders'[q] = IF q = r THEN Flush(batch) ELSE senders[q]
    BY <2>1 DEF TypeOK
  <2>3. Marking(e)' = Marking(e) /\ (e \in Published => Holding(e)' = Holding(e))
    BY <2>1, <2>2 DEF Flush, Marking, Holding
  <2> QED  BY <1>0, <2>1, <2>3 DEF CountOK, Published
<1>5. ASSUME NEW r \in Replicas, NEW f \in Events, Sends(r, f)
      PROVE  CountOK(e)'
  <2>1. /\ senders[r].pc = "flush" /\ f \in senders[r].todo /\ outbox' = outbox
        /\ \/ Accepted(r, f)
              /\ senders' = [senders EXCEPT ![r] = Sent("mark", senders[r].todo \ {f}, f)]
           \/ (AnswerLost(r, f) \/ NotAccepted(r, f))
              /\ senders' = [senders EXCEPT ![r] = Sent("fail", senders[r].todo \ {f}, f)]
    BY <1>5, SendStep
  <2>2. r \notin Marking(e)
    BY <2>1 DEF Marking
  <2>3. CASE f # e
    <3>1. Marking(e)' = Marking(e) /\ Holding(e)' = Holding(e)
      <4>1. PICK pc \in {"mark", "fail"} : \A q \in Replicas :
              senders'[q] = IF q = r THEN Sent(pc, senders[r].todo \ {f}, f) ELSE senders[q]
        BY <2>1 DEF TypeOK
      <4> QED  BY <2>1, <2>3, <4>1 DEF Sent, Marking, Holding
    <3>2. received'[e] = received[e] /\ faults'[e] = faults[e]
      BY <1>5, <2>3 DEF Sends, Accepted, AnswerLost, NotAccepted, TypeOK
    <3> QED  BY <1>0, <2>1, <3>1, <3>2 DEF CountOK, Published
  <2>4. CASE f = e
    <3>1. r \in Holding(e)
      BY <2>1, <2>4 DEF Holding
    <3>2. Holding(e)' = Holding(e) \ {r}
      <4>1. PICK pc \in {"mark", "fail"} : \A q \in Replicas :
              senders'[q] = IF q = r THEN Sent(pc, senders[r].todo \ {f}, f) ELSE senders[q]
        BY <2>1 DEF TypeOK
      <4> QED  BY <2>4, <4>1 DEF Sent, Holding
    <3>3. Cardinality(Holding(e)') = Cardinality(Holding(e)) - 1
      BY <1>n, <3>1, <3>2, Leaves
    <3>4. CASE Accepted(r, e)
      <4>1. received'[e] = received[e] + 1 /\ faults'[e] = faults[e]
        BY <3>4 DEF Accepted, TypeOK
      <4>2. senders' = [senders EXCEPT ![r] = Sent("mark", senders[r].todo \ {e}, e)]
        BY <3>4 DEF Accepted, Outcome
      <4>3. Marking(e)' = Marking(e) \cup {r}
        <5>1. \A q \in Replicas : senders'[q] =
                IF q = r THEN Sent("mark", senders[r].todo \ {e}, e) ELSE senders[q]
          BY <4>2 DEF TypeOK
        <5> QED  BY <5>1 DEF Sent, Marking
      <4>4. Cardinality(Marking(e)') = Cardinality(Marking(e)) + 1
        BY <1>n, <2>2, <4>3, FS_AddElement
      <4> QED  BY <1>0, <1>n, <2>1, <3>3, <4>1, <4>4 DEF CountOK, Published
    <3>5. CASE AnswerLost(r, e) \/ NotAccepted(r, e)
      <4>1. \/ received'[e] = received[e] + 1 /\ faults'[e] = faults[e] + 1
            \/ received'[e] = received[e] /\ faults'[e] = faults[e]
        BY <3>5 DEF AnswerLost, NotAccepted, TypeOK
      <4>2. senders' = [senders EXCEPT ![r] = Sent("fail", senders[r].todo \ {e}, e)]
        BY <3>5 DEF AnswerLost, NotAccepted, Outcome
      <4>3. Marking(e)' = Marking(e)
        <5>1. \A q \in Replicas : senders'[q] =
                IF q = r THEN Sent("fail", senders[r].todo \ {e}, e) ELSE senders[q]
          BY <4>2 DEF TypeOK
        <5> QED  BY <2>1, <5>1 DEF Sent, Marking
      <4> QED  BY <1>0, <1>n, <2>1, <3>3, <4>1, <4>3 DEF CountOK, Published
    <3> QED  BY <1>5, <2>4, <3>4, <3>5 DEF Sends
  <2> QED  BY <2>3, <2>4
<1>6. ASSUME NEW r \in Replicas, Marks(r)
      PROVE  CountOK(e)'
  <2>1. /\ senders[r].pc \in {"mark", "fail"} /\ senders[r].item \in Events
        /\ senders' = [senders EXCEPT ![r] = Flush(senders[r].todo)]
        /\ received' = received
    BY <1>6, MarkStep
  <2>2. \A q \in Replicas :
          senders'[q] = IF q = r THEN Flush(senders[r].todo) ELSE senders[q]
    BY <2>1 DEF TypeOK
  <2>3. Marking(e)' = Marking(e) \ {r} /\ Holding(e)' = Holding(e)
    BY <2>2 DEF Flush, Marking, Holding
  <2>4. CASE r \notin Marking(e)
    <3>1. Marking(e)' = Marking(e)
      BY <2>3, <2>4
    <3>2. faults'[e] = faults[e]
      BY <1>6, <2>1, <2>4
      DEF Marks, MarkPublished, MarkPublishedFails, MarkFailed, MarkFailedFails, Marking, TypeOK
    <3>3. e \in Published' <=> e \in Published
      BY <1>6, <2>1, <2>4
      DEF Marks, MarkPublished, MarkPublishedFails, MarkFailed, MarkFailedFails, Marking,
          Row, Published, TypeOK
    <3> QED  BY <1>0, <2>1, <2>3, <3>1, <3>2, <3>3 DEF CountOK
  <2>5. CASE r \in Marking(e)
    <3>1. senders[r].pc = "mark" /\ senders[r].item = e
      BY <2>5 DEF Marking
    <3>2. Cardinality(Marking(e)') = Cardinality(Marking(e)) - 1
      BY <1>n, <2>3, <2>5, Leaves
    <3>3. CASE MarkPublished(r)
      <4>1. e \in Published' /\ faults' = faults
        BY <3>1, <3>3 DEF MarkPublished, Row, Published, TypeOK
      <4>2. Cardinality(Marking(e)) + Cardinality(Holding(e)) <= Cardinality(Replicas)
        <5>1. Marking(e) \cap Holding(e) = {}
          BY DEF Marking, Holding, SendersOK
        <5>2. Marking(e) \in SUBSET Replicas /\ Holding(e) \in SUBSET Replicas
          BY DEF Marking, Holding
        <5> QED  BY <5>1, <5>2, DisjointGroups
      <4> QED  BY <1>0, <1>n, <2>1, <2>3, <4>1, <4>2 DEF CountOK
    <3>4. CASE MarkPublishedFails(r)
      <4>1. /\ faults'[e] = faults[e] + 1
            /\ e \in Published' <=> e \in Published
        BY <3>1, <3>4 DEF MarkPublishedFails, Published, TypeOK
      <4> QED  BY <1>0, <1>n, <2>1, <2>3, <3>2, <4>1 DEF CountOK
    <3> QED  BY <1>6, <3>1, <3>3, <3>4 DEF Marks, MarkFailed, MarkFailedFails
  <2> QED  BY <2>4, <2>5
<1>7. ASSUME NEW r \in Replicas, Restart(r)
      PROVE  CountOK(e)'
  <2>1. /\ senders' = [senders EXCEPT ![r] = Flush({})]
        /\ received' = received /\ outbox' = outbox
    BY <1>7 DEF Restart
  <2>2. Marking(e)' = Marking(e) \ {r} /\ Holding(e)' = Holding(e) \ {r}
    <3>1. \A q \in Replicas : senders'[q] = IF q = r THEN Flush({}) ELSE senders[q]
      BY <2>1 DEF TypeOK
    <3> QED  BY <3>1 DEF Flush, Marking, Holding
  <2>3. /\ Cardinality(Holding(e)') <= Cardinality(Holding(e))
        /\ Cardinality(Holding(e)') \in Nat
    BY <1>n, <2>2, Leaves
  <2>4. /\ faults'[e] \in Nat /\ faults'[e] >= faults[e]
        /\ Cardinality(Marking(e)) + faults[e] <= Cardinality(Marking(e)') + faults'[e]
    <3>1. CASE r \in Marking(e)
      <4>1. faults'[e] = faults[e] + 1
        BY <1>7, <3>1 DEF Restart, Marking, TypeOK
      <4>2. Cardinality(Marking(e)') = Cardinality(Marking(e)) - 1
        BY <1>n, <2>2, <3>1, Leaves
      <4> QED  BY <1>n, <4>1, <4>2
    <3>2. CASE r \notin Marking(e)
      <4>1. faults'[e] = faults[e]
        BY <1>7, <3>2 DEF Restart, Marking, TypeOK
      <4>2. Marking(e)' = Marking(e)
        BY <2>2, <3>2
      <4> QED  BY <1>n, <4>1, <4>2
    <3> QED  BY <3>1, <3>2
  <2>5. Cardinality(Marking(e)') \in Nat
    BY <1>n, <2>2, Leaves
  <2> QED  BY <1>0, <1>n, <2>1, <2>3, <2>4, <2>5 DEF CountOK, Published
<1> QED
  BY <1>2, <1>3, <1>4, <1>5, <1>6, <1>7 DEF Next, Publisher, Sends, Marks

-----------------------------------------------------------------------------
\* The inductive invariant holds.
LEMMA Inductive == Spec => []IInv
<1>1. ASSUME Init
      PROVE  IInv
  <2>1. TypeOK
    BY <1>1, BatchType, OutboxAssumption DEF Init, TypeOK, Row, Flush
  <2>2. Recorded = {} /\ Received = {} /\ Published = {}
    BY <1>1 DEF Init, Row, Recorded, Received, Published
  <2>3. SendersOK /\ ReceiptsOK
    BY <1>1, <2>2 DEF Init, Flush, SendersOK, ReceiptsOK
  <2>4. CountsOK
    BY <1>1, <2>1, <2>2, CountTypes DEF Init, CountsOK
  <2> QED  BY <2>1, <2>3, <2>4 DEF IInv
<1>2. IInv /\ [Next]_vars => IInv'
  BY TypeStep, SendersStep, ReceiptsStep, CountsStep DEF IInv
<1> QED  BY <1>1, <1>2, PTL DEF Spec

\* The types hold, and no batch is larger than the limit.
THEOREM TypeCorrect == Spec => []TypeOK
<1>1. IInv => TypeOK
  BY DEF IInv
<1> QED  BY <1>1, Inductive, PTL

\* An event is received more often than once per replica only for a fault that left
\* the connector without a trace of a receipt.
THEOREM DuplicatesCorrect == Spec => []DuplicatesHaveACause
<1>1. ASSUME IInv
      PROVE  DuplicatesHaveACause
  <2> USE <1>1 DEF IInv
  <2> SUFFICES ASSUME NEW e \in Events
               PROVE  received[e] <= faults[e] + Cardinality(Replicas)
    BY DEF DuplicatesHaveACause
  <2>1. Cardinality(Marking(e)) <= Cardinality(Replicas)
    <3>1. Marking(e) \in SUBSET Replicas
      BY DEF Marking
    <3> QED  BY <3>1, FS_Subset, OutboxAssumption
  <2> QED  BY <2>1, CountTypes DEF CountsOK
<1> QED  BY <1>1, Inductive, PTL

\* Each step of the publisher is a step of at-least-once delivery or none at all.
LEMMA Simulation ==
    ASSUME IInv, [Next]_vars
    PROVE  [Delivery!Next]_<<Recorded, Received, Published>>
<1> USE DEF IInv
<1>1. CASE Recorded' = Recorded /\ Received' = Received /\ Published' = Published
  BY <1>1
<1>2. ASSUME NEW e \in Events, Record(e) \/ BackoffEnds(e)
      PROVE  Delivery!Record(e) \/ UNCHANGED <<Recorded, Received, Published>>
  <2>1. \A f \in Events : f # e => outbox'[f] = outbox[f]
    BY <1>2 DEF Record, BackoffEnds, TypeOK
  <2>2. /\ received' = received
        /\ outbox[e].status # "published" /\ outbox'[e].status = "pending"
        /\ outbox[e].status = "absent" \/ outbox[e].status = "pending"
    BY <1>2 DEF Record, BackoffEnds, Row, TypeOK
  <2>3. Published' = Published /\ Received' = Received /\ Recorded' = Recorded \cup {e}
    BY <2>1, <2>2 DEF Recorded, Received, Published
  <2> QED  BY <2>3 DEF Delivery!Record
<1>3. ASSUME NEW r \in Replicas, NEW e \in Events, Sends(r, e)
      PROVE  Delivery!Receive(e) \/ UNCHANGED <<Recorded, Received, Published>>
  <2>1. outbox' = outbox /\ e \in Recorded
    BY <1>3, SendStep DEF SendersOK
  <2>2. Recorded' = Recorded /\ Published' = Published
    BY <2>1 DEF Recorded, Published
  <2>3. Received' = Received \/ Received' = Received \cup {e}
    <3>1. CASE NotAccepted(r, e)
      BY <3>1 DEF NotAccepted, Received
    <3>2. CASE Accepted(r, e) \/ AnswerLost(r, e)
      BY <3>2 DEF Accepted, AnswerLost, Received, TypeOK
    <3> QED  BY <1>3, <3>1, <3>2 DEF Sends
  <2> QED  BY <2>1, <2>2, <2>3 DEF Delivery!Receive
<1>4. ASSUME NEW r \in Replicas, MarkPublished(r)
      PROVE  Delivery!Finish(senders[r].item) /\ senders[r].item \in Events
  <2>1. senders[r].item \in Received /\ senders[r].item \in Events /\ received' = received
    BY <1>4 DEF MarkPublished, SendersOK, Received
  <2>2. \A f \in Events : outbox'[f] =
          IF f = senders[r].item THEN Row("published", outbox[f].due) ELSE outbox[f]
    BY <1>4, <2>1 DEF MarkPublished, TypeOK
  <2>3. Published' = Published \cup {senders[r].item}
    BY <2>1, <2>2, RowStatus DEF Published
  <2>4. Recorded' = Recorded /\ Received' = Received
    BY <2>1, <2>2, RowStatus DEF Recorded, Received, ReceiptsOK
  <2> QED  BY <2>1, <2>3, <2>4 DEF Delivery!Finish
<1>5. ASSUME NEW r \in Replicas, MarkFailed(r)
      PROVE  UNCHANGED <<Recorded, Received, Published>>
  <2>1. \A f \in Events : outbox'[f].status = outbox[f].status
    BY <1>5 DEF MarkFailed, Row, TypeOK
  <2> QED  BY <1>5, <2>1 DEF MarkFailed, Recorded, Received, Published
<1>6. ASSUME outbox' = outbox, received' = received
      PROVE  UNCHANGED <<Recorded, Received, Published>>
  BY <1>6 DEF Recorded, Received, Published
<1>7. \/ \E e \in Events : Record(e) \/ BackoffEnds(e)
      \/ \E r \in Replicas, e \in Events : Sends(r, e)
      \/ \E r \in Replicas : MarkPublished(r) \/ MarkFailed(r)
      \/ outbox' = outbox /\ received' = received
  BY DEF Next, Publisher, Sends, PendingEvents, MarkPublishedFails, MarkFailedFails, Restart, vars
<1> QED  BY <1>2, <1>3, <1>4, <1>5, <1>6, <1>7 DEF Delivery!Next

\* The publisher delivers at least once.
THEOREM DeliveryCorrect == Spec => DeliversAtLeastOnce
<1>1. Init => Delivery!Init
  BY DEF Init, Row, Recorded, Received, Published, Delivery!Init
<1>2. IInv /\ [Next]_vars => [Delivery!Next]_(Delivery!vars)
  BY Simulation DEF Delivery!vars
<1> QED  BY <1>1, <1>2, Inductive, PTL DEF Spec, DeliversAtLeastOnce, Delivery!Spec
=============================================================================

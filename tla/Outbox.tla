------------------------------- MODULE Outbox -------------------------------
(***************************************************************************)
(* The publisher: how recorded events reach the orchestrator.              *)
(*                                                                         *)
(* Every second each replica reads the oldest unpublished events that are  *)
(* due, posts them one after the other, and marks each one published or    *)
(* failed.  No lock is held: two replicas may send the same event.  The    *)
(* errors of both marks are dropped, an answer may be lost after the       *)
(* orchestrator accepted the event, and a replica may die at any point.    *)
(***************************************************************************)
EXTENDS Naturals, FiniteSets

CONSTANTS
    Events,
    CreatedAt,      \* created_at; transactions may commit in another order
    Refused,        \* events the orchestrator always answers with an error
    Replicas,
    Limit,          \* rows one read may take
    MaxFaults,      \* bound on the lost answers and lost marks of an event
    MaxRestarts     \* bound on the restarts

ASSUME OutboxAssumption ==
    /\ CreatedAt \in [Events -> Nat]
    /\ Refused \subseteq Events
    /\ IsFiniteSet(Events) /\ IsFiniteSet(Replicas)
    /\ Limit \in Nat \ {0} /\ MaxFaults \in Nat /\ MaxRestarts \in Nat

VARIABLES
    outbox,     \* binancepay_v2_event_outbox
    senders,    \* the flush of each replica
    received,   \* how often the orchestrator has accepted an event (history)
    faults,     \* receipts the connector was not left a trace of (history)
    restarts

vars == <<outbox, senders, received, faults, restarts>>

\* next_attempt_at is abstracted to whether it has come.
Row(status, due) == [status |-> status, due |-> due]

\* Between two items, with those still to send; idle when there are none.
Flush(todo) == [pc |-> "flush", todo |-> todo]
\* With the outcome of one item to mark.
Sent(pc, todo, e) == [pc |-> pc, todo |-> todo, item |-> e]

Batches == {batch \in SUBSET Events : Cardinality(batch) <= Limit}

TypeOK ==
    /\ outbox \in [Events -> [status : {"absent", "pending", "published"}, due : BOOLEAN]]
    /\ senders \in [Replicas -> [pc : {"flush"}, todo : Batches] \cup
                                [pc : {"mark", "fail"}, todo : Batches, item : Events]]
    /\ received \in [Events -> Nat]
    /\ faults \in [Events -> 0..MaxFaults]
    /\ restarts \in 0..MaxRestarts

Init ==
    /\ outbox   = [e \in Events |-> Row("absent", FALSE)]
    /\ senders  = [r \in Replicas |-> Flush({})]
    /\ received = [e \in Events |-> 0]
    /\ faults   = [e \in Events |-> 0]
    /\ restarts = 0

\* RecordProviderEvent commits.
Record(e) ==
    /\ outbox[e].status = "absent"
    /\ outbox' = [outbox EXCEPT ![e] = Row("pending", TRUE)]
    /\ UNCHANGED <<senders, received, faults, restarts>>

\* now() reaches next_attempt_at.
BackoffEnds(e) ==
    /\ outbox[e].status = "pending" /\ ~outbox[e].due
    /\ outbox' = [outbox EXCEPT ![e] = Row(@.status, TRUE)]
    /\ UNCHANGED <<senders, received, faults, restarts>>

\* Mutant: published events are not filtered out.
PendingAnyStatus == {e \in Events : outbox[e].status # "absent" /\ outbox[e].due}

Pending == {e \in Events : outbox[e].status = "pending" /\ outbox[e].due}

\* ORDER BY created_at LIMIT
Oldest(batch) ==
    /\ \A e \in batch, f \in Pending \ batch : CreatedAt[e] <= CreatedAt[f]
    /\ Cardinality(batch) <= Limit
    /\ batch # Pending => Cardinality(batch) = Limit

\* The ticker fires and the read returns something to send.
PendingEvents(r, batch) ==
    /\ senders[r] = Flush({})
    /\ batch \subseteq Pending /\ batch # {}
    /\ Oldest(batch)
    /\ senders' = [senders EXCEPT ![r] = Flush(batch)]
    /\ UNCHANGED <<outbox, received, faults, restarts>>

First(r, e) ==
    /\ senders[r].pc = "flush"
    /\ e \in senders[r].todo
    /\ \A f \in senders[r].todo : CreatedAt[e] <= CreatedAt[f]

Outcome(r, pc, e) ==
    senders' = [senders EXCEPT ![r] = Sent(pc, senders[r].todo \ {e}, e)]

\* 2xx.
Accepted(r, e) ==
    /\ First(r, e)
    /\ e \notin Refused
    /\ received' = [received EXCEPT ![e] = @ + 1]
    /\ Outcome(r, "mark", e)
    /\ UNCHANGED <<outbox, faults, restarts>>

\* The orchestrator accepts, and the answer does not arrive in time.
AnswerLost(r, e) ==
    /\ First(r, e)
    /\ e \notin Refused
    /\ faults[e] < MaxFaults
    /\ received' = [received EXCEPT ![e] = @ + 1]
    /\ faults'   = [faults EXCEPT ![e] = @ + 1]
    /\ Outcome(r, "fail", e)
    /\ UNCHANGED <<outbox, restarts>>

\* Mutant: the status code is not looked at.
NotAcceptedIsMarked(r, e) ==
    /\ First(r, e)
    /\ Outcome(r, "mark", e)
    /\ UNCHANGED <<outbox, received, faults, restarts>>

\* Another status code, or the orchestrator was not reached.
NotAccepted(r, e) ==
    /\ First(r, e)
    /\ Outcome(r, "fail", e)
    /\ UNCHANGED <<outbox, received, faults, restarts>>

Continue(r) == senders' = [senders EXCEPT ![r] = Flush(senders[r].todo)]

MarkPublished(r) ==
    /\ senders[r].pc = "mark"
    /\ outbox' = [outbox EXCEPT ![senders[r].item] = Row("published", @.due)]
    /\ Continue(r)
    /\ UNCHANGED <<received, faults, restarts>>

\* MarkPublished returns an error, which is dropped.
MarkPublishedFails(r) ==
    /\ senders[r].pc = "mark"
    /\ faults[senders[r].item] < MaxFaults
    /\ faults' = [faults EXCEPT ![senders[r].item] = @ + 1]
    /\ Continue(r)
    /\ UNCHANGED <<outbox, received, restarts>>

\* Mutant: a failed item ends the flush.
MarkFailedEndsFlush(r) ==
    /\ senders[r].pc = "fail"
    /\ outbox' = [outbox EXCEPT ![senders[r].item] = Row(@.status, FALSE)]
    /\ senders' = [senders EXCEPT ![r] = Flush({})]
    /\ UNCHANGED <<received, faults, restarts>>

\* The row is put off, published by another replica or not.
MarkFailed(r) ==
    /\ senders[r].pc = "fail"
    /\ outbox' = [outbox EXCEPT ![senders[r].item] = Row(@.status, FALSE)]
    /\ Continue(r)
    /\ UNCHANGED <<received, faults, restarts>>

\* MarkFailed returns an error, which is dropped: the row stays due.
MarkFailedFails(r) ==
    /\ senders[r].pc = "fail"
    /\ Continue(r)
    /\ UNCHANGED <<outbox, received, faults, restarts>>

\* The replica dies and starts again, or shutdown cancels the rest of the flush.
Restart(r) ==
    /\ restarts < MaxRestarts
    /\ restarts' = restarts + 1
    /\ \/ /\ senders[r].pc = "mark"
          /\ faults[senders[r].item] < MaxFaults
          /\ faults' = [faults EXCEPT ![senders[r].item] = @ + 1]
       \/ senders[r].pc # "mark" /\ UNCHANGED faults
    /\ senders' = [senders EXCEPT ![r] = Flush({})]
    /\ UNCHANGED <<outbox, received>>

Publisher(r) ==
    \/ \E batch \in SUBSET Events : PendingEvents(r, batch)
    \/ \E e \in Events : Accepted(r, e) \/ AnswerLost(r, e) \/ NotAccepted(r, e)
    \/ MarkPublished(r) \/ MarkPublishedFails(r)
    \/ MarkFailed(r) \/ MarkFailedFails(r)
    \/ Restart(r)

Next ==
    \/ \E e \in Events : Record(e) \/ BackoffEnds(e)
    \/ \E r \in Replicas : Publisher(r)

Spec == Init /\ [][Next]_vars

(***************************************************************************)
(* Fairness.  The ticker fires, a flush goes on, and time passes (weak);   *)
(* an orchestrator that fails now and then still accepts, in the end, an   *)
(* event it does not refuse (strong).                                      *)
(***************************************************************************)
Fairness ==
    /\ \A e \in Events : WF_vars(BackoffEnds(e))
    /\ \A r \in Replicas :
          /\ WF_vars(\E batch \in SUBSET Events : PendingEvents(r, batch))
          /\ WF_vars(\E e \in Events : Accepted(r, e) \/ NotAccepted(r, e))
          /\ \A e \in Events : SF_vars(Accepted(r, e))
          /\ WF_vars(MarkPublished(r))
          /\ WF_vars(MarkFailed(r) \/ MarkFailedFails(r))

FairSpec == Spec /\ Fairness

-----------------------------------------------------------------------------
Recorded  == {e \in Events : outbox[e].status # "absent"}
Received  == {e \in Events : received[e] > 0}
Published == {e \in Events : outbox[e].status = "published"}

Delivery == INSTANCE EventDelivery WITH recorded <- Recorded, received <- Received, done <- Published

\* The publisher delivers at least once: whatever is lost, and whichever replica
\* dies where, an event is published only after the orchestrator has accepted it,
\* and a published event stays so.
DeliversAtLeastOnce == Delivery!Spec

\* Duplicates have a cause: beyond one receipt for each replica, which may all have
\* read the event before the first of them marked it, every receipt of an event
\* stems from a lost answer, a lost mark or a death before the mark.
DuplicatesHaveACause ==
    \A e \in Events : received[e] <= faults[e] + Cardinality(Replicas)

\* Every event the orchestrator does not refuse is published in the end: the
\* refused ones are sent again for ever and never block it, as long as they are
\* fewer than a read may take.
EventsArePublished ==
    \A e \in Events \ Refused : e \in Recorded ~> e \in Published
=============================================================================

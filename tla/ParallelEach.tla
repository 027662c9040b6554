---------------------------- MODULE ParallelEach ----------------------------
(***************************************************************************)
(* parallelEach: the items of one batch are handed to worker goroutines    *)
(* over an unbuffered channel, until all are handed over or the context    *)
(* is cancelled; the call returns when the workers have ended.             *)
(*                                                                         *)
(* PaymentStatus relies on what is shown here: a reconciler handles each   *)
(* claimed row once, and claims again only when the batch is quiet.        *)
(***************************************************************************)
EXTENDS Naturals, FiniteSets

CONSTANTS
    N,              \* len(items)
    Concurrency

ASSUME PoolAssumption == N \in Nat /\ Concurrency \in Nat \ {0}

Items   == 1..N
Workers == 1..(IF Concurrency < N THEN Concurrency ELSE N)

VARIABLES
    pc,         \* of the caller
    next,       \* the item it offers
    closed,     \* close(jobs) was called
    workers,
    cancelled,  \* ctx.Done() is closed
    handled     \* how often work was called for an item (history)

poolVars == <<pc, next, closed, workers, cancelled, handled>>

Worker(state, item) == [state |-> state, item |-> item]
NoWorker == Worker("unborn", 0)

PoolTypeOK ==
    /\ pc \in {"start", "send", "wait", "returned"}
    /\ next \in 1..(N + 1)
    /\ closed \in BOOLEAN /\ cancelled \in BOOLEAN
    /\ workers \in [Workers -> [state : {"unborn", "receive", "work", "ended"}, item : 0..N]]
    /\ handled \in [Items -> Nat]

PoolInit ==
    /\ pc = "start" /\ next = 1 /\ closed = FALSE
    /\ workers = [w \in Workers |-> NoWorker]
    /\ cancelled \in BOOLEAN
    /\ handled = [i \in Items |-> 0]

\* SIGTERM.
Cancel ==
    /\ ~cancelled
    /\ cancelled' = TRUE
    /\ UNCHANGED <<pc, next, closed, workers, handled>>

NothingToDo ==
    /\ pc = "start"
    /\ N = 0 \/ cancelled
    /\ pc' = "returned"
    /\ UNCHANGED <<next, closed, workers, cancelled, handled>>

Start ==
    /\ pc = "start"
    /\ N > 0 /\ ~cancelled
    /\ pc' = "send"
    /\ workers' = [w \in Workers |-> Worker("receive", 0)]
    /\ UNCHANGED <<next, closed, cancelled, handled>>

\* Mutant: the loop variable is not advanced past every item.
HandOverAgain(w) ==
    /\ pc = "send" /\ next <= N
    /\ workers[w].state = "receive"
    /\ workers' = [workers EXCEPT ![w] = Worker("work", next)]
    /\ handled' = [handled EXCEPT ![next] = @ + 1]
    /\ next' = next + 1 \/ next' = next
    /\ UNCHANGED <<pc, closed, cancelled>>

\* jobs <- item meets a receive; also after the cancellation, if select picks it.
HandOver(w) ==
    /\ pc = "send" /\ next <= N
    /\ workers[w].state = "receive"
    /\ workers' = [workers EXCEPT ![w] = Worker("work", next)]
    /\ handled' = [handled EXCEPT ![next] = @ + 1]
    /\ next' = next + 1
    /\ UNCHANGED <<pc, closed, cancelled>>

\* All items are handed over, or select picks the cancellation.
StopSending ==
    /\ pc = "send"
    /\ next > N \/ cancelled
    /\ pc' = "wait"
    /\ closed' = TRUE
    /\ UNCHANGED <<next, workers, cancelled, handled>>

WorkEnds(w) ==
    /\ workers[w].state = "work"
    /\ workers' = [workers EXCEPT ![w] = Worker("receive", 0)]
    /\ UNCHANGED <<pc, next, closed, cancelled, handled>>

\* Mutant: a receive loop that skips the zero values of a closed channel.
WorkerReceivesOn(w) ==
    /\ workers[w].state = "receive"
    /\ closed
    /\ workers' = [workers EXCEPT ![w] = Worker("receive", 0)]
    /\ UNCHANGED <<pc, next, closed, cancelled, handled>>

\* range over a closed channel
WorkerEnds(w) ==
    /\ workers[w].state = "receive"
    /\ closed
    /\ workers' = [workers EXCEPT ![w] = Worker("ended", 0)]
    /\ UNCHANGED <<pc, next, closed, cancelled, handled>>

\* Mutant: the workers are not waited for.
ReturnAtOnce ==
    /\ pc = "wait"
    /\ pc' = "returned"
    /\ UNCHANGED <<next, closed, workers, cancelled, handled>>

\* workers.Wait()
Return ==
    /\ pc = "wait"
    /\ \A w \in Workers : workers[w].state = "ended"
    /\ pc' = "returned"
    /\ UNCHANGED <<next, closed, workers, cancelled, handled>>

Run(w) == HandOver(w) \/ WorkEnds(w) \/ WorkerEnds(w)

\* The call is over; the reconciler calls again at the next tick.
Over == pc = "returned" /\ UNCHANGED poolVars

PoolNext == Cancel \/ NothingToDo \/ Start \/ (\E w \in Workers : Run(w)) \/ StopSending \/ Return \/ Over

PoolSpec == PoolInit /\ [][PoolNext]_poolVars

\* Goroutines that can run do, and every call of work returns: its provider call has
\* a timeout.
PoolFairness ==
    /\ WF_poolVars(NothingToDo) /\ WF_poolVars(Start) /\ WF_poolVars(StopSending) /\ WF_poolVars(Return)
    /\ \A w \in Workers : WF_poolVars(Run(w))

FairPoolSpec == PoolSpec /\ PoolFairness

-----------------------------------------------------------------------------
\* No item is handled twice, and no two workers have the same one: a claimed payment
\* is polled once per claim.
HandledOnce ==
    /\ \A i \in Items : handled[i] <= 1
    /\ \A v, w \in Workers :
          workers[v].state = "work" /\ workers[w].state = "work"
              /\ workers[v].item = workers[w].item => v = w

\* When the call returns no worker runs on, and, unless it was cancelled, every item
\* has been handled: the next claim meets a quiet batch.
ReturnsQuiet ==
    pc = "returned" =>
        /\ \A w \in Workers : workers[w].state \in {"unborn", "ended"}
        /\ cancelled \/ \A i \in Items : handled[i] = 1

\* The call returns, whenever the cancellation comes: nobody waits for a send or a
\* receive that has no partner.
Returns == <>(pc = "returned")
=============================================================================

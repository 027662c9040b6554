--------------------------- MODULE Reconciler_proofs ---------------------------
(***************************************************************************)
(* Proofs about the reconciler: about ReconcileTimes for any intervals and *)
(* number of replicas, about ParallelEach for any number of items and any  *)
(* concurrency.                                                            *)
(*                                                                         *)
(* The argument for the times: who holds the row claimed it "held" ago, so *)
(* that nothing has been heard for at most that long (HeardOK) and, while  *)
(* no batch has outlasted its lease, the minute of the claim is still      *)
(* running (LeaseOK); and a row that is due has waited since its last      *)
(* claim for a lease or for a retry's delay, which counts at least that    *)
(* claim (SpacedOK).                                                       *)
(*                                                                         *)
(* The argument for the pool: the items handled are exactly those before   *)
(* the one that is offered, and the caller leaves its loop only at the end *)
(* of them or when the context is cancelled.                               *)
(***************************************************************************)
EXTENDS ReconcileTimes, ParallelEach, TLAPS

-----------------------------------------------------------------------------
(* The times *)

\* Nothing is claimed of once a batch has outlasted its lease.
LeaseOK ==
    /\ \A r \in Holders : held[r] <= longest
    /\ longest < Lease =>
        /\ \A r \in Holders : open => wait + held[r] >= Lease
        /\ \A r, s \in Holders : r = s

SpacedOK ==
    /\ \A r \in Holders : attempts >= 1
    /\ open => unclaimed + wait >= Least(Lease, Delay(1))

HeardOK ==
    /\ \A r \in Holders : unheard <= held[r]
    /\ wait <= LongestWait
    /\ wait > 0 => late = 0
    /\ open => unheard + wait <= MaxHold + LongestWait + late

IInv == TypeOK /\ LeaseOK /\ SpacedOK /\ HeardOK

-----------------------------------------------------------------------------
\* Delays grow with the attempts they count, up to the longest.
LEMMA Delays ==
    /\ LongestDelay \in Nat /\ LongestWait \in Nat /\ Delay(1) \in Nat
    /\ \A n \in 0..(MaxPower + 1) :
          /\ Delay(n) \in 0..LongestDelay
          /\ n >= 1 => Delay(1) <= Delay(n)
<1>1. /\ 2^0 = 1 /\ 2^1 = 2 /\ 2^2 = 4 /\ 2^3 = 8 /\ 2^4 = 16
      /\ 2^5 = 32 /\ 2^6 = 64 /\ 2^7 = 128 /\ 2^8 = 256
  OBVIOUS
<1>2. /\ Delay(0) = Least(Cap, Base) /\ Delay(1) = Least(Cap, Base * 2)
      /\ Delay(2) = Least(Cap, Base * 4) /\ Delay(3) = Least(Cap, Base * 8)
      /\ Delay(4) = Least(Cap, Base * 16) /\ Delay(5) = Least(Cap, Base * 32)
      /\ Delay(6) = Least(Cap, Base * 64) /\ Delay(7) = Least(Cap, Base * 128)
      /\ Delay(8) = Least(Cap, Base * 256) /\ Delay(9) = Least(Cap, Base * 256)
  BY <1>1, TimesAssumption DEF Delay, Least, MaxPower
<1>3. \A n \in 0..(MaxPower + 1) :
         n = 0 \/ n = 1 \/ n = 2 \/ n = 3 \/ n = 4 \/ n = 5 \/ n = 6 \/ n = 7 \/ n = 8 \/ n = 9
  BY DEF MaxPower
<1> QED  BY <1>2, <1>3, TimesAssumption DEF LongestDelay, LongestWait, Least, MaxPower

\* What a write of a status keeps, once the clocks of the holders are known.
LEMMA Writes ==
    ASSUME IInv, NEW status \in BOOLEAN, Write(status),
           \/ held' = held
           \/ \E r \in Replicas : Release(r)
    PROVE  IInv'
<1> USE TimesAssumption, Delays
<1>1. /\ held' \in [Replicas -> {Free} \cup 0..MaxHold]
      /\ \A r \in Holders' : r \in Holders /\ held'[r] = held[r] /\ held'[r] \in 0..MaxHold
  BY DEF IInv, TypeOK, Release, Holders
<1>2. TypeOK'
  BY <1>1 DEF IInv, TypeOK, Write, LongestWait, Least
<1>3. LeaseOK'
  BY <1>1 DEF IInv, LeaseOK, Write
<1>4. SpacedOK'
  BY <1>1 DEF IInv, TypeOK, SpacedOK, Write, Least
<1>5. HeardOK'
  BY <1>1 DEF IInv, TypeOK, HeardOK, Write, LongestWait
<1> QED  BY <1>2, <1>3, <1>4, <1>5 DEF IInv

LEMMA Step ==
    ASSUME IInv, [Next]_vars
    PROVE  IInv'
<1> USE TimesAssumption, Delays
<1>1. CASE UNCHANGED vars
  BY <1>1 DEF vars, IInv, TypeOK, LeaseOK, SpacedOK, HeardOK, Holders
<1>2. CASE Tick
  <2>1. TypeOK'
    BY <1>2 DEF Tick, IInv, TypeOK, Least, Free
  <2>2. LeaseOK'
    <3>1. Holders' = Holders /\ open' = open
      BY <1>2 DEF Tick, IInv, TypeOK, Holders, Free
    <3>2. \A r \in Holders : held'[r] = held[r] + 1 /\ held'[r] \in Nat
      BY <1>2 DEF Tick, IInv, TypeOK, Holders, Free
    <3>3. longest' >= longest /\ \A r \in Holders : held'[r] <= longest'
      BY <1>2, <3>2 DEF Tick, IInv, TypeOK, LeaseOK, Holders
    <3>4. longest' < Lease => \A r \in Holders : open' => wait' + held'[r] >= Lease
      BY <1>2, <3>1, <3>2, <3>3 DEF Tick, IInv, TypeOK, LeaseOK, Holders
    <3> QED  BY <1>2, <3>1, <3>3, <3>4 DEF Tick, IInv, TypeOK, LeaseOK
  <2>3. SpacedOK'
    BY <1>2 DEF Tick, IInv, TypeOK, SpacedOK, Holders, Free, Least
  <2>4. HeardOK'
    BY <1>2 DEF Tick, IInv, TypeOK, HeardOK, Holders, Free
  <2> QED  BY <2>1, <2>2, <2>3, <2>4 DEF IInv
<1>3. CASE WrittenElsewhere
  BY <1>3, Writes DEF WrittenElsewhere
<1>4. ASSUME NEW r \in Replicas, Claim(r)
      PROVE  IInv'
  <2>1. TypeOK'
    BY <1>4 DEF Claim, IInv, TypeOK, Least, LongestWait, MaxPower
  <2>2. LeaseOK'
    <3>1. longest < Lease => Holders = {}
      BY <1>4 DEF Claim, IInv, TypeOK, LeaseOK, Holders, Free
    <3>2. /\ \A s \in Replicas \ {r} : held'[s] = held[s]
          /\ held'[r] = 0 /\ wait' = Lease
      BY <1>4 DEF Claim, IInv, TypeOK
    <3>3. \A s \in Holders' : held'[s] <= longest'
      BY <1>4, <3>2 DEF Claim, IInv, TypeOK, LeaseOK, Holders, Free
    <3>4. longest' < Lease => Holders' \subseteq {r}
      BY <1>4, <3>1, <3>2 DEF Claim, Holders, Free
    <3> QED  BY <3>2, <3>3, <3>4 DEF LeaseOK
  <2>3. SpacedOK'
    BY <1>4 DEF Claim, IInv, TypeOK, SpacedOK, Holders, Free, Least, MaxPower
  <2>4. HeardOK'
    BY <1>4 DEF Claim, IInv, TypeOK, HeardOK, Holders, Free, LongestWait
  <2> QED  BY <2>1, <2>2, <2>3, <2>4 DEF IInv
<1>5. ASSUME NEW r \in Replicas, Retry(r)
      PROVE  IInv'
  <2>1. /\ r \in Holders /\ held[r] \in 0..MaxHold
        /\ attempts \in 1..(MaxPower + 1)
        /\ wait' = Delay(attempts) /\ wait' \in 0..LongestWait /\ Delay(1) <= wait'
    BY <1>5 DEF Retry, Release, IInv, TypeOK, SpacedOK, Holders, LongestWait
  <2>2. TypeOK'
    BY <1>5, <2>1 DEF Retry, Release, IInv, TypeOK
  <2>3. LeaseOK'
    BY <1>5, <2>1 DEF Retry, Release, IInv, TypeOK, LeaseOK, Holders
  <2>4. SpacedOK'
    BY <1>5, <2>1 DEF Retry, Release, IInv, TypeOK, SpacedOK, Holders, Least
  <2>5. HeardOK'
    BY <1>5, <2>1 DEF Retry, Release, IInv, TypeOK, HeardOK, Holders
  <2> QED  BY <2>2, <2>3, <2>4, <2>5 DEF IInv
<1>6. ASSUME NEW r \in Replicas, Leave(r)
      PROVE  IInv'
  BY <1>6 DEF Leave, Release, IInv, TypeOK, LeaseOK, SpacedOK, HeardOK, Holders
<1>7. ASSUME NEW r \in Replicas, Observe(r)
      PROVE  IInv'
  BY <1>7, Writes DEF Observe
<1> QED  BY <1>1, <1>2, <1>3, <1>4, <1>5, <1>6, <1>7 DEF Next

LEMMA Invariant == Spec => []IInv
<1>1. Init => IInv
  BY TimesAssumption, Delays
     DEF Init, IInv, TypeOK, LeaseOK, SpacedOK, HeardOK, Holders, Free, LongestWait, Least, MaxPower
<1>2. IInv /\ [Next]_vars => IInv'
  BY Step
<1> QED  BY <1>1, <1>2, PTL DEF Spec

-----------------------------------------------------------------------------
\* Times and attempts stay in their ranges; nothing is due in the past.
THEOREM TypeCorrect == Spec => []TypeOK
<1>1. IInv => TypeOK
  BY DEF IInv
<1> QED  BY Invariant, <1>1, PTL

\* While batches have ended within the lease of their claims, no order has been polled by
\* two replicas at once.
THEOREM OneReplicaCorrect == Spec => []OneReplicaPolls
<1>1. IInv => OneReplicaPolls
  BY DEF IInv, LeaseOK, OneReplicaPolls
<1> QED  BY Invariant, <1>1, PTL

\* However polls fail and retries come late, an open row is heard of in bounded time.
THEOREM HeardCorrect == Spec => []OpenIsHeardOf
<1>1. IInv => OpenIsHeardOf
  BY TimesAssumption, Delays DEF IInv, TypeOK, HeardOK, OpenIsHeardOf
<1> QED  BY Invariant, <1>1, PTL

\* Two claims of a row are a lease or the first delay apart.
THEOREM SpacedCorrect == Spec => ClaimsAreSpaced
<1>1. IInv /\ [Next]_vars => [\A r \in Replicas : Claim(r) => unclaimed >= Least(Lease, Delay(1))]_vars
  BY TimesAssumption, Delays DEF IInv, TypeOK, SpacedOK, Claim, Least
<1> QED  BY Invariant, <1>1, PTL DEF Spec, ClaimsAreSpaced

-----------------------------------------------------------------------------
(* The pool *)

HandledOK == \A i \in Items : handled[i] = IF i < next THEN 1 ELSE 0

WorkersOK ==
    /\ \A w \in Workers : workers[w].state = "work" => workers[w].item \in 1..(next - 1)
    /\ \A v, w \in Workers :
          workers[v].state = "work" /\ workers[w].state = "work"
              /\ workers[v].item = workers[w].item => v = w

CallerOK ==
    /\ pc = "start" => \A w \in Workers : workers[w].state = "unborn"
    /\ pc = "start" => next = 1
    /\ pc \in {"wait", "returned"} => cancelled \/ next = N + 1
    /\ pc = "returned" => \A w \in Workers : workers[w].state \in {"unborn", "ended"}

PoolInv == PoolTypeOK /\ HandledOK /\ WorkersOK /\ CallerOK

-----------------------------------------------------------------------------
\* What a step of one worker does to all of them.
LEMMA WorkerStep ==
    ASSUME PoolTypeOK, NEW w \in Workers, NEW state, NEW item,
           workers' = [workers EXCEPT ![w] = Worker(state, item)]
    PROVE  \A v \in Workers : /\ v = w => workers'[v].state = state /\ workers'[v].item = item
                              /\ v # w => workers'[v] = workers[v]
<1>1. \A v \in Workers : workers'[v] = IF v = w THEN Worker(state, item) ELSE workers[v]
  BY DEF PoolTypeOK
<1>2. Worker(state, item).state = state /\ Worker(state, item).item = item
  BY DEF Worker
<1> QED  BY <1>1, <1>2

\* Every step keeps the invariant.
LEMMA PoolStep ==
    ASSUME PoolInv, [PoolNext]_poolVars
    PROVE  PoolInv'
<1> USE PoolAssumption DEF PoolInv
<1>1. CASE UNCHANGED poolVars
  BY <1>1 DEF poolVars, PoolTypeOK, HandledOK, WorkersOK, CallerOK
<1>2. CASE Cancel
  BY <1>2 DEF Cancel, PoolTypeOK, HandledOK, WorkersOK, CallerOK
<1>3. CASE NothingToDo
  BY <1>3 DEF NothingToDo, PoolTypeOK, HandledOK, WorkersOK, CallerOK
<1>4. CASE Start
  <2>1. \A w \in Workers : workers'[w] = Worker("receive", 0)
    BY <1>4 DEF Start
  <2>2. workers' \in [Workers -> [state : {"unborn", "receive", "work", "ended"}, item : 0..N]]
    BY <1>4 DEF Start, Worker
  <2> QED  BY <1>4, <2>1, <2>2 DEF Start, Worker, PoolTypeOK, HandledOK, WorkersOK, CallerOK
<1>5. ASSUME NEW w \in Workers, HandOver(w)
      PROVE  PoolInv'
  <2>1. /\ pc = "send" /\ next \in Items /\ next' = next + 1
        /\ pc' = pc /\ cancelled' = cancelled /\ closed' = closed
        /\ handled' = [handled EXCEPT ![next] = @ + 1]
        /\ workers' = [workers EXCEPT ![w] = Worker("work", next)]
    BY <1>5 DEF HandOver, Items, PoolTypeOK
  <2>2. \A v \in Workers : /\ v = w => workers'[v].state = "work" /\ workers'[v].item = next
                           /\ v # w => workers'[v] = workers[v]
    BY <2>1, WorkerStep
  <2>3. Worker("work", next) \in [state : {"unborn", "receive", "work", "ended"}, item : 0..N]
    BY <2>1 DEF Worker, Items
  <2>4. PoolTypeOK'
    BY <2>1, <2>3 DEF Items, PoolTypeOK
  <2>5. HandledOK'
    <3>1. ASSUME NEW i \in Items
          PROVE  handled'[i] = IF i < next' THEN 1 ELSE 0
      <4>1. CASE i = next
        BY <2>1, <4>1 DEF Items, PoolTypeOK, HandledOK
      <4>2. CASE i # next
        BY <2>1, <4>2 DEF Items, PoolTypeOK, HandledOK
      <4> QED  BY <4>1, <4>2
    <3> QED  BY <3>1 DEF HandledOK
  <2>6. WorkersOK'
    <3>1. \A v \in Workers : workers'[v].state = "work" => workers'[v].item \in 1..next
      BY <2>1, <2>2 DEF Items, WorkersOK, PoolTypeOK
    <3>2. next' - 1 = next
      BY <2>1 DEF Items
    <3>3. \A v \in Workers : v # w /\ workers'[v].state = "work" => workers'[v].item # next
      BY <2>1, <2>2 DEF Items, WorkersOK
    <3> QED  BY <2>2, <3>1, <3>2, <3>3 DEF WorkersOK
  <2>7. CallerOK'
    BY <2>1 DEF CallerOK
  <2> QED  BY <2>4, <2>5, <2>6, <2>7
<1>6. ASSUME NEW w \in Workers, WorkEnds(w) \/ WorkerEnds(w)
      PROVE  PoolInv'
  <2>1. /\ pc' = pc /\ cancelled' = cancelled /\ closed' = closed /\ next' = next
        /\ handled' = handled /\ workers[w].state \in {"work", "receive"}
    BY <1>6 DEF WorkEnds, WorkerEnds
  <2>2. PICK state \in {"receive", "ended"} : workers' = [workers EXCEPT ![w] = Worker(state, 0)]
    BY <1>6 DEF WorkEnds, WorkerEnds
  <2>3. \A v \in Workers : /\ v = w => workers'[v].state = state
                           /\ v # w => workers'[v] = workers[v]
    <3>1. \A v \in Workers : workers'[v] = IF v = w THEN Worker(state, 0) ELSE workers[v]
      BY <2>2 DEF PoolTypeOK
    <3>2. Worker(state, 0).state = state
      BY DEF Worker
    <3> QED  BY <3>1, <3>2
  <2>4. Worker(state, 0) \in [state : {"unborn", "receive", "work", "ended"}, item : 0..N]
    BY DEF Worker
  <2>5. PoolTypeOK' /\ HandledOK'
    BY <2>1, <2>2, <2>4 DEF PoolTypeOK, HandledOK
  <2>6. WorkersOK'
    BY <2>1, <2>3 DEF WorkersOK
  <2>7. pc # "start" /\ pc # "returned"
    BY <2>1 DEF CallerOK
  <2>8. CallerOK'
    BY <2>1, <2>7 DEF CallerOK
  <2> QED  BY <2>5, <2>6, <2>8
<1>7. CASE StopSending
  BY <1>7 DEF StopSending, PoolTypeOK, HandledOK, WorkersOK, CallerOK
<1>8. CASE Return
  BY <1>8 DEF Return, PoolTypeOK, HandledOK, WorkersOK, CallerOK
<1>9. CASE Over
  BY <1>1, <1>9 DEF Over
<1> QED
  BY <1>1, <1>2, <1>3, <1>4, <1>5, <1>6, <1>7, <1>8, <1>9 DEF PoolNext, Run

\* The inductive invariant holds.
LEMMA PoolInvariant == PoolSpec => []PoolInv
<1>1. PoolInit => PoolInv
  <2>1. NoWorker.state = "unborn" /\
        NoWorker \in [state : {"unborn", "receive", "work", "ended"}, item : 0..N]
    BY PoolAssumption DEF NoWorker, Worker
  <2> SUFFICES ASSUME PoolInit
               PROVE  PoolInv
    OBVIOUS
  <2>2. \A w \in Workers : workers[w].state = "unborn"
    BY <2>1 DEF PoolInit
  <2>3. PoolTypeOK
    <3>1. next \in 1..(N + 1) /\ handled \in [Items -> Nat]
      BY PoolAssumption DEF PoolInit
    <3>2. workers \in [Workers -> [state : {"unborn", "receive", "work", "ended"}, item : 0..N]]
      BY <2>1 DEF PoolInit
    <3>3. pc = "start" /\ closed \in BOOLEAN /\ cancelled \in BOOLEAN
      BY DEF PoolInit
    <3> QED  BY <3>1, <3>2, <3>3 DEF PoolTypeOK
  <2>4. HandledOK
    BY PoolAssumption DEF PoolInit, HandledOK, Items
  <2>5. WorkersOK
    BY <2>2 DEF WorkersOK
  <2>6. CallerOK
    BY <2>2 DEF PoolInit, CallerOK
  <2> QED  BY <2>3, <2>4, <2>5, <2>6 DEF PoolInv
<1> QED  BY <1>1, PoolStep, PTL DEF PoolSpec

\* The types hold, and the caller never offers an item beyond the last.
THEOREM PoolTypeCorrect == PoolSpec => []PoolTypeOK
<1>1. PoolInv => PoolTypeOK
  BY DEF PoolInv
<1> QED  BY <1>1, PoolInvariant, PTL

\* No item is handled twice, whatever the number of workers.
THEOREM HandledOnceCorrect == PoolSpec => []HandledOnce
<1>1. PoolInv => HandledOnce
  BY DEF PoolInv, HandledOK, WorkersOK, HandledOnce
<1> QED  BY <1>1, PoolInvariant, PTL

\* A call that has returned left no worker behind and, unless it was cancelled, no item.
THEOREM ReturnsQuietCorrect == PoolSpec => []ReturnsQuiet
<1>1. ASSUME PoolInv
      PROVE  ReturnsQuiet
  <2> USE <1>1 DEF PoolInv
  <2>1. pc = "returned" => \A w \in Workers : workers[w].state \in {"unborn", "ended"}
    BY DEF CallerOK
  <2>2. pc = "returned" /\ ~cancelled => \A i \in Items : handled[i] = 1
    BY PoolAssumption DEF CallerOK, HandledOK, Items
  <2> QED  BY <2>1, <2>2 DEF ReturnsQuiet
<1> QED  BY <1>1, PoolInvariant, PTL
=============================================================================

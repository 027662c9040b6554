--------------------------- MODULE ReconcileTimes ---------------------------
(***************************************************************************)
(* When an open order is polled: its next_reconcile_at, its attempts and   *)
(* the replicas that hold it, against the clock.                           *)
(*                                                                         *)
(* PaymentStatus leaves time out: there a claimed row may be due again at  *)
(* any moment.  Here one row is followed in units of ten seconds, all      *)
(* times being relative: how long until it is due, how long ago it was     *)
(* claimed.                                                                *)
(***************************************************************************)
EXTENDS Integers

CONSTANTS
    Replicas,
    First,      \* until a new row is due
    Lease,      \* interval '1 minute'
    Base,       \* interval '10 seconds'
    Cap,        \* interval '1 hour'
    MaxHold,    \* the longest a replica is busy with a batch it has claimed
    MaxLate     \* the longest a due row waits to be claimed: the replicas may all be
                \* busy with other batches, and then wait for their next tick

ASSUME TimesAssumption ==
    /\ Lease \in Nat \ {0} /\ First \in 0..Lease /\ Base \in Nat /\ Cap \in Nat
    /\ MaxHold \in Nat /\ MaxLate \in Nat

MaxPower == 8   \* least(reconcile_attempts,8)

Free == -1

VARIABLES
    open,       \* the status is created or pending
    wait,       \* until next_reconcile_at
    attempts,   \* reconcile_attempts; above MaxPower all are one
    held,       \* how long ago a replica claimed the row it has not finished with
    late,       \* how long the row has been due
    unclaimed,  \* since the last claim, up to Lease (history)
    unheard,    \* since the last claim, GET or webhook that wrote the row (history)
    longest     \* the longest a replica has held the row (history)

vars == <<open, wait, attempts, held, late, unclaimed, unheard, longest>>

Least(a, b) == IF a < b THEN a ELSE b

\* Mutant: only the interval is capped.
DelayUncapped(n) == Least(Cap, Base * 2^n)

Delay(n) == Least(Cap, Base * 2^Least(n, MaxPower))

LongestDelay == Delay(MaxPower)
LongestWait  == IF LongestDelay < Lease THEN Lease ELSE LongestDelay

TypeOK ==
    /\ open \in BOOLEAN
    /\ wait \in Nat
    /\ attempts \in 0..(MaxPower + 1)
    /\ held \in [Replicas -> {Free} \cup 0..MaxHold]
    /\ late \in 0..MaxLate /\ unclaimed \in 0..Lease /\ unheard \in Nat
    /\ longest \in 0..MaxHold

\* CompleteCreate has just stored the row.
Init ==
    /\ open = TRUE /\ wait = First /\ attempts = 0
    /\ held = [r \in Replicas |-> Free]
    /\ late = 0 /\ unclaimed = Lease /\ unheard = 0 /\ longest = 0

\* Ten seconds pass.  A batch has ended within MaxHold: every poll has a timeout, and the
\* configured concurrency tells how many of the batch's polls follow each other.  A due
\* row is claimed within MaxLate, as long as the due rows fit one batch.
Tick ==
    /\ \A r \in Replicas : held[r] < MaxHold
    /\ wait = 0 /\ open => late < MaxLate
    /\ wait' = IF wait = 0 THEN 0 ELSE wait - 1
    /\ late' = IF open /\ wait = 0 THEN late + 1 ELSE 0
    /\ held' = [r \in Replicas |-> IF held[r] = Free THEN Free ELSE held[r] + 1]
    /\ unclaimed' = Least(Lease, unclaimed + 1)
    /\ unheard' = IF open THEN unheard + 1 ELSE 0
    /\ longest' = IF \E r \in Replicas : held'[r] > longest THEN longest + 1 ELSE longest
    /\ UNCHANGED <<open, attempts>>

\* Mutant: the row is read, not reserved.
ClaimWithoutLease(r) ==
    /\ held[r] = Free
    /\ open /\ wait = 0
    /\ attempts' = Least(MaxPower, attempts) + 1
    /\ held' = [held EXCEPT ![r] = 0]
    /\ late' = 0 /\ unclaimed' = 0 /\ unheard' = 0
    /\ UNCHANGED <<open, wait, longest>>

\* Mutant: attempts are not counted by the claim.
ClaimUncounted(r) ==
    /\ held[r] = Free
    /\ open /\ wait = 0
    /\ wait' = Lease
    /\ held' = [held EXCEPT ![r] = 0]
    /\ late' = 0 /\ unclaimed' = 0 /\ unheard' = 0
    /\ UNCHANGED <<open, attempts, longest>>

\* ClaimPaymentsForReconciliation.
Claim(r) ==
    /\ held[r] = Free
    /\ open /\ wait = 0
    /\ wait' = Lease
    /\ attempts' = Least(MaxPower, attempts) + 1
    /\ held' = [held EXCEPT ![r] = 0]
    /\ late' = 0 /\ unclaimed' = 0 /\ unheard' = 0
    /\ UNCHANGED <<open, longest>>

Release(r) == held[r] # Free /\ held' = [held EXCEPT ![r] = Free]

\* RetryPaymentReconciliation: after an error of the provider or a mismatch.
Retry(r) ==
    /\ Release(r)
    /\ open
    /\ wait' = Delay(attempts)
    /\ late' = 0
    /\ UNCHANGED <<open, attempts, unclaimed, unheard, longest>>

\* The retry finds the row settled, its statement fails, the event was known, or the
\* replica dies: nothing is written.
Leave(r) ==
    /\ Release(r)
    /\ UNCHANGED <<open, wait, attempts, late, unclaimed, unheard, longest>>

\* A status is written: open rows are due in a minute, final ones never.
Write(status) ==
    /\ open' = status
    /\ wait' = IF status THEN Lease ELSE 0
    /\ late' = 0 /\ unheard' = 0
    /\ UNCHANGED <<attempts, unclaimed, longest>>

\* UpdatePaymentObservation or RecordProviderEvent.
Observe(r) == Release(r) /\ \E status \in BOOLEAN : Write(status)

\* UpdateStatus of GET and cancel, RecordProviderEvent of a webhook.
WrittenElsewhere == UNCHANGED held /\ \E status \in BOOLEAN : Write(status)

Next ==
    \/ Tick \/ WrittenElsewhere
    \/ \E r \in Replicas : Claim(r) \/ Retry(r) \/ Leave(r) \/ Observe(r)

Spec == Init /\ [][Next]_vars

-----------------------------------------------------------------------------
\* A row is claimed at most once in twenty seconds, whatever fails and whoever retries
\* late, so that polling alone does not hammer a failing provider.  (Only claims are
\* spaced: a replica that works off its batch slowly may ask for the order at the moment
\* another one does.)
ClaimsAreSpaced ==
    [][\A r \in Replicas : Claim(r) => unclaimed >= Least(Lease, Delay(1))]_vars

\* As long as replicas are done with a batch before the minute of its claim is over, no
\* two of them poll one row: neither a retry nor a status written elsewhere hands it on
\* too early.  (Once one is late, its retry may shorten the minute of another.)
Holders == {r \in Replicas : held[r] # Free}

OneReplicaPolls ==
    longest < Lease => \A r, s \in Holders : r = s

\* An open row is not forgotten, however often it has failed: it is claimed or written
\* within the longest delay of a retry, 2560 seconds, and what batch and claim take.
OpenIsHeardOf ==
    open => unheard <= MaxHold + LongestWait + MaxLate
=============================================================================

------------------------------- MODULE Metrics -------------------------------
(***************************************************************************)
(* The registry of metrics: maps behind one sync.RWMutex.                  *)
(*                                                                         *)
(* Handlers, reconciler and publisher observe, collectMetrics sets the     *)
(* gauges, and a scrape reads every family and writes the page while it    *)
(* holds the read lock.  A scrape is a request, so it is observed too.     *)
(***************************************************************************)
EXTENDS Integers, Sequences

CONSTANTS
    Goroutines, NoGoroutine,
    Limits,             \* len(limits)
    Observed,           \* the observations made
    MaxObservations,    \* bound on the observations of a behaviour
    MaxCollections      \* bound on those of collectMetrics

ASSUME MetricsAssumption ==
    NoGoroutine \notin Goroutines /\ Limits \in Nat /\ MaxObservations \in Nat /\ MaxCollections \in Nat

\* In the order a page lists them.
Order == <<"requests", "durations", "provider", "providerDurations", "operations", "gauges">>

\* Status classes, results: what went well and what did not.
Results  == {"good", "bad"}
Counters == {"requests", "provider", "operations"}
Gauges   == {"nonterminal", "reconciliation", "outbox"}

\* The counter an observation adds to, its label, and the least limit its duration
\* is within; Limits + 1 is +Inf.
Observations == [counter : Counters, result : Results, within : 1..(Limits + 1)]

ASSUME ObservedAssumption ==
    Observed \subseteq Observations /\ \E o \in Observed : o.counter = "requests"

NoObservation == [counter |-> "none", result |-> "none", within |-> 1]
HistogramOf(counter) == IF counter = "requests" THEN "durations" ELSE "providerDurations"

VARIABLES
    registry,   \* the six maps
    writer,     \* who holds or awaits the write lock
    readers,    \* who holds the read lock
    at,         \* where a goroutine is
    todo,       \* its observation
    unset,      \* the gauges it has still to set
    page,       \* the families its last scrape has read
    begun, collections      \* how many (bounds)

vars == <<registry, writer, readers, at, todo, unset, page, begun, collections>>

Counts     == [Results -> Nat]
Histograms == [count : Nat, buckets : [1..Limits -> Nat]]
Registries ==
    [requests : Counts, durations : Histograms, provider : Counts, providerDurations : Histograms,
     operations : Counts, gauges : [Gauges -> Nat]]

TypeOK ==
    /\ registry \in Registries
    /\ writer \in Goroutines \cup {NoGoroutine} /\ readers \subseteq Goroutines
    /\ at \in [Goroutines -> {"idle", "lock", "pending", "count", "record", "set", "rlock", "read", "write"}]
    /\ todo \in [Goroutines -> Observations \cup {NoObservation}]
    /\ unset \in [Goroutines -> SUBSET Gauges]
    /\ \A g \in Goroutines : Len(page[g]) \in 0..Len(Order)
    /\ begun \in 0..MaxObservations /\ collections \in 0..MaxCollections

NoneCounted  == [r \in Results |-> 0]
NoneRecorded == [count |-> 0, buckets |-> [i \in 1..Limits |-> 0]]

Init ==
    /\ registry = [requests |-> NoneCounted, durations |-> NoneRecorded, provider |-> NoneCounted,
                   providerDurations |-> NoneRecorded, operations |-> NoneCounted,
                   gauges |-> [n \in Gauges |-> 0]]
    /\ writer = NoGoroutine /\ readers = {}
    /\ at = [g \in Goroutines |-> "idle"]
    /\ todo = [g \in Goroutines |-> NoObservation]
    /\ unset = [g \in Goroutines |-> {}]
    /\ page = [g \in Goroutines |-> << >>]
    /\ begun = 0 /\ collections = 0

Goto(g, place) == at' = [at EXCEPT ![g] = place]
Unlock(g) == writer' = NoGoroutine /\ Goto(g, "idle") /\ todo' = [todo EXCEPT ![g] = NoObservation]

-----------------------------------------------------------------------------
\* A request or a call of the provider has ended, a webhook, poll or event is done.
Observe(g, o) ==
    /\ at[g] = "idle" /\ begun < MaxObservations
    /\ todo' = [todo EXCEPT ![g] = o] /\ begun' = begun + 1
    /\ Goto(g, "lock")
    /\ UNCHANGED <<registry, writer, readers, unset, page, collections>>

\* The one loop of collectMetrics, after Stats.
Collect(g) ==
    /\ at[g] = "idle" /\ \A other \in Goroutines : unset[other] = {}
    /\ collections < MaxCollections
    /\ unset' = [unset EXCEPT ![g] = Gauges] /\ collections' = collections + 1
    /\ Goto(g, "lock")
    /\ UNCHANGED <<registry, writer, readers, todo, page, begun>>

\* GET /metrics; its own observation is left to count, too.
Scrape(g) ==
    /\ at[g] = "idle" /\ begun < MaxObservations
    /\ page' = [page EXCEPT ![g] = << >>] /\ begun' = begun + 1
    /\ Goto(g, "rlock")
    /\ UNCHANGED <<registry, writer, readers, todo, unset, collections>>

\* RWMutex.Lock: from here on no new reader is let in.
Announce(g) ==
    /\ at[g] = "lock" /\ writer = NoGoroutine
    /\ writer' = g /\ Goto(g, "pending")
    /\ UNCHANGED <<registry, readers, todo, unset, page, begun, collections>>

\* The readers have left.
Locked(g) ==
    /\ at[g] = "pending" /\ readers = {}
    /\ Goto(g, IF unset[g] = {} THEN "count" ELSE "set")
    /\ UNCHANGED <<registry, writer, readers, todo, unset, page, begun, collections>>

\* Mutant: a scrape that does not take the lock.
ReadUnlocked(g) ==
    /\ at[g] = "rlock" /\ Goto(g, "read")
    /\ UNCHANGED <<registry, writer, readers, todo, unset, page, begun, collections>>

RLock(g) ==
    /\ at[g] = "rlock" /\ writer = NoGoroutine
    /\ readers' = readers \cup {g} /\ Goto(g, "read")
    /\ UNCHANGED <<registry, writer, todo, unset, page, begun, collections>>

-----------------------------------------------------------------------------
\* The counter; Webhook, Publish and Reconciliation end here.
Count(g) ==
    /\ at[g] = "count"
    /\ registry' = [registry EXCEPT ![todo[g].counter][todo[g].result] = @ + 1]
    /\ IF todo[g].counter = "operations"
       THEN Unlock(g)
       ELSE UNCHANGED <<writer, todo>> /\ Goto(g, "record")
    /\ UNCHANGED <<readers, unset, page, begun, collections>>

\* Mutant: the loop over the limits stops at the first that holds.
RecordedOnce(h, within) ==
    [count |-> h.count + 1, buckets |-> [i \in 1..Limits |-> h.buckets[i] + IF within = i THEN 1 ELSE 0]]

Recorded(h, within) ==
    [count |-> h.count + 1, buckets |-> [i \in 1..Limits |-> h.buckets[i] + IF within <= i THEN 1 ELSE 0]]

\* The histogram is copied, changed and stored; then the lock is released.
Record(g) ==
    /\ at[g] = "record"
    /\ registry' = [registry EXCEPT ![HistogramOf(todo[g].counter)] = Recorded(@, todo[g].within)]
    /\ Unlock(g)
    /\ UNCHANGED <<readers, unset, page, begun, collections>>

\* SetPersistent, gauge after gauge; the values are those of one collection.
SetPersistent(g, name) ==
    /\ at[g] = "set" /\ name \in unset[g]
    /\ registry' = [registry EXCEPT !.gauges[name] = @ + 1]
    /\ unset' = [unset EXCEPT ![g] = @ \ {name}]
    /\ IF unset[g] = {name}
       THEN Unlock(g)
       ELSE UNCHANGED <<writer, at, todo>>
    /\ UNCHANGED <<readers, page, begun, collections>>

\* Mutant: the lock is taken for HTTP and for provider families apart.
HandlerInTwo(g) ==
    /\ at[g] = "read"
    /\ page' = [page EXCEPT ![g] = Append(@, registry[Order[Len(@) + 1]])]
    /\ \/ Len(page'[g]) = 2 /\ readers' = readers \ {g} /\ Goto(g, "rlock")
       \/ Len(page'[g]) = Len(Order) /\ UNCHANGED readers /\ Goto(g, "write")
       \/ Len(page'[g]) \notin {2, Len(Order)} /\ UNCHANGED <<readers, at>>
    /\ UNCHANGED <<registry, writer, todo, unset, begun, collections>>

\* The handler reads one family after the other.
Handler(g) ==
    /\ at[g] = "read"
    /\ page' = [page EXCEPT ![g] = Append(@, registry[Order[Len(@) + 1]])]
    /\ IF Len(page'[g]) = Len(Order) THEN Goto(g, "write") ELSE UNCHANGED at
    /\ UNCHANGED <<registry, writer, readers, todo, unset, begun, collections>>

\* Mutant: no WriteTimeout; a client that does not read keeps page and lock for ever.
PageStalls(g) ==
    at[g] = "write" /\ UNCHANGED vars

\* The page is written, or not: the connection is lost or the server's WriteTimeout
\* has passed.  The lock is released and the request observed.
PageEnds(g) ==
    /\ at[g] = "write"
    /\ readers' = readers \ {g}
    /\ \E o \in Observed : o.counter = "requests" /\ todo' = [todo EXCEPT ![g] = o]
    /\ Goto(g, "lock")
    /\ UNCHANGED <<registry, writer, unset, page, begun, collections>>

Step(g) ==
    \/ Announce(g) \/ Locked(g) \/ RLock(g) \/ Count(g) \/ Record(g) \/ Handler(g) \/ PageEnds(g)
    \/ \E name \in Gauges : SetPersistent(g, name)

\* Nothing is left to observe.
Quiet == (\A g \in Goroutines : at[g] = "idle") /\ UNCHANGED vars

Next ==
    \/ \E g \in Goroutines :
          Step(g) \/ Scrape(g) \/ Collect(g) \/ \E o \in Observed : Observe(g, o)
    \/ Quiet

Spec == Init /\ [][Next]_vars

\* Goroutines that can run do, a page ends by the WriteTimeout of the server, and no
\* one who asks for the lock is passed over for ever (Go's mutex hands it to the
\* longest waiter, and Unlock lets the waiting readers in).
Fairness == \A g \in Goroutines : SF_vars(Step(g))

FairSpec == Spec /\ Fairness

-----------------------------------------------------------------------------
\* No map is read or written while it is written: Go ends the whole process for it,
\* payments and all.
Writing == {g \in Goroutines : at[g] \in {"count", "record", "set"}}
Reading == {g \in Goroutines : at[g] = "read"}

MapsAreSafe ==
    \A g \in Writing : Reading = {} /\ Writing = {g}

\* A page agrees with itself: what a counter family counts its histogram has
\* recorded, buckets are cumulative, and the gauges are of one collection.
Complete(g) == Len(page[g]) = Len(Order)
Agree(counts, h) ==
    /\ counts["good"] + counts["bad"] = h.count
    /\ \A i \in 1..Limits : h.buckets[i] <= IF i = Limits THEN h.count ELSE h.buckets[i + 1]

PagesAreConsistent ==
    \A g \in Goroutines : Complete(g) =>
        /\ Agree(page[g][1], page[g][2]) /\ Agree(page[g][3], page[g][4])
        /\ \A m, n \in Gauges : page[g][6][m] = page[g][6][n]

\* Pages are snapshots: of two, read at any time, one has everything the other has.
\* A rate computed from them is never negative.
Includes(g, h) ==
    \A i \in {1, 3, 5} : \A r \in Results : page[g][i][r] <= page[h][i][r]

PagesAreSnapshots ==
    \A g, h \in Goroutines :
        Complete(g) /\ Complete(h) => Includes(g, h) \/ Includes(h, g)

\* Whoever observes or scrapes gets through: a page that is read slowly delays
\* requests, webhooks and polls, and does not stop them.
ObservationsEnd == \A g \in Goroutines : at[g] = "lock" ~> at[g] = "idle"
=============================================================================

--------------------------- MODULE Metrics_proofs ---------------------------
(***************************************************************************)
(* Proofs about Metrics for any number of goroutines and limits.           *)
(*                                                                         *)
(* The argument: whoever changes a map holds the write lock alone          *)
(* (LockOK), so that the part of a page already read is still what the     *)
(* registry holds (PagesOK); and with nobody changing it the registry      *)
(* agrees with itself (CountsOK and GaugesOK say by how much it does not   *)
(* meanwhile).  Counters only grow, so that a page has all that the pages  *)
(* completed before it have (PagesBelow).                                  *)
(***************************************************************************)
EXTENDS Metrics, TLAPS

Values == Counts \cup Histograms \cup [Gauges -> Nat]

PageType == page \in [Goroutines -> Seq(Values)]

\* Where a goroutine is tells which lock it has and what it has left to do.
LockOK ==
    /\ \A g \in Goroutines : at[g] \in {"pending", "count", "record", "set"} => writer = g
    /\ \A g \in Goroutines : at[g] \in {"read", "write"} <=> g \in readers
    /\ \A g \in Writing : readers = {}

WorkOK ==
    \A g \in Goroutines :
        /\ at[g] \in {"idle", "rlock", "read", "write"} => unset[g] = {}
        /\ at[g] \in {"lock", "pending"} =>
              unset[g] = Gauges \/ (unset[g] = {} /\ todo[g] \in Observations)
        /\ at[g] \in {"count", "record"} => unset[g] = {} /\ todo[g] \in Observations
        /\ at[g] = "record" => todo[g].counter # "operations"

Counted(counter) == registry[counter]["good"] + registry[counter]["bad"]

\* The counter is ahead of its histogram while an observation is between the two.
Between(counter) ==
    IF \E g \in Goroutines : at[g] = "record" /\ todo[g].counter = counter THEN 1 ELSE 0

Cumulative(h) ==
    \A i \in 1..Limits : h.buckets[i] <= IF i = Limits THEN h.count ELSE h.buckets[i + 1]

CountsOK ==
    /\ Counted("requests") = registry.durations.count + Between("requests")
    /\ Counted("provider") = registry.providerDurations.count + Between("provider")
    /\ Cumulative(registry.durations) /\ Cumulative(registry.providerDurations)

\* Gauges still to be set lag by one.
Lag(n) == IF \E g \in Goroutines : n \in unset[g] THEN 1 ELSE 0

GaugesOK ==
    /\ \A g, h \in Goroutines : unset[g] # {} /\ unset[h] # {} => g = h
    /\ \A m, n \in Gauges : registry.gauges[m] + Lag(m) = registry.gauges[n] + Lag(n)

PagesOK ==
    \A g \in Goroutines :
        /\ g \in readers => \A i \in 1..Len(page[g]) : page[g][i] = registry[Order[i]]
        /\ at[g] = "read" => Len(page[g]) < 6
        /\ at[g] = "rlock" => page[g] = << >>

IInv ==
    /\ TypeOK /\ PageType /\ LockOK /\ WorkOK
    /\ CountsOK /\ GaugesOK /\ PagesOK /\ PagesAreConsistent

-----------------------------------------------------------------------------
LEMMA OrderIs ==
    /\ Len(Order) = 6
    /\ Order[1] = "requests" /\ Order[2] = "durations" /\ Order[3] = "provider"
    /\ Order[4] = "providerDurations" /\ Order[5] = "operations" /\ Order[6] = "gauges"
BY DEF Order

LEMMA RegistryType ==
    ASSUME TypeOK
    PROVE  /\ registry.requests \in Counts /\ registry.provider \in Counts /\ registry.operations \in Counts
           /\ registry.durations \in Histograms /\ registry.providerDurations \in Histograms
           /\ registry.gauges \in [Gauges -> Nat]
           /\ \A i \in 1..6 : registry[Order[i]] \in Values
<1>1. /\ registry.requests \in Counts /\ registry.provider \in Counts /\ registry.operations \in Counts
      /\ registry.durations \in Histograms /\ registry.providerDurations \in Histograms
      /\ registry.gauges \in [Gauges -> Nat]
  BY DEF TypeOK, Registries
<1>2. \A i \in 1..6 : i = 1 \/ i = 2 \/ i = 3 \/ i = 4 \/ i = 5 \/ i = 6
  OBVIOUS
<1>3. \A i \in 1..6 : registry[Order[i]] \in Values
  BY <1>1, <1>2, OrderIs DEF Values
<1> QED  BY <1>1, <1>3

\* A step that leaves registry, pages and gauges alone and moves g where it neither
\* reads nor changes them.
LEMMA Elsewhere ==
    ASSUME IInv, NEW g \in Goroutines, NEW next,
           at' = [at EXCEPT ![g] = next],
           next \in {"lock", "rlock", "pending", "set", "count"},
           at[g] \in {"idle", "lock", "pending", "write"},
           registry' = registry, unset' = unset, page' = page,
           readers' = readers \/ (readers' = readers \ {g} /\ next = "lock"),
           next = "rlock" => page[g] = << >>,
           \A h \in Goroutines : h # g => todo'[h] = todo[h]
    PROVE  CountsOK' /\ GaugesOK' /\ PagesOK' /\ PagesAreConsistent'
<1>1. \A h \in Goroutines : at'[h] = (IF h = g THEN next ELSE at[h])
  BY DEF IInv, TypeOK
<1>2. \A c : Between(c)' = Between(c)
  BY <1>1 DEF Between
<1>3. CountsOK'
  BY <1>2 DEF IInv, CountsOK, Counted, Cumulative
<1>4. GaugesOK'
  BY DEF IInv, GaugesOK, Lag
<1>5. PagesOK'
  BY <1>1 DEF IInv, PagesOK
<1>6. PagesAreConsistent'
  BY DEF IInv, PagesAreConsistent, Complete
<1> QED  BY <1>3, <1>4, <1>5, <1>6

\* One observation adds one to one counter; the others stay.
LEMMA Counting ==
    ASSUME IInv, NEW g \in Goroutines, Count(g)
    PROVE  /\ todo[g] \in Observations /\ readers = {} /\ writer = g /\ unset[g] = {}
           /\ registry' \in Registries
           /\ registry'.durations = registry.durations
           /\ registry'.providerDurations = registry.providerDurations
           /\ registry'.gauges = registry.gauges
           /\ \A c \in Counters :
                 registry'[c]["good"] + registry'[c]["bad"] =
                     registry[c]["good"] + registry[c]["bad"] + IF c = todo[g].counter THEN 1 ELSE 0
<1> DEFINE c == todo[g].counter
           r == todo[g].result
<1>1. /\ todo[g] \in Observations /\ readers = {} /\ writer = g /\ unset[g] = {}
      /\ registry \in Registries /\ c \in Counters /\ r \in Results
  BY DEF Count, IInv, TypeOK, LockOK, WorkOK, Writing, Observations
<1>2. registry' = [registry EXCEPT ![c][r] = @ + 1]
  BY DEF Count
<1>3. CASE c = "requests"
  BY <1>1, <1>2, <1>3 DEF Registries, Counts, Results, Counters
<1>4. CASE c = "provider"
  BY <1>1, <1>2, <1>4 DEF Registries, Counts, Results, Counters
<1>5. CASE c = "operations"
  BY <1>1, <1>2, <1>5 DEF Registries, Counts, Results, Counters
<1> QED  BY <1>1, <1>3, <1>4, <1>5 DEF Counters

\* What an observation adds keeps the buckets of a histogram cumulative.
LEMMA Recording ==
    ASSUME NEW h \in Histograms, NEW within \in 1..(Limits + 1), Cumulative(h)
    PROVE  /\ Recorded(h, within) \in Histograms
           /\ Recorded(h, within).count = h.count + 1
           /\ Cumulative(Recorded(h, within))
<1> DEFINE k == Recorded(h, within)
<1>1. /\ h.count \in Nat /\ \A i \in 1..Limits : h.buckets[i] \in Nat
      /\ Limits \in Nat
  BY MetricsAssumption DEF Histograms
<1>2. /\ k.count = h.count + 1
      /\ \A i \in 1..Limits : k.buckets[i] = h.buckets[i] + IF within <= i THEN 1 ELSE 0
  BY DEF Recorded
<1>3. k \in Histograms
  BY <1>1 DEF Recorded, Histograms
<1>4. ASSUME NEW i \in 1..Limits
      PROVE  k.buckets[i] <= IF i = Limits THEN k.count ELSE k.buckets[i + 1]
  <2>1. CASE i = Limits
    BY <1>1, <1>2, <2>1 DEF Cumulative
  <2>2. CASE i # Limits
    <3>1. i + 1 \in 1..Limits /\ h.buckets[i] <= h.buckets[i + 1]
      BY <1>1, <2>2 DEF Cumulative
    <3> QED  BY <1>1, <1>2, <2>2, <3>1
  <2> QED  BY <2>1, <2>2
<1> QED  BY <1>2, <1>3, <1>4 DEF Cumulative

-----------------------------------------------------------------------------
LEMMA CountStep ==
    ASSUME IInv, NEW g \in Goroutines, Count(g)
    PROVE  IInv'
<1>0. TypeOK /\ PageType /\ LockOK /\ WorkOK /\ PagesOK /\ CountsOK /\ GaugesOK /\ PagesAreConsistent
  BY DEF IInv
<1>1. /\ todo[g] \in Observations /\ readers = {} /\ writer = g /\ unset[g] = {}
      /\ registry' \in Registries
      /\ registry'.durations = registry.durations
      /\ registry'.providerDurations = registry.providerDurations
      /\ registry'.gauges = registry.gauges
      /\ \A c \in Counters :
            registry'[c]["good"] + registry'[c]["bad"] =
                registry[c]["good"] + registry[c]["bad"] + IF c = todo[g].counter THEN 1 ELSE 0
  BY Counting
<1>2. /\ at[g] = "count" /\ readers' = readers /\ unset' = unset /\ page' = page
      /\ begun' = begun /\ collections' = collections
  BY DEF Count
<1>3. \A h \in Goroutines \ {g} : at'[h] = at[h] /\ todo'[h] = todo[h] /\ at[h] \notin {"pending", "count", "record", "set"}
  BY <1>0, <1>1 DEF Count, Unlock, Goto, TypeOK, LockOK
<1>4. \/ /\ todo[g].counter = "operations" /\ at'[g] = "idle"
         /\ writer' = NoGoroutine
      \/ /\ todo[g].counter # "operations" /\ at'[g] = "record" /\ todo' = todo
         /\ writer' = writer
  BY <1>0 DEF Count, Unlock, Goto, TypeOK
<1>5. TypeOK' /\ PageType'
  BY <1>0, <1>1, <1>2 DEF Count, Unlock, Goto, TypeOK, PageType
<1>6. LockOK'
  BY <1>0, <1>1, <1>2, <1>3, <1>4 DEF LockOK, Writing
<1>7. WorkOK'
  BY <1>0, <1>1, <1>2, <1>3, <1>4 DEF WorkOK
<1>8. CountsOK'
  <2>1. \A c : Between(c) = 0
    BY <1>2, <1>3 DEF Between
  <2>2. \A c \in {"requests", "provider"} : Between(c)' = IF c = todo[g].counter THEN 1 ELSE 0
    <3>1. \A h \in Goroutines : at'[h] = "record" => h = g
      BY <1>3
    <3>2. at'[g] = "record" <=> todo[g].counter # "operations"
      BY <1>4
    <3>3. at'[g] = "record" => todo'[g] = todo[g]
      BY <1>4
    <3> QED  BY <3>1, <3>2, <3>3 DEF Between
  <2>3. /\ Counted("requests")' = Counted("requests") + Between("requests")'
        /\ Counted("provider")' = Counted("provider") + Between("provider")'
    BY <1>1, <2>2 DEF Counted, Counters
  <2>4. /\ Counted("requests") = registry.durations.count
        /\ Counted("provider") = registry.providerDurations.count
    BY <1>0, <2>1, RegistryType DEF CountsOK, Counted, Counts, Results, Histograms
  <2> QED  BY <1>0, <1>1, <2>3, <2>4 DEF CountsOK, Cumulative
<1>9. GaugesOK'
  BY <1>0, <1>1, <1>2 DEF GaugesOK, Lag
<1>10. PagesOK' /\ PagesAreConsistent'
  BY <1>0, <1>1, <1>2, <1>3, <1>4 DEF PagesOK, PagesAreConsistent, Complete
<1> QED  BY <1>5, <1>6, <1>7, <1>8, <1>9, <1>10 DEF IInv

LEMMA RecordStep ==
    ASSUME IInv, NEW g \in Goroutines, Record(g)
    PROVE  IInv'
<1>0. TypeOK /\ PageType /\ LockOK /\ WorkOK /\ PagesOK /\ CountsOK /\ GaugesOK /\ PagesAreConsistent
  BY DEF IInv
<1> DEFINE c == todo[g].counter
           f == HistogramOf(c)
<1>1. /\ at[g] = "record" /\ todo[g] \in Observations /\ c \in {"requests", "provider"}
      /\ readers = {} /\ writer = g /\ todo[g].within \in 1..(Limits + 1)
      /\ readers' = readers /\ unset' = unset /\ page' = page
      /\ begun' = begun /\ collections' = collections
  BY <1>0 DEF Record, LockOK, WorkOK, Writing, Observations, Counters
<1>2. \A h \in Goroutines \ {g} : at'[h] = at[h] /\ todo'[h] = todo[h] /\ at[h] \notin {"pending", "count", "record", "set"}
  BY <1>0, <1>1 DEF Record, Unlock, Goto, TypeOK, LockOK
<1>3. at'[g] = "idle" /\ writer' = NoGoroutine
  BY <1>0 DEF Record, Unlock, Goto, TypeOK
<1>4. registry' = [registry EXCEPT ![f] = Recorded(@, todo[g].within)]
  BY DEF Record
<1>5. /\ registry' \in Registries
      /\ registry'.requests = registry.requests /\ registry'.provider = registry.provider
      /\ registry'.gauges = registry.gauges
      /\ registry'.durations.count = registry.durations.count + IF c = "requests" THEN 1 ELSE 0
      /\ registry'.providerDurations.count = registry.providerDurations.count + IF c = "provider" THEN 1 ELSE 0
      /\ Cumulative(registry'.durations) /\ Cumulative(registry'.providerDurations)
  <2>1. registry \in Registries /\ Cumulative(registry.durations) /\ Cumulative(registry.providerDurations)
    BY <1>0 DEF TypeOK, CountsOK
  <2>2. registry.durations \in Histograms /\ registry.providerDurations \in Histograms
    BY <1>0, RegistryType
  <2>3. /\ registry.durations.count \in Nat /\ registry.providerDurations.count \in Nat
    BY <2>2 DEF Histograms
  <2>4. CASE c = "requests"
    <3> DEFINE k == Recorded(registry.durations, todo[g].within)
    <3>1. registry' = [registry EXCEPT !.durations = k]
      BY <1>4, <2>4 DEF HistogramOf
    <3>2. k \in Histograms /\ k.count = registry.durations.count + 1 /\ Cumulative(k)
      BY <1>1, <2>1, <2>2, Recording
    <3> HIDE DEF k
    <3> QED  BY <2>1, <2>3, <2>4, <3>1, <3>2 DEF Registries
  <2>5. CASE c = "provider"
    <3> DEFINE k == Recorded(registry.providerDurations, todo[g].within)
    <3>1. registry' = [registry EXCEPT !.providerDurations = k]
      BY <1>4, <2>5 DEF HistogramOf
    <3>2. k \in Histograms /\ k.count = registry.providerDurations.count + 1 /\ Cumulative(k)
      BY <1>1, <2>1, <2>2, Recording
    <3> HIDE DEF k
    <3> QED  BY <2>1, <2>3, <2>5, <3>1, <3>2 DEF Registries
  <2> QED  BY <1>1, <2>4, <2>5
<1>6. TypeOK' /\ PageType'
  BY <1>0, <1>1, <1>5 DEF Record, Unlock, Goto, TypeOK, PageType
<1>7. LockOK'
  BY <1>0, <1>1, <1>2, <1>3 DEF LockOK, Writing
<1>8. WorkOK'
  BY <1>0, <1>1, <1>2, <1>3 DEF WorkOK
<1>9. CountsOK'
  <2>1. \A d \in {"requests", "provider"} : Between(d) = IF c = d THEN 1 ELSE 0
    BY <1>1, <1>2 DEF Between
  <2>2. \A d : Between(d)' = 0
    BY <1>2, <1>3 DEF Between
  <2>3. /\ Counted("requests") = registry.durations.count + IF c = "requests" THEN 1 ELSE 0
        /\ Counted("provider") = registry.providerDurations.count + IF c = "provider" THEN 1 ELSE 0
    BY <1>0, <2>1 DEF CountsOK
  <2>4. registry'.durations \in Histograms /\ registry'.providerDurations \in Histograms
    BY <1>5 DEF Registries
  <2> QED  BY <1>5, <2>2, <2>3, <2>4 DEF CountsOK, Counted, Histograms
<1>10. GaugesOK'
  BY <1>0, <1>1, <1>5 DEF GaugesOK, Lag
<1>11. PagesOK' /\ PagesAreConsistent'
  BY <1>0, <1>1, <1>2, <1>3 DEF PagesOK, PagesAreConsistent, Complete
<1> QED  BY <1>6, <1>7, <1>8, <1>9, <1>10, <1>11 DEF IInv

LEMMA SetStep ==
    ASSUME IInv, NEW g \in Goroutines, NEW name \in Gauges, SetPersistent(g, name)
    PROVE  IInv'
<1>0. TypeOK /\ PageType /\ LockOK /\ WorkOK /\ PagesOK /\ CountsOK /\ GaugesOK /\ PagesAreConsistent
  BY DEF IInv
<1>1. /\ at[g] = "set" /\ name \in unset[g] /\ readers = {} /\ writer = g
      /\ readers' = readers /\ page' = page /\ begun' = begun /\ collections' = collections
      /\ unset' = [unset EXCEPT ![g] = @ \ {name}]
  BY <1>0 DEF SetPersistent, LockOK, Writing
<1>2. \A h \in Goroutines \ {g} :
         /\ at'[h] = at[h] /\ todo'[h] = todo[h] /\ unset'[h] = unset[h] /\ unset[h] = {}
         /\ at[h] \notin {"pending", "count", "record", "set"}
  BY <1>0, <1>1 DEF SetPersistent, Unlock, Goto, TypeOK, LockOK, GaugesOK
<1>3. \/ at'[g] = "idle" /\ writer' = NoGoroutine /\ unset'[g] = {}
      \/ at'[g] = "set" /\ writer' = writer /\ unset'[g] # {}
  BY <1>0, <1>1 DEF SetPersistent, Unlock, Goto, TypeOK
<1>4. /\ registry' \in Registries
      /\ registry'.requests = registry.requests /\ registry'.provider = registry.provider
      /\ registry'.durations = registry.durations
      /\ registry'.providerDurations = registry.providerDurations
      /\ \A n \in Gauges : registry'.gauges[n] = registry.gauges[n] + IF n = name THEN 1 ELSE 0
  <2> DEFINE k == [registry.gauges EXCEPT ![name] = @ + 1]
  <2>1. registry' = [registry EXCEPT !.gauges = k]
    BY DEF SetPersistent
  <2>2. registry.gauges \in [Gauges -> Nat] /\ registry \in Registries
    BY <1>0, RegistryType DEF TypeOK
  <2>3. k \in [Gauges -> Nat] /\ \A n \in Gauges : k[n] = registry.gauges[n] + IF n = name THEN 1 ELSE 0
    BY <2>2
  <2> HIDE DEF k
  <2> QED  BY <2>1, <2>2, <2>3 DEF Registries
<1>5. TypeOK' /\ PageType'
  BY <1>0, <1>1, <1>4 DEF SetPersistent, Unlock, Goto, TypeOK, PageType
<1>6. LockOK'
  BY <1>0, <1>1, <1>2, <1>3 DEF LockOK, Writing
<1>7. WorkOK'
  BY <1>0, <1>1, <1>2, <1>3 DEF WorkOK
<1>8. CountsOK'
  <2>1. \A c : Between(c)' = Between(c)
    BY <1>1, <1>2, <1>3 DEF Between
  <2> QED  BY <1>0, <1>4, <2>1 DEF CountsOK, Counted, Cumulative
<1>9. GaugesOK'
  <2>1. \A n \in Gauges : Lag(n) = IF n \in unset[g] THEN 1 ELSE 0
    BY <1>2 DEF Lag
  <2>2. \A n \in Gauges : Lag(n)' = IF n \in unset[g] /\ n # name THEN 1 ELSE 0
    <3>1. \A n \in Gauges : n \in unset'[g] <=> n \in unset[g] /\ n # name
      BY <1>0, <1>1 DEF TypeOK
    <3>2. \A h \in Goroutines, n \in Gauges : n \in unset'[h] => h = g
      BY <1>2
    <3> QED  BY <3>1, <3>2 DEF Lag
  <2>3. \A n \in Gauges : registry.gauges[n] \in Nat
    BY <1>0, RegistryType
  <2>4. \A n \in Gauges : registry'.gauges[n] + Lag(n)' = registry.gauges[n] + Lag(n)
    BY <1>1, <1>4, <2>1, <2>2, <2>3
  <2>5. \A m, n \in Gauges : registry'.gauges[m] + Lag(m)' = registry'.gauges[n] + Lag(n)'
    BY <1>0, <2>4 DEF GaugesOK
  <2>6. \A h, k \in Goroutines : unset'[h] # {} /\ unset'[k] # {} => h = k
    BY <1>2
  <2> QED  BY <2>5, <2>6 DEF GaugesOK
<1>10. PagesOK' /\ PagesAreConsistent'
  BY <1>0, <1>1, <1>2, <1>3 DEF PagesOK, PagesAreConsistent, Complete
<1> QED  BY <1>5, <1>6, <1>7, <1>8, <1>9, <1>10 DEF IInv

\* Arithmetic on the length of a page.
LEMMA Lengths ==
    /\ \A n \in Nat : n < 6 => n \in 0..5
    /\ \A n \in 0..5 : \A k : k = n + 1 => k \in 1..6 /\ (k = 6 \/ (k < 6 /\ k # 6))
OBVIOUS

\* A page that is complete when nobody writes has what the registry has, and the
\* registry agrees with itself.
LEMMA HandlerStep ==
    ASSUME IInv, NEW g \in Goroutines, Handler(g)
    PROVE  IInv'
<1>0. TypeOK /\ PageType /\ LockOK /\ WorkOK /\ PagesOK /\ CountsOK /\ GaugesOK /\ PagesAreConsistent
  BY DEF IInv
<1> DEFINE p == page[g]
           q == page'[g]
<1>1. /\ at[g] = "read" /\ g \in readers /\ p \in Seq(Values) /\ Len(p) \in 0..5
      /\ registry' = registry /\ writer' = writer /\ readers' = readers /\ todo' = todo
      /\ unset' = unset /\ begun' = begun /\ collections' = collections
      /\ q = Append(p, registry[Order[Len(p) + 1]])
      /\ \A h \in Goroutines \ {g} : page'[h] = page[h] /\ at'[h] = at[h]
  <2>1. at[g] = "read" /\ g \in readers /\ p \in Seq(Values)
    BY <1>0 DEF Handler, PageType, LockOK
  <2>2. Len(p) \in Nat /\ Len(p) < 6
    <3>1. Len(p) < 6
      BY <1>0, <2>1 DEF PagesOK
    <3>2. Len(p) \in 0..6
      BY <1>0, OrderIs DEF TypeOK
    <3> QED  BY <3>1, <3>2
  <2>3. /\ registry' = registry /\ writer' = writer /\ readers' = readers /\ todo' = todo
        /\ unset' = unset /\ begun' = begun /\ collections' = collections
        /\ page' = [page EXCEPT ![g] = Append(p, registry[Order[Len(p) + 1]])]
    BY DEF Handler
  <2>4. q = Append(p, registry[Order[Len(p) + 1]]) /\ \A h \in Goroutines \ {g} : page'[h] = page[h]
    BY <1>0, <2>3 DEF PageType
  <2>5. \A h \in Goroutines \ {g} : at'[h] = at[h]
    BY <1>0 DEF Handler, Goto, TypeOK
  <2>6. Len(p) \in 0..5
    BY <2>2, Lengths
  <2> HIDE DEF p, q
  <2> QED  BY <2>1, <2>6, <2>3, <2>4, <2>5
<1>2. registry[Order[Len(p) + 1]] \in Values
  <2>1. Len(p) + 1 \in 1..6
    BY <1>1
  <2> QED  BY <1>0, <2>1, RegistryType
<1>3. /\ q \in Seq(Values) /\ Len(q) = Len(p) + 1
      /\ \A i \in 1..Len(p) : q[i] = p[i]
      /\ q[Len(p) + 1] = registry[Order[Len(p) + 1]]
  BY <1>1, <1>2
<1>14. Len(q) \in 1..6 /\ (Len(q) = 6 \/ (Len(q) < 6 /\ Len(q) # 6))
  <2>1. Len(p) \in 0..5 /\ Len(q) = Len(p) + 1
    BY <1>1, <1>3
  <2> HIDE DEF p, q
  <2> QED  BY <2>1, Lengths
<1>4. \/ Len(q) = 6 /\ at'[g] = "write"
      \/ Len(q) < 6 /\ at'[g] = "read"
  <2>1. IF Len(q) = 6 THEN at' = [at EXCEPT ![g] = "write"] ELSE at' = at
    BY OrderIs DEF Handler, Goto
  <2>2. Len(q) = 6 \/ (Len(q) < 6 /\ Len(q) # 6)
    BY <1>14
  <2>3. at[g] = "read" /\ at \in [Goroutines -> {"idle", "lock", "pending", "count", "record", "set", "rlock", "read", "write"}]
    BY <1>0, <1>1 DEF TypeOK
  <2> HIDE DEF q
  <2>4. CASE Len(q) = 6
    BY <2>1, <2>3, <2>4
  <2>5. CASE Len(q) < 6 /\ Len(q) # 6
    BY <2>1, <2>3, <2>5
  <2> QED  BY <2>2, <2>4, <2>5
<1>5. page' \in [Goroutines -> Seq(Values)]
  BY <1>0, <1>1, <1>3 DEF Handler, PageType
<1>6. TypeOK' /\ PageType'
  <2>1. at' \in [Goroutines -> {"idle", "lock", "pending", "count", "record", "set", "rlock", "read", "write"}]
    BY <1>0 DEF Handler, Goto, TypeOK
  <2>2. \A h \in Goroutines : Len(page'[h]) \in 0..Len(Order)
    <3>1. Len(q) \in 0..6
      BY <1>14
    <3>2. \A h \in Goroutines \ {g} : Len(page'[h]) \in 0..Len(Order)
      BY <1>0, <1>1 DEF TypeOK
    <3> QED  BY <3>1, <3>2, OrderIs
  <2> QED  BY <1>0, <1>1, <1>5, <2>1, <2>2 DEF TypeOK, PageType
<1>7. LockOK'
  BY <1>0, <1>1, <1>4 DEF LockOK, Writing
<1>8. WorkOK'
  BY <1>0, <1>1, <1>4 DEF WorkOK
<1>9. CountsOK' /\ GaugesOK'
  <2>1. \A c : Between(c)' = Between(c)
    BY <1>1, <1>4 DEF Between
  <2> QED  BY <1>0, <1>1, <2>1 DEF CountsOK, Counted, Cumulative, GaugesOK, Lag
<1>10. \A i \in 1..Len(q) : q[i] = registry[Order[i]]
  BY <1>0, <1>1, <1>3 DEF PagesOK
<1>11. PagesOK'
  BY <1>0, <1>1, <1>4, <1>10 DEF PagesOK
<1>12. ASSUME Len(q) = 6
       PROVE  /\ Agree(q[1], q[2]) /\ Agree(q[3], q[4])
              /\ \A m, n \in Gauges : q[6][m] = q[6][n]
  <2>1. /\ q[1] = registry.requests /\ q[2] = registry.durations /\ q[3] = registry.provider
        /\ q[4] = registry.providerDurations /\ q[6] = registry.gauges
    BY <1>10, <1>12, OrderIs
  <2>2. Writing = {}
    BY <1>0, <1>1 DEF LockOK
  <2>3. \A c : Between(c) = 0
    BY <2>2 DEF Between, Writing
  <2>4. registry.durations.count \in Nat /\ registry.providerDurations.count \in Nat
    BY <1>0, RegistryType DEF Histograms
  <2>5. Agree(q[1], q[2]) /\ Agree(q[3], q[4])
    BY <1>0, <2>1, <2>3, <2>4 DEF CountsOK, Counted, Cumulative, Agree
  <2>6. \A h \in Goroutines : unset[h] \in {{}, Gauges}
    BY <1>0, <2>2 DEF WorkOK, Writing, TypeOK
  <2>7. \A m, n \in Gauges : Lag(m) = Lag(n)
    BY <2>6 DEF Lag
  <2>8. \A n \in Gauges : registry.gauges[n] \in Nat /\ Lag(n) \in Nat
    BY <1>0, RegistryType DEF Lag
  <2> QED  BY <1>0, <2>1, <2>5, <2>7, <2>8 DEF GaugesOK
<1>13. PagesAreConsistent'
  <2> SUFFICES ASSUME NEW h \in Goroutines, Len(page'[h]) = 6
               PROVE  /\ Agree(page'[h][1], page'[h][2]) /\ Agree(page'[h][3], page'[h][4])
                      /\ \A m, n \in Gauges : page'[h][6][m] = page'[h][6][n]
    BY OrderIs DEF PagesAreConsistent, Complete
  <2>1. CASE h = g
    BY <1>12, <2>1
  <2>2. CASE h # g
    <3>1. page'[h] = page[h]
      BY <1>1, <2>2
    <3> QED  BY <1>0, <3>1, OrderIs DEF PagesAreConsistent, Complete
  <2> QED  BY <2>1, <2>2
<1> QED  BY <1>6, <1>7, <1>8, <1>9, <1>11, <1>13 DEF IInv

\* The steps that only take, await or leave a lock, or begin something.
LEMMA MoveStep ==
    ASSUME IInv, NEW g \in Goroutines,
           \/ Announce(g) \/ Locked(g) \/ RLock(g) \/ PageEnds(g)
           \/ \E o \in Observed : Observe(g, o)
    PROVE  IInv'
<1>0. TypeOK /\ PageType /\ LockOK /\ WorkOK /\ PagesOK /\ CountsOK /\ GaugesOK /\ PagesAreConsistent
  BY DEF IInv
<1>1. CASE Announce(g)
  <2>1. CountsOK' /\ GaugesOK' /\ PagesOK' /\ PagesAreConsistent'
    BY <1>1, Elsewhere DEF Announce, Goto
  <2>2. TypeOK' /\ PageType'
    BY <1>0, <1>1 DEF Announce, Goto, TypeOK, PageType
  <2>3. LockOK'
    BY <1>0, <1>1, MetricsAssumption DEF Announce, Goto, TypeOK, LockOK, Writing
  <2>4. WorkOK'
    BY <1>0, <1>1 DEF Announce, Goto, TypeOK, WorkOK
  <2> QED  BY <2>1, <2>2, <2>3, <2>4 DEF IInv
<1>2. CASE Locked(g)
  <2>0. at' = [at EXCEPT ![g] = IF unset[g] = {} THEN "count" ELSE "set"]
    BY <1>2 DEF Locked, Goto
  <2>1. CountsOK' /\ GaugesOK' /\ PagesOK' /\ PagesAreConsistent'
    BY <1>2, <2>0, Elsewhere DEF Locked
  <2>2. TypeOK' /\ PageType'
    BY <1>0, <1>2, <2>0 DEF Locked, TypeOK, PageType
  <2>3. LockOK'
    BY <1>0, <1>2, <2>0 DEF Locked, TypeOK, LockOK, Writing
  <2>4. WorkOK'
    BY <1>0, <1>2, <2>0 DEF Locked, TypeOK, WorkOK, Gauges
  <2> QED  BY <2>1, <2>2, <2>3, <2>4 DEF IInv
<1>3. CASE RLock(g)
  <2>0. \A h \in Goroutines : at'[h] = (IF h = g THEN "read" ELSE at[h]) /\ at[g] = "rlock"
    BY <1>0, <1>3 DEF RLock, Goto, TypeOK
  <2>1. page[g] = << >> /\ Len(page[g]) = 0
    BY <1>0, <2>0 DEF PagesOK
  <2>2. TypeOK' /\ PageType'
    BY <1>0, <1>3 DEF RLock, Goto, TypeOK, PageType
  <2>3. LockOK'
    BY <1>0, <1>3, <2>0, MetricsAssumption DEF RLock, LockOK, Writing
  <2>4. WorkOK'
    BY <1>0, <1>3, <2>0 DEF RLock, WorkOK
  <2>5. CountsOK' /\ GaugesOK'
    <3>1. \A c : Between(c)' = Between(c)
      BY <1>3, <2>0 DEF RLock, Between
    <3> QED  BY <1>0, <1>3, <3>1 DEF RLock, CountsOK, Counted, Cumulative, GaugesOK, Lag
  <2>6. PagesOK'
    BY <1>0, <1>3, <2>0, <2>1 DEF RLock, PagesOK
  <2>7. PagesAreConsistent'
    BY <1>0, <1>3 DEF RLock, PagesAreConsistent, Complete
  <2> QED  BY <2>2, <2>3, <2>4, <2>5, <2>6, <2>7 DEF IInv
<1>4. CASE PageEnds(g)
  <2>1. CountsOK' /\ GaugesOK' /\ PagesOK' /\ PagesAreConsistent'
    <3>1. \A h \in Goroutines : h # g => todo'[h] = todo[h]
      BY <1>0, <1>4, ObservedAssumption DEF PageEnds, TypeOK
    <3> QED  BY <1>4, <3>1, Elsewhere DEF PageEnds, Goto
  <2>2. TypeOK' /\ PageType'
    BY <1>0, <1>4, ObservedAssumption DEF PageEnds, Goto, TypeOK, PageType
  <2>3. LockOK'
    BY <1>0, <1>4, ObservedAssumption DEF PageEnds, Goto, TypeOK, LockOK, Writing
  <2>4. WorkOK'
    BY <1>0, <1>4, ObservedAssumption DEF PageEnds, Goto, TypeOK, WorkOK
  <2> QED  BY <2>1, <2>2, <2>3, <2>4 DEF IInv
<1>5. CASE \E o \in Observed : Observe(g, o)
  <2> PICK o \in Observed : Observe(g, o)
    BY <1>5
  <2>0. o \in Observations
    BY ObservedAssumption
  <2>1. CountsOK' /\ GaugesOK' /\ PagesOK' /\ PagesAreConsistent'
    <3>1. \A h \in Goroutines : h # g => todo'[h] = todo[h]
      BY <1>0 DEF Observe, TypeOK
    <3> QED  BY <3>1, Elsewhere DEF Observe, Goto
  <2>2. TypeOK' /\ PageType'
    BY <1>0, <2>0, MetricsAssumption DEF Observe, Goto, TypeOK, PageType
  <2>3. LockOK'
    BY <1>0 DEF Observe, Goto, TypeOK, LockOK, Writing
  <2>4. WorkOK'
    BY <1>0, <2>0 DEF Observe, Goto, TypeOK, WorkOK
  <2> QED  BY <2>1, <2>2, <2>3, <2>4 DEF IInv
<1> QED  BY <1>1, <1>2, <1>3, <1>4, <1>5

LEMMA ScrapeStep ==
    ASSUME IInv, NEW g \in Goroutines, Scrape(g)
    PROVE  IInv'
<1>0. TypeOK /\ PageType /\ LockOK /\ WorkOK /\ PagesOK /\ CountsOK /\ GaugesOK /\ PagesAreConsistent
  BY DEF IInv
<1>1. \A h \in Goroutines :
         /\ at'[h] = (IF h = g THEN "rlock" ELSE at[h])
         /\ page'[h] = (IF h = g THEN << >> ELSE page[h])
  BY <1>0 DEF Scrape, Goto, TypeOK, PageType
<1>2. at[g] = "idle" /\ g \notin readers
  BY <1>0 DEF Scrape, LockOK
<1>3. << >> \in Seq(Values) /\ Len(<< >>) = 0
  OBVIOUS
<1>4. TypeOK' /\ PageType'
  BY <1>0, <1>1, <1>3, MetricsAssumption, OrderIs DEF Scrape, Goto, TypeOK, PageType
<1>5. LockOK'
  BY <1>0, <1>1, <1>2 DEF Scrape, LockOK, Writing
<1>6. WorkOK'
  BY <1>0, <1>1, <1>2 DEF Scrape, WorkOK
<1>7. CountsOK' /\ GaugesOK'
  <2>1. \A c : Between(c)' = Between(c)
    BY <1>1, <1>2 DEF Scrape, Between
  <2> QED  BY <1>0, <2>1 DEF Scrape, CountsOK, Counted, Cumulative, GaugesOK, Lag
<1>8. PagesOK'
  BY <1>0, <1>1, <1>2 DEF Scrape, PagesOK
<1>9. PagesAreConsistent'
  BY <1>0, <1>1, <1>3, OrderIs DEF Scrape, PagesAreConsistent, Complete
<1> QED  BY <1>4, <1>5, <1>6, <1>7, <1>8, <1>9 DEF IInv

LEMMA CollectStep ==
    ASSUME IInv, NEW g \in Goroutines, Collect(g)
    PROVE  IInv'
<1>0. TypeOK /\ PageType /\ LockOK /\ WorkOK /\ PagesOK /\ CountsOK /\ GaugesOK /\ PagesAreConsistent
  BY DEF IInv
<1>1. \A h \in Goroutines :
         /\ at'[h] = (IF h = g THEN "lock" ELSE at[h])
         /\ unset'[h] = (IF h = g THEN Gauges ELSE {})
         /\ unset[h] = {}
  BY <1>0 DEF Collect, Goto, TypeOK
<1>2. at[g] = "idle" /\ g \notin readers
  BY <1>0 DEF Collect, LockOK
<1>3. TypeOK' /\ PageType'
  BY <1>0, MetricsAssumption DEF Collect, Goto, TypeOK, PageType
<1>4. LockOK'
  BY <1>0, <1>1, <1>2 DEF Collect, LockOK, Writing
<1>5. WorkOK'
  BY <1>0, <1>1, <1>2 DEF Collect, WorkOK
<1>6. CountsOK'
  <2>1. \A c : Between(c)' = Between(c)
    BY <1>1, <1>2 DEF Collect, Between
  <2> QED  BY <1>0, <2>1 DEF Collect, CountsOK, Counted, Cumulative
<1>7. GaugesOK'
  <2>1. \A n \in Gauges : Lag(n) = 0 /\ Lag(n)' = 1
    BY <1>1 DEF Lag
  <2>2. registry' = registry /\ \A n \in Gauges : registry.gauges[n] \in Nat
    BY <1>0, RegistryType DEF Collect
  <2> QED  BY <1>0, <1>1, <2>1, <2>2 DEF GaugesOK
<1>8. PagesOK' /\ PagesAreConsistent'
  BY <1>0, <1>1, <1>2 DEF Collect, PagesOK, PagesAreConsistent, Complete
<1> QED  BY <1>3, <1>4, <1>5, <1>6, <1>7, <1>8 DEF IInv

LEMMA Stutter ==
    ASSUME IInv, UNCHANGED vars
    PROVE  IInv'
<1>0. TypeOK /\ PageType /\ LockOK /\ WorkOK /\ PagesOK /\ CountsOK /\ GaugesOK /\ PagesAreConsistent
  BY DEF IInv
<1>1. TypeOK' /\ PageType'
  BY <1>0 DEF vars, TypeOK, PageType
<1>2. LockOK' /\ WorkOK'
  BY <1>0 DEF vars, LockOK, WorkOK, Writing
<1>3. CountsOK' /\ GaugesOK'
  BY <1>0 DEF vars, CountsOK, Counted, Between, Cumulative, GaugesOK, Lag
<1>4. PagesOK' /\ PagesAreConsistent'
  BY <1>0 DEF vars, PagesOK, PagesAreConsistent, Complete
<1> QED  BY <1>1, <1>2, <1>3, <1>4 DEF IInv

LEMMA Initial ==
    ASSUME Init
    PROVE  IInv
<1>1. NoneCounted \in Counts /\ NoneRecorded \in Histograms /\ [n \in Gauges |-> 0] \in [Gauges -> Nat]
  BY DEF NoneCounted, NoneRecorded, Counts, Histograms
<1>2. registry \in Registries
  BY <1>1 DEF Init, Registries
<1>3. \A g \in Goroutines : page[g] = << >> /\ Len(page[g]) = 0 /\ at[g] = "idle" /\ unset[g] = {}
  BY DEF Init
<1>4. TypeOK
  BY <1>2, <1>3, MetricsAssumption, OrderIs DEF Init, TypeOK
<1>5. PageType
  BY DEF Init, PageType
<1>6. LockOK /\ WorkOK
  BY <1>3 DEF Init, LockOK, WorkOK, Writing
<1>7. CountsOK
  <2>1. \A c : Between(c) = 0
    BY <1>3 DEF Between
  <2>2. /\ Counted("requests") = 0 /\ Counted("provider") = 0
        /\ registry.durations = NoneRecorded /\ registry.providerDurations = NoneRecorded
    BY DEF Init, Counted, NoneCounted, Results
  <2>3. NoneRecorded.count = 0 /\ Cumulative(NoneRecorded)
    BY MetricsAssumption DEF NoneRecorded, Cumulative
  <2> QED  BY <2>1, <2>2, <2>3 DEF CountsOK
<1>8. GaugesOK
  <2>1. \A n \in Gauges : registry.gauges[n] = 0 /\ Lag(n) = 0
    BY <1>3 DEF Init, Lag
  <2> QED  BY <1>3, <2>1 DEF GaugesOK
<1>9. PagesOK /\ PagesAreConsistent
  BY <1>3, OrderIs DEF Init, PagesOK, PagesAreConsistent, Complete
<1> QED  BY <1>4, <1>5, <1>6, <1>7, <1>8, <1>9 DEF IInv

LEMMA Invariant == Spec => []IInv
<1>1. Init => IInv
  BY Initial
<1>2. IInv /\ [Next]_vars => IInv'
  BY CountStep, RecordStep, SetStep, HandlerStep, MoveStep, ScrapeStep, CollectStep, Stutter
  DEF Next, Step, Quiet
<1> QED  BY <1>1, <1>2, PTL DEF Spec

-----------------------------------------------------------------------------
\* Every variable keeps its type, however many goroutines observe and scrape.
THEOREM TypeCorrect == Spec => []TypeOK
<1>1. IInv => TypeOK
  BY DEF IInv
<1> QED  BY <1>1, Invariant, PTL

\* No map of the registry is read or written while another goroutine writes it: the
\* RWMutex is held in every place of metrics.go that touches one.
THEOREM SafeCorrect == Spec => []MapsAreSafe
<1>1. IInv => MapsAreSafe
  <2> SUFFICES ASSUME IInv, NEW g \in Writing
               PROVE  Reading = {} /\ Writing = {g}
    BY DEF MapsAreSafe
  <2>1. LockOK /\ TypeOK /\ readers = {}
    BY DEF IInv, LockOK
  <2>2. Reading = {}
    BY <2>1 DEF LockOK, Reading
  <2>3. \A h \in Writing : writer = h /\ h \in Goroutines
    BY <2>1 DEF LockOK, Writing
  <2> QED  BY <2>2, <2>3
<1> QED  BY <1>1, Invariant, PTL

\* A page of GET /metrics agrees with itself: counters with histograms, buckets with
\* each other, gauges with one collection.
THEOREM ConsistentCorrect == Spec => []PagesAreConsistent
<1>1. IInv => PagesAreConsistent
  BY DEF IInv
<1> QED  BY <1>1, Invariant, PTL
-----------------------------------------------------------------------------
Totals == {1, 3, 5}

PagesBelow ==
    \A g \in Goroutines : Complete(g) =>
        \A i \in Totals : \A r \in Results :
            page[g][i][r] \in Nat /\ page[g][i][r] <= registry[Order[i]][r]

\* Counters are numbers, and no step lowers one.
LEMMA Growing ==
    ASSUME IInv, IInv', [Next]_vars
    PROVE  \A i \in Totals : \A r \in Results :
              /\ registry[Order[i]][r] \in Nat /\ registry'[Order[i]][r] \in Nat
              /\ registry[Order[i]][r] <= registry'[Order[i]][r]
<1> SUFFICES ASSUME NEW i \in Totals, NEW r \in Results
             PROVE  /\ registry[Order[i]][r] \in Nat /\ registry'[Order[i]][r] \in Nat
                    /\ registry[Order[i]][r] <= registry'[Order[i]][r]
  OBVIOUS
<1> DEFINE n == registry[Order[i]][r]
           m == registry'[Order[i]][r]
<1>1. Order[i] \in Counters
  BY OrderIs DEF Totals, Counters
<1>2. registry \in Registries /\ registry' \in Registries
  BY DEF IInv, TypeOK
<1>3. n \in Nat /\ m \in Nat
  BY <1>1, <1>2 DEF Registries, Counts, Counters
<1>4. CASE registry' = registry
  BY <1>3, <1>4
<1>5. ASSUME NEW g \in Goroutines, Count(g)
      PROVE  n <= m
  <2> DEFINE c == todo[g].counter
             s == todo[g].result
  <2>1. c \in Counters /\ s \in Results /\ registry' = [registry EXCEPT ![c][s] = @ + 1]
    BY <1>5 DEF Count, IInv, WorkOK, Observations
  <2>2. n = m \/ m = n + 1
    <3>1. CASE Order[i] = c /\ r = s
      BY <1>1, <1>2, <2>1, <3>1 DEF Registries, Counts, Counters
    <3>2. CASE Order[i] # c \/ r # s
      BY <1>1, <1>2, <2>1, <3>2 DEF Registries, Counts, Counters
    <3> QED  BY <3>1, <3>2
  <2> HIDE DEF n, m
  <2> QED  BY <1>3, <2>2
<1>6. ASSUME NEW g \in Goroutines, Record(g)
      PROVE  registry'[Order[i]] = registry[Order[i]]
  <2>1. HistogramOf(todo[g].counter) \in {"durations", "providerDurations"}
    BY DEF HistogramOf
  <2>2. Order[i] # HistogramOf(todo[g].counter)
    BY <1>1, <2>1 DEF Counters
  <2> QED  BY <1>1, <1>2, <1>6, <2>2 DEF Record, Registries, Counters
<1>7. ASSUME NEW g \in Goroutines, NEW name \in Gauges, SetPersistent(g, name)
      PROVE  registry'[Order[i]] = registry[Order[i]]
  BY <1>1, <1>2, <1>7 DEF SetPersistent, Registries, Counters
<1>8. \/ registry' = registry
      \/ \E g \in Goroutines : Count(g) \/ Record(g) \/ \E name \in Gauges : SetPersistent(g, name)
  BY DEF Next, Step, Quiet, vars, Announce, Locked, RLock, Handler, PageEnds, Scrape, Collect, Observe
<1> QED  BY <1>3, <1>4, <1>5, <1>6, <1>7, <1>8

LEMMA SnapshotStep ==
    ASSUME IInv, IInv', PagesBelow, PagesAreSnapshots, [Next]_vars
    PROVE  PagesBelow' /\ PagesAreSnapshots'
<1>0. \A i \in Totals : \A r \in Results :
         /\ registry[Order[i]][r] \in Nat /\ registry'[Order[i]][r] \in Nat
         /\ registry[Order[i]][r] <= registry'[Order[i]][r]
  BY Growing
<1>1. CASE page' = page
  <2>1. PagesAreSnapshots'
    BY <1>1 DEF PagesAreSnapshots, Complete, Includes
  <2>2. PagesBelow'
    BY <1>0, <1>1 DEF PagesBelow, Complete
  <2> QED  BY <2>1, <2>2
<1>2. ASSUME NEW g \in Goroutines, Scrape(g)
      PROVE  PagesBelow' /\ PagesAreSnapshots'
  <2>1. /\ registry' = registry /\ ~Complete(g)'
        /\ \A h \in Goroutines \ {g} : page'[h] = page[h]
    BY <1>2, OrderIs DEF Scrape, IInv, PageType, Complete
  <2>2. \A h \in Goroutines : Complete(h)' => page'[h] = page[h] /\ Complete(h)
    BY <2>1 DEF Complete
  <2> QED  BY <2>1, <2>2 DEF PagesBelow, PagesAreSnapshots, Includes
<1>3. ASSUME NEW g \in Goroutines, Handler(g)
      PROVE  PagesBelow' /\ PagesAreSnapshots'
  <2>1. registry' = registry /\ \A h \in Goroutines \ {g} : page'[h] = page[h]
    BY <1>3 DEF Handler, IInv, PageType
  <2>2. \A h \in Goroutines \ {g} : Complete(h)' => page'[h] = page[h] /\ Complete(h)
    BY <2>1 DEF Complete
  <2>3. Complete(g)' => \A i \in Totals : page'[g][i] = registry[Order[i]]
    <3>1. g \in readers'
      BY <1>3 DEF Handler, IInv, LockOK
    <3>2. \A i \in 1..Len(page'[g]) : page'[g][i] = registry'[Order[i]]
      BY <3>1 DEF IInv, PagesOK
    <3> QED  BY <2>1, <3>2, OrderIs DEF Complete, Totals
  <2>4. PagesBelow'
    BY <1>0, <2>1, <2>2, <2>3 DEF PagesBelow
  <2>5. ASSUME NEW h \in Goroutines, Complete(h)', Complete(g)'
        PROVE  Includes(h, g)'
    BY <2>1, <2>3, <2>4, <2>5 DEF PagesBelow, Includes, Totals
  <2>6. ASSUME NEW h \in Goroutines \ {g}, NEW k \in Goroutines \ {g}, Complete(h)', Complete(k)'
        PROVE  (Includes(h, k) \/ Includes(k, h))'
    BY <2>2, <2>6 DEF PagesAreSnapshots, Includes
  <2>7. PagesAreSnapshots'
    BY <2>5, <2>6 DEF PagesAreSnapshots
  <2> QED  BY <2>4, <2>7
<1>4. \/ page' = page
      \/ \E g \in Goroutines : Scrape(g) \/ Handler(g)
  BY DEF Next, Step, Quiet, vars, Announce, Locked, RLock, Count, Record, SetPersistent, PageEnds, Collect, Observe
<1> QED  BY <1>1, <1>2, <1>3, <1>4

\* Of two complete pages one has everything the other has: a rate computed from two
\* scrapes is never negative.
THEOREM SnapshotsCorrect == Spec => []PagesAreSnapshots
<1>1. Init => PagesBelow /\ PagesAreSnapshots
  BY OrderIs DEF Init, PagesBelow, PagesAreSnapshots, Complete
<1>2. IInv /\ IInv' /\ PagesBelow /\ PagesAreSnapshots /\ [Next]_vars => PagesBelow' /\ PagesAreSnapshots'
  BY SnapshotStep
<1> QED  BY <1>1, <1>2, Invariant, PTL DEF Spec
=============================================================================

-------------------------- MODULE Lifecycle_proofs --------------------------
(***************************************************************************)
(* Proofs about Lifecycle for any number of requests.                      *)
(*                                                                         *)
(* The argument: the waiter is born after configuration, pool and launch,  *)
(* and only it sets the flag (PhaseOK).  From then on each of the three    *)
(* looks that ListenAndServe takes at the flag leads main to Close, and no *)
(* way leads from there to the two places that still may fail (Stopping).  *)
(***************************************************************************)
EXTENDS Lifecycle, TLAPS

PhaseOK ==
    /\ waiter # "unborn" => main \notin {"configure", "open", "launch"}
    /\ inShutdown => waiter \in {"closing", "done"} /\ signalled
    /\ waiter \in {"closing", "done"} => inShutdown
    /\ main \in {"close", "exited"} => inShutdown
    /\ listener = "closed" => inShutdown

IInv == TypeOK /\ PhaseOK

Places == {"unborn", "waiting", "running", "statement", "ended"}

\* Loops and handlers move without main, waiter and server.
LEMMA WorkersMove ==
    ASSUME TypeOK,
           \/ \E l \in Loops : Round(l) \/ RoundEnds(l) \/ LoopEnds(l)
           \/ \E q \in Requests : Arrive(q) \/ Answer(q)
           \/ \E w \in Workers : Acquire(w) \/ Release(w)
    PROVE  /\ place' \in [Workers -> Places]
           /\ UNCHANGED <<main, signalled, waiter, inShutdown, listener, closed>>
<1>1. ASSUME NEW w \in Workers, NEW from, NEW to \in Places, Move(w, from, to)
      PROVE  /\ place' \in [Workers -> Places]
             /\ UNCHANGED <<main, signalled, waiter, inShutdown, listener, closed>>
  BY <1>1 DEF Move, TypeOK, Places
<1>2. \E w \in Workers : \E from : \E to \in Places : Move(w, from, to)
  <2>1. CASE \E l \in Loops : Round(l) \/ RoundEnds(l) \/ LoopEnds(l)
    BY <2>1 DEF Round, RoundEnds, LoopEnds, Workers, Places
  <2>2. CASE \E q \in Requests : Arrive(q) \/ Answer(q)
    BY <2>2 DEF Arrive, Answer, Workers, Places
  <2>3. CASE \E w \in Workers : Acquire(w) \/ Release(w)
    BY <2>3 DEF Acquire, Release, Places
  <2> QED  BY <2>1, <2>2, <2>3
<1> QED  BY <1>1, <1>2

LEMMA Invariant == Spec => []IInv
<1>1. Init => IInv
  BY DEF Init, IInv, TypeOK, PhaseOK
<1>2. ASSUME IInv, [Next]_vars
      PROVE  IInv'
  <2>0. TypeOK /\ PhaseOK
    BY <1>2 DEF IInv
  <2>1. CASE Configure \/ Open \/ Listen \/ Bind
    BY <2>0, <2>1 DEF Configure, Open, Listen, Bind, Goto, Fatal, IInv, TypeOK, PhaseOK
  <2>2. CASE Track \/ ServeReturns \/ ServeFails \/ Lost
    BY <2>0, <2>2 DEF Track, ServeReturns, ServeFails, Lost, AcceptError, Goto, Fatal,
                      IInv, TypeOK, PhaseOK
  <2>3. CASE Close \/ Exit
    BY <2>0, <2>3 DEF Close, Exit, Goto, IInv, TypeOK, PhaseOK
  <2>4. CASE Launch
    <3>1. place' \in [Workers -> {"unborn", "waiting", "running", "statement", "ended"}]
      BY <2>0, <2>4 DEF Launch, Fatal, TypeOK
    <3>2. TypeOK'
      BY <2>0, <2>4, <3>1 DEF Launch, Goto, Fatal, TypeOK
    <3>3. PhaseOK'
      BY <2>0, <2>4 DEF Launch, Goto, Fatal, PhaseOK
    <3> QED  BY <3>2, <3>3 DEF IInv
  <2>5. CASE Signal
    BY <2>0, <2>5 DEF Signal, IInv, TypeOK, PhaseOK
  <2>6. CASE Shutdown
    <3>1. TypeOK'
      BY <2>0, <2>6 DEF Shutdown, TypeOK
    <3>2. signalled' /\ inShutdown' /\ waiter' = "closing" /\ main' = main
      BY <2>6 DEF Shutdown
    <3>3. main \notin {"configure", "open", "launch"}
      BY <2>0, <2>6 DEF Shutdown, PhaseOK
    <3>4. PhaseOK'
      BY <3>2, <3>3 DEF PhaseOK
    <3> QED  BY <3>1, <3>4 DEF IInv
  <2>7. CASE CloseListeners
    <3>1. TypeOK'
      BY <2>0, <2>7 DEF CloseListeners, TypeOK
    <3>2. main \notin {"configure", "open", "launch"}
      BY <2>0, <2>7 DEF CloseListeners, PhaseOK
    <3>3. inShutdown /\ signalled /\ inShutdown' /\ signalled' /\ waiter' = "done" /\ main' = main
      BY <2>0, <2>7 DEF CloseListeners, PhaseOK
    <3> QED  BY <3>1, <3>2, <3>3 DEF PhaseOK, IInv
  <2>8. CASE Gone \/ UNCHANGED vars
    BY <2>0, <2>8 DEF Gone, vars, IInv, TypeOK, PhaseOK
  <2>9. CASE \/ \E l \in Loops : Round(l) \/ RoundEnds(l) \/ LoopEnds(l)
             \/ \E q \in Requests : Arrive(q) \/ Answer(q)
             \/ \E w \in Workers : Acquire(w) \/ Release(w)
    BY <2>0, <2>9, WorkersMove DEF Places, IInv, TypeOK, PhaseOK
  <2> QED  BY <1>2, <2>1, <2>2, <2>3, <2>4, <2>5, <2>6, <2>7, <2>8, <2>9
           DEF Next, MainStep, Stop
<1> QED  BY <1>1, <1>2, PTL DEF Spec

\* Main, waiter, pool, server, loops and handlers stay in the places the module names.
THEOREM TypeCorrect == Spec => []TypeOK
<1>1. IInv => TypeOK
  BY DEF IInv
<1> QED  BY <1>1, Invariant, PTL

\* A process leaves in order only when it was told to, by a signal that reached its
\* server: unasked it serves, or fails so that a supervisor notices.
THEOREM AskedCorrect == Spec => [](main \in {"close", "exited"} => signalled /\ inShutdown)
<1>1. IInv => (main \in {"close", "exited"} => signalled /\ inShutdown)
  BY DEF IInv, PhaseOK
<1> QED  BY <1>1, Invariant, PTL

\* The server was told to stop, and main is past both failures that may still follow.
Stopping == inShutdown /\ main \notin {"bind", "lost", "fatal"}

\* Nothing leads back: where main reads the flag it turns to Close, and there it stays.
LEMMA StoppingStays ==
    ASSUME IInv, Stopping, [Next]_vars
    PROVE  Stopping'
<1>0. TypeOK /\ PhaseOK
  BY DEF IInv
<1>1. main \in {"listen", "track", "serve", "close", "exited"}
  BY <1>0 DEF TypeOK, PhaseOK, Stopping
<1>2. CASE MainStep \/ ServeFails
  BY <1>0, <1>1, <1>2
  DEF MainStep, Configure, Open, Launch, Listen, Bind, Track, ServeReturns, ServeFails, Lost,
      AcceptError, Close, Exit, Goto, Stopping
<1>3. CASE Signal \/ Stop \/ Gone \/ UNCHANGED vars
  BY <1>3 DEF Signal, Stop, Shutdown, CloseListeners, Gone, vars, Stopping
<1>4. CASE \/ \E l \in Loops : Round(l) \/ RoundEnds(l) \/ LoopEnds(l)
           \/ \E q \in Requests : Arrive(q) \/ Answer(q)
           \/ \E w \in Workers : Acquire(w) \/ Release(w)
  BY <1>0, <1>4, WorkersMove DEF Stopping
<1> QED  BY <1>2, <1>3, <1>4 DEF Next

\* From the moment the server is told to stop no shutdown ends in log.Fatal, wherever
\* main was; a bind under way and a listener lost before are the only failures left.
THEOREM StopCorrect == Spec => StopIsNoFailure
<1>1. Stopping <=> (inShutdown /\ main \notin {"bind", "lost", "fatal"})
  BY DEF Stopping
<1>2. Stopping => main # "fatal"
  BY DEF Stopping
<1>3. IInv /\ Stopping /\ [Next]_vars => Stopping'
  BY StoppingStays
<1> QED  BY <1>1, <1>2, <1>3, Invariant, PTL DEF Spec, StopIsNoFailure
=============================================================================

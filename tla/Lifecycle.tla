------------------------------ MODULE Lifecycle ------------------------------
(***************************************************************************)
(* One process of the connector from start to exit: main, the three loops  *)
(* it launches, the goroutine that shuts the server down, requests being   *)
(* handled, the connection pool and a signal at any moment.                *)
(*                                                                         *)
(* What the statements and calls do is the other modules' matter: here     *)
(* they begin, end and fail.  ListenAndServe and Shutdown are those of     *)
(* net/http: each reads or sets the server's flag in one step and opens or *)
(* closes the listener in another.                                         *)
(***************************************************************************)
EXTENDS Integers

CONSTANT Requests

Loops   == {"publisher", "reconciler", "collectMetrics"}
Workers == Loops \cup Requests

ASSUME LifecycleAssumption == Requests \cap Loops = {}

VARIABLES
    main,       \* where main is
    signalled,  \* SIGINT or SIGTERM has come: ctx is done
    waiter,     \* the goroutine that waits for ctx and calls Shutdown
    inShutdown, \* the flag of the http.Server
    listener,   \* the listener that the server knows of
    closed,     \* of the pool: no connection is handed out
    place       \* where a loop or the handler of a request is

vars == <<main, signalled, waiter, inShutdown, listener, closed, place>>

\* A goroutine that is "running" is between statements: in its own code, a call of the
\* provider or the orchestrator.
TypeOK ==
    /\ main \in {"configure", "open", "launch", "listen", "bind", "track", "serve", "lost",
                "close", "exited", "fatal"}
    /\ waiter \in {"unborn", "waiting", "closing", "done"}
    /\ listener \in {"none", "open", "closed"}
    /\ signalled \in BOOLEAN /\ inShutdown \in BOOLEAN /\ closed \in BOOLEAN
    /\ place \in [Workers -> {"unborn", "waiting", "running", "statement", "ended"}]

Init ==
    /\ main = "configure" /\ waiter = "unborn" /\ listener = "none"
    /\ signalled = FALSE /\ inShutdown = FALSE /\ closed = FALSE
    /\ place = [w \in Workers |-> "unborn"]

Alive == main \notin {"exited", "fatal"}

\* NotifyContext; further signals are swallowed until main returns.
Signal ==
    /\ Alive /\ ~signalled
    /\ signalled' = TRUE
    /\ UNCHANGED <<main, waiter, inShutdown, listener, closed, place>>

\* log.Fatal: the process ends at once, deferred calls and all.
Fatal ==
    /\ main' = "fatal"
    /\ UNCHANGED <<signalled, waiter, inShutdown, listener, closed, place>>

Goto(next) == main' = next /\ UNCHANGED <<signalled, inShutdown, listener, closed>>

-----------------------------------------------------------------------------
\* Environment variables and clients are there, or something is missing.
Configure ==
    /\ main = "configure"
    /\ \/ Goto("open") /\ UNCHANGED <<waiter, place>>
       \/ Fatal

\* Pool, ping and migration, under ctx.
Open ==
    /\ main = "open"
    /\ \/ ~signalled /\ Goto("launch") /\ UNCHANGED <<waiter, place>>
       \/ Fatal

\* The loops and the waiter; reconciler and metrics begin with a round.
Launch ==
    /\ main = "launch"
    /\ \/ /\ Goto("listen")
          /\ waiter' = "waiting"
          /\ place' = [w \in Workers |-> IF w \notin Loops THEN place[w]
                                         ELSE IF w = "publisher" THEN "waiting" ELSE "running"]
       \/ Fatal

\* ListenAndServe reads the flag; ErrServerClosed is no failure.
Listen ==
    /\ main = "listen"
    /\ Goto(IF inShutdown THEN "close" ELSE "bind")
    /\ UNCHANGED <<waiter, place>>

\* net.Listen, which looks at no flag: the port may be taken.
Bind ==
    /\ main = "bind"
    /\ \/ Goto("track") /\ UNCHANGED <<waiter, place>>
       \/ Fatal

\* Mutant: the listener is served without a second look at the flag.
TrackUnchecked ==
    /\ main = "track"
    /\ main' = "serve" /\ listener' = "open"
    /\ UNCHANGED <<signalled, waiter, inShutdown, closed, place>>

\* Serve makes the listener known, under the lock that Shutdown closes listeners under,
\* unless the flag is set by now.
Track ==
    /\ main = "track"
    /\ IF inShutdown THEN main' = "close" /\ UNCHANGED listener
                     ELSE main' = "serve" /\ listener' = "open"
    /\ UNCHANGED <<signalled, waiter, inShutdown, closed, place>>

\* Mutant: ErrServerClosed is taken for a failure.
AcceptErrorFatal == main = "serve" /\ Goto("lost") /\ UNCHANGED <<waiter, place>>

\* Accept returns an error: only the flag tells a server told to stop from a lost
\* listener, whose error is on its way to log.Fatal then.
AcceptError ==
    /\ main = "serve"
    /\ Goto(IF inShutdown THEN "close" ELSE "lost")
    /\ UNCHANGED <<waiter, place>>

ServeReturns == listener = "closed" /\ AcceptError

ServeFails == listener = "open" /\ AcceptError

Lost == main = "lost" /\ Fatal

\* Shutdown sets the flag first ...
Shutdown ==
    /\ Alive /\ waiter = "waiting" /\ signalled
    /\ inShutdown' = TRUE /\ waiter' = "closing"
    /\ UNCHANGED <<main, signalled, listener, closed, place>>

\* ... and then closes the listener it knows of, if there is one.  Main does not wait
\* for the rest of it.
CloseListeners ==
    /\ Alive /\ waiter = "closing"
    /\ listener' = (IF listener = "open" THEN "closed" ELSE listener)
    /\ waiter' = "done"
    /\ UNCHANGED <<main, signalled, inShutdown, closed, place>>

\* Deferred store.Close: the pool hands out no connection from now on ...
Close ==
    /\ main = "close" /\ ~closed
    /\ closed' = TRUE
    /\ UNCHANGED <<main, signalled, waiter, inShutdown, listener, place>>

\* ... and waits for those in use.  Then main returns and the process is gone.
Exit ==
    /\ main = "close" /\ closed
    /\ \A w \in Workers : place[w] # "statement"
    /\ Goto("exited") /\ UNCHANGED <<waiter, place>>

-----------------------------------------------------------------------------
Move(w, from, to) ==
    /\ Alive /\ place[w] = from
    /\ place' = [place EXCEPT ![w] = to]
    /\ UNCHANGED <<main, signalled, waiter, inShutdown, listener, closed>>

\* A request begins on a connection accepted before, perhaps after the listener is gone.
Arrive(q) == listener # "none" /\ Move(q, "unborn", "running")

\* The select of a loop: its ticker, even if ctx is done too.
Round(l) == Move(l, "waiting", "running")

RoundEnds(l) == Move(l, "running", "waiting")

LoopEnds(l) == signalled /\ Move(l, "waiting", "ended")

\* A connection is taken and a statement sent.  The loops run under ctx, requests under
\* a context that no signal ends.
Acquire(w) ==
    /\ ~closed
    /\ w \in Loops => ~signalled
    /\ Move(w, "running", "statement")

\* The database answers, or the context ends the statement.
Release(w) == Move(w, "statement", "running")

Answer(q) == Move(q, "running", "ended")

MainStep ==
    \/ Configure \/ Open \/ Launch \/ Listen \/ Bind \/ Track \/ ServeReturns \/ Lost
    \/ Close \/ Exit

Stop == Shutdown \/ CloseListeners

\* Nothing runs in a process that is gone.
Gone == ~Alive /\ UNCHANGED vars

Next ==
    \/ MainStep \/ ServeFails \/ Signal \/ Stop \/ Gone
    \/ \E l \in Loops : Round(l) \/ RoundEnds(l) \/ LoopEnds(l)
    \/ \E q \in Requests : Arrive(q) \/ Answer(q)
    \/ \E w \in Workers : Acquire(w) \/ Release(w)

Spec == Init /\ [][Next]_vars

\* Main and the waiter run when they can, and the database answers.  Nothing is asked
\* of loops and handlers.
Fairness ==
    /\ WF_vars(MainStep) /\ WF_vars(Stop)
    /\ \A w \in Workers : WF_vars(Release(w))

FairSpec == Spec /\ Fairness

-----------------------------------------------------------------------------
\* A shutdown is never itself taken for a failure, which a supervisor would answer by
\* starting the process again: from the moment its server is told to stop, whether it
\* serves already or not, the process does not end by log.Fatal.  Two failures of its
\* own are excepted: a port that proves taken after the flag was read, and a listener
\* lost before the flag was set.
StopIsNoFailure ==
    [](inShutdown /\ main \notin {"bind", "lost", "fatal"} => [](main # "fatal"))

\* A signal ends the process, whether it comes before the pool is open, before the
\* server listens, or while it serves; loops and handlers need not cooperate.
Exits == signalled ~> ~Alive
=============================================================================

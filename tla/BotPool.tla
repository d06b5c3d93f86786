-------------------------------- MODULE BotPool --------------------------------
(***************************************************************************)
(* The bot worker pool: the workers of BotWorker, the API's                *)
(* BotDeploymentService that asks for bots to be started, stopped and      *)
(* restarted, and the faults of the environment.                           *)
(***************************************************************************)
EXTENDS BotWorker

CONSTANTS Initial,      \* the workers deployed together at the start
          Faults,       \* the kinds of fault that may happen
          MaxFaults,    \* bound: faults in a behaviour
          MaxRequests,  \* bound: API requests in a behaviour
          MaxTrouble    \* bound: faults and API requests together

\* "join": a worker (re)starts while others run.  "pause": a live worker sends no
\* heartbeat for heartbeat_timeout.  "crash": a worker dies.  "disconnect": a
\* connection ends on its own.  "failstart": a bot does not start.  "failstop": a
\* connection does not close.  "database": a query of the sweep raises.  "api": the
\* API process dies between its commit and its publish.
FaultKinds ==
    {"join", "pause", "crash", "disconnect", "failstart", "failstop", "database", "api"}

ASSUME PoolAssumption ==
    /\ Initial \subseteq Workers
    /\ Faults \subseteq FaultKinds
    /\ MaxFaults \in Nat
    /\ MaxRequests \in Nat
    /\ MaxTrouble \in Nat

VARIABLES pending,  \* requests whose row is committed and whose message is not sent
          asked,    \* requests so far
          faults    \* faults so far

poolVars == <<pending, asked, faults>>
vars     == <<storeVars, workerVars, poolVars>>

Requests == [type : EventTypes, bot : Bots]

TypeOK ==
    /\ StoreTypeOK
    /\ WorkerTypeOK
    /\ pending \subseteq Requests
    /\ asked \in Nat
    /\ faults \in Nat

\* A parallel deployment: its workers have registered and sleep out the jitter.
Init ==
    /\ enabled \in SUBSET Bots
    /\ hb = [w \in Workers |-> IF w \in Initial THEN "fresh" ELSE "none"]
    /\ info = Initial
    /\ assign = [b \in Bots |-> None]
    /\ events = <<>>
    /\ inbox = [w \in Workers |-> <<>>]
    /\ phase = [w \in Workers |-> IF w \in Initial THEN "waiting" ELSE "down"]
    /\ ring = [w \in Workers |-> {}]
    /\ active = [w \in Workers |-> {}]
    /\ handler = [w \in Workers |-> {}]
    /\ runner = [w \in Workers |-> {}]
    /\ conn = [w \in Workers |-> {}]
    /\ leaked = [w \in Workers |-> {}]
    /\ task = [w \in Workers |-> [t \in Coroutines |-> Idle]]
    /\ todo = [w \in Workers |-> {}]
    /\ last = [w \in Workers |-> 0]
    /\ pending = {}
    /\ asked = 0
    /\ faults = 0

\* The joint bound lets a behaviour mix faults and requests without the most of both.
Bounded == asked + faults < MaxTrouble

-------------------------------------------------------------------------------
(* BotDeploymentService.                                                     *)

\* A request up to its commit. restart_bot commits nothing.
Request(type, b) ==
    /\ asked < MaxRequests /\ Bounded
    /\ asked' = asked + 1
    /\ pending' = pending \cup {[type |-> type, bot |-> b]}
    /\ \/ type = "activate" /\ enabled' = enabled \cup {b}
       \/ type = "deactivate" /\ enabled' = enabled \ {b}
       \/ type = "restart" /\ UNCHANGED enabled
    /\ UNCHANGED <<hb, info, assign, events, inbox, workerVars, faults>>

\* activate_bot: an event, if any worker is healthy.
Activate(b) ==
    /\ IF Healthy = {} THEN UNCHANGED events ELSE PublishEvent("activate", b)
    /\ UNCHANGED inbox

\* deactivate_bot and restart_bot: a command to the worker the assignment names,
\* else an event.
Direct(type, action, b) ==
    IF assign[b] # None
       THEN /\ SendCommand(assign[b], action, b, Subscribed(assign[b]))
            /\ UNCHANGED events
       ELSE /\ PublishEvent(type, b)
            /\ UNCHANGED inbox

Publish(r) ==
    /\ pending' = pending \ {r}
    /\ \/ r.type = "activate" /\ Activate(r.bot)
       \/ r.type = "deactivate" /\ Direct("deactivate", "stop_bot", r.bot)
       \/ r.type = "restart" /\ Direct("restart", "restart_bot", r.bot)
    /\ UNCHANGED <<enabled, hb, info, assign, workerVars, asked, faults>>

-------------------------------------------------------------------------------
(* The environment.                                                          *)

Fault(kind) ==
    /\ kind \in Faults
    /\ faults < MaxFaults /\ Bounded
    /\ faults' = faults + 1
    /\ UNCHANGED <<pending, asked>>

\* Redis's clock passes heartbeat_timeout for a worker that sends none.
ExpireHeartbeat(w) ==
    /\ hb[w] = "fresh"
    /\ hb' = [hb EXCEPT ![w] = "stale"]
    /\ UNCHANGED <<enabled, info, assign, events, inbox, workerVars>>

\* The API process dies with a request committed and not published.
LoseRequest(r) ==
    /\ "api" \in Faults
    /\ faults < MaxFaults /\ Bounded
    /\ faults' = faults + 1
    /\ pending' = pending \ {r}
    /\ UNCHANGED <<storeVars, workerVars, asked>>

Fail(w) ==
    \/ Fault("join") /\ Start(w)
    \/ Fault("pause") /\ phase[w] # "down" /\ ExpireHeartbeat(w)
    \/ Fault("crash") /\ Crash(w)
    \/ Fault("database") /\ FailSweep(w)
    \/ \E b \in Bots : Fault("disconnect") /\ ConnectionEnds(w, b)
    \/ \E t \in Coroutines : Fault("failstart") /\ FailStart(w, t)
    \/ \E t \in Coroutines : Fault("failstop") /\ FailStop(w, t)

\* Each coroutine of a worker is a process of its own.
Resume(w, t) == FinishStart(w, t) \/ Unwind(w, t) \/ FinishStop(w, t) \/ WakeUp(w, t)

Sweep(w) ==
    \/ BuildRing(w)
    \/ ListBots(w)
    \/ ClaimAssigned(w)
    \/ BecomeReady(w)
    \/ Scan(w)
    \/ ClaimOrphan(w)
    \/ Resume(w, "sweep")

Shutdown(w) ==
    \/ \E t \in Loops : Cancel(w, t)
    \/ StopAll(w)
    \/ StopNext(w)
    \/ Unregister(w)
    \/ Resume(w, "shutdown")

EventLoop(w) == HandleEvent(w) \/ Resume(w, "events")

CommandLoop(w) == HandleCommand(w) \/ Resume(w, "commands")

HeartbeatLapses(w) == phase[w] = "down" /\ ExpireHeartbeat(w)

Work(w) == Sweep(w) \/ EventLoop(w) \/ CommandLoop(w) \/ Shutdown(w) \/ SendHeartbeat(w)

\* What may happen to a worker and is no fault of its environment.
Happen(w) ==
    \/ Terminate(w)
    \/ TerminateEarly(w)
    \/ ExitEarly(w)
    \/ HeartbeatLapses(w)
    \/ \E b \in Bots : PollerEnds(w, b) \/ ThreadEnds(w, b)

Next ==
    \/ \E w \in Workers : Work(w) /\ UNCHANGED poolVars
    \/ \E w \in Workers : Happen(w) /\ UNCHANGED poolVars
    \/ \E w \in Workers : Fail(w)
    \/ \E type \in EventTypes, b \in Bots : Request(type, b)
    \/ \E r \in pending : Publish(r) \/ LoseRequest(r)

Spec == Init /\ [][Next]_vars

\* Fairness: asyncio resumes every coroutine whose await has completed, the
\* heartbeat and dead-worker loops run on timers, the score of a dead worker ages,
\* and an API process that has committed goes on to publish. Requests, signals and
\* faults are under no fairness.
Fairness ==
    /\ \A w \in Workers :
          /\ WF_vars(Sweep(w) /\ UNCHANGED poolVars)
          /\ WF_vars(EventLoop(w) /\ UNCHANGED poolVars)
          /\ WF_vars(CommandLoop(w) /\ UNCHANGED poolVars)
          /\ WF_vars(Shutdown(w) /\ UNCHANGED poolVars)
          /\ WF_vars(SendHeartbeat(w) /\ UNCHANGED poolVars)
          /\ WF_vars(HeartbeatLapses(w) /\ UNCHANGED poolVars)
    /\ WF_vars(\E r \in pending : Publish(r))

FairSpec == Spec /\ Fairness

-------------------------------------------------------------------------------
(* Properties.                                                               *)

\* No bot has connections on two workers: "each bot is claimed by exactly one
\* worker, not multiple". It rests on nothing but every worker working out the
\* same owner from its own, possibly outdated, ring.
NoDoubleRun ==
    \A b \in Bots : \A v, w \in Workers :
        Connected(v, b) /\ Connected(w, b) => v = w

\* A bot that runs is registered under the worker that runs it, so that the
\* API's stop and restart commands reach it (no step of another worker, and no
\* race of two coroutines of this one, drops or redirects the entry).
ActiveIsAssigned ==
    \A w \in Workers : \A b \in active[w] : assign[b] = w

\* The coroutines that are past the checks of _start_bot.
Starting(w) == {t \in Coroutines : task[w][t].op = "start"}

\* A coroutine has taken the bot's handler and awaits its close.
Closing(w, b) == \E t \in Coroutines : task[w][t].op = "close" /\ task[w][t].bot = b

\* Two coroutines may pass the capacity check before either of them inserts its
\* bot, so a worker can go over its capacity, but never by more than the number
\* of coroutines that can be past the check beside one another.
OvershootBounded ==
    \A w \in Workers :
        Cardinality(active[w]) + Cardinality(Starting(w)) <= Capacity + 2

\* No bot is stuck in _active_bots without a handler: unless a stop of it is under
\* way, a bot that a listening worker takes for running has a handler to stop it by,
\* however stops, restarts and starts of the same bot overlap.
NoGhost ==
    \A w \in Workers : phase[w] = "running" =>
        \A b \in active[w] \ handler[w] : Closing(w, b)

\* stop() comes to an end: no overlap of the stops under way, the cancelled tasks
\* and the list of bots leaves it waiting.
ShutdownEnds ==
    \A w \in Workers : phase[w] \in {"draining", "stopping"} ~> phase[w] = "down"

\* The running worker that the ring gives bot b.
OwnerOf(w, b) == phase[w] = "running" /\ Owns(w, ring[w], b)

\* It has no room for the bot: nobody else takes it up in its stead.
Full(w, b) == OwnerOf(w, b) /\ Cardinality(active[w]) >= Capacity

\* It leaves the bot to a healthy worker that is said to have it, and may not.
Deferred(w, b) == OwnerOf(w, b) /\ assign[b] \in Healthy \ {w}

\* A bot that stays enabled while some worker runs is taken up by a worker, over
\* and over if its workers die: no crash, lost request or exception leaves it an
\* orphan for good. Only an owner that stays full, or that trusts an assignment to
\* another healthy worker, may.
OrphansClaimed ==
    \A b \in Bots :
        <>[](b \in enabled /\ \E w \in Workers : phase[w] = "running")
            => []<>(\E w \in Workers : b \in active[w] \/ Full(w, b) \/ Deferred(w, b))

-------------------------------------------------------------------------------
(* Why NoDoubleRun holds: the inductive invariant.                           *)

\* No worker joins, and no live worker is taken for dead.
StableMembership == "join" \notin Faults /\ "pause" \notin Faults

\* No live worker comes before w on bot b's walk round the ring. Live workers only
\* grow fewer, so what is once best stays best, whatever becomes of the rings.
Best(w, b) == \A v \in Up : Rank[b][w] <= Rank[b][v]

\* Worker w runs b, is about to, may come to, or is registered for it.
Concerned(w, b) ==
    \/ b \in active[w] \cup conn[w] \cup leaked[w] \cup todo[w]
    \/ assign[b] = w
    \/ \E t \in Coroutines : task[w][t].bot = b
    \/ \E i \in DOMAIN inbox[w] : inbox[w][i].bot = b

\* A process that has not built its ring, or is gone, holds nothing.
Quiet(w) ==
    /\ active[w] = {}
    /\ conn[w] = {}
    /\ leaked[w] = {}
    /\ todo[w] = {}
    /\ inbox[w] = <<>>
    /\ \A t \in Coroutines : task[w][t] = Idle

LiveAreHealthy == Up \subseteq Healthy

RingsHoldTheLive ==
    \A w \in Up : phase[w] \notin {"waiting", "stopping"} => Up \subseteq ring[w]

IdleAreQuiet == \A w \in Workers : phase[w] \in {"down", "waiting"} => Quiet(w)

OnlyTheBest == \A w \in Up : \A b \in Bots : Concerned(w, b) => Best(w, b)

MembershipInv ==
    /\ LiveAreHealthy
    /\ RingsHoldTheLive
    /\ IdleAreQuiet
    /\ OnlyTheBest
    /\ ActiveIsAssigned

-------------------------------------------------------------------------------
(* Why OvershootBounded and NoGhost hold: the inductive invariant.           *)

\* A worker is over its capacity by those only that passed the check together.
LoadBounded(w) ==
    /\ IsFiniteSet(active[w])
    /\ Cardinality(active[w]) + Cardinality(Starting(w)) <= Capacity + 2

\* stop() stops bots and starts none, so that three coroutines at most start one.
ShutdownStops(w) ==
    /\ task[w]["shutdown"].op \in {"idle", "unwind", "close"}
    /\ task[w]["shutdown"].again = FALSE

\* Before its ring is built a process has no bots and does nothing.
NothingYet(w) ==
    phase[w] \in {"down", "waiting"} =>
        active[w] = {} /\ \A t \in Coroutines : task[w][t] = Idle

\* Whoever took the handler of an active bot is not done, from the first claim on.
HandlersAccounted(w) ==
    phase[w] \in {"claiming", "running"} => \A b \in active[w] \ handler[w] : Closing(w, b)

TablesInv ==
    \A w \in Workers :
        /\ LoadBounded(w)
        /\ ShutdownStops(w)
        /\ NothingYet(w)
        /\ HandlersAccounted(w)
===============================================================================

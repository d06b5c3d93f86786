------------------------------- MODULE BotWorker -------------------------------
(***************************************************************************)
(* A bot worker process (bot_worker/worker.py): its life from start() to   *)
(* stop(), and the coroutines that share its event loop.  asyncio runs one *)
(* coroutine at a time between awaits, so an action is the code from one   *)
(* await to the next; what a coroutine knows across an await is its task.  *)
(*                                                                         *)
(* Four coroutines start and stop bots: "sweep" (start()'s claiming loop,  *)
(* then _dead_worker_check_loop), "events" (_event_listener_loop),         *)
(* "commands" (_command_listener_loop) and "shutdown" (stop()).            *)
(***************************************************************************)
EXTENDS BotStore, Integers

CONSTANT Capacity   \* worker_capacity

ASSUME CapacityAssumption == Capacity \in Nat \ {0}

VARIABLES phase,    \* where each process is between start() and its exit
          ring,     \* _hash_ring: the workers on it
          active,   \* _active_bots
          handler,  \* _slack_handlers, _telegram_apps, _whatsapp_clients
          runner,   \* _slack_tasks: bots whose start_async task is not done
          conn,     \* bots whose registered handler has a live connection
          leaked,   \* bots with a live connection that no handler entry refers to
          task,     \* what each coroutine is in the middle of
          todo,     \* bots that the sweep, later stop(), has yet to look at
          last      \* _last_event_id, as a position in the stream

loopVars   == <<ring, todo, last>>
botVars    == <<active, handler, runner, conn, leaked>>
workerVars == <<phase, loopVars, botVars, task>>

\* The background tasks that touch bots. stop() cancels a task and awaits its end
\* before it cancels the next: CancelledBefore[t] are those that precede t.
Loops      == {"sweep", "events", "commands"}
Coroutines == Loops \cup {"shutdown"}
CancelledBefore == [events |-> {}, commands |-> {"events"}, sweep |-> {"events", "commands"}]

\* "waiting", "claiming": in start(). "draining", "stopping": in stop(), before and
\* after _stop_all_bots has listed the bots.
Phases == {"down", "waiting", "claiming", "running", "draining", "stopping"}

\* "query": about to read the bots' rows. "nap": asleep, to start the bot on waking.
\* "start": _start_bot is past its checks and awaits the database (and, for
\* Telegram, initialize()). "unwind": _stop_bot awaits the end of a Slack bot's
\* start_async task. "close": it has taken the handler and awaits its close. After a
\* stop with again, the bot is to be started. "ended": the coroutine is no more.
Task(op, b, again) == [op |-> op, bot |-> b, again |-> again]
Idle  == Task("idle", None, FALSE)
Ended == Task("ended", None, FALSE)
Query == Task("query", None, FALSE)
Tasks == [op : {"start", "unwind", "close", "nap"}, bot : Bots, again : BOOLEAN]
            \cup {Idle, Ended, Query}

WorkerTypeOK ==
    /\ phase \in [Workers -> Phases]
    /\ ring \in [Workers -> SUBSET Workers]
    /\ active \in [Workers -> SUBSET Bots]
    /\ handler \in [Workers -> SUBSET Bots]
    /\ runner \in [Workers -> SUBSET Bots]
    /\ conn \in [Workers -> SUBSET Bots]
    /\ leaked \in [Workers -> SUBSET Bots]
    /\ task \in [Workers -> [Coroutines -> Tasks]]
    /\ todo \in [Workers -> SUBSET Bots]
    /\ last \in [Workers -> Nat]

Up == {w \in Workers : phase[w] # "down"}

\* The process listens: its background tasks are not cancelled yet.
Listening(w) == phase[w] \in {"running", "draining"}

\* The command listener is subscribed from its start to its end.
Subscribed(w) == Listening(w) /\ task[w]["commands"] # Ended

\* Worker w holds a connection for bot b, be it one that is being closed.
Connected(w, b) ==
    \/ b \in conn[w] \cup leaked[w]
    \/ \E t \in Coroutines : task[w][t].op = "close" /\ task[w][t].bot = b

SetTask(w, t, x) == task' = [task EXCEPT ![w][t] = x]

Add(f, w, S)    == [f EXCEPT ![w] = @ \cup S]
Remove(f, w, S) == [f EXCEPT ![w] = @ \ S]

-------------------------------------------------------------------------------
(* _start_bot and _stop_bot, from one await to the next.                     *)

\* Mutant of StartTask: an off-by-one in the capacity check.
StartTaskOneOver(w, b) ==
    IF b \in active[w] \/ Cardinality(active[w]) > Capacity
       THEN Idle
       ELSE Task("start", b, FALSE)

\* _start_bot up to its first await: a bot that runs already and a worker that is
\* full end it there.
StartTask(w, b) ==
    IF b \in active[w] \/ Cardinality(active[w]) >= Capacity
       THEN Idle
       ELSE Task("start", b, FALSE)

BeginStart(w, t, b) ==
    /\ SetTask(w, t, StartTask(w, b))
    /\ UNCHANGED <<botVars, assign>>

\* Mutant of FinishStart: the assignment is not recorded.
FinishStartUnassigned(w, t) ==
    LET b == task[w][t].bot IN
    /\ task[w][t].op = "start"
    /\ leaked' = Add(leaked, w, {b} \cap conn[w])
    /\ active' = Add(active, w, {b})
    /\ handler' = Add(handler, w, {b})
    /\ runner' = Add(runner, w, {b} \cap SlackBots)
    /\ conn' = Add(conn, w, {b})
    /\ SetTask(w, t, Idle)
    /\ UNCHANGED <<phase, loopVars, storeVars>>

\* The rest of _start_bot: the entries it makes replace those of an earlier start,
\* whose connection goes on with nothing left to close it by.
FinishStart(w, t) ==
    LET b == task[w][t].bot IN
    /\ task[w][t].op = "start"
    /\ leaked' = Add(leaked, w, {b} \cap conn[w])
    /\ active' = Add(active, w, {b})
    /\ handler' = Add(handler, w, {b})
    /\ runner' = Add(runner, w, {b} \cap SlackBots)
    /\ conn' = Add(conn, w, {b})
    /\ AssignBot(b, w)
    /\ SetTask(w, t, Idle)
    /\ UNCHANGED <<phase, loopVars, enabled, hb, info, events, inbox>>

\* _start_bot ends early: the row is gone, a token does not decrypt, the platform
\* refuses.
FailStart(w, t) ==
    /\ task[w][t].op = "start"
    /\ SetTask(w, t, Idle)
    /\ UNCHANGED <<phase, loopVars, botVars, storeVars>>

\* What a coroutine does once _stop_bot returns.
AfterStop(b, again) == IF again THEN Task("nap", b, FALSE) ELSE Idle

\* The handler is taken out, to be closed across an await.
TakeHandler(w, t, b, again) ==
    /\ SetTask(w, t, Task("close", b, again))
    /\ handler' = Remove(handler, w, {b})
    /\ conn' = Remove(conn, w, {b})
    /\ UNCHANGED <<active, leaked, assign>>

\* _stop_bot up to its first await. A bot that is not active is no work. A live
\* start_async task is cancelled and awaited before its handler is taken; another
\* stop that comes meanwhile finds the task popped and takes the handler. A WhatsApp
\* client is disconnected at once, its thread ending later, and a bot whose handler
\* another stop has taken goes through without an await: both leave the tables here.
\* If the thread ends first and drops the entries, the del raises KeyError, and the
\* bot is not unassigned.
BeginStop(w, t, b, again) ==
    \/ /\ b \notin active[w]
       /\ SetTask(w, t, AfterStop(b, again))
       /\ UNCHANGED <<botVars, assign>>
    \/ /\ b \in active[w] \cap handler[w] \cap runner[w]
       /\ SetTask(w, t, Task("unwind", b, again))
       /\ runner' = Remove(runner, w, {b})
       /\ UNCHANGED <<active, handler, conn, leaked, assign>>
    \/ /\ b \in (active[w] \cap handler[w]) \ (runner[w] \cup WhatsAppBots)
       /\ TakeHandler(w, t, b, again)
       /\ UNCHANGED runner
    \/ /\ b \in active[w] \ (handler[w] \ WhatsAppBots)
       /\ SetTask(w, t, AfterStop(b, again))
       /\ active' = Remove(active, w, {b})
       /\ handler' = Remove(handler, w, {b})
       /\ conn' = Remove(conn, w, {b})
       /\ UNCHANGED runner
       /\ \/ UnassignBot(b) /\ leaked' = Add(leaked, w, {b} \cap conn[w])
          \/ b \in WhatsAppBots \cap conn[w] /\ UNCHANGED <<leaked, assign>>

\* Mutant of DropEntries: the handler is dropped and the active entry is not.
DropEntriesStillActive(w, b, stray) ==
    /\ UNCHANGED active
    /\ handler' = Remove(handler, w, {b})
    /\ runner' = Remove(runner, w, {b})
    /\ conn' = Remove(conn, w, {b})
    /\ leaked' = Add(leaked, w, ({b} \cap conn[w]) \cup stray)
    /\ UNCHANGED assign

\* _stop_bot's except branch for bot b drops its entries and cancels a Slack start
\* task, and closes nothing. stray: the connection that failed to close.
DropEntries(w, b, stray) ==
    /\ active' = Remove(active, w, {b})
    /\ handler' = Remove(handler, w, {b})
    /\ runner' = Remove(runner, w, {b})
    /\ conn' = Remove(conn, w, {b})
    /\ leaked' = Add(leaked, w, ({b} \cap conn[w]) \cup stray)
    /\ UNCHANGED assign

\* A Slack bot's start_async task has ended. If another stop has taken the handler,
\* the pop raises KeyError.
Unwind(w, t) ==
    LET b == task[w][t].bot
        again == task[w][t].again
    IN
    /\ task[w][t].op = "unwind"
    /\ \/ /\ b \in handler[w]
          /\ TakeHandler(w, t, b, again)
          /\ UNCHANGED runner
       \/ /\ b \notin handler[w]
          /\ SetTask(w, t, AfterStop(b, again))
          /\ DropEntries(w, b, {})
    /\ UNCHANGED <<phase, loopVars, enabled, hb, info, events, inbox>>

\* _stop_bot after the close: the bot leaves the tables. If another stop removed it
\* meanwhile, the del raises KeyError: nothing is unassigned then.
LeaveTables(w, b, stray) ==
    \/ /\ b \in active[w]
       /\ active' = Remove(active, w, {b})
       /\ leaked' = Add(leaked, w, stray)
       /\ UnassignBot(b)
       /\ UNCHANGED <<handler, runner, conn>>
    \/ b \notin active[w] /\ DropEntries(w, b, stray)

FinishStop(w, t) ==
    /\ task[w][t].op = "close"
    /\ SetTask(w, t, AfterStop(task[w][t].bot, task[w][t].again))
    /\ LeaveTables(w, task[w][t].bot, {})
    /\ UNCHANGED <<phase, loopVars, enabled, hb, info, events, inbox>>

\* The close fails, and the connection stays open: a Slack timeout or exception is
\* swallowed, a Telegram exception leads to the except branch.
FailStop(w, t) ==
    LET b == task[w][t].bot IN
    /\ task[w][t].op = "close"
    /\ SetTask(w, t, AfterStop(b, task[w][t].again))
    /\ IF b \in TelegramBots THEN DropEntries(w, b, {b}) ELSE LeaveTables(w, b, {b})
    /\ UNCHANGED <<phase, loopVars, enabled, hb, info, events, inbox>>

\* A sleep before a start is over: the jitter of a claim, the second of a restart.
WakeUp(w, t) ==
    /\ task[w][t].op = "nap"
    /\ BeginStart(w, t, task[w][t].bot)
    /\ UNCHANGED <<phase, loopVars, enabled, hb, info, events, inbox>>

-------------------------------------------------------------------------------
(* start().                                                                  *)

\* Registers; the sleep that lets peers register follows.
Start(w) ==
    /\ phase[w] = "down"
    /\ phase' = [phase EXCEPT ![w] = "waiting"]
    /\ RegisterWorker(w)
    /\ UNCHANGED <<loopVars, botVars, task, enabled, assign, events, inbox>>

\* Mutant of BuildRing: the ring is built of the worker alone, its peers unread.
BuildRingAlone(w) ==
    /\ phase[w] = "waiting"
    /\ phase' = [phase EXCEPT ![w] = "claiming"]
    /\ ring' = [ring EXCEPT ![w] = {w}]
    /\ SetTask(w, "sweep", Query)
    /\ UNCHANGED <<todo, last, botVars, storeVars>>

\* _rebuild_hash_ring, at the end of the wait.
BuildRing(w) ==
    /\ phase[w] = "waiting"
    /\ phase' = [phase EXCEPT ![w] = "claiming"]
    /\ ring' = [ring EXCEPT ![w] = Healthy \cup {w}]
    /\ SetTask(w, "sweep", Query)
    /\ UNCHANGED <<todo, last, botVars, storeVars>>

\* The query of _claim_assigned_bots and _claim_orphaned_bots: the bots that the
\* ring, as it was built before the await, gives this worker.
ListBots(w) ==
    /\ phase[w] # "stopping"
    /\ task[w]["sweep"] = Query
    /\ todo' = [todo EXCEPT ![w] = OwnedBots(w, ring[w])]
    /\ SetTask(w, "sweep", Idle)
    /\ UNCHANGED <<phase, ring, last, botVars, storeVars>>

\* One bot of _claim_assigned_bots, up to its jitter: nothing asks whether a worker
\* has it already.
ClaimAssigned(w) ==
    /\ phase[w] = "claiming"
    /\ task[w]["sweep"] = Idle
    /\ \E b \in todo[w] :
          /\ todo' = Remove(todo, w, {b})
          /\ SetTask(w, "sweep", Task("nap", b, FALSE))
    /\ UNCHANGED <<phase, ring, last, botVars, storeVars>>

\* Mutant of BecomeReady: the position before the tail, which an empty stream lacks.
BecomeReadyOneEarly(w) ==
    /\ phase[w] = "claiming"
    /\ task[w]["sweep"] = Idle
    /\ todo[w] = {}
    /\ phase' = [phase EXCEPT ![w] = "running"]
    /\ last' = [last EXCEPT ![w] = Len(events) - 1]
    /\ UNCHANGED <<ring, todo, botVars, task, storeVars>>

\* The snapshot of the stream's tail and the background tasks: from here on the
\* worker reads events, is subscribed to its commands and sends heartbeats.
BecomeReady(w) ==
    /\ phase[w] = "claiming"
    /\ task[w]["sweep"] = Idle
    /\ todo[w] = {}
    /\ phase' = [phase EXCEPT ![w] = "running"]
    /\ last' = [last EXCEPT ![w] = Len(events)]
    /\ UNCHANGED <<ring, todo, botVars, task, storeVars>>

-------------------------------------------------------------------------------
(* The background tasks.                                                     *)

\* One pass of _heartbeat_loop, when it changes anything.
SendHeartbeat(w) ==
    /\ phase[w] = "running"
    /\ hb[w] # "fresh"
    /\ WriteHeartbeat(w)
    /\ UNCHANGED <<workerVars, enabled, assign, events, inbox>>

\* _event_listener_loop takes the next event, whose id it keeps first (a batch it
\* has read goes on while stop() is under way, until it is cancelled);
\* _handle_bot_event acts on it if the ring gives the bot to this worker.
HandleEvent(w) ==
    /\ Listening(w)
    /\ task[w]["events"] = Idle
    /\ last[w] < Len(events)
    /\ last' = [last EXCEPT ![w] = @ + 1]
    /\ LET e == events[last[w] + 1] IN
       \/ /\ ~ Owns(w, ring[w], e.bot)
          /\ UNCHANGED <<task, botVars, assign>>
       \/ /\ Owns(w, ring[w], e.bot)
          /\ \/ e.type = "activate" /\ BeginStart(w, "events", e.bot)
             \/ e.type = "deactivate" /\ BeginStop(w, "events", e.bot, FALSE)
             \/ e.type = "restart" /\ BeginStop(w, "events", e.bot, TRUE)
    /\ UNCHANGED <<phase, ring, todo, enabled, hb, info, events, inbox>>

\* _command_listener_loop and _handle_command: no look at the ring. The loop asks
\* whether the process is shutting down before it fetches a command, not after: what
\* arrives until it is cancelled is handled while stop() is under way.
HandleCommand(w) ==
    /\ Listening(w)
    /\ task[w]["commands"] = Idle
    /\ inbox[w] # <<>>
    /\ inbox' = [inbox EXCEPT ![w] = Tail(@)]
    /\ LET c == Head(inbox[w]) IN
       BeginStop(w, "commands", c.bot, c.action = "restart_bot")
    /\ UNCHANGED <<phase, loopVars, enabled, hb, info, events>>

\* _dead_worker_check_loop after its sleep: unregister the dead (itself too, if its
\* own heartbeat is late) and rebuild the ring, for _claim_orphaned_bots.
Scan(w) ==
    /\ Listening(w)
    /\ task[w]["sweep"] = Idle
    /\ todo[w] = {}
    /\ UnregisterWorkers(Dead)
    /\ ring' = [ring EXCEPT ![w] = Healthy \cup {w}]
    /\ SetTask(w, "sweep", Query)
    /\ UNCHANGED <<phase, todo, last, botVars, enabled, assign, events, inbox>>

\* Mutant of LeaveAlone: a worker that has the bot is taken to be alive.
LeaveAloneAssigned(w, b) ==
    \/ b \in active[w]
    \/ assign[b] # w /\ assign[b] # None

\* A bot is left alone if it runs here, or if a healthy worker is said to have it.
LeaveAlone(w, b) ==
    \/ b \in active[w]
    \/ assign[b] # w /\ assign[b] \in Healthy

\* One bot of _claim_orphaned_bots.
ClaimOrphan(w) ==
    /\ Listening(w)
    /\ task[w]["sweep"] = Idle
    /\ \E b \in todo[w] :
          /\ todo' = Remove(todo, w, {b})
          /\ \/ LeaveAlone(w, b) /\ UNCHANGED <<task, botVars, assign>>
             \/ ~ LeaveAlone(w, b) /\ BeginStart(w, "sweep", b)
    /\ UNCHANGED <<phase, ring, last, enabled, hb, info, events, inbox>>

\* The database fails under the sweep: the pass is given up, or start() ends, for
\* which main() calls stop().
FailSweep(w) ==
    /\ task[w]["sweep"].op \in {"query", "start"}
    /\ SetTask(w, "sweep", Idle)
    /\ \/ /\ phase[w] = "claiming"
          /\ phase' = [phase EXCEPT ![w] = "stopping"]
          /\ todo' = [todo EXCEPT ![w] = active[w]]
       \/ /\ Listening(w)
          /\ todo' = [todo EXCEPT ![w] = {}]
          /\ UNCHANGED phase
    /\ UNCHANGED <<ring, last, botVars, storeVars>>

-------------------------------------------------------------------------------
(* stop(), and other ends.                                                   *)

\* SIGTERM: stop() sets _is_shutting_down. A loop ends when it next asks for it, or
\* when it is cancelled; what it has fetched or still waits for, it works off.
Terminate(w) ==
    /\ phase[w] = "running"
    /\ phase' = [phase EXCEPT ![w] = "draining"]
    /\ UNCHANGED <<loopVars, botVars, task, storeVars>>

\* SIGTERM during start(): there is no task to cancel yet. start() goes on, and its
\* claiming loop ends, but a bot it is about to start is started.
TerminateEarly(w) ==
    /\ phase[w] \in {"waiting", "claiming"}
    /\ phase' = [phase EXCEPT ![w] = "stopping"]
    /\ todo' = [todo EXCEPT ![w] = active[w]]
    /\ UNCHANGED <<ring, last, botVars, task, storeVars>>

\* stop() cancels a background task and awaits its end. A close that is cut short
\* may leave its connection open. _stop_bot swallows the cancellation that comes
\* while it awaits a start_async task: that coroutine goes on to its own end. With
\* the command listener go the commands it has not fetched.
Cancel(w, t) ==
    /\ phase[w] = "draining"
    /\ \A u \in CancelledBefore[t] : task[w][u] = Ended
    /\ task[w][t].op \notin {"ended", "unwind"}
    /\ SetTask(w, t, Ended)
    /\ \/ UNCHANGED leaked
       \/ task[w][t].op = "close" /\ leaked' = Add(leaked, w, {task[w][t].bot})
    /\ inbox' = IF t = "commands" THEN [inbox EXCEPT ![w] = <<>>] ELSE inbox
    /\ UNCHANGED <<phase, loopVars, active, handler, runner, conn>>
    /\ UNCHANGED <<enabled, hb, info, assign, events>>

\* _stop_all_bots lists the bots.
StopAll(w) ==
    /\ phase[w] = "draining"
    /\ \A t \in Loops : task[w][t] = Ended
    /\ phase' = [phase EXCEPT ![w] = "stopping"]
    /\ todo' = [todo EXCEPT ![w] = active[w]]
    /\ UNCHANGED <<ring, last, botVars, task, storeVars>>

\* Mutant of StopNext: a bot is kept on the list until its stop succeeds.
StopNextKept(w) ==
    /\ phase[w] = "stopping"
    /\ task[w]["shutdown"] = Idle
    /\ \E b \in todo[w] : BeginStop(w, "shutdown", b, FALSE)
    /\ UNCHANGED <<phase, loopVars, enabled, hb, info, events, inbox>>

\* One bot of _stop_all_bots.
StopNext(w) ==
    /\ phase[w] = "stopping"
    /\ task[w]["shutdown"] = Idle
    /\ \E b \in todo[w] :
          /\ todo' = Remove(todo, w, {b})
          /\ BeginStop(w, "shutdown", b, FALSE)
    /\ UNCHANGED <<phase, ring, last, enabled, hb, info, events, inbox>>

\* The process is gone, and with it all but what Redis holds.
Exit(w) ==
    /\ phase' = [phase EXCEPT ![w] = "down"]
    /\ ring' = [ring EXCEPT ![w] = {}]
    /\ active' = [active EXCEPT ![w] = {}]
    /\ handler' = [handler EXCEPT ![w] = {}]
    /\ runner' = [runner EXCEPT ![w] = {}]
    /\ conn' = [conn EXCEPT ![w] = {}]
    /\ leaked' = [leaked EXCEPT ![w] = {}]
    /\ task' = [task EXCEPT ![w] = [t \in Coroutines |-> Idle]]
    /\ todo' = [todo EXCEPT ![w] = {}]
    /\ last' = [last EXCEPT ![w] = 0]
    /\ inbox' = [inbox EXCEPT ![w] = <<>>]
    /\ UNCHANGED <<enabled, assign, events>>

\* stop() comes to its end: unregister_worker, then the process exits.
Unregister(w) ==
    /\ phase[w] = "stopping"
    /\ task[w]["shutdown"] = Idle
    /\ todo[w] = {}
    /\ UnregisterWorkers({w})
    /\ Exit(w)

\* main() polls is_shutting_down, which stop() sets first, once a second, and
\* returns: asyncio.run then cancels what is left of stop(), wherever it awaits.
ExitEarly(w) ==
    /\ \/ phase[w] = "draining"
       \/ phase[w] = "stopping" /\ task[w]["shutdown"] # Idle
    /\ Exit(w)
    /\ UNCHANGED <<hb, info>>

\* The process dies (OOM kill, node loss).
Crash(w) ==
    /\ phase[w] # "down"
    /\ Exit(w)
    /\ UNCHANGED <<hb, info>>

\* A connection ends on its own, and its bot stays in the tables: a Telegram polling
\* task, a Slack start_async task or a WhatsApp thread that cannot import its library
\* ends without touching them. Any other WhatsApp thread takes its entries out, and
\* leaves the assignment.
ConnectionEnds(w, b) ==
    /\ b \in conn[w]
    /\ conn' = Remove(conn, w, {b})
    /\ runner' = Remove(runner, w, {b})
    /\ \/ UNCHANGED <<active, handler>>
       \/ /\ b \in WhatsAppBots
          /\ active' = Remove(active, w, {b})
          /\ handler' = Remove(handler, w, {b})
    /\ UNCHANGED <<phase, loopVars, leaked, task, storeVars>>

\* _run_telegram_polling looks once a second whether its bot is active and the
\* process is not shutting down. If not, it stops its application, but only if some
\* application is registered for the bot: else the connection lives on.
PollerEnds(w, b) ==
    /\ b \in TelegramBots \cap handler[w]
    /\ b \notin active[w] \/ phase[w] \in {"draining", "stopping"}
    /\ \/ /\ b \in conn[w]
          /\ conn' = Remove(conn, w, {b})
          /\ UNCHANGED leaked
       \/ /\ b \in leaked[w]
          /\ leaked' = Remove(leaked, w, {b})
          /\ UNCHANGED conn
    /\ UNCHANGED <<phase, loopVars, active, handler, runner, task, storeVars>>

\* A WhatsApp thread ends after its client's disconnect. Its finally block pops the
\* bot's entries, even those of a later start.
ThreadEnds(w, b) ==
    /\ b \in WhatsAppBots \cap leaked[w]
    /\ leaked' = IF b \in conn[w] THEN leaked ELSE Remove(leaked, w, {b})
    /\ active' = Remove(active, w, {b})
    /\ handler' = Remove(handler, w, {b})
    /\ conn' = Remove(conn, w, {b})
    /\ UNCHANGED <<phase, loopVars, runner, task, storeVars>>
===============================================================================

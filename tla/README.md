# TLA+ for the Synkora platform (lonora.ai)

Specifications of the parts of this repository whose correctness depends on the order
in which several actors take their steps: modules in TLA+, instances that TLC checks, and
theorems that TLAPS proves for every value of the constants.

Paths below are relative to the repository; `tla/` holds this project.

| Part of the code | Modules | Runs | Theorems |
| --- | --- | --- | --- |
| bot worker pool (`api/src/bot_worker/`, `services/bot_worker/bot_deployment_service.py`) | `BotStore`, `BotWorker`, `BotPool`, `MCBotPool` | `BotPoolCrash`, `BotPoolCapacity`, `BotPoolLive`, `BotPoolJoin` | `BotPoolProofs`, `BotPoolMembershipProofs` |
| circuit breaker (`services/performance/circuit_breaker.py`) | `CircuitBreaker` | `CircuitBreaker` | `CircuitBreakerProofs` |
| conversation lane (`services/agents/conversation_lane.py`, `app.py`) | `LaneLock` (abstract), `ConversationLane` | `ConversationLane` | `ConversationLaneProofs` |
| human approval (`services/human_approval_service.py`, the gate in `agents/adk_tools.py`, the Slack handler) | `ApprovalOnce` (abstract), `HumanApproval`, `MCHumanApproval` | `HumanApproval`, `HumanApprovalOnce` | `HumanApprovalProofs` |
| credits (`services/billing/credit_service.py`, `tasks/billing_tasks.py`, and who calls them) | `Account` (abstract), `CreditLedger`, `Billing` | `Billing` | `BillingProofs` |
| scheduler (`tasks/scheduled_tasks.py`, `services/scheduler/`) | `Scheduler` | `Scheduler` | `SchedulerProofs` |
| war room debates (`agents/workflows/debate_executor.py`, `controllers/war_room.py`) | `Debate`, `MCDebate` | `Debate`, `DebateTranscript` | `DebateProofs` |

To check a run: `tlc -config BotPoolCrash.cfg MCBotPool.tla`. To check the proofs:
`tlapm BotPoolProofs.tla`, and so on.

## 1. Inventory

The platform is a FastAPI application (several pods, several gunicorn workers in each),
Celery workers and a beat, a pool of bot workers, PostgreSQL, Redis and a vector database.
Every API and bot process runs one asyncio event loop; the processes share the database
and Redis only.

**Bot worker pool** (`bot_worker/worker.py`, `redis_state.py`, `consistent_hash.py`,
`main.py`). A process keeps up to `worker_capacity` bot connections (Slack Socket Mode,
Telegram polling, WhatsApp device links). *State:* per process `_active_bots`, the handler
tables, `_slack_tasks`, `_hash_ring`, `_last_event_id`, the flags; in Redis the heartbeats,
the worker info, the assignments, a stream of events and a command channel per worker.
*Operations:* `start`, `stop`, four background loops, `_start_bot`, `_stop_bot`.
*Interaction:* workers never talk to each other. Each computes who owns a bot from a
consistent hash ring of the workers whose heartbeats it sees; the API changes a bot's row
and publishes an event or a command (`BotDeploymentService`). *Hard:* a worker's ring may
be out of date; three coroutines start and stop bots with awaits between check and effect;
crashes, SIGTERM at every point, heartbeats that age, closes that fail, connections that
end on their own. *Correct if:* no two workers run one bot, a running bot is registered
under its worker, capacity is respected, enabled bots are eventually taken up, stopping ends.

**Circuit breaker.** State machine in front of LLM providers and the vector database, shared
by the calls of a process. *State:* `_state`, the counters, the time of the last change.
*Operations:* `call`, `call_async`, `allow_request`, `record_success`, `record_failure`,
`reset`, the `state` property. *Hard:* calls admitted in one state of the circuit end in
another; some never report. *Correct if:* it opens and closes on what it says it counts and
never stays half-open for want of a probe.

**Conversation lane.** "Ensures only one agent execution per conversation at a time."
*State:* `_locks`, `_waiting_count`, `_active_conversations` per process; one Redis key with a
token and a TTL per conversation. *Operations:* `acquire` (an async context manager), the
renewal task, the release script, and `app.py`'s clearing of all keys when an API process
starts. *Hard:* lock objects created and deleted on demand, time-outs and cancellation at
every await, Redis failures, TTLs, other processes. At this commit nothing in the repository
calls `acquire`; what is modelled is what it gives whoever does.

**Human approval** (`human_approval_service.py`, consumers in `agents/adk_tools.py`,
`controllers`, `tasks/scheduled_tasks.py`). *State:* `agent_approval_requests` rows, the
routing key and the one-time execution token in Redis. *Operations:* create and notify, a reply
in the channel, a response in the dashboard, the run that an approval starts. *Hard:* two
responders read the row as pending without a lock; the process may die between the commit
and the token, or the token and the queueing. *Correct if:* one decision is final and an
approved action is executed once.

**Credits** (`billing/credit_service.py`, `chat_billing_service.py`, `tasks/billing_tasks.py`,
`subscription_service.py`). *State:* a balance row per tenant (total, used, available), transactions, the
billing queue in Redis, a sorted set of failed deductions. *Operations:* add, deduct, the idempotent deduction of
a message, reset, creation; the billing task with its retries; the daily reconciliation; renewals, top-ups and
access bought through the API. *Interaction:* the chat saves a message and queues a task; workers and requests
meet in the row only. *Hard:* row locks that protect only rows that exist, deliveries that repeat, a
query that looks at a window of a day, tasks that are lost. *Correct if:* the books balance, nobody overdraws, a
message is charged for once and none is forgotten.

**Chat streaming and LLM fallback** (`agents/chat_stream_service.py`). Falls back over the
LLM configurations of an agent. *Hard:* an error after the first chunk. *Correct if:* one
configuration's answer is shown and the fallback ends.

**Scheduler** (`tasks/scheduled_tasks.py`, `services/scheduler/scheduler_service.py`, Celery beat). *State:* the
task rows (`is_active`, the schedule, `last_run_at`), the Celery queue. *Operations:* a check each minute, the execution
of a task, toggling, deletion, rescheduling and firing through the API. *Hard:* checks that overlap or are delivered
again, a page that is rolled back after its tasks were queued, two writers of `last_run_at`, a check that looks at the
clock of its start. *Correct if:* a task is queued once each time it falls due, and is never starved.

**War room debates** (`agents/workflows/debate_executor.py`, `controllers/war_room.py`). *State:* one row: status,
round, participants and the transcript as a JSON list; in the stream of the viewer who started the debate, the executor with a list of its
own. *Operations:* start, join, respond, stop, update; a round, a turn, a verdict. *Hard:* every writer stores a whole list
it read earlier; SQLAlchemy compares the list with what the session holds; external agents answer when they like.
*Correct if:* the transcript has what was said, once, and a debate ends.

**WebSocket manager** (`core/websocket.py`) and **audit chain** (`audit_chain_service.py`). Tables of connections and
rooms; entries that hash the last one. Nothing in `src/` calls `connect` or `join_room`, nor `append_audit_log`: at
this commit neither has a behaviour.

**The rest**: rate limiter and connection pools (one atomic step each), execution registry
(best effort), agent workflows, REST controllers, knowledge base and data-source pipelines,
tools and integrations, payments, clients and deployment. `PROJECT.json` lists each with why it
is not modelled.

## 2. Plan

1. `BotStore`, `BotWorker`, `BotPool`: the largest concurrent protocol of the repository. *Done.*
2. `CircuitBreaker`. *Done.*
3. `ConversationLane`. *Done.*
4. `HumanApproval`: the rows, the gate, the responders (read, then commit), the token, the queued
   runs, crashes between them. *Done*, but for chat sessions.
5. `CreditLedger` and `Billing`: operations as transactions with row locks; the queue, the workers and the daily run
   around them; `Account`, the abstract specification they implement. *Done*, with all safety properties proved.
6. `Scheduler`: beat ticks and executions, at-least-once delivery by Celery. *Done*, types and `QueuedOnce` proved.
7. `Debate`: the executors and requests of one debate over one JSON column. *Done*, all its invariants proved.
8. `LaneLock`, an abstract specification of the lane that `ConversationLane` implements. *Done*, proved.
9. `OvershootBounded` and `NoGhost` for every capacity and number of bots, `OnceEach` of debates. *Proved.*
10. `ApprovalOnce`, an abstract specification of an approval (decided once, used once, unless one of two windows is
   hit) that `HumanApproval` implements. *Done*, proved.
11. An abstract specification of the pool (a table of who owns which bot, a new owner only after the old one is gone or
   was told to stop) that `BotPool` implements under a stable membership, and one of the breaker.

Runs are kept to one per question; bounds are named in the `.cfg` files. No module that is
proved about uses a RECURSIVE operator.

## 3. The bot worker pool

### Modules

`BotStore` is what processes share: the `is_active` column (`enabled`), and the Redis structures
of `redis_state.py` (`hb`, `info`, `assign`, `events`, `inbox`), with one operator for each method
that writes. `BotWorker` is a process: one action from each await to the next. `BotPool`
composes the workers with `BotDeploymentService` (`Request` is a request up to its commit, `Publish`
what follows) and with the environment's faults. `MCBotPool` gives the ring order its value.

| Code | Model |
| --- | --- |
| `consistent_hash.py`: the first virtual node clockwise from a bot's hash | `Rank[b]`, the order in which bot `b` meets the workers; `Owns` takes the first of those on the ring. Removing or adding others does not change the order of the rest, as on the real ring |
| heartbeat scores and `heartbeat_timeout` | `hb` is fresh, stale or none; `ExpireHeartbeat` is the passing of time |
| `start()` | `Start`, `BuildRing`, `ListBots`, `ClaimAssigned`, `WakeUp`, `BecomeReady` |
| `_start_bot` | `BeginStart` (the two checks), `FinishStart` (the inserts after the awaits), `FailStart` |
| `_stop_bot` | `BeginStop`, `Unwind`, `FinishStop`, `FailStop`, `DropEntries` (the except branch) |
| `_event_listener_loop`, `_command_listener_loop` | `HandleEvent`, `HandleCommand` |
| `_dead_worker_check_loop`, `_claim_orphaned_bots` | `Scan`, `ListBots`, `ClaimOrphan`, `FailSweep` |
| `_heartbeat_loop` | `SendHeartbeat` |
| `stop()`, `_stop_all_bots` | `Terminate`, `TerminateEarly`, `Cancel`, `StopAll`, `StopNext`, `Unregister` |
| `main()` polling the flag, and an exit under `stop()` | `ExitEarly` |
| Telegram poller, WhatsApp thread, lost connections | `PollerEnds`, `ThreadEnds`, `ConnectionEnds` |

`conn` and `leaked` are not variables of the code: they record which connections are open, with
and without a handler entry that refers to them.

### Runs

* **BotPoolCrash** (2 workers, a Slack and a WhatsApp bot, 1 request, 2 faults of crash,
  disconnect, failed start, failed stop, database error and lost request; 953 thousand states):
  types, `NoDoubleRun`, `ActiveIsAssigned`. The two workers are started together and never taken for
  dead while alive. Two workers and two bots are the least in which a bot changes hands while
  the worker that takes it has one of its own; two faults let the second worker fail while it
  takes over.
* **BotPoolCapacity** (1 worker of capacity 1, two Slack bots, a Telegram bot, 2 requests, one failing start or stop;
  1.2 million states): `OvershootBounded`, `NoGhost`, and `ShutdownEnds` under fairness. Three coroutines can be past the
  capacity check at once, so that three bots are enough to reach the bound `Capacity + 2`. The requests may reach the
  event and the command listener at once, beside the sweep, for one bot or two: a bot is stopped by two coroutines at
  once, and a `SIGTERM` cancels listeners that are in the middle of a stop or a start. That is what `ShutdownEnds` is
  about, and one worker is enough for it: `stop()` waits for nothing of another.
* **BotPoolLive** (2 workers of capacity 1, two Slack bots, one worker there at the start; at most 2 requests, 2 faults of
  all eight kinds, and 2 of both together; 676 thousand states): the liveness property `OrphansClaimed`. `MaxTrouble` bounds
  requests and faults together, so that a behaviour may have a request and the fault that loses it, a crash and an
  exception in the sweep that follows, or two requests of one bot. Two bots and a capacity of 1 fill a worker.
  Telegram and WhatsApp bots differ in how they end, which `OrphansClaimed` does not ask; a third bot makes no new case.

`OrphansClaimed` excepts two cases, in which the code leaves an enabled bot an orphan for good: its owner is at its capacity
(`Full`), where nobody takes the bot in its stead; and its owner leaves it to a healthy worker that the assignment names
(`Deferred`). The second needs three faults. With `MaxFaults` and `MaxTrouble` 3 (one Slack bot, joins and failing starts;
33 thousand states) TLC finds the property without `Deferred` violated: `w2` registers the bot while it is alone, ends without
unassigning it (a crash, or a `SIGTERM` during `start()`), and is back under its old id, which is that of its pod, before
its heartbeat is stale. Meanwhile `w1` has joined and is the owner by either ring, but its start of the bot has failed. From
then on `w1` finds the bot assigned to a healthy worker and skips it (`worker.py:982-988`), and `w2` finds it to be `w1`'s.
Nobody runs it, though the self-healing pass is to "start any bots that should be ours but aren't running" (`worker.py:966`).
* **BotPoolJoin** finds `NoDoubleRun` violated: a worker that joins a running pool claims, in
  `_claim_assigned_bots`, what the new ring gives it without looking at the assignments, and no
  worker gives a bot back. The blog on bot scaling (line 337) says each bot is claimed by exactly one.

The system may stop in these runs (no faults or requests left, all workers down), hence
`CHECK_DEADLOCK FALSE`.

### Fairness

`FairSpec` has weak fairness of each loop of each worker (asyncio resumes every coroutine whose
await is over; the loops are driven by timers), of the ageing of a dead worker's heartbeat, and of
an API process going on from its commit to its publish. There is none for requests, signals, faults,
reconnects or the ends of threads. The faults are bounded, which is what "the environment is quiet
in the end" means for the liveness properties; a crash is never forced to be repaired:
`OrphansClaimed` asks only that some worker runs.

### Proofs

`BotPoolProofs`: `TypeCorrect`, `OvershootIsBounded` and `NoGhosts`, the theorems `Spec => []TypeOK`,
`Spec => []OvershootBounded` and `Spec => []NoGhost`, for any sets of workers and bots, any ring order, any capacity and
any faults, joins and pauses included. The last two rest on `TablesInv`, which says of each worker that

* its bots and the coroutines past the capacity check are at most `Capacity + 2` (`LoadBounded`, which adds to the
  bound that the bots are finitely many, without which a cardinality says nothing). A coroutine enters `_start_bot` only
  while the bots alone are below the capacity, and at most three do: the two listeners and the sweep. The fourth,
  `stop()`, only stops bots (`ShutdownStops`); without that the bound would not follow;
* whoever took the handler of an active bot is still about to drop its entries (`HandlersAccounted`), in `start()`'s
  claiming too, from which `NoGhost` inherits its first state;
* before the first ring there are no bots and no coroutine is under way (`NothingYet`), or one could appear in a phase
  for which the other conjuncts promise nothing.

A start, a stop, a listener and the sweep share their steps; the lemmas `TakingKeepsTables`, `LeavingKeepsTables` and
`TaskKeepsTables` cover what a step may do to the tables, and those named after actions bring each under one of them.

`BotPoolMembershipProofs`: `StableMembership => (Spec => []NoDoubleRun)` (`AtMostOneWorker`) and the same of
`ActiveIsAssigned` (`RunningBotsAreAddressable`). The assumption says no worker joins later and no live worker's
heartbeat lapses; `BotPoolJoin` shows that the theorem is false without it. Crashes, failed starts
and stops, database errors, dropped connections, SIGTERM and requests are all allowed. Neither
property is inductive: that two workers do not *run* a bot says nothing of one that is about to
start it. `MembershipInv` adds that

* live workers are healthy (`LiveAreHealthy`), so every ring that is used holds all of them
  (`RingsHoldTheLive`): rings are out of date only in holding workers that are gone;
* a process before its first ring, or down, holds nothing (`IdleAreQuiet`);
* a worker that runs a bot, is about to, has it on a list, has a command for it or is named by its
  assignment is the *best* of the live workers for it (`OnlyTheBest`). The live workers only grow fewer,
  so the best stays the best whatever becomes of the rings, and no two workers are best.

Most steps change one worker's concern with one bot, or drop concerns; the lemma `TouchKeepsInv` is that
case once for all, and the `...Touches` lemmas bring each step of `_start_bot` and `_stop_bot` under it.

### What is abstracted

* Errors of Redis calls inside a worker, a second SIGTERM, and `clear_all_state` and `trim_bot_events`
  (which nothing calls) are not modelled.
* The events of one batch that has been read, and a command that is being fetched or arrives while `stop()` awaits the
  end of its tasks, are handled also while draining, as in the code, where both loops look at `_is_shutting_down` at
  their top only. An unread batch, or several commands, may be, too, which allows more than the code.
* `ExitEarly` may follow `FailSweep` in `start()`; there `main()` awaits `stop()` itself. The model
  allows more behaviours than the code.
* `info` is written but read by no decision; only the status query of the API reads it.
* What a bot does with a message, and the cached agent data, is left out.

## 4. The circuit breaker

A lock makes every admission and every record atomic, so each is one action: `Call`, `Succeed`, `FailCall`,
`Cancel` (a `CancelledError` is recorded as neither), `ReadState`, `Reset`, `RecoveryTimeout`. `calling` holds the calls under
way; `hit` those that were under way while the provider was down and may still fail. Counters go no
further than the thresholds they are compared with (`Count`).

* **CircuitBreaker** (3 callers, both thresholds 2; 767 states): `ClosedBelowThreshold`, `HalfOpenAdmits`, the action
  property `EarnedClose`, and `Recovers` under fairness. Three callers give one more than a half-open circuit
  should admit; a threshold of 2 separates "the first" from "enough".

Fairness: time passes; calls keep coming; a call that may end in success does so again and again (strong
fairness, since the success of a call is enabled only while the provider is up). Without traffic an open
circuit stays open, as in the code.

`CircuitBreakerProofs` proves `HalfOpenAdmits`, `ClosedBelowThreshold` and `EarnedClose` for all thresholds and callers. The
inductive invariant adds to the types that a half-open circuit's successes in a row are at least as many as
the requests it has counted.

## 5. The conversation lane

The tables are keyed by conversation and only the boot of a process touches more than one, so the module
is about one conversation. A request is `new`, `waiting` for the lock object, `setting` the Redis key, `running`,
`closing` (in the finally block, awaiting the release of the key) and `done`. A lock object is named after the
request that created it, since it may be deleted and made anew while an old one is held. The order in which
asyncio wakes waiters is abstracted: any waiter may be next. A request without a conversation id bypasses the
lane and is not modelled. `ExpireKey` is the TTL of a key nobody renews; `Stall` that of a key that should have
been renewed.

The end of the finally block (`conversation_lane.py:134-136`) is `CleanUp`. While a holder awaits the release of its key, another
request of its process may come, leave and clean up. The holder's own test of `_waiting_count`, a `defaultdict`, then makes
an entry of 0 anew; the deletion of the lock object, which is gone, raises KeyError; the entry stays, and the KeyError leaves
`acquire()` after an execution that succeeded. `counted` holds the processes with an entry in `_waiting_count`, whatever it
stands at (`count`), and the history variable `raised` the requests that met the KeyError.

* **ConversationLane** (3 requests, 2 processes, all faults; 70 thousand states): `OneLocalExecution`,
  `OverlapNeedsFault`, `NothingLeft`, the refinement `IsALock`, the action property `KeyErrorAfterRelease`, and `Served` under
  fairness. Three requests are the holder that closes, the waiter that gives up and deletes the lock, and the newcomer that
  makes another. `NothingLeft` allows the entry of `_waiting_count` that a KeyError leaves behind, and nothing else;
  `KeyErrorAfterRelease` says who can meet the KeyError: a request that had set the key and awaits its release, never one
  that times out, is cancelled in the queue, or ran without a key.

Requests are executed once each, so that the system stops, hence `CHECK_DEADLOCK FALSE`. Fairness: asyncio wakes a
waiter of a free lock, a busy key is retried every quarter of a second, executions end, releases return and
Redis keeps its TTLs. A time-out is under no fairness; with it `Served` would hold for the wrong reason.

`LaneLock` is what the lane promises whoever enters it: a request arrives, is let in once at most and only while nobody
else is in, and leaves; or its process dies. The lock spans the processes while it is `sound`, and each process always.
Under the mapping `TheLane` a request that waits for the lock object or sets the key `waits`, and one that is closing is
`gone` (`Standing`); the lock is sound while no fault has been (`~ spoilt`). Nothing of lock objects, counts, tokens or
keys is left, so that `IsALock` says they are no more than the means. The expiry of a key is a stutter in it: that a
key expires only when nobody runs under it, or by a fault, is the renewal's doing.

`ConversationLaneProofs` proves the three invariants, the action property (`KeyErrorsAreLate`) and the refinement
(`LaneImplementsLock`) for any number of requests and processes and every fault. The step that matters is `Run`: nobody else is in, because the one who runs holds the lock
object of its process (`HoldersOwn`, `InsideUseTheLock`) and, while sound, the key (`RunnersHaveTheKey`). The
inductive invariant `LaneInv` says that `_waiting_count` is exact, that whoever waits, sets or runs uses the lock object
that is in `_locks` (only those who close may hold another), that whoever is past the wait owns the object he
used, that tables are non-empty only for somebody, an entry of `_waiting_count` being also for those who met a KeyError
(`EntryIsWanted`), that who closes has a token (`ClosersHaveTokens`), and that without a fault a running execution's
token is in the key. `OneLocalExecution` needs the second: without it two executions could run under two lock objects.

## 6. Human approval

An autonomous task's gated tool calls ask a human first. `HumanApproval` models one task: the table of
requests (`status`, `action`, `overdue`), the routing key of its channel (`route`), the execution token of each
action (`token`), the runs in the Celery queue (`queue`), the flows of tool calls (`call`; a flow is a run, or
one of the parallel calls of a run) and the API requests that answer (`answer`).

| Code | Model |
| --- | --- |
| `check_scheduled_tasks`, `execute_scheduled_task` | `Tick`, `StartRun`, `EndRun`; `LoseWorker` is a late acknowledgement that never came |
| `_execute_functions` with parallel tools | `ParallelCall` |
| `_check_approval_gate` | `CheckToken` (GET), `ConsumeToken` (DEL), then `Perform`; or `Ask`, `Route`; `GateFails` is an exception anywhere |
| `handle_reply`, `respond_to_approval` | `Read` (the SELECT and the decision), `Unclear`, `Commit`, `Store` (the token), `Fire` (the run) |
| the Slack handler around `handle_reply` | `Reply` (GET of the routing key), `Unroute` (its deletion) |
| `expires_at` and the TTLs of the two keys | `TimeOut`, `RouteExpires`, `TokenExpires` |
| a call that raises, the death of an API process | `Abort` |

Redis holds "1" for a token; the model holds the request the token was stored for, so that an action that
is performed can be put down to a request. Which action the agent calls is left open: the prompt of a run
fired by an approval names one, but nothing holds the agent to it. The run of a paused task that ends at once is
`StartRun`, `EndRun`. `performed`, `overturned` and `shared` are history variables: `overturned` is set when
a decision is committed over another, `shared` when a flow reads a token that another has read and not deleted.
`MaxRuns` bounds the runs in the queue and the flows together.

* **HumanApproval** (2 rows, 2 actions, 2 flows, 2 responders, `MaxRuns` 2; 5.0 million states up to
  symmetry): `OnceUnlessRaced`, `PerformedIsApproved` and the refinement `IsApprovedOnce`. Two rows for one action are the least with which a token is
  overwritten by another request's, or deleted by the flow that read the other; two responders and two flows the least
  that race. States after an overturned decision, of which both invariants say nothing, are not explored further; the
  theorems hold of them too.
* **HumanApprovalOnce** finds `PerformedOnce` violated: the gate reads the one-time token and deletes it in two
  calls, and two flows perform what was approved once. The other window, two responders that both read the
  request as pending, breaks it too, and leaves an action performed on a request that says rejected.

`ApprovalOnce` is what an approval promises those who ask and those who answer: a request is made, decided, and acted on
once after it was approved. A decision stays; a request is taken for expired only when its time is over. Only when a
decision was made on a request that had one (`contested`), or two flows found one approval (`shared`), is the promise
loosened, and `Decide` and `Share` are the only steps that can do so. `HumanApproval` implements it under `TheApproval`: the
decision is the column, what is late is past `expires_at`, the acts are counted by `performed`. Unlike the two invariants
it says *when* things happen: until one of the two windows is hit, nothing is performed before it was approved, and no
approved row is ever rejected.

`HumanApprovalProofs` proves both invariants and the refinement (`ApprovalImplementsOnce`) for every number of rows, actions,
flows, responders and runs, without the restriction of the run. None is inductive. `ApprovalInv` says that whatever refers to a row refers to one that exists and to its action
(`RefersToRows`), and follows the ticket of a request: with the responder that committed the approval, then
the token, then a flow that found it, then used up. Unless overturned, a ticket is for an approved request wherever it
is (`TicketsAreApproved`); unless shared as well, it is in one place at a time (`OneTicket`), from which it cannot be
used twice. A responder that is to write "expired" has seen a row whose time was over, and it still is (in `RefersToRows`).

`ApprovalStatus` has an `EXECUTED` that the lifecycle in `models/agent_approval.py:26` puts after `APPROVED` ("tool ran"), and
nothing in `src/` writes: an approval that was used stays `approved`. `Statuses` has the value, no action gives it, and
`PerformedIsApproved` admits it after a use, so that it holds of the code and would hold of the documented lifecycle.

Nothing is promised of liveness: after a crash between the commit and the token an approved action is not
executed, and its request cannot be approved again.

## 7. Credits

### Modules

`CreditLedger` is `CreditService`: the balance row of one tenant and the database sessions that work on it, with
`SELECT ... FOR UPDATE` as a step of its own. `Billing` puts the billing queue, its workers, the daily run and the API's
requests around it. `Account` is what the ledger promises: an account whose operations take effect at once, which is
never overdrawn and bills a message at most once. `Billing` implements it under the mapping `TheAccount`: the row's
`available_credits` and `used_credits`, and the messages that have a USAGE transaction.

| Code | Model |
| --- | --- |
| `get_or_create_balance`, the SELECT of each operation | `Select`, `Insert` (the flush, which waits for a pending insert of the same tenant and fails after a committed one), `FindKnown` |
| `add_credits`, `deduct_credits`, `deduct_credits_idempotent`, `reset_monthly_usage` | `Add`, `Deduct`, `DeductIdempotent`, `ResetUsage`, `Create` |
| `save_assistant_message`, then `queue_credit_deduction` | `SaveMessage`; `SaveUnqueued` when the second does not happen |
| `deduct_credits_async` | `Take`, the session's steps, `TaskEnds`; `TaskRaises`, `Retry`, `StoreFailed`; `TaskLost` (the hard time limit, which acknowledges), `WorkerDies` (a redelivery) |
| `reconcile_credits_daily` | `RequeueFailed`, `RequeueFailedHalf`, `OutliveRange`, `FindMissing`, `FindNothing`, `RequeueFound`, `LoseFound`, `RunDies` |
| top-up, access, look-up, `renew_subscription` | `Request`, `Allocate`, `Respond`, `RequestDies` |

A session is named after the worker or request that opens it, since each has one at a time. The hours since a message
was saved stand for `created_at`; the daily run is at hour 0. `refused`, `forsaken`, `granted` and `spent` are history
variables: a message is forsaken when a copy of its task is lost and no daily run to come has it in its window, or when
the run itself leaves it out. An error that `_is_retryable_error` takes for permanent (`billing_tasks.py:217-228`) sends the task to
the failed deductions at once (`permanent`), any other through its retries (`raised`). A failed deduction that the daily run could
not queue for seven days falls out of the range it reads (`OutliveRange`; the week counts as one fault); the removal of
expired items (`billing_tasks.py:388-391`) is never reached, since the range leaves them out.

* **Billing** (1 message, 2 workers, 1 request, one retry, `LIMIT` 1, a day of 3 hours, 2 faults; 311 thousand
  states): the invariants `BooksBalance` and `NothingForgotten`, the refinement `IsAnAccount`, and `CaughtUp` under
  fairness. Two workers deliver the same task twice at once; with the request there are three sessions on the row. A day of
  3 hours has an hour before the window of the daily run, hours in it, and hours after it; two faults lose a
  task and then its second chance. The limit of the query cuts nothing off with one message; the proofs cover any number, and what
  it cuts off counts as forsaken, as does a task lost after the last window that has its message.

Messages and requests are finitely many and the clock runs on, so that nothing but hours may be left:
`CHECK_DEADLOCK FALSE`. Fairness: the queue is served, the database answers, a task that raised is retried or stored, time
passes, and the daily run does its work each day. Faults are bounded.

### Proofs

`BillingProofs` proves `TypeOK`, `BooksBalance`, `NothingForgotten` and the refinement `Spec => IsAnAccount`, for any
messages, workers, requests, amounts, retries, limits, days and faults. None of the four is inductive. `BillingInv` adds

* that a session past the SELECT holds the lock (`LockIsHeld`) and that what it computes from is still the row
  (`SeenIsRow`): without the second a commit could write any balance. Who inserts the first row finds none
  (`FirstIsEmpty`), which is where a lock on an absent row protects nothing and the unique index does;
* that workers charge for the message of their task (`WorkersCharge`), requests do what their stage says
  (`RequestsAsk`), and a worker that ends with success leaves its message paid (`DoneIsPaid`);
* that the daily run is over within its hour and what it found is still within its window (`RunIsAtHour0`), without
  which a run that dies would lose messages it no longer sees.

For the refinement each commit maps to one operation of the account and every other step to a stutter.

### What is abstracted

`refund_credits`, `deduct_with_overage` and `apply_monthly_rollover` have no caller in `src/` and are left out; so are the
tracking of API calls, the flush of usage analytics, revenue records and discounts. One consequence of the second
is worth a note: `reset_monthly_usage` sets the used credits to zero and keeps the total, so that a renewal gives back what
was used and adds the plan's credits to it, and unused credits never expire; `Account` says so with `Renew`.

## 8. The scheduler

`Scheduler` keeps times as the minutes that began since. A cron task fires each `Period` minutes by the clock, the
others `Period` minutes after their last run. `check_scheduled_tasks` is `StartTick`, `ReadPage` (ORDER BY id LIMIT
OFFSET, and `_is_task_due_sync` with the "now" the check began with), `QueueDue`, `QueueFails`, `CommitPage` or
`CommitFails`, `TickEnds`; a check that dies is delivered again (`TickDies`). `execute_scheduled_task` is `Take`, then
`Finish` or `FinishForGood` (it deactivates the task), or `WorkerDies`. `Toggle`, `Delete`, `Fire` and `Reschedule` are the
API; `Minute` is the clock. `since` and `cause` are history variables: since when a task was queued by a check, and the
tasks that a check may queue once more because a check that had queued them was rolled back or died, or two held them at
once, or the schedule changed while one did.

* **Scheduler** (1 task, 2 checks, 1 worker, `Period` 2, `MaxTick` 1, one edit, 2 faults; 474 thousand states): the action
  property `QueuedOnce`, and `NeverStarves` under fairness. Two checks overlap; a minute may begin while a check is under way;
  a period of 2 tells the minute of the cron time from the others. With one task no page is shifted by a deletion:
  what a shift does to other tasks (they are looked at a minute later) is in the model and its proofs, not in this run.

Fairness: beat sends its checks and some process carries them out, the queue is served, executions end within their time
limit, time passes. `MaxQueue` keeps beat from piling up checks while nothing is executed.

`SchedulerProofs` proves `TypeOK` and `QueuedOnce` for any tasks, checks, workers, pages, periods and faults, with at most
`Period` minutes in a check. `QueuedOnce` compares what a check read, possibly minutes ago, with what others have queued
since. `SchedulerInv` follows a task that is not in `cause`: one check at most has it in hand (`OneHand`);
`last_run_at` tells of the latest queueing, or the check that has yet to commit it does (`Recorded`); what was read as
due stays so until it is queued (`DueIsDue`), as the cron time a check looks back to ages with the check
(`CronTimeAges`).

Left out: the creation of tasks while checks run, the runs that an approval or a feedback fires (`HumanApproval` has the
first), the table of executions and its cleanup, and what a task does.

## 9. War room debates

`Debate` is one row and all that write to it. `Start` loads the row; `Open`, `BeginRound`, `Speak`, `Skip`, `Callback`, `Poll`,
`RecordAnswer`, `Synthesize` and `Complete` are the executor from save to save; `Cut` is the end of the viewer's
connection, on which the generator is closed. `Join`, `Respond`, `Stop` and `Edit` load and check the row, and their
`Finish...` commits what they computed from it.

What a save writes is SQLAlchemy's doing, and external to `src/`: sessions are made with `expire_on_commit=False`
(`core/database.py:167-171`), the column is plain JSON without mutation tracking, and an assignment is written only when the
new value differs from the loaded one. After the executor's first save the attribute *is* its own list, so that appending to
it and assigning it again changes nothing; a refresh (`Poll`) loads another list. `fresh` says which of the two it is, `known`
the same of the status, and `Saved` and `Assigned` what is written.

* **Debate** (1 round, two internal agents, one that pushes, one with a callback, two start requests, two other requests,
  2 calls, 1 fault, at most 3 participants; 546 thousand states): `OnceEach`, `WordsAreOwn`, and `Ends` under fairness. Two
  executors of one debate write over each other; two requests write over them. The limit is 8 in the code; 3 is the
  least at which a join is refused. An instance of two rounds with two executors and one request has 3.0
  million states and satisfies the same properties; it is not among the runs for its length.
* **DebateTranscript** finds `TranscriptKept` violated by two internal agents and nobody else.

Fairness is that of `RunStep` only: an agent's stream ends, and callbacks and waits have limits of their own. Nobody is
forced to answer, join or start. A debate that is over stops, hence `CHECK_DEADLOCK FALSE`.

`DebateProofs` proves `TypeOK`, `WordsAreOwn` and `OnceEach` for any agents, rounds, executors, requests and calls; the
one assumption is that the owner's agents have participant ids of their own (`IsInjective(Internal)` in
`DebateAssumption`: `war_room.py:200` and `328` give each a new uuid). `DebateInv` says that
an executor at a turn is at a participant it read (`TurnsAreTaken`), that a request writes what its operation writes
(`RequestsFit`), that before a debate is started only external agents have spoken (`PendingIsQuiet`), and
that every list that somebody will write is honest (`ListsAreOwn`), which is what makes overwriting harmless to honesty
though not to completeness.

`OnceEach` is not inductive either: that the stored list has a turn once says nothing of the lists that will be stored over
it. `OnceInv` adds that nobody is twice in a list of participants, stored, read or about to be (`NobodyTwice`), that the list
of an executor has only what was there at the start and turns it has had (`OnlyHadTurns`), so that the turn it takes next
is not among them, and that every list somebody will write has each turn once and, with an answer that is about to be
appended, still will (`ListsAreOnce`).

Left out: deletion, edits of topic, rounds and flags, `allow_external`, a rollback of the shared session while an agent
streams, and the spectators' stream, which replays what is stored.

## 10. What is model-checked only

Every type invariant, safety invariant, action property and refinement that a passing run checks is proved. Liveness
(`OrphansClaimed`, `ShutdownEnds`, `Recovers`, `Served`, `CaughtUp`, `NeverStarves`, `Ends`) is out of the prover's reach: it
needs fairness and ENABLED. `NoDoubleRun` and `ActiveIsAssigned` are proved from `StableMembership`, as the run that checks them
assumes it; without it `NoDoubleRun` is false. The violations are counterexamples on one instance, which is all they need to be.

## 11. Divergences found

Three runs show a property violated that a comment or a document states: `NoDoubleRun` with a joining worker,
`PerformedOnce`, and `TranscriptKept`. `PROJECT.json` quotes each line under "findings", and lists under "hazards" the places
where this code can go wrong in ways a test would hardly reach, with the property that covers each, or why none does.

Other disagreements met while modelling, which the modules follow as the code has them:

* A bot whose connection ended by itself is not connected again: the self-healing pass (`worker.py:978`) leaves alone
  what is in `_active_bots`, and nothing removes the entry (`PollerEnds`, `ConnectionEnds`, `LeaveAlone`).
* `main()` returns on the flag that `stop()` sets first (`main.py:118`), so that the loop may be torn down before the
  worker is unregistered (`ExitEarly`), while the blog on bot scaling (lines 421 and 424) describes a drain that completes.
* `half_open_max_requests` is compared with the number of successes so far (`circuit_breaker.py:173`), not of requests: any
  number pass while the first are under way (`Allowed`).
* A starting API process deletes the lane keys of all processes (`app.py:129-136`), those of running executions
  included; `OverlapNeedsFault` excepts it.
* `acquire()` of the lane says it raises `asyncio.TimeoutError` (`conversation_lane.py:71`) and cleans up "if no one is
  waiting" (133): it may raise KeyError after a successful execution and leave an entry of `_waiting_count` behind
  (`CleanUp`; reached with two requests of one process and no fault). `NothingLeft` and `KeyErrorAfterRelease` say how far it goes.
* No code writes the status `EXECUTED` that `models/agent_approval.py:26` documents (`Statuses`).
* An owner that trusts the assignment to a restarted worker leaves an enabled bot an orphan for good (`Deferred`, section 3).
* Failed deductions older than seven days are not removed (`billing_tasks.py:388-391` is never reached) and not retried (`OutliveRange`).

## 12. Not modelled

A share of the repository is outside of this project for good: clients, manifests, prompt building, tool wrappers, parsers,
renderers and request handlers with one transaction each hold no protocol that a model would say more of than the code does.
The WebSocket manager and the audit chain have no caller. Agent workflows other than debates are one pass over an array.
The rate limiter is one atomic pipeline per check. The fallback over LLM configurations in chat streaming is a
sequential loop over one request; the execution registry is best effort. `PROJECT.json` has the reason for each component.

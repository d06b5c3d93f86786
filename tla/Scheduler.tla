------------------------------- MODULE Scheduler ------------------------------
(***************************************************************************)
(* Scheduled tasks (tasks/scheduled_tasks.py, services/scheduler): every   *)
(* minute beat sends check_scheduled_tasks, which reads the active tasks   *)
(* page by page, queues those that are due and commits their last_run_at   *)
(* after each page.  execute_scheduled_task runs one and, when it is over, *)
(* writes last_run_at too.                                                 *)
(* Times are kept as the minutes that began since.  A cron task fires each *)
(* Period minutes by the clock, the others Period minutes after their last *)
(* run.                                                                    *)
(***************************************************************************)
EXTENDS Naturals, FiniteSets

CONSTANTS NumTasks,   \* the scheduled tasks are 1..NumTasks, in the order of their ids
          Ticks,      \* the processes that may run a check
          Workers,    \* the processes that execute tasks
          Period,     \* minutes between two runs of a task
          BatchSize,  \* _CHECK_BATCH_SIZE
          MaxTick,    \* bound: minutes that may begin during a check
          MaxQueue,   \* bound: copies of a task in the queue when a check starts
          MaxEdits,   \* bound: calls of the API
          MaxFaults,  \* bound: the number of faults
          None

Tasks == 1..NumTasks

ASSUME SchedulerAssumption ==
    /\ NumTasks \in Nat /\ None \notin Nat
    /\ Period \in Nat \ {0} /\ BatchSize \in Nat \ {0}
    /\ MaxTick \in 0..Period
    /\ MaxQueue \in Nat /\ MaxEdits \in Nat /\ MaxFaults \in Nat

VARIABLES stored,   \* the tasks in the database
          active,   \* is_active
          cron,     \* the tasks with a cron expression; the others have an interval
          last,     \* minutes since last_run_at
          phase,    \* minutes since the latest cron time
          beaten,   \* beat has sent this minute's check
          at,       \* how far each check has come
          ago,      \* minutes since a check began, which is its "now"
          offset,   \* the rows a check has passed
          due,      \* the due tasks of its page that it has not queued yet
          wrote,    \* the tasks of its page whose last_run_at it has set, not committed
          queue,    \* copies of each task in the Celery queue
          running,  \* the task a worker executes
          since,    \* history: minutes since a check queued the task
          cause,    \* history: tasks that a check may queue once more
          edits,    \* history: the number of calls of the API
          faults    \* history: the number of faults

rowVars  == <<stored, active, cron, last>>
tickVars == <<at, ago, offset, due, wrote>>
execVars == <<queue, running>>
histVars == <<since, cause>>
vars == <<rowVars, phase, beaten, tickVars, execVars, histVars, edits, faults>>

\* Ages count up to here, older ones are the same.
Oldest == Period + MaxTick

TypeOK ==
    /\ stored \subseteq Tasks
    /\ active \subseteq Tasks
    /\ cron \subseteq Tasks
    /\ last \in [Tasks -> 0..Oldest]
    /\ phase \in 0..Period - 1
    /\ beaten \in BOOLEAN
    /\ at \in [Ticks -> {"idle", "reading", "queueing", "finishing"}]
    /\ ago \in [Ticks -> 0..MaxTick]
    /\ offset \in [Ticks -> Nat]
    /\ due \in [Ticks -> SUBSET Tasks]
    /\ wrote \in [Ticks -> [Tasks -> 0..MaxTick \cup {None}]]
    /\ queue \in [Tasks -> Nat]
    /\ running \in [Workers -> Tasks \cup {None}]
    /\ since \in [Tasks -> 0..Oldest]
    /\ cause \subseteq Tasks
    /\ edits \in 0..MaxEdits
    /\ faults \in 0..MaxFaults

NoWrites == [t \in Tasks |-> None]

\* A task is created with last_run_at = now, or without one, which makes it due.
Init ==
    /\ stored = Tasks
    /\ active = Tasks
    /\ cron \in SUBSET Tasks
    /\ last \in [Tasks -> {0, Oldest}]
    /\ phase = 0
    /\ beaten = FALSE
    /\ at = [b \in Ticks |-> "idle"]
    /\ ago = [b \in Ticks |-> 0]
    /\ offset = [b \in Ticks |-> 0]
    /\ due = [b \in Ticks |-> {}]
    /\ wrote = [b \in Ticks |-> NoWrites]
    /\ queue = [t \in Tasks |-> 0]
    /\ running = [w \in Workers |-> None]
    /\ since = [t \in Tasks |-> Oldest]
    /\ cause = {}
    /\ edits = 0
    /\ faults = 0

Fault == faults < MaxFaults /\ faults' = faults + 1
Edit  == edits < MaxEdits /\ edits' = edits + 1

Listed   == stored \cap active
OnPage   == {"queueing", "finishing"}
Wrote(b) == {t \in Tasks : wrote[b][t] # None}

\* The check has the task in hand: read as due, or queued and not committed.
InHand(b, t) == t \in due[b] \cup Wrote(b)

\* Tasks whose latest queueing the commit of a check records, with no other in hand.
Settled(b) ==
    {t \in Wrote(b) : wrote[b][t] <= since[t] /\ \A c \in Ticks \ {b} : ~InHand(c, t)}

-------------------------------------------------------------------------------
(* check_scheduled_tasks.                                                    *)

\* Minutes since the latest cron time, n minutes ago.
CronTime(n) == IF n <= phase THEN phase ELSE phase + Period

\* Mutant of IsDue: a cron task is due in the minute of its cron time only.
IsDueNow(t, n) ==
    IF t \in cron THEN phase = n /\ last[t] > phase ELSE last[t] >= Period + n

\* _is_task_due_sync, with the "now" of n minutes ago.
IsDue(t, n) == IF t \in cron THEN last[t] > CronTime(n) ELSE last[t] >= Period + n

StartTick(b) ==
    /\ ~beaten
    /\ at[b] = "idle"
    /\ \A t \in Tasks : queue[t] < MaxQueue
    /\ beaten' = TRUE
    /\ at' = [at EXCEPT ![b] = "reading"]
    /\ UNCHANGED <<rowVars, phase, ago, offset, due, wrote, execVars, histVars,
                   edits, faults>>

\* ORDER BY id LIMIT BatchSize OFFSET n, of the rows that are active now.
Page(n) ==
    LET Before(t) == Cardinality({u \in Listed : u < t})
    IN {t \in Listed : n <= Before(t) /\ Before(t) < n + BatchSize}

ReadPage(b) ==
    /\ at[b] = "reading"
    /\ Page(offset[b]) # {}
    /\ at' = [at EXCEPT ![b] = IF Cardinality(Page(offset[b])) < BatchSize
                               THEN "finishing" ELSE "queueing"]
    /\ due' = [due EXCEPT ![b] = {t \in Page(offset[b]) : IsDue(t, ago[b])}]
    /\ cause' = cause \cup {t \in due'[b] : \E c \in Ticks \ {b} : InHand(c, t)}
    /\ UNCHANGED <<rowVars, phase, beaten, ago, offset, wrote, execVars, since,
                   edits, faults>>

\* A due task is queued, and its last_run_at set in the session.
QueueDue(b, t) ==
    /\ at[b] \in OnPage
    /\ t \in due[b]
    /\ due' = [due EXCEPT ![b] = @ \ {t}]
    /\ wrote' = [wrote EXCEPT ![b][t] = 0]
    /\ queue' = [queue EXCEPT ![t] = @ + 1]
    /\ since' = [since EXCEPT ![t] = 0]
    /\ UNCHANGED <<rowVars, phase, beaten, at, ago, offset, running, cause, edits,
                   faults>>

\* The broker fails: logged, and the task stays as it was.
QueueFails(b, t) ==
    /\ at[b] \in OnPage
    /\ t \in due[b]
    /\ Fault
    /\ due' = [due EXCEPT ![b] = @ \ {t}]
    /\ UNCHANGED <<rowVars, phase, beaten, at, ago, offset, wrote, execVars,
                   histVars, edits>>

\* The check is over.
EndTick(b) ==
    /\ at' = [at EXCEPT ![b] = "idle"]
    /\ ago' = [ago EXCEPT ![b] = 0]
    /\ offset' = [offset EXCEPT ![b] = 0]
    /\ due' = [due EXCEPT ![b] = {}]
    /\ wrote' = [wrote EXCEPT ![b] = NoWrites]

\* The next page is read after a full one.
EndPage(b) ==
    IF at[b] = "finishing"
    THEN EndTick(b)
    ELSE /\ at' = [at EXCEPT ![b] = "reading"]
         /\ offset' = [offset EXCEPT ![b] = @ + BatchSize]
         /\ wrote' = [wrote EXCEPT ![b] = NoWrites]
         /\ UNCHANGED <<ago, due>>

\* Mutants of CommitPage: what was set in the session is not committed; last_run_at is
\* written for tasks that were not queued, too.
CommitNothing(b) ==
    /\ at[b] \in OnPage
    /\ due[b] = {}
    /\ Wrote(b) \subseteq stored
    /\ EndPage(b)
    /\ UNCHANGED <<rowVars, phase, beaten, execVars, histVars, edits, faults>>

CommitUnset(b) ==
    /\ at[b] \in OnPage
    /\ due[b] = {}
    /\ Wrote(b) \subseteq stored
    /\ EndPage(b)
    /\ last' = wrote[b]
    /\ cause' = cause \ Settled(b)
    /\ UNCHANGED <<stored, active, cron, phase, beaten, execVars, since,
                   edits, faults>>

\* The page is committed.
CommitPage(b) ==
    /\ at[b] \in OnPage
    /\ due[b] = {}
    /\ Wrote(b) \subseteq stored
    /\ EndPage(b)
    /\ last' = [t \in Tasks |-> IF t \in Wrote(b) THEN wrote[b][t] ELSE last[t]]
    /\ cause' = cause \ Settled(b)
    /\ UNCHANGED <<stored, active, cron, phase, beaten, execVars, since,
                   edits, faults>>

\* The commit raises: a task of the page was deleted, so that its UPDATE finds no
\* row, or the database fails. The whole page is rolled back and the check ends.
CommitFails(b) ==
    /\ at[b] \in OnPage
    /\ due[b] = {}
    /\ \/ ~(Wrote(b) \subseteq stored) /\ UNCHANGED faults
       \/ Fault
    /\ cause' = cause \cup Wrote(b)
    /\ EndTick(b)
    /\ UNCHANGED <<rowVars, phase, beaten, execVars, since, edits>>

\* No rows are left.
TickEnds(b) ==
    /\ at[b] = "reading"
    /\ Page(offset[b]) = {}
    /\ EndTick(b)
    /\ UNCHANGED <<rowVars, phase, beaten, execVars, histVars, edits, faults>>

\* The process dies and the check is delivered again, to begin anew.
TickDies(b) ==
    /\ at[b] # "idle"
    /\ Fault
    /\ cause' = cause \cup Wrote(b)
    /\ at' = [at EXCEPT ![b] = "reading"]
    /\ ago' = [ago EXCEPT ![b] = 0]
    /\ offset' = [offset EXCEPT ![b] = 0]
    /\ due' = [due EXCEPT ![b] = {}]
    /\ wrote' = [wrote EXCEPT ![b] = NoWrites]
    /\ UNCHANGED <<rowVars, phase, beaten, execVars, since, edits>>

-------------------------------------------------------------------------------
(* execute_scheduled_task.                                                   *)

\* A task that is gone or not active is not executed.
Take(w, t) ==
    /\ running[w] = None
    /\ queue[t] > 0
    /\ queue' = [queue EXCEPT ![t] = @ - 1]
    /\ running' = [running EXCEPT ![w] = IF t \in Listed THEN t ELSE None]
    /\ UNCHANGED <<rowVars, phase, beaten, tickVars, histVars, edits, faults>>

\* The execution is over, one way or the other, and writes last_run_at. The writes of
\* a task that was deleted meanwhile fail.
Finish(w) ==
    /\ running[w] \in Tasks
    /\ running' = [running EXCEPT ![w] = None]
    /\ last' = IF running[w] \in stored THEN [last EXCEPT ![running[w]] = 0] ELSE last
    /\ UNCHANGED <<stored, active, cron, phase, beaten, tickVars, queue, histVars,
                   edits, faults>>

\* It finds its agent gone, or its follow-up answered, and deactivates the task.
FinishForGood(w) ==
    /\ running[w] \in stored
    /\ running' = [running EXCEPT ![w] = None]
    /\ last' = [last EXCEPT ![running[w]] = 0]
    /\ active' = active \ {running[w]}
    /\ UNCHANGED <<stored, cron, phase, beaten, at, ago, offset, due, wrote, queue,
                   histVars, edits, faults>>

\* The worker dies: the task was not acknowledged and is delivered again.
WorkerDies(w) ==
    /\ running[w] \in Tasks
    /\ Fault
    /\ running' = [running EXCEPT ![w] = None]
    /\ queue' = [queue EXCEPT ![running[w]] = @ + 1]
    /\ UNCHANGED <<rowVars, phase, beaten, tickVars, histVars, edits>>

-------------------------------------------------------------------------------
(* The API and the clock.                                                    *)

Toggle(t) ==
    /\ t \in stored
    /\ Edit
    /\ active' = IF t \in active THEN active \ {t} ELSE active \cup {t}
    /\ UNCHANGED <<stored, cron, last, phase, beaten, at, ago, offset, due, wrote,
                   execVars, histVars, faults>>

Delete(t) ==
    /\ t \in stored
    /\ Edit
    /\ stored' = stored \ {t}
    /\ UNCHANGED <<active, cron, last, phase, beaten, at, ago, offset, due, wrote,
                   execVars, histVars, faults>>

\* trigger_autonomous_run and execute_task_async.
Fire(t) ==
    /\ t \in stored
    /\ Edit
    /\ queue' = [queue EXCEPT ![t] = @ + 1]
    /\ UNCHANGED <<rowVars, phase, beaten, tickVars, running, histVars, faults>>

\* The schedule changes from an interval to a cron expression or back; last_run_at
\* stays.
Reschedule(t) ==
    /\ t \in stored
    /\ Edit
    /\ cron' = IF t \in cron THEN cron \ {t} ELSE cron \cup {t}
    /\ cause' = cause \cup {u \in {t} : \E b \in Ticks : InHand(b, u)}
    /\ UNCHANGED <<stored, active, last, phase, beaten, tickVars, execVars, since,
                   faults>>

Older(n) == IF n < Oldest THEN n + 1 ELSE n

\* The next minute begins.
Minute ==
    /\ \A b \in Ticks : ago[b] < MaxTick
    /\ phase' = (phase + 1) % Period
    /\ beaten' = FALSE
    /\ last' = [t \in Tasks |-> Older(last[t])]
    /\ since' = [t \in Tasks |-> Older(since[t])]
    /\ ago' = [b \in Ticks |-> IF at[b] = "idle" THEN 0 ELSE ago[b] + 1]
    /\ wrote' = [b \in Ticks |->
                    [t \in Tasks |-> IF t \in Wrote(b) THEN wrote[b][t] + 1 ELSE None]]
    /\ UNCHANGED <<stored, active, cron, at, offset, due, execVars, cause, edits,
                   faults>>

-------------------------------------------------------------------------------
TickNext(b) ==
    \/ StartTick(b)
    \/ ReadPage(b)
    \/ \E t \in Tasks : QueueDue(b, t)
    \/ \E t \in Tasks : QueueFails(b, t)
    \/ CommitPage(b)
    \/ CommitFails(b)
    \/ TickEnds(b)
    \/ TickDies(b)

WorkerNext(w) ==
    \/ \E t \in Tasks : Take(w, t)
    \/ Finish(w)
    \/ FinishForGood(w)
    \/ WorkerDies(w)

EditNext(t) == Toggle(t) \/ Delete(t) \/ Fire(t) \/ Reschedule(t)

Next ==
    \/ \E b \in Ticks : TickNext(b)
    \/ \E w \in Workers : WorkerNext(w)
    \/ \E t \in Tasks : EditNext(t)
    \/ Minute

Spec == Init /\ [][Next]_vars

\* Beat sends its checks and somebody carries them out, the queue is served, an
\* execution ends within its time limit, and time passes.
Fairness ==
    /\ WF_vars(\E b \in Ticks : StartTick(b))
    /\ \A b \in Ticks :
        WF_vars(ReadPage(b) \/ (\E t \in Tasks : QueueDue(b, t)) \/ CommitPage(b)
                \/ CommitFails(b) \/ TickEnds(b))
    /\ \A t \in Tasks : WF_vars(\E w \in Workers : Take(w, t))
    /\ \A w \in Workers : WF_vars(Finish(w))
    /\ WF_vars(Minute)

FairSpec == Spec /\ Fairness

-------------------------------------------------------------------------------
(* Properties.                                                               *)

\* No check has queued the task since it fell due.
MayQueue(b, t) == IF t \in cron THEN since[t] > CronTime(ago[b]) ELSE since[t] >= Period

\* Checks queue a task once for each time it falls due: "Update last_run_at
\* immediately to prevent a second beat tick from re-queuing the same task this
\* minute" (tasks/scheduled_tasks.py:961). They do it again only after a check that
\* had queued the task was rolled back or died, when two of them held it at once, or
\* when its schedule changed while one held it.
QueuedOnce ==
    [][\A b \in Ticks, t \in Tasks : QueueDue(b, t) /\ t \notin cause => MayQueue(b, t)]_vars

\* A task that stays active is queued again and again: no execution that writes
\* last_run_at just after a cron time, no failed check and no shifted page starves it.
NeverStarves == \A t \in Tasks : []<>(since[t] = 0 \/ t \notin Listed)

-------------------------------------------------------------------------------
(* Why a task is queued once: the inductive invariant.                       *)

\* A check has nothing in hand between its pages, and what it has written is no older
\* than itself.
PagesAreClosed ==
    \A b \in Ticks :
        /\ at[b] \in {"idle", "reading"} => due[b] = {} /\ wrote[b] = NoWrites
        /\ at[b] = "idle" => ago[b] = 0
        /\ \A t \in Wrote(b) : wrote[b][t] <= ago[b]

\* One check at most has the task in hand.
OneHand(t) == \A b, c \in Ticks : InHand(b, t) /\ InHand(c, t) => b = c

\* last_run_at tells of the latest queueing, or the check that is to write it does.
Recorded(t) ==
    /\ last[t] <= since[t] \/ \E b \in Ticks : t \in Wrote(b)
    /\ \A b \in Ticks : t \in Wrote(b) => wrote[b][t] <= since[t]

\* What a check has read as due is so still.
DueIsDue(t) == \A b \in Ticks : t \in due[b] => MayQueue(b, t)

SchedulerInv ==
    /\ TypeOK
    /\ PagesAreClosed
    /\ \A t \in Tasks \ cause : OneHand(t) /\ Recorded(t) /\ DueIsDue(t)

===============================================================================

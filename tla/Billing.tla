-------------------------------- MODULE Billing -------------------------------
(***************************************************************************)
(* How chat messages are paid for (tasks/billing_tasks.py): the chat saves *)
(* a message and queues a task, the workers of the billing queue deduct,   *)
(* retry and set aside what failed, and a daily run queues what is still   *)
(* missing.  API requests work on the same balance.  Time passes in hours; *)
(* a day has DayHours of them, and the daily run comes at hour 0.          *)
(***************************************************************************)
EXTENDS CreditLedger

CONSTANTS Workers,     \* the processes that serve the billing queue
          Requests,    \* API requests that touch the balance, one operation each
          MaxRetries,  \* max_retries of the task
          BatchLimit,  \* LIMIT of the query for missing deductions
          DayHours,    \* hours in a day
          TopUp,       \* credits of a top-up
          Plan,        \* monthly credits of the plan
          Price,       \* credits of an access subscription
          MaxFaults    \* bound: the number of faults in a behaviour

ASSUME BillingAssumption ==
    /\ Sessions = Workers \cup Requests
    /\ Workers \cap Requests = {}
    /\ IsFiniteSet(Messages)
    /\ MaxRetries \in Nat /\ BatchLimit \in Nat /\ MaxFaults \in Nat
    /\ DayHours \in Nat \ {0, 1}
    /\ TopUp \in Nat /\ Plan \in Nat /\ Price \in Nat

VARIABLES queue,     \* the billing queue: copies of the task of a message, by retries
          retries,   \* request.retries of the task a worker runs
          failed,    \* billing:failed_deductions in its range: messages, hours since stored
          saved,     \* the messages in the database
          age,       \* hours that began since a message was saved
          hour,      \* the hour of the day
          run,       \* the daily run: at the "failed" deductions, or at those "found"
          found,     \* what its query returned and it has not queued yet
          stage,     \* how far each request has come
          refused,   \* history: messages not charged for as the balance was short
          forsaken,  \* history: messages lost where no daily run looks
          faults     \* history: the number of faults

taskVars  == <<queue, retries, failed, found>>
clockVars == <<saved, age, hour, run>>
vars == <<ledgerVars, taskVars, clockVars, stage, refused, forsaken, faults>>

Stages == {"new", "topup", "access", "view", "reset", "allocation", "over"}
Old    == DayHours + 1

TypeOK ==
    /\ LedgerTypeOK
    /\ queue \in [Messages \X (0..MaxRetries) -> Nat]
    /\ retries \in [Workers -> 0..MaxRetries]
    /\ failed \subseteq Messages \X (0..2)
    /\ saved \subseteq Messages
    /\ age \in [Messages -> 0..Old]
    /\ hour \in 0..DayHours - 1
    /\ run \in {"failed", "found"}
    /\ found \subseteq Messages
    /\ stage \in [Requests -> Stages]
    /\ refused \subseteq Messages
    /\ forsaken \subseteq Messages
    /\ faults \in 0..MaxFaults

Init ==
    /\ LedgerInit
    /\ queue = [t \in Messages \X (0..MaxRetries) |-> 0]
    /\ retries = [w \in Workers |-> 0]
    /\ failed = {}
    /\ saved = {}
    /\ age = [m \in Messages |-> 0]
    /\ hour = 0
    /\ run = "found"
    /\ found = {}
    /\ stage = [r \in Requests |-> "new"]
    /\ refused = {}
    /\ forsaken = {}
    /\ faults = 0

Fault == faults < MaxFaults /\ faults' = faults + 1

Enqueue(m, k) == queue' = [queue EXCEPT ![<<m, k>>] = @ + 1]

\* created_at lies between an hour and 24 hours before the run, when n hours have
\* begun since.
InWindow(n) == 2 <= n /\ n <= DayHours

\* A daily run to come will look at the message.
InSight(m) ==
    IF run = "failed" THEN InWindow(age[m]) \/ InWindow(age[m] + DayHours)
                      ELSE InWindow(age[m] + DayHours - hour)

\* A copy of the message's task is lost.
Lose(m) == forsaken' = forsaken \cup {n \in {m} : ~InSight(n)}

-------------------------------------------------------------------------------
(* The chat.                                                                 *)

\* save_assistant_message, then queue_credit_deduction.
SaveMessage(m) ==
    /\ m \notin saved
    /\ saved' = saved \cup {m}
    /\ Enqueue(m, 0)
    /\ UNCHANGED <<ledgerVars, retries, failed, found, age, hour, run, stage, refused,
                   forsaken, faults>>

\* The chat process ends between the two, or the broker cannot be reached: the
\* error is only logged.
SaveUnqueued(m) ==
    /\ m \notin saved
    /\ Fault
    /\ saved' = saved \cup {m}
    /\ Lose(m)
    /\ UNCHANGED <<ledgerVars, taskVars, age, hour, run, stage, refused>>

-------------------------------------------------------------------------------
(* A worker and its task, deduct_credits_async.                              *)

Message(w) == job[w].msg

Take(w, m, k) ==
    /\ pc[w] = "idle"
    /\ queue[<<m, k>>] > 0
    /\ queue' = [queue EXCEPT ![<<m, k>>] = @ - 1]
    /\ retries' = [retries EXCEPT ![w] = k]
    /\ Begin(w, Charge(m))
    /\ UNCHANGED <<failed, found, clockVars, stage, refused, forsaken, faults>>

Step(s) ==
    /\ Work(s)
    /\ UNCHANGED <<taskVars, clockVars, stage, refused, forsaken, faults>>

\* The worker is free for another task.
Free(w) ==
    /\ pc' = [pc EXCEPT ![w] = "idle"]
    /\ job' = [job EXCEPT ![w] = NoJob]
    /\ holder' = IF holder = w THEN None ELSE holder
    /\ seen' = [seen EXCEPT ![w] = EmptyRow]
    /\ retries' = [retries EXCEPT ![w] = 0]
    /\ UNCHANGED books

\* The task returns and is acknowledged. A balance that is short is no error.
TaskEnds(w) ==
    /\ pc[w] \in {"committed", "nothing", "short"}
    /\ refused' = IF pc[w] = "short" THEN refused \cup {Message(w)} ELSE refused
    /\ Free(w)
    /\ UNCHANGED <<queue, failed, found, clockVars, stage, forsaken, faults>>

\* The database fails, before the commit or when the transaction is read back, with an
\* error that _is_retryable_error finds worth a retry or not.
TaskRaises(w) ==
    /\ pc[w] \in Open \cup {"committed"}
    /\ Fault
    /\ \E error \in {"raised", "permanent"} : Leave(w, error)
    /\ UNCHANGED <<books, taskVars, clockVars, stage, refused, forsaken>>

Retryable(w) == pc[w] = "raised" /\ retries[w] < MaxRetries

\* self.retry: a copy of the task is queued and this one acknowledged.
Retry(w) ==
    /\ Retryable(w)
    /\ Enqueue(Message(w), retries[w] + 1)
    /\ Free(w)
    /\ UNCHANGED <<failed, found, clockVars, stage, refused, forsaken, faults>>

\* _store_failed_deduction, for a permanent error and after the last retry.
StoreFailed(w) ==
    /\ pc[w] \in {"permanent", "raised"}
    /\ ~Retryable(w)
    /\ failed' = failed \cup {<<Message(w), 0>>}
    /\ Free(w)
    /\ UNCHANGED <<queue, found, clockVars, stage, refused, forsaken, faults>>

\* The task is gone: neither the retry nor the failed deduction could be stored, or
\* the hard time limit ended it, which acknowledges it.
TaskLost(w) ==
    /\ pc[w] # "idle"
    /\ Fault
    /\ Lose(Message(w))
    /\ Free(w)
    /\ UNCHANGED <<queue, failed, found, clockVars, stage, refused>>

\* The worker process dies: the task was not acknowledged and is delivered again.
WorkerDies(w) ==
    /\ pc[w] # "idle"
    /\ Fault
    /\ Enqueue(Message(w), retries[w])
    /\ Free(w)
    /\ UNCHANGED <<failed, found, clockVars, stage, refused, forsaken>>

-------------------------------------------------------------------------------
(* The daily run, reconcile_credits_daily, and the clock.                    *)

\* Failed deductions stored an hour ago or earlier.
Ripe == {x \in failed : x[2] = 2}

RequeueFailed(m) ==
    /\ run = "failed"
    /\ <<m, 2>> \in failed
    /\ failed' = failed \ {<<m, 2>>}
    /\ Enqueue(m, 0)
    /\ UNCHANGED <<ledgerVars, retries, found, clockVars, stage, refused, forsaken, faults>>

\* Mutant of RequeueFailedHalf: the item is removed before it is queued.
RemoveUnqueued(m) ==
    /\ run = "failed"
    /\ <<m, 2>> \in failed
    /\ Fault
    /\ failed' = failed \ {<<m, 2>>}
    /\ UNCHANGED <<ledgerVars, queue, retries, found, clockVars, stage, refused, forsaken>>

\* The broker or Redis fails: the item stays for the next run, queued or not.
RequeueFailedHalf(m) ==
    /\ run = "failed"
    /\ <<m, 2>> \in failed
    /\ Fault
    /\ failed' = (failed \ {<<m, 2>>}) \cup {<<m, 0>>}
    /\ UNCHANGED queue \/ Enqueue(m, 0)
    /\ UNCHANGED <<ledgerVars, retries, found, clockVars, stage, refused, forsaken>>

\* The run fails for a week (one fault here): the item falls out of the range that
\* zrangebyscore reads and stays in the set, where nothing will look at it again.
OutliveRange(m) ==
    /\ <<m, 2>> \in failed
    /\ age[m] = Old
    /\ Fault
    /\ failed' = failed \ {<<m, 2>>}
    /\ Lose(m)
    /\ UNCHANGED <<ledgerVars, queue, retries, found, clockVars, stage, refused>>

\* Mutant of Missing: the window of the query ends an hour too early.
MissingRecently == {m \in saved : 2 <= age[m] /\ age[m] < DayHours /\ usage[m] = 0}

Missing == {m \in saved : InWindow(age[m]) /\ usage[m] = 0}

\* _find_missing_deductions; what the LIMIT cuts off is too old for the next run.
FindMissing ==
    /\ run = "failed"
    /\ Ripe = {}
    /\ run' = "found"
    /\ found' \in {S \in SUBSET Missing : Cardinality(S) <= BatchLimit}
    /\ Cardinality(found') = BatchLimit \/ found' = Missing
    /\ forsaken' = forsaken \cup (Missing \ found')
    /\ UNCHANGED <<ledgerVars, queue, retries, failed, saved, age, hour, stage, refused, faults>>

\* The query raises, which is logged, and nothing is found.
FindNothing ==
    /\ run = "failed"
    /\ Ripe = {}
    /\ Fault
    /\ run' = "found"
    /\ forsaken' = forsaken \cup Missing
    /\ UNCHANGED <<ledgerVars, taskVars, saved, age, hour, stage, refused>>

RequeueFound(m) ==
    /\ m \in found
    /\ found' = found \ {m}
    /\ Enqueue(m, 0)
    /\ UNCHANGED <<ledgerVars, retries, failed, clockVars, stage, refused, forsaken, faults>>

LoseFound(m) ==
    /\ m \in found
    /\ Fault
    /\ found' = found \ {m}
    /\ Lose(m)
    /\ UNCHANGED <<ledgerVars, queue, retries, failed, clockVars, stage, refused>>

\* The run dies and is delivered again.
RunDies ==
    /\ found # {}
    /\ Fault
    /\ run' = "failed"
    /\ found' = {}
    /\ UNCHANGED <<ledgerVars, queue, retries, failed, saved, age, hour, stage, refused, forsaken>>

\* The next hour begins. The run is over well within its own.
HourPasses ==
    /\ run = "found" /\ found = {}
    /\ hour' = (hour + 1) % DayHours
    /\ age' = [m \in Messages |-> IF m \in saved /\ age[m] < Old THEN age[m] + 1 ELSE age[m]]
    /\ failed' = {<<x[1], IF x[2] < 2 THEN x[2] + 1 ELSE 2>> : x \in failed}
    /\ run' = IF hour' = 0 THEN "failed" ELSE "found"
    /\ UNCHANGED <<ledgerVars, queue, retries, found, saved, stage, refused, forsaken, faults>>

-------------------------------------------------------------------------------
(* API requests on the balance.                                              *)

\* A top-up is paid, access to an agent is bought, the balance is looked up, or a
\* subscription is renewed, which begins with reset_monthly_usage.
Request(r) ==
    /\ stage[r] = "new"
    /\ \/ stage' = [stage EXCEPT ![r] = "topup"] /\ Begin(r, Do("add", TopUp))
       \/ stage' = [stage EXCEPT ![r] = "access"] /\ Begin(r, Do("deduct", Price))
       \/ stage' = [stage EXCEPT ![r] = "view"] /\ Begin(r, Do("view", 0))
       \/ stage' = [stage EXCEPT ![r] = "reset"] /\ Begin(r, Do("reset", 0))
    /\ UNCHANGED <<taskVars, clockVars, refused, forsaken, faults>>

\* renew_subscription goes on with the plan's credits.
Allocate(r) ==
    /\ stage[r] = "reset"
    /\ pc[r] \in {"committed", "nothing"}
    /\ stage' = [stage EXCEPT ![r] = "allocation"]
    /\ Begin(r, Do("add", Plan))
    /\ UNCHANGED <<taskVars, clockVars, refused, forsaken, faults>>

Respond(r) ==
    /\ stage[r] # "reset" /\ pc[r] \in Outcomes
    /\ stage' = [stage EXCEPT ![r] = "over"]
    /\ pc' = [pc EXCEPT ![r] = "idle"]
    /\ job' = [job EXCEPT ![r] = NoJob]
    /\ UNCHANGED <<books, holder, seen, taskVars, clockVars, refused, forsaken, faults>>

\* The request fails or its process dies; nobody repeats it.
RequestDies(r) ==
    /\ pc[r] # "idle"
    /\ Fault
    /\ stage' = [stage EXCEPT ![r] = "over"]
    /\ pc' = [pc EXCEPT ![r] = "idle"]
    /\ job' = [job EXCEPT ![r] = NoJob]
    /\ holder' = IF holder = r THEN None ELSE holder
    /\ seen' = [seen EXCEPT ![r] = EmptyRow]
    /\ UNCHANGED <<books, taskVars, clockVars, refused, forsaken>>

-------------------------------------------------------------------------------
WorkerNext(w) ==
    \/ \E m \in Messages, k \in 0..MaxRetries : Take(w, m, k)
    \/ TaskEnds(w)
    \/ TaskRaises(w)
    \/ Retry(w)
    \/ StoreFailed(w)
    \/ TaskLost(w)
    \/ WorkerDies(w)

RunNext ==
    \/ \E m \in Messages : RequeueFailed(m)
    \/ \E m \in Messages : RequeueFailedHalf(m)
    \/ \E m \in Messages : OutliveRange(m)
    \/ FindMissing
    \/ FindNothing
    \/ \E m \in Messages : RequeueFound(m)
    \/ \E m \in Messages : LoseFound(m)
    \/ RunDies
    \/ HourPasses

RequestNext(r) == Request(r) \/ Allocate(r) \/ Respond(r) \/ RequestDies(r)

Next ==
    \/ \E m \in Messages : SaveMessage(m)
    \/ \E m \in Messages : SaveUnqueued(m)
    \/ \E s \in Sessions : Step(s)
    \/ \E w \in Workers : WorkerNext(w)
    \/ RunNext
    \/ \E r \in Requests : RequestNext(r)

Spec == Init /\ [][Next]_vars

\* Workers serve the queue, the database answers, a failed task is retried or set
\* aside, and time passes with a daily run each day.
Fairness ==
    /\ \A m \in Messages, k \in 0..MaxRetries : WF_vars(\E w \in Workers : Take(w, m, k))
    /\ \A s \in Sessions : WF_vars(Step(s))
    /\ \A w \in Workers : WF_vars(TaskEnds(w) \/ Retry(w) \/ StoreFailed(w))
    /\ \A m \in Messages : WF_vars(RequeueFailed(m)) /\ WF_vars(RequeueFound(m))
    /\ WF_vars(FindMissing)
    /\ WF_vars(HourPasses)

FairSpec == Spec /\ Fairness

-------------------------------------------------------------------------------
(* Properties.                                                               *)

\* The books balance: the row's total is what was granted, what it holds available
\* is the rest of it and never negative, and what was spent is what was charged for
\* messages and access. An update computed from a stale row, or a first operation
\* that overwrites another's, loses or creates credits (CreditService under its row
\* locks).
BooksBalance ==
    /\ row.total = granted
    /\ row.used <= spent
    /\ row.used + row.avail = row.total

\* To its callers the ledger is an account whose operations take effect at once:
\* no overdraft, and every message billed at most once for exactly its cost, however
\* often its task is delivered and wherever a worker dies.
Charged == {m \in Messages : usage[m] > 0}

TheAccount == INSTANCE Account WITH
                  Grants <- {TopUp, Plan}, Prices <- {Price},
                  available <- row.avail, used <- row.used, billed <- Charged

IsAnAccount == TheAccount!Spec

Queued(m)   == \E k \in 0..MaxRetries : queue[<<m, k>>] > 0
AtWork(m)   == \E w \in Workers : pc[w] # "idle" /\ Message(w) = m
SetAside(m) == \E n \in 0..2 : <<m, n>> \in failed

\* Everything that will still be tried for a message.
Pending(m) == Queued(m) \/ AtWork(m) \/ SetAside(m) \/ m \in found \/ InSight(m)

Settled(m) == usage[m] > 0 \/ m \in refused

\* No message is forgotten between the queue, the workers, the failed deductions and
\* the daily run, except where a copy of its task was lost out of the run's sight.
NothingForgotten ==
    \A m \in saved : Settled(m) \/ m \in forsaken \/ Pending(m)

\* Every saved message is charged for or refused in the end, with the same exception.
CaughtUp ==
    \A m \in Messages : (m \in saved) ~> (Settled(m) \/ m \in forsaken)

-------------------------------------------------------------------------------
(* Why the safety properties hold: the inductive invariant.                  *)

LockIsHeld == \A s \in Sessions : pc[s] = "locked" <=> holder = s

\* What a session computes from is the row as it still is.
SeenIsRow == \A s \in Sessions : pc[s] = "locked" => seen[s] = row

\* Who creates a balance finds none, and has the row to itself.
FirstIsEmpty ==
    /\ ~created => row = EmptyRow
    /\ \A s \in Sessions : pc[s] = "locked" /\ job[s].op = "view" => row = EmptyRow

LedgerInv ==
    /\ LedgerTypeOK
    /\ BooksBalance
    /\ LockIsHeld
    /\ SeenIsRow
    /\ FirstIsEmpty

WorkersCharge == \A w \in Workers : pc[w] # "idle" => \E m \in Messages : job[w] = Charge(m)

RequestsAsk ==
    \A r \in Requests :
        /\ job[r] \in {NoJob, Do("add", TopUp), Do("add", Plan), Do("deduct", Price),
                      Do("view", 0), Do("reset", 0)}
        /\ stage[r] = "new" => pc[r] = "idle"

DoneIsPaid ==
    \A w \in Workers : pc[w] \in {"committed", "nothing"} => usage[Message(w)] > 0

\* The daily run is over within its hour, and what it found is still in its window.
RunIsAtHour0 ==
    /\ run = "failed" => hour = 0 /\ found = {}
    /\ \A m \in found : hour = 0 /\ InWindow(age[m])

BillingInv ==
    /\ TypeOK
    /\ LedgerInv
    /\ WorkersCharge
    /\ RequestsAsk
    /\ DoneIsPaid
    /\ RunIsAtHour0
    /\ NothingForgotten

===============================================================================

----------------------------- MODULE CreditLedger -----------------------------
(***************************************************************************)
(* CreditService (services/billing/credit_service.py): the balance of one  *)
(* tenant and the database sessions that work on it.  A session runs       *)
(* SELECT ... FOR UPDATE, computes the new balance from what it has read   *)
(* and commits.  A balance that does not exist cannot be locked: whoever   *)
(* finds none inserts one, and the unique tenant_id decides.               *)
(***************************************************************************)
EXTENDS Naturals, FiniteSets

CONSTANTS Sessions,  \* whoever opens a database session
          Messages,  \* the messages that are charged for
          Cost,      \* the credits one message costs
          Opening,   \* the credits of a tenant that has a balance already
          None

ASSUME LedgerAssumption ==
    /\ Cost \in Nat /\ Opening \in Nat
    /\ None \notin Sessions /\ None \notin Messages

VARIABLES created,  \* the balance row exists
          row,      \* the row as it was committed last
          holder,   \* the session that has it locked, or an insert of it pending
          pc,       \* how far each session has come, or how its work ended
          job,      \* what each session was asked to do
          seen,     \* the balance a session has read
          usage,    \* the number of USAGE transactions of each message
          granted,  \* history: credits added so far
          spent     \* history: credits deducted so far

ledgerVars == <<created, row, holder, pc, job, seen, usage, granted, spent>>
books      == <<created, row, usage, granted, spent>>

Rows     == [total : Nat, used : Nat, avail : Nat]
EmptyRow == [total |-> 0, used |-> 0, avail |-> 0]
Ops      == {"add", "deduct", "charge", "reset", "view"}
Jobs     == [op : Ops, amount : Nat, msg : Messages \cup {None}]
NoJob    == [op |-> "view", amount |-> 0, msg |-> None]

Charge(m) == [op |-> "charge", amount |-> Cost, msg |-> m]
Do(o, n)  == [op |-> o, amount |-> n, msg |-> None]

\* "nothing": there was nothing to do (the message is known, or no row to reset).
\* "short": the balance does not suffice. "permanent": an error that is not to be
\* retried, such as "duplicate key" for a row that another inserted. "raised": any other.
Open     == {"select", "missing", "locked"}
Outcomes == {"committed", "nothing", "short", "permanent", "raised"}

LedgerTypeOK ==
    /\ created \in BOOLEAN
    /\ row \in Rows
    /\ holder \in Sessions \cup {None}
    /\ pc \in [Sessions -> {"idle"} \cup Open \cup Outcomes]
    /\ job \in [Sessions -> Jobs]
    /\ seen \in [Sessions -> Rows]
    /\ usage \in [Messages -> Nat]
    /\ granted \in Nat
    /\ spent \in Nat

LedgerInit ==
    /\ created \in BOOLEAN
    /\ row = IF created THEN [total |-> Opening, used |-> 0, avail |-> Opening] ELSE EmptyRow
    /\ granted = row.total
    /\ spent = 0
    /\ holder = None
    /\ pc = [s \in Sessions |-> "idle"]
    /\ job = [s \in Sessions |-> NoJob]
    /\ seen = [s \in Sessions |-> EmptyRow]
    /\ usage = [m \in Messages |-> 0]

\* Mutant of SameKey: the key is made up anew for every attempt.
FreshKey(m) == {}

\* The messages whose transaction has the idempotency key of m, "msg_<id>".
SameKey(m) == {m}

\* A call of the service.
Begin(s, j) ==
    /\ pc' = [pc EXCEPT ![s] = "select"]
    /\ job' = [job EXCEPT ![s] = j]
    /\ UNCHANGED <<books, holder, seen>>

\* The session leaves the service, its locks and pending inserts with it.
Leave(s, outcome) ==
    /\ pc' = [pc EXCEPT ![s] = outcome]
    /\ holder' = IF holder = s THEN None ELSE holder
    /\ seen' = [seen EXCEPT ![s] = EmptyRow]
    /\ UNCHANGED job

Lock(s, balance) ==
    /\ holder' = s
    /\ seen' = [seen EXCEPT ![s] = balance]
    /\ pc' = [pc EXCEPT ![s] = "locked"]
    /\ UNCHANGED <<books, job>>

\* Mutant of Select: FOR UPDATE is forgotten.
SelectUnlocked(s) ==
    /\ pc[s] = "select"
    /\ \/ created /\ job[s].op # "view" /\ Lock(s, row)
       \/ created /\ job[s].op = "view" /\ Leave(s, "nothing") /\ UNCHANGED books
       \/ ~created /\ job[s].op = "reset" /\ Leave(s, "nothing") /\ UNCHANGED books
       \/ /\ ~created
          /\ job[s].op # "reset"
          /\ pc' = [pc EXCEPT ![s] = "missing"]
          /\ UNCHANGED <<books, holder, job, seen>>

\* SELECT ... FOR UPDATE waits until nobody else has the row; get_or_create_balance
\* selects without it, and reset_monthly_usage does nothing without a row.
Select(s) ==
    /\ pc[s] = "select"
    /\ \/ created /\ job[s].op # "view" /\ holder = None /\ Lock(s, row)
       \/ created /\ job[s].op = "view" /\ Leave(s, "nothing") /\ UNCHANGED books
       \/ ~created /\ job[s].op = "reset" /\ Leave(s, "nothing") /\ UNCHANGED books
       \/ /\ ~created
          /\ job[s].op # "reset"
          /\ pc' = [pc EXCEPT ![s] = "missing"]
          /\ UNCHANGED <<books, holder, job, seen>>

Known(s) == \E m \in SameKey(job[s].msg) : usage[m] > 0

\* The message was charged for while this session found no row.
FindKnown(s) ==
    /\ pc[s] = "missing"
    /\ job[s].op = "charge"
    /\ Known(s)
    /\ Leave(s, "nothing")
    /\ UNCHANGED books

\* The row is inserted and flushed. The unique index makes the insert wait for one
\* that is pending, and fail if that was committed.
Insert(s) ==
    /\ pc[s] = "missing"
    /\ \/ ~created /\ holder = None /\ Lock(s, EmptyRow)
       \/ created /\ Leave(s, "permanent") /\ UNCHANGED books

\* COMMIT of a balance with these totals.
Commit(s, total, used) ==
    /\ created' = TRUE
    /\ row' = [total |-> total, used |-> used, avail |-> total - used]
    /\ Leave(s, "committed")

Add(s) ==
    /\ pc[s] = "locked"
    /\ job[s].op = "add"
    /\ Commit(s, seen[s].total + job[s].amount, seen[s].used)
    /\ granted' = granted + job[s].amount
    /\ UNCHANGED <<usage, spent>>

Deduct(s) ==
    /\ pc[s] = "locked"
    /\ job[s].op = "deduct"
    /\ IF seen[s].avail < job[s].amount
       THEN Leave(s, "short") /\ UNCHANGED books
       ELSE /\ Commit(s, seen[s].total, seen[s].used + job[s].amount)
            /\ spent' = spent + job[s].amount
            /\ UNCHANGED <<usage, granted>>

\* Mutant of DeductIdempotent: the balance is not checked.
DeductUnchecked(s) ==
    /\ pc[s] = "locked"
    /\ job[s].op = "charge"
    /\ IF Known(s)
       THEN Leave(s, "nothing") /\ UNCHANGED books
       ELSE /\ Commit(s, seen[s].total, seen[s].used + job[s].amount)
            /\ usage' = [usage EXCEPT ![job[s].msg] = @ + 1]
            /\ spent' = spent + job[s].amount
            /\ UNCHANGED granted

\* deduct_credits_idempotent. Without commit the session is rolled back when it is
\* closed, with the row it may have inserted.
DeductIdempotent(s) ==
    /\ pc[s] = "locked"
    /\ job[s].op = "charge"
    /\ IF Known(s)
       THEN Leave(s, "nothing") /\ UNCHANGED books
       ELSE IF seen[s].avail < job[s].amount
       THEN Leave(s, "short") /\ UNCHANGED books
       ELSE /\ Commit(s, seen[s].total, seen[s].used + job[s].amount)
            /\ usage' = [usage EXCEPT ![job[s].msg] = @ + 1]
            /\ spent' = spent + job[s].amount
            /\ UNCHANGED granted

ResetUsage(s) ==
    /\ pc[s] = "locked"
    /\ job[s].op = "reset"
    /\ Commit(s, seen[s].total, 0)
    /\ UNCHANGED <<usage, granted, spent>>

Create(s) ==
    /\ pc[s] = "locked"
    /\ job[s].op = "view"
    /\ Commit(s, 0, 0)
    /\ UNCHANGED <<usage, granted, spent>>

Finish(s) == Add(s) \/ Deduct(s) \/ DeductIdempotent(s) \/ ResetUsage(s) \/ Create(s)
Work(s)   == Select(s) \/ FindKnown(s) \/ Insert(s) \/ Finish(s)

===============================================================================

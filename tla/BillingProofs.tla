----------------------------- MODULE BillingProofs ----------------------------
(***************************************************************************)
(* Proofs about Billing: its types, that the books balance, that no message*)
(* is forgotten, and that the ledger implements an account.                *)
(***************************************************************************)
EXTENDS Billing, TLAPS

\* What a session that works on the ledger sees of it.
LEMMA LedgerFacts ==
    ASSUME LedgerInv
    PROVE  /\ row \in Rows /\ seen \in [Sessions -> Rows] /\ job \in [Sessions -> Jobs]
           /\ pc \in [Sessions -> {"idle"} \cup Open \cup Outcomes]
           /\ holder \in Sessions \cup {None} /\ None \notin Sessions
           /\ usage \in [Messages -> Nat] /\ granted \in Nat /\ spent \in Nat
           /\ created \in BOOLEAN
           /\ EmptyRow \in Rows
BY LedgerAssumption DEF LedgerInv, LedgerTypeOK, Rows, EmptyRow

\* A session that leaves, with whatever outcome or for another task, takes its lock
\* along and nothing else.
LEMMA LeavingKeepsLedger ==
    ASSUME LedgerInv, NEW s \in Sessions, NEW p \in {"idle"} \cup Outcomes,
           pc' = [pc EXCEPT ![s] = p],
           holder' = (IF holder = s THEN None ELSE holder),
           seen' = [seen EXCEPT ![s] = EmptyRow],
           UNCHANGED books,
           \/ UNCHANGED job
           \/ job' = [job EXCEPT ![s] = NoJob]
    PROVE  LedgerInv'
<1> USE LedgerFacts
<1>1. p # "locked" /\ NoJob \in Jobs
  BY LedgerAssumption DEF Outcomes, NoJob, Jobs, Ops
<1>2. /\ \A q \in Sessions : pc'[q] = "locked" <=> pc[q] = "locked" /\ q # s
      /\ \A q \in Sessions \ {s} : seen'[q] = seen[q] /\ job'[q] = job[q]
  BY <1>1
<1>3. LedgerTypeOK'
  BY <1>1 DEF LedgerTypeOK, books
<1>4. LockIsHeld'
  BY <1>2 DEF LedgerInv, LockIsHeld
<1>5. QED
  BY <1>2, <1>3, <1>4 DEF LedgerInv, SeenIsRow, FirstIsEmpty, BooksBalance, books

\* A session that is not at the row begins something else.
LEMMA BeginKeepsLedger ==
    ASSUME LedgerInv, NEW s \in Sessions, pc[s] # "locked", NEW j \in Jobs, Begin(s, j)
    PROVE  LedgerInv'
<1> USE LedgerFacts
<1>1. /\ \A q \in Sessions : pc'[q] = "locked" <=> pc[q] = "locked"
      /\ \A q \in Sessions \ {s} : job'[q] = job[q]
      /\ UNCHANGED <<holder, seen, books>>
  BY DEF Begin
<1>2. LedgerTypeOK'
  BY <1>1 DEF Begin, LedgerTypeOK, books, Open
<1>3. QED
  BY <1>1, <1>2 DEF LedgerInv, LockIsHeld, SeenIsRow, FirstIsEmpty, BooksBalance, books

\* The row is locked, or an insert of the first one is pending.
LEMMA LockKeepsLedger ==
    ASSUME LedgerInv, NEW s \in Sessions, holder = None, Lock(s, row),
           ~created \/ job[s].op # "view"
    PROVE  LedgerInv'
<1> USE LedgerFacts
<1>1. /\ \A q \in Sessions : pc'[q] = "locked" <=> q = s
      /\ seen'[s] = row
      /\ UNCHANGED <<books, job>>
  BY DEF Lock, LedgerInv, LockIsHeld
<1>2. LedgerTypeOK'
  BY <1>1 DEF Lock, LedgerTypeOK, books, Open
<1>3. LockIsHeld'
  BY <1>1 DEF Lock, LockIsHeld
<1>4. QED
  BY <1>1, <1>2, <1>3 DEF LedgerInv, SeenIsRow, FirstIsEmpty, BooksBalance, books

LEMMA Difference ==
    ASSUME NEW a \in Nat, NEW b \in Nat, b <= a
    PROVE  a - b \in Nat /\ b + (a - b) = a
OBVIOUS

\* A commit by the session that has the row.
LEMMA CommitKeepsLedger ==
    ASSUME LedgerInv, NEW s \in Sessions, pc[s] = "locked",
           NEW total \in Nat, NEW used \in Nat, used <= total, Commit(s, total, used),
           total = granted', granted' \in Nat, used <= spent', spent' \in Nat,
           usage' \in [Messages -> Nat]
    PROVE  LedgerInv'
<1>0. total - used \in Nat /\ used + (total - used) = total
  BY Difference
<1>1. /\ created' = TRUE
      /\ row' = [total |-> total, used |-> used, avail |-> total - used]
      /\ pc' = [pc EXCEPT ![s] = "committed"]
      /\ holder' = None
      /\ seen' = [seen EXCEPT ![s] = EmptyRow]
      /\ UNCHANGED job
  BY LedgerFacts DEF Commit, Leave, LedgerInv, LockIsHeld
<1>2. \A q \in Sessions : pc'[q] # "locked"
  BY <1>1, LedgerFacts DEF LedgerInv, LockIsHeld, Outcomes
<1>3. /\ row' \in Rows
      /\ row'.total = total /\ row'.used = used /\ row'.avail = total - used
  BY <1>0, <1>1 DEF Rows
<1>4. LedgerTypeOK'
  BY <1>1, <1>3, LedgerFacts DEF LedgerTypeOK, Outcomes
<1>5. BooksBalance'
  BY <1>0, <1>3 DEF BooksBalance
<1>6. QED
  BY <1>1, <1>2, <1>4, <1>5, LedgerFacts DEF LedgerInv, LockIsHeld, SeenIsRow, FirstIsEmpty

LEMMA LeaveKeepsLedger ==
    ASSUME LedgerInv, NEW s \in Sessions, NEW outcome \in Outcomes, Leave(s, outcome),
           UNCHANGED books
    PROVE  LedgerInv'
BY LeavingKeepsLedger DEF Leave

LEMMA SelectKeepsLedger ==
    ASSUME LedgerInv, NEW s \in Sessions, Select(s)
    PROVE  LedgerInv'
<1>1. CASE created /\ job[s].op # "view" /\ holder = None /\ Lock(s, row)
  BY <1>1, LockKeepsLedger
<1>2. CASE Leave(s, "nothing") /\ UNCHANGED books
  BY <1>2, LeaveKeepsLedger DEF Outcomes
<1>3. CASE /\ pc' = [pc EXCEPT ![s] = "missing"]
           /\ UNCHANGED <<books, holder, job, seen>>
  <2>1. pc[s] = "select"
    BY DEF Select
  <2>2. \A q \in Sessions : pc'[q] = "locked" <=> pc[q] = "locked"
    BY <1>3, <2>1, LedgerFacts
  <2>3. LedgerTypeOK'
    BY <1>3, LedgerFacts DEF LedgerTypeOK, books, Open
  <2>4. QED
    BY <1>3, <2>2, <2>3 DEF LedgerInv, LockIsHeld, SeenIsRow, FirstIsEmpty, BooksBalance, books
<1>4. QED
  BY <1>1, <1>2, <1>3 DEF Select

LEMMA InsertKeepsLedger ==
    ASSUME LedgerInv, NEW s \in Sessions, FindKnown(s) \/ Insert(s)
    PROVE  LedgerInv'
<1>1. CASE ~created /\ holder = None /\ Lock(s, EmptyRow)
  BY <1>1, LockKeepsLedger DEF LedgerInv, FirstIsEmpty
<1>2. CASE Leave(s, "permanent") /\ UNCHANGED books
  BY <1>2, LeaveKeepsLedger DEF Outcomes
<1>3. CASE FindKnown(s)
  BY <1>3, LeaveKeepsLedger DEF FindKnown, Outcomes
<1>4. QED
  BY <1>1, <1>2, <1>3 DEF Insert

\* What a session computes from: numbers that balance.
LEMMA SeenFacts ==
    ASSUME LedgerInv, NEW s \in Sessions, pc[s] = "locked"
    PROVE  /\ seen[s] = row
           /\ row.total \in Nat /\ row.used \in Nat /\ row.avail \in Nat
           /\ row.used + row.avail = row.total /\ row.total = granted /\ row.used <= spent
           /\ job[s].amount \in Nat
BY LedgerFacts DEF LedgerInv, SeenIsRow, BooksBalance, Rows, Jobs

LEMMA AddKeepsLedger ==
    ASSUME LedgerInv, NEW s \in Sessions, Add(s)
    PROVE  LedgerInv'
<1>1. pc[s] = "locked"
  BY DEF Add
<1> DEFINE total == seen[s].total + job[s].amount
           used  == seen[s].used
<1>2. /\ total \in Nat /\ used \in Nat /\ used <= total
      /\ total = granted' /\ granted' \in Nat /\ used <= spent' /\ spent' \in Nat
  BY <1>1, SeenFacts, LedgerFacts DEF Add
<1>3. Commit(s, total, used) /\ usage' \in [Messages -> Nat]
  BY LedgerFacts DEF Add
<1> HIDE DEF total, used
<1>4. QED
  BY <1>1, <1>2, <1>3, CommitKeepsLedger

LEMMA SpendKeepsLedger ==
    ASSUME LedgerInv, NEW s \in Sessions, pc[s] = "locked",
           job[s].amount <= seen[s].avail,
           Commit(s, seen[s].total, seen[s].used + job[s].amount),
           spent' = spent + job[s].amount, UNCHANGED granted,
           usage' \in [Messages -> Nat]
    PROVE  LedgerInv'
<1> DEFINE total == seen[s].total
           used  == seen[s].used + job[s].amount
<1>1. /\ total \in Nat /\ used \in Nat /\ used <= total
      /\ total = granted' /\ granted' \in Nat /\ used <= spent' /\ spent' \in Nat
  BY SeenFacts, LedgerFacts
<1>2. Commit(s, total, used)
  OBVIOUS
<1> HIDE DEF total, used
<1>3. QED
  BY <1>1, <1>2, CommitKeepsLedger

LEMMA DeductKeepsLedger ==
    ASSUME LedgerInv, NEW s \in Sessions, Deduct(s)
    PROVE  LedgerInv'
<1>1. CASE Leave(s, "short") /\ UNCHANGED books
  BY <1>1, LeaveKeepsLedger DEF Outcomes
<1>2. CASE ~(seen[s].avail < job[s].amount)
  <2>1. job[s].amount <= seen[s].avail
    BY <1>2, SeenFacts DEF Deduct
  <2>2. QED
    BY <1>2, <2>1, SpendKeepsLedger, LedgerFacts DEF Deduct
<1>3. QED
  BY <1>1, <1>2 DEF Deduct

LEMMA ChargeKeepsLedger ==
    ASSUME LedgerInv, NEW s \in Sessions, DeductIdempotent(s)
    PROVE  LedgerInv'
<1>1. CASE \E o \in {"nothing", "short"} : Leave(s, o) /\ UNCHANGED books
  BY <1>1, LeaveKeepsLedger DEF Outcomes
<1>2. CASE ~Known(s) /\ ~(seen[s].avail < job[s].amount)
  <2>1. job[s].amount <= seen[s].avail
    BY <1>2, SeenFacts DEF DeductIdempotent
  <2>2. usage' \in [Messages -> Nat]
    BY <1>2, LedgerFacts DEF DeductIdempotent
  <2>3. QED
    BY <1>2, <2>1, <2>2, SpendKeepsLedger DEF DeductIdempotent
<1>3. QED
  BY <1>1, <1>2 DEF DeductIdempotent

LEMMA ResetKeepsLedger ==
    ASSUME LedgerInv, NEW s \in Sessions, ResetUsage(s)
    PROVE  LedgerInv'
<1>1. pc[s] = "locked"
  BY DEF ResetUsage
<1>2. /\ seen[s].total \in Nat /\ 0 \in Nat /\ 0 <= seen[s].total
      /\ seen[s].total = granted' /\ granted' \in Nat /\ 0 <= spent' /\ spent' \in Nat
  BY <1>1, SeenFacts, LedgerFacts DEF ResetUsage
<1>3. Commit(s, seen[s].total, 0) /\ usage' \in [Messages -> Nat]
  BY LedgerFacts DEF ResetUsage
<1>4. QED
  BY <1>1, <1>2, <1>3, CommitKeepsLedger

LEMMA CreateKeepsLedger ==
    ASSUME LedgerInv, NEW s \in Sessions, Create(s)
    PROVE  LedgerInv'
<1>1. pc[s] = "locked" /\ row = EmptyRow
  BY DEF Create, LedgerInv, FirstIsEmpty
<1>2. /\ 0 \in Nat /\ 0 <= 0
      /\ 0 = granted' /\ granted' \in Nat /\ 0 <= spent' /\ spent' \in Nat
  BY <1>1, SeenFacts, LedgerFacts DEF Create, EmptyRow
<1>3. Commit(s, 0, 0) /\ usage' \in [Messages -> Nat]
  BY LedgerFacts DEF Create
<1>4. QED
  BY <1>1, <1>2, <1>3, CommitKeepsLedger

LEMMA WorkKeepsLedger ==
    ASSUME LedgerInv, NEW s \in Sessions, Work(s)
    PROVE  LedgerInv'
BY SelectKeepsLedger, InsertKeepsLedger, AddKeepsLedger, DeductKeepsLedger, ChargeKeepsLedger,
   ResetKeepsLedger, CreateKeepsLedger
   DEF Work, Finish

-------------------------------------------------------------------------------
(* The refinement: a session that works makes a step of the account, or none *)
(* that the account can see.                                                 *)

JobsInv == WorkersCharge /\ RequestsAsk

\* Who works on the row does one of five things, each for an amount that is allowed.
LEMMA JobFacts ==
    ASSUME JobsInv, NEW s \in Sessions, pc[s] # "idle"
    PROVE  /\ job[s].op = "charge" =>
                /\ s \in Workers
                /\ job[s].msg \in Messages
                /\ job[s].amount = Cost
           /\ job[s].op = "add" => job[s].amount \in {TopUp, Plan}
           /\ job[s].op = "deduct" => job[s].amount = Price
           /\ s \in Workers => job[s].op = "charge"
<1>1. CASE s \in Workers
  <2>1. PICK m \in Messages : job[s] = [op |-> "charge", amount |-> Cost, msg |-> m]
    BY <1>1 DEF JobsInv, WorkersCharge, Charge
  <2>2. QED
    BY <1>1, <2>1
<1>2. CASE s \in Requests
  <2>1. s \notin Workers
    BY <1>2, BillingAssumption
  <2>2. QED
    BY <1>2, <2>1 DEF JobsInv, RequestsAsk, NoJob, Do
<1>3. QED
  BY <1>1, <1>2, BillingAssumption

\* What a commit leaves in the row.
LEMMA CommitFacts ==
    ASSUME NEW s, NEW total, NEW used, Commit(s, total, used)
    PROVE  row'.total = total /\ row'.used = used /\ row'.avail = total - used
BY DEF Commit

LEMMA AddIsGrant ==
    ASSUME LedgerInv, JobsInv, NEW s \in Sessions, Add(s)
    PROVE  TheAccount!Next
<1>1. pc[s] = "locked" /\ job[s].amount \in {TopUp, Plan}
  BY JobFacts DEF Add
<1>2. row'.used = row.used /\ row'.avail = row.avail + job[s].amount
  BY <1>1, SeenFacts, CommitFacts DEF Add
<1>3. Charged' = Charged
  BY DEF Add, Charged
<1>4. TheAccount!Grant(job[s].amount)
  BY <1>2, <1>3 DEF TheAccount!Grant
<1>5. QED
  BY <1>1, <1>4 DEF TheAccount!Next

LEMMA SpendIsPay ==
    ASSUME LedgerInv, NEW s \in Sessions, pc[s] = "locked",
           ~(seen[s].avail < job[s].amount),
           Commit(s, seen[s].total, seen[s].used + job[s].amount)
    PROVE  TheAccount!Pay(job[s].amount)
<1>1. /\ row'.used = row.used + job[s].amount
      /\ row'.avail = row.avail - job[s].amount
      /\ job[s].amount <= row.avail
  BY SeenFacts, CommitFacts
<1>2. QED
  BY <1>1 DEF TheAccount!Pay

LEMMA DeductIsPurchase ==
    ASSUME LedgerInv, JobsInv, NEW s \in Sessions, Deduct(s)
    PROVE  \/ TheAccount!Next
           \/ UNCHANGED <<row, usage>>
<1>1. pc[s] = "locked" /\ job[s].amount = Price
  BY JobFacts DEF Deduct
<1>2. CASE ~(seen[s].avail < job[s].amount)
  <2>1. TheAccount!Pay(Price)
    BY <1>1, <1>2, SpendIsPay DEF Deduct
  <2>2. Charged' = Charged
    BY <1>2 DEF Deduct, Charged
  <2>3. TheAccount!Purchase(Price)
    BY <2>1, <2>2 DEF TheAccount!Purchase
  <2>4. QED
    BY <2>3 DEF TheAccount!Next
<1>3. CASE seen[s].avail < job[s].amount
  BY <1>3 DEF Deduct, books
<1>4. QED
  BY <1>2, <1>3

LEMMA ChargeIsBill ==
    ASSUME LedgerInv, JobsInv, NEW s \in Sessions, DeductIdempotent(s)
    PROVE  \/ TheAccount!Next
           \/ UNCHANGED <<row, usage>>
<1>1. pc[s] = "locked" /\ job[s].amount = Cost /\ job[s].msg \in Messages
  BY JobFacts DEF DeductIdempotent
<1>2. CASE ~Known(s) /\ ~(seen[s].avail < job[s].amount)
  <2>1. TheAccount!Pay(Cost)
    BY <1>1, <1>2, SpendIsPay DEF DeductIdempotent
  <2>2. usage[job[s].msg] = 0
    BY <1>1, <1>2, LedgerFacts DEF Known, SameKey
  <2>3. usage' = [usage EXCEPT ![job[s].msg] = 1]
    BY <1>2, <2>2 DEF DeductIdempotent
  <2>4. job[s].msg \notin Charged /\ Charged' = Charged \cup {job[s].msg}
    BY <1>1, <2>2, <2>3, LedgerFacts DEF Charged
  <2>5. TheAccount!Bill(job[s].msg)
    BY <2>1, <2>4 DEF TheAccount!Bill
  <2>6. QED
    BY <1>1, <2>5 DEF TheAccount!Next
<1>3. CASE Known(s) \/ seen[s].avail < job[s].amount
  BY <1>3 DEF DeductIdempotent, books
<1>4. QED
  BY <1>2, <1>3

LEMMA ResetIsRenew ==
    ASSUME LedgerInv, NEW s \in Sessions, ResetUsage(s)
    PROVE  TheAccount!Next
<1>1. row'.used = 0 /\ row'.avail = row.avail + row.used
  BY SeenFacts, CommitFacts DEF ResetUsage
<1>2. Charged' = Charged
  BY DEF ResetUsage, Charged
<1>3. QED
  BY <1>1, <1>2 DEF TheAccount!Next, TheAccount!Renew

LEMMA CreateIsNothing ==
    ASSUME LedgerInv, NEW s \in Sessions, Create(s)
    PROVE  UNCHANGED <<row, usage>>
<1>1. row = [total |-> 0, used |-> 0, avail |-> 0]
  BY DEF Create, LedgerInv, FirstIsEmpty, EmptyRow
<1>2. row' = [total |-> 0, used |-> 0, avail |-> 0]
  BY DEF Create, Commit
<1>3. QED
  BY <1>1, <1>2 DEF Create

LEMMA WorkIsAccount ==
    ASSUME LedgerInv, JobsInv, NEW s \in Sessions, Work(s)
    PROVE  \/ TheAccount!Next
           \/ UNCHANGED <<row, usage>>
<1>1. CASE Select(s) \/ FindKnown(s) \/ Insert(s)
  BY <1>1 DEF Select, FindKnown, Insert, Lock, books
<1>2. CASE Finish(s)
  BY <1>2, AddIsGrant, DeductIsPurchase, ChargeIsBill, ResetIsRenew, CreateIsNothing DEF Finish
<1>3. QED
  BY <1>1, <1>2 DEF Work

-------------------------------------------------------------------------------
(* Every step keeps the ledger in order.                                     *)

LEMMA JobsAsked ==
    /\ NoJob \in Jobs
    /\ \A m \in Messages : Charge(m) \in Jobs
    /\ \A n \in Nat, o \in Ops : Do(o, n) \in Jobs
BY LedgerAssumption DEF NoJob, Charge, Do, Jobs, Ops

LEMMA IdleKeepsLedger ==
    ASSUME LedgerInv, UNCHANGED ledgerVars
    PROVE  LedgerInv'
BY DEF LedgerInv, LedgerTypeOK, BooksBalance, LockIsHeld, SeenIsRow, FirstIsEmpty, ledgerVars, books

LEMMA FreeKeepsLedger ==
    ASSUME LedgerInv, NEW w \in Sessions, Free(w)
    PROVE  LedgerInv'
BY LeavingKeepsLedger DEF Free

\* A session that has left holds nothing and has read nothing that counts.
LEMMA RespondKeepsLedger ==
    ASSUME LedgerInv, NEW r \in Sessions, Respond(r)
    PROVE  LedgerInv'
<1>1. /\ \A q \in Sessions : pc'[q] = "locked" <=> pc[q] = "locked"
      /\ \A q \in Sessions \ {r} : job'[q] = job[q]
      /\ pc'[r] # "locked"
      /\ UNCHANGED <<holder, seen, books>>
  BY LedgerFacts DEF Respond, Outcomes
<1>2. LedgerTypeOK'
  BY <1>1, LedgerFacts, JobsAsked DEF Respond, LedgerTypeOK, books
<1>3. QED
  BY <1>1, <1>2 DEF LedgerInv, LockIsHeld, SeenIsRow, FirstIsEmpty, BooksBalance, books

LEMMA WorkerKeepsLedger ==
    ASSUME LedgerInv, NEW w \in Workers, WorkerNext(w)
    PROVE  LedgerInv'
<1>0. w \in Sessions
  BY BillingAssumption
<1>1. ASSUME NEW m \in Messages, NEW k \in 0..MaxRetries, Take(w, m, k)
      PROVE  LedgerInv'
  <2>1. pc[w] # "locked" /\ Begin(w, Charge(m))
    BY <1>1 DEF Take
  <2>2. QED
    BY <1>0, <2>1, JobsAsked, BeginKeepsLedger
<1>2. CASE Free(w)
  BY <1>0, <1>2, FreeKeepsLedger
<1>3. CASE TaskRaises(w)
  BY <1>0, <1>3, LeaveKeepsLedger DEF TaskRaises, Outcomes
<1>4. QED
  BY <1>1, <1>2, <1>3 DEF WorkerNext, TaskEnds, Retry, StoreFailed, TaskLost, WorkerDies

LEMMA RequestKeepsLedger ==
    ASSUME LedgerInv, JobsInv, NEW r \in Requests, RequestNext(r)
    PROVE  LedgerInv'
<1>0. r \in Sessions
  BY BillingAssumption
<1>1. CASE Request(r)
  <2>1. PICK j \in Jobs : Begin(r, j)
    BY <1>1, JobsAsked, BillingAssumption DEF Request, Ops
  <2>2. QED
    BY <1>0, <1>1, <2>1, BeginKeepsLedger DEF Request, JobsInv, RequestsAsk
<1>2. CASE Allocate(r)
  <2>1. Do("add", Plan) \in Jobs
    BY JobsAsked, BillingAssumption DEF Ops
  <2>2. QED
    BY <1>0, <1>2, <2>1, BeginKeepsLedger DEF Allocate
<1>3. CASE Respond(r)
  BY <1>0, <1>3, RespondKeepsLedger
<1>4. CASE RequestDies(r)
  BY <1>0, <1>4, LeavingKeepsLedger DEF RequestDies
<1>5. QED
  BY <1>1, <1>2, <1>3, <1>4 DEF RequestNext

LEMMA NextKeepsLedger ==
    ASSUME LedgerInv, JobsInv, [Next]_vars
    PROVE  LedgerInv'
<1>1. CASE UNCHANGED ledgerVars
  BY <1>1, IdleKeepsLedger
<1>2. ASSUME NEW s \in Sessions, Step(s)
      PROVE  LedgerInv'
  BY <1>2, WorkKeepsLedger DEF Step
<1>3. ASSUME NEW w \in Workers, WorkerNext(w)
      PROVE  LedgerInv'
  BY <1>3, WorkerKeepsLedger
<1>4. ASSUME NEW r \in Requests, RequestNext(r)
      PROVE  LedgerInv'
  BY <1>4, RequestKeepsLedger
<1>5. CASE \/ RunNext
           \/ \E m \in Messages : SaveMessage(m) \/ SaveUnqueued(m)
  <2>1. UNCHANGED ledgerVars
    BY <1>5 DEF RunNext, SaveMessage, SaveUnqueued, RequeueFailed, RequeueFailedHalf, OutliveRange,
        FindMissing, FindNothing, RequeueFound, LoseFound, RunDies, HourPasses
  <2>2. QED
    BY <2>1, <1>1
<1>6. CASE UNCHANGED vars
  BY <1>1, <1>6 DEF vars
<1>7. QED
  BY <1>2, <1>3, <1>4, <1>5, <1>6 DEF Next

-------------------------------------------------------------------------------
(* Workers charge, requests ask for what they may.                           *)

\* A session that works keeps its job and does not become idle.
LEMMA WorkEffect ==
    ASSUME LedgerInv, NEW s \in Sessions, Work(s)
    PROVE  /\ UNCHANGED job
           /\ pc[s] \in Open
           /\ pc'[s] \in {"missing", "locked"} \cup Outcomes
           /\ \A q \in Sessions \ {s} : pc'[q] = pc[q]
<1>1. CASE Select(s) \/ FindKnown(s) \/ Insert(s)
  BY <1>1, LedgerFacts DEF Select, FindKnown, Insert, Lock, Leave, Open, Outcomes
<1>2. CASE Finish(s)
  BY <1>2, LedgerFacts
     DEF Finish, Add, Deduct, DeductIdempotent, ResetUsage, Create, Commit, Leave, Open, Outcomes
<1>3. QED
  BY <1>1, <1>2 DEF Work

LEMMA WorkKeepsJobs ==
    ASSUME LedgerInv, JobsInv, NEW s \in Sessions, Step(s)
    PROVE  JobsInv'
<1>1. /\ UNCHANGED <<job, stage>>
      /\ pc[s] # "idle"
      /\ \A q \in Sessions \ {s} : pc'[q] = pc[q]
  BY WorkEffect DEF Step, Open
<1>2. QED
  BY <1>1, BillingAssumption DEF JobsInv, WorkersCharge, RequestsAsk

LEMMA WorkerKeepsJobs ==
    ASSUME LedgerInv, JobsInv, NEW w \in Workers, WorkerNext(w)
    PROVE  JobsInv'
<1>0. /\ w \in Sessions /\ Workers \subseteq Sessions /\ Requests \subseteq Sessions
      /\ \A r \in Requests : r # w
  BY BillingAssumption
<1>1. ASSUME NEW m \in Messages, NEW k \in 0..MaxRetries, Take(w, m, k)
      PROVE  JobsInv'
  <2>1. /\ \A q \in Sessions \ {w} : pc'[q] = pc[q] /\ job'[q] = job[q]
        /\ job'[w] = Charge(m)
        /\ UNCHANGED stage
    BY <1>0, <1>1, LedgerFacts DEF Take, Begin
  <2>2. QED
    BY <1>0, <2>1 DEF JobsInv, WorkersCharge, RequestsAsk
<1>2. CASE Free(w) /\ UNCHANGED stage
  <2>1. /\ \A q \in Sessions \ {w} : pc'[q] = pc[q] /\ job'[q] = job[q]
        /\ pc'[w] = "idle"
    BY <1>0, <1>2, LedgerFacts DEF Free
  <2>2. QED
    BY <1>0, <1>2, <2>1 DEF JobsInv, WorkersCharge, RequestsAsk
<1>3. CASE TaskRaises(w)
  <2>1. /\ \A q \in Sessions \ {w} : pc'[q] = pc[q]
        /\ pc[w] # "idle"
        /\ UNCHANGED <<job, stage>>
    BY <1>0, <1>3, LedgerFacts DEF TaskRaises, Leave, Open
  <2>2. QED
    BY <1>0, <2>1 DEF JobsInv, WorkersCharge, RequestsAsk
<1>4. QED
  BY <1>1, <1>2, <1>3 DEF WorkerNext, TaskEnds, Retry, StoreFailed, TaskLost, WorkerDies

LEMMA RequestKeepsJobs ==
    ASSUME LedgerInv, JobsInv, NEW r \in Requests, RequestNext(r), stage \in [Requests -> Stages]
    PROVE  JobsInv'
<1>0. /\ r \in Sessions /\ Workers \subseteq Sessions /\ Requests \subseteq Sessions
      /\ \A w \in Workers : w # r
  BY BillingAssumption
<1>1. /\ \A q \in Sessions \ {r} : pc'[q] = pc[q] /\ job'[q] = job[q]
      /\ \A q \in Requests \ {r} : stage'[q] = stage[q]
  BY <1>0, LedgerFacts DEF RequestNext, Request, Allocate, Respond, RequestDies, Begin
<1>2. job'[r] \in {NoJob, Do("add", TopUp), Do("add", Plan), Do("deduct", Price),
                   Do("view", 0), Do("reset", 0)}
  BY <1>0, LedgerFacts DEF RequestNext, Request, Allocate, Respond, RequestDies, Begin
<1>3. stage'[r] # "new"
  BY <1>0 DEF RequestNext, Request, Allocate, Respond, RequestDies, Begin
<1>4. QED
  BY <1>0, <1>1, <1>2, <1>3 DEF JobsInv, WorkersCharge, RequestsAsk

LEMMA NextKeepsJobs ==
    ASSUME LedgerInv, JobsInv, stage \in [Requests -> Stages], [Next]_vars
    PROVE  JobsInv'
<1>1. CASE UNCHANGED <<ledgerVars, stage>>
  BY <1>1 DEF ledgerVars, JobsInv, WorkersCharge, RequestsAsk
<1>2. ASSUME NEW s \in Sessions, Step(s)
      PROVE  JobsInv'
  BY <1>2, WorkKeepsJobs
<1>3. ASSUME NEW w \in Workers, WorkerNext(w)
      PROVE  JobsInv'
  BY <1>3, WorkerKeepsJobs
<1>4. ASSUME NEW r \in Requests, RequestNext(r)
      PROVE  JobsInv'
  BY <1>4, RequestKeepsJobs
<1>5. CASE \/ RunNext
           \/ \E m \in Messages : SaveMessage(m) \/ SaveUnqueued(m)
  <2>1. UNCHANGED <<ledgerVars, stage>>
    BY <1>5 DEF RunNext, SaveMessage, SaveUnqueued, RequeueFailed, RequeueFailedHalf, OutliveRange,
        FindMissing, FindNothing, RequeueFound, LoseFound, RunDies, HourPasses
  <2>2. QED
    BY <2>1, <1>1
<1>6. CASE UNCHANGED vars
  BY <1>1, <1>6 DEF vars
<1>7. QED
  BY <1>2, <1>3, <1>4, <1>5, <1>6 DEF Next

-------------------------------------------------------------------------------
(* Types.                                                                    *)

\* The types of what the ledger does not know about.
TasksTypeOK ==
    /\ queue \in [Messages \X (0..MaxRetries) -> Nat]
    /\ retries \in [Workers -> 0..MaxRetries]
    /\ failed \subseteq Messages \X (0..2)
    /\ saved \subseteq Messages
    /\ age \in [Messages -> 0..Old]
    /\ hour \in 0..DayHours - 1
    /\ run \in {"failed", "found"}
    /\ found \subseteq Messages
    /\ stage \in [Requests -> Stages]
    /\ refused \subseteq Messages
    /\ forsaken \subseteq Messages
    /\ faults \in 0..MaxFaults

LEMMA TypeParts == TypeOK <=> LedgerTypeOK /\ TasksTypeOK
BY DEF TypeOK, TasksTypeOK

LEMMA FaultCounts ==
    ASSUME TasksTypeOK, Fault
    PROVE  faults' \in 0..MaxFaults
BY BillingAssumption DEF TasksTypeOK, Fault

LEMMA EnqueueCounts ==
    ASSUME TasksTypeOK, NEW m \in Messages, NEW k \in 0..MaxRetries, Enqueue(m, k)
    PROVE  queue' \in [Messages \X (0..MaxRetries) -> Nat]
BY DEF TasksTypeOK, Enqueue

LEMMA Constants ==
    /\ 0 \in 0..MaxRetries /\ 0 \in 0..2 /\ 0 \in 0..DayHours - 1
    /\ DayHours \in Nat /\ Old \in Nat /\ DayHours < Old /\ 2 <= DayHours
BY BillingAssumption DEF Old

LEMMA WorkersMessage ==
    ASSUME JobsInv, NEW w \in Workers, pc[w] # "idle"
    PROVE  Message(w) \in Messages
<1>1. PICK m \in Messages : job[w] = [op |-> "charge", amount |-> Cost, msg |-> m]
  BY DEF JobsInv, WorkersCharge, Charge
<1>2. QED
  BY <1>1 DEF Message

LEMMA WorkerKeepsTypes ==
    ASSUME TasksTypeOK, JobsInv, NEW w \in Workers, WorkerNext(w)
    PROVE  TasksTypeOK'
<1>1. ASSUME NEW m \in Messages, NEW k \in 0..MaxRetries, Take(w, m, k)
      PROVE  TasksTypeOK'
  <2>1. queue' \in [Messages \X (0..MaxRetries) -> Nat]
    BY <1>1 DEF Take, TasksTypeOK
  <2>2. retries' \in [Workers -> 0..MaxRetries]
    BY <1>1 DEF Take, TasksTypeOK
  <2>3. QED
    BY <1>1, <2>1, <2>2 DEF Take, TasksTypeOK, clockVars
<1>2. ASSUME Free(w)
      PROVE  retries' \in [Workers -> 0..MaxRetries]
  BY <1>2, Constants DEF Free, TasksTypeOK
<1>3. CASE TaskEnds(w)
  <2>1. refused' \subseteq Messages
    BY <1>3, WorkersMessage DEF TaskEnds, TasksTypeOK
  <2>2. QED
    BY <1>2, <1>3, <2>1 DEF TaskEnds, TasksTypeOK, clockVars
<1>4. CASE TaskRaises(w)
  BY <1>4, FaultCounts DEF TaskRaises, TasksTypeOK, clockVars, taskVars
<1>5. CASE Retry(w)
  <2>1. Message(w) \in Messages /\ retries[w] + 1 \in 0..MaxRetries
    BY <1>5, WorkersMessage, BillingAssumption DEF Retry, Retryable, TasksTypeOK
  <2>2. queue' \in [Messages \X (0..MaxRetries) -> Nat]
    BY <1>5, <2>1, EnqueueCounts DEF Retry
  <2>3. QED
    BY <1>2, <1>5, <2>2 DEF Retry, TasksTypeOK, clockVars
<1>6. CASE StoreFailed(w)
  <2>1. <<Message(w), 0>> \in Messages \X (0..2)
    BY <1>6, WorkersMessage, Constants DEF StoreFailed
  <2>2. QED
    BY <1>2, <1>6, <2>1 DEF StoreFailed, TasksTypeOK, clockVars
<1>7. CASE TaskLost(w)
  <2>1. Message(w) \in Messages /\ faults' \in 0..MaxFaults
    BY <1>7, WorkersMessage, FaultCounts DEF TaskLost
  <2>2. QED
    BY <1>2, <1>7, <2>1 DEF TaskLost, Lose, TasksTypeOK, clockVars
<1>8. CASE WorkerDies(w)
  <2>1. Message(w) \in Messages /\ retries[w] \in 0..MaxRetries /\ faults' \in 0..MaxFaults
    BY <1>8, WorkersMessage, FaultCounts DEF WorkerDies, TasksTypeOK
  <2>2. queue' \in [Messages \X (0..MaxRetries) -> Nat]
    BY <1>8, <2>1, EnqueueCounts DEF WorkerDies
  <2>3. QED
    BY <1>2, <1>8, <2>1, <2>2 DEF WorkerDies, TasksTypeOK, clockVars
<1>9. QED
  BY <1>1, <1>3, <1>4, <1>5, <1>6, <1>7, <1>8 DEF WorkerNext

LEMMA RunKeepsTypes ==
    ASSUME TasksTypeOK, RunNext
    PROVE  TasksTypeOK'
<1>1. ASSUME NEW m \in Messages, RequeueFailed(m)
      PROVE  TasksTypeOK'
  <2>1. queue' \in [Messages \X (0..MaxRetries) -> Nat]
    BY <1>1, EnqueueCounts, Constants DEF RequeueFailed
  <2>2. QED
    BY <1>1, <2>1 DEF RequeueFailed, TasksTypeOK, clockVars
<1>2. ASSUME NEW m \in Messages, RequeueFailedHalf(m)
      PROVE  TasksTypeOK'
  <2>1. queue' \in [Messages \X (0..MaxRetries) -> Nat]
    BY <1>2, EnqueueCounts, Constants DEF RequeueFailedHalf, TasksTypeOK
  <2>2. failed' \subseteq Messages \X (0..2)
    BY <1>2, Constants DEF RequeueFailedHalf, TasksTypeOK
  <2>3. faults' \in 0..MaxFaults
    BY <1>2, FaultCounts DEF RequeueFailedHalf
  <2>4. QED
    BY <1>2, <2>1, <2>2, <2>3 DEF RequeueFailedHalf, TasksTypeOK, clockVars
<1>3. CASE FindMissing
  BY <1>3 DEF FindMissing, Missing, TasksTypeOK
<1>4. CASE FindNothing
  BY <1>4, FaultCounts DEF FindNothing, Missing, TasksTypeOK, taskVars
<1>5. ASSUME NEW m \in Messages, RequeueFound(m)
      PROVE  TasksTypeOK'
  <2>1. queue' \in [Messages \X (0..MaxRetries) -> Nat]
    BY <1>5, EnqueueCounts, Constants DEF RequeueFound
  <2>2. QED
    BY <1>5, <2>1 DEF RequeueFound, TasksTypeOK, clockVars
<1>6. ASSUME NEW m \in Messages, LoseFound(m)
      PROVE  TasksTypeOK'
  BY <1>6, FaultCounts DEF LoseFound, Lose, TasksTypeOK, clockVars
<1>7. CASE RunDies
  BY <1>7, FaultCounts DEF RunDies, TasksTypeOK
<1>8. CASE HourPasses
  <2>1. hour' \in 0..DayHours - 1
    BY <1>8, BillingAssumption DEF HourPasses, TasksTypeOK
  <2>2. age' \in [Messages -> 0..Old]
    BY <1>8, Constants DEF HourPasses, TasksTypeOK
  <2>3. failed' \subseteq Messages \X (0..2)
    BY <1>8 DEF HourPasses, TasksTypeOK
  <2>4. QED
    BY <1>8, <2>1, <2>2, <2>3 DEF HourPasses, TasksTypeOK
<1>9. ASSUME NEW m \in Messages, OutliveRange(m)
      PROVE  TasksTypeOK'
  BY <1>9, FaultCounts DEF OutliveRange, Lose, TasksTypeOK, clockVars
<1>10. QED
  BY <1>1, <1>2, <1>3, <1>4, <1>5, <1>6, <1>7, <1>8, <1>9 DEF RunNext

LEMMA NextKeepsTypes ==
    ASSUME TasksTypeOK, JobsInv, [Next]_vars
    PROVE  TasksTypeOK'
<1>1. ASSUME NEW m \in Messages, SaveMessage(m)
      PROVE  TasksTypeOK'
  <2>1. queue' \in [Messages \X (0..MaxRetries) -> Nat]
    BY <1>1, EnqueueCounts, Constants DEF SaveMessage
  <2>2. QED
    BY <1>1, <2>1 DEF SaveMessage, TasksTypeOK
<1>2. ASSUME NEW m \in Messages, SaveUnqueued(m)
      PROVE  TasksTypeOK'
  BY <1>2, FaultCounts DEF SaveUnqueued, Lose, TasksTypeOK, taskVars
<1>3. ASSUME NEW s \in Sessions, Step(s)
      PROVE  TasksTypeOK'
  BY <1>3 DEF Step, TasksTypeOK, taskVars, clockVars
<1>4. ASSUME NEW r \in Requests, RequestNext(r)
      PROVE  TasksTypeOK'
  <2>1. stage' \in [Requests -> Stages]
    BY <1>4 DEF RequestNext, Request, Allocate, Respond, RequestDies, TasksTypeOK, Stages
  <2>2. faults' \in 0..MaxFaults
    BY <1>4, FaultCounts DEF RequestNext, Request, Allocate, Respond, RequestDies, TasksTypeOK
  <2>3. UNCHANGED <<taskVars, clockVars, refused, forsaken>>
    BY <1>4 DEF RequestNext, Request, Allocate, Respond, RequestDies
  <2>4. QED
    BY <2>1, <2>2, <2>3 DEF TasksTypeOK, taskVars, clockVars
<1>5. CASE UNCHANGED vars
  BY <1>5 DEF vars, TasksTypeOK, taskVars, clockVars
<1>6. QED
  BY <1>1, <1>2, <1>3, <1>4, <1>5, WorkerKeepsTypes, RunKeepsTypes DEF Next

-------------------------------------------------------------------------------
(* The daily run keeps to its hour, and a task that ends was paid.           *)

LEMMA NextKeepsHour ==
    ASSUME TasksTypeOK, RunIsAtHour0, [Next]_vars
    PROVE  RunIsAtHour0'
<1>1. CASE UNCHANGED <<run, hour, age, found>>
  BY <1>1 DEF RunIsAtHour0
<1>2. CASE RunNext
  <2>1. CASE FindMissing \/ FindNothing
    <3>1. /\ hour = 0 /\ run' = "found"
          /\ UNCHANGED <<hour, age>>
      BY <2>1 DEF FindMissing, FindNothing, RunIsAtHour0
    <3>2. \A m \in found' : InWindow(age[m])
      <4>1. found' \subseteq Missing \/ found' = {}
        BY <2>1 DEF FindMissing, FindNothing, RunIsAtHour0, taskVars
      <4>2. QED
        BY <4>1 DEF Missing
    <3>3. QED
      BY <3>1, <3>2 DEF RunIsAtHour0, InWindow
  <2>2. CASE RunDies
    BY <2>2 DEF RunDies, RunIsAtHour0
  <2>3. CASE HourPasses
    BY <2>3 DEF HourPasses, RunIsAtHour0
  <2>4. CASE \E m \in Messages : RequeueFound(m) \/ LoseFound(m)
    BY <2>4 DEF RequeueFound, LoseFound, clockVars, RunIsAtHour0
  <2>5. CASE \E m \in Messages : RequeueFailed(m) \/ RequeueFailedHalf(m) \/ OutliveRange(m)
    BY <2>5, <1>1 DEF RequeueFailed, RequeueFailedHalf, OutliveRange, clockVars
  <2>6. QED
    BY <1>2, <2>1, <2>2, <2>3, <2>4, <2>5 DEF RunNext
<1>3. CASE ~RunNext
  <2>1. UNCHANGED <<run, hour, age, found>>
    BY <1>3 DEF Next, vars, SaveMessage, SaveUnqueued, Step, WorkerNext, Take, TaskEnds,
        TaskRaises, Retry, StoreFailed, TaskLost, WorkerDies, RequestNext, Request, Allocate,
        Respond, RequestDies, clockVars, taskVars
  <2>2. QED
    BY <1>1, <2>1
<1>4. QED
  BY <1>2, <1>3

\* What a working session does to the charges: none is taken back, and a worker that
\* is done has charged or found the charge.
LEMMA WorkCharges ==
    ASSUME LedgerInv, JobsInv, NEW s \in Sessions, Work(s)
    PROVE  /\ \A m \in Messages : usage[m] > 0 => usage'[m] > 0
           /\ s \in Workers /\ pc'[s] \in {"committed", "nothing"} => usage'[Message(s)'] > 0
<1>1. /\ pc[s] # "idle" /\ UNCHANGED job
      /\ s \in Workers => job[s].op = "charge" /\ job[s].msg \in Messages
  BY WorkEffect, JobFacts DEF Open
<1>2. CASE Select(s) \/ FindKnown(s) \/ Insert(s)
  <2>1. UNCHANGED usage
    BY <1>2 DEF Select, FindKnown, Insert, Lock, books
  <2>2. s \in Workers /\ pc'[s] \in {"committed", "nothing"} => FindKnown(s)
    BY <1>1, <1>2, LedgerFacts DEF Select, Insert, Lock, Leave
  <2>3. FindKnown(s) => usage[job[s].msg] > 0
    BY DEF FindKnown, Known, SameKey
  <2>4. QED
    BY <1>1, <2>1, <2>2, <2>3 DEF Message
<1>3. CASE DeductIdempotent(s)
  <2>1. CASE Known(s)
    BY <1>1, <1>3, <2>1 DEF DeductIdempotent, Known, SameKey, books, Message
  <2>2. CASE ~Known(s) /\ seen[s].avail < job[s].amount
    BY <1>3, <2>2, LedgerFacts DEF DeductIdempotent, Leave, books
  <2>3. CASE ~Known(s) /\ ~(seen[s].avail < job[s].amount)
    <3>1. job[s].msg \in Messages
      BY <1>1, <1>3, JobFacts DEF DeductIdempotent
    <3>2. usage' = [usage EXCEPT ![job[s].msg] = @ + 1]
      BY <1>3, <2>3 DEF DeductIdempotent
    <3>3. /\ usage'[job[s].msg] > 0
          /\ \A m \in Messages : usage[m] > 0 => usage'[m] > 0
      BY <3>1, <3>2, LedgerFacts
    <3>4. QED
      BY <1>1, <3>3 DEF Message
  <2>4. QED
    BY <2>1, <2>2, <2>3
<1>4. CASE Add(s) \/ Deduct(s) \/ ResetUsage(s) \/ Create(s)
  BY <1>1, <1>4 DEF Add, Deduct, ResetUsage, Create, books
<1>5. QED
  BY <1>2, <1>3, <1>4 DEF Work, Finish

LEMMA NextKeepsPaid ==
    ASSUME LedgerInv, JobsInv, DoneIsPaid, [Next]_vars
    PROVE  DoneIsPaid'
<1>0. Workers \subseteq Sessions /\ Workers \cap Requests = {}
  BY BillingAssumption
<1>1. ASSUME UNCHANGED <<usage>>,
             \A w \in Workers : \/ pc'[w] = pc[w] /\ job'[w] = job[w]
                                \/ pc'[w] \notin {"committed", "nothing"}
      PROVE  DoneIsPaid'
  BY <1>1 DEF DoneIsPaid, Message
<1>2. ASSUME NEW s \in Sessions, Step(s)
      PROVE  DoneIsPaid'
  <2>1. SUFFICES ASSUME NEW w \in Workers, pc'[w] \in {"committed", "nothing"}
                 PROVE  usage'[Message(w)'] > 0
    BY DEF DoneIsPaid
  <2>2. /\ UNCHANGED job
        /\ \A q \in Sessions \ {s} : pc'[q] = pc[q]
        /\ \A m \in Messages : usage[m] > 0 => usage'[m] > 0
        /\ s = w => usage'[Message(s)'] > 0
    BY <1>2, <2>1, WorkEffect, WorkCharges DEF Step
  <2>3. CASE w # s
    <3>1. pc'[w] = pc[w] /\ Message(w) \in Messages /\ Message(w)' = Message(w)
      BY <1>0, <2>1, <2>2, <2>3, WorkersMessage DEF Message
    <3>2. QED
      BY <2>1, <2>2, <3>1 DEF DoneIsPaid
  <2>4. QED
    BY <2>2, <2>3
<1>3. ASSUME NEW w \in Workers, WorkerNext(w)
      PROVE  DoneIsPaid'
  <2>1. pc'[w] \notin {"committed", "nothing"}
    BY <1>0, <1>3, LedgerFacts
       DEF WorkerNext, Take, Begin, TaskEnds, TaskRaises, Leave, Retry, StoreFailed, TaskLost,
           WorkerDies, Free
  <2>2. \A q \in Workers \ {w} : pc'[q] = pc[q] /\ job'[q] = job[q]
    BY <1>0, <1>3, LedgerFacts
       DEF WorkerNext, Take, Begin, TaskEnds, TaskRaises, Leave, Retry, StoreFailed, TaskLost,
           WorkerDies, Free
  <2>3. UNCHANGED usage
    BY <1>3 DEF WorkerNext, Take, Begin, TaskEnds, TaskRaises, Retry, StoreFailed, TaskLost,
           WorkerDies, Free, books
  <2>4. QED
    BY <1>1, <2>1, <2>2, <2>3
<1>4. ASSUME NEW r \in Requests, RequestNext(r)
      PROVE  DoneIsPaid'
  <2>1. \A q \in Workers : pc'[q] = pc[q] /\ job'[q] = job[q]
    BY <1>0, <1>4, LedgerFacts DEF RequestNext, Request, Allocate, Respond, RequestDies, Begin
  <2>2. UNCHANGED usage
    BY <1>4 DEF RequestNext, Request, Allocate, Respond, RequestDies, Begin, books
  <2>3. QED
    BY <1>1, <2>1, <2>2
<1>5. CASE \/ RunNext
           \/ \E m \in Messages : SaveMessage(m) \/ SaveUnqueued(m)
           \/ UNCHANGED vars
  <2>1. UNCHANGED <<pc, job, usage>>
    BY <1>5 DEF RunNext, SaveMessage, SaveUnqueued, RequeueFailed, RequeueFailedHalf, OutliveRange,
        FindMissing, FindNothing, RequeueFound, LoseFound, RunDies, HourPasses, ledgerVars, vars
  <2>2. QED
    BY <1>1, <2>1
<1>6. QED
  BY <1>2, <1>3, <1>4, <1>5 DEF Next

-------------------------------------------------------------------------------
(* No message is forgotten.                                                  *)

Accounted(m) == Settled(m) \/ m \in forsaken \/ Pending(m)

LEMMA AccountedIsEnough == NothingForgotten <=> \A m \in saved : Accounted(m)
BY DEF NothingForgotten, Accounted

\* The parts of Accounted stay true as long as their variables do not shrink.
LEMMA KeepAccounted ==
    ASSUME NEW m,
           usage[m] > 0 => usage'[m] > 0,
           refused \subseteq refused', forsaken \subseteq forsaken',
           Queued(m) => Accounted(m)',
           AtWork(m) => Accounted(m)',
           SetAside(m) => Accounted(m)',
           m \in found => Accounted(m)',
           InSight(m) => Accounted(m)',
           Accounted(m)
    PROVE  Accounted(m)'
BY DEF Accounted, Settled, Pending

LEMMA EnqueueIsQueued ==
    ASSUME TasksTypeOK, NEW m \in Messages, NEW k \in 0..MaxRetries, Enqueue(m, k)
    PROVE  /\ Queued(m)'
           /\ \A n \in Messages : Queued(n) => Queued(n)'
<1>1. /\ queue' = [queue EXCEPT ![<<m, k>>] = queue[<<m, k>>] + 1]
      /\ queue \in [Messages \X (0..MaxRetries) -> Nat]
  BY DEF Enqueue, TasksTypeOK
<1>2. queue'[<<m, k>>] > 0
  BY <1>1
<1>3. \A n \in Messages, i \in 0..MaxRetries : queue[<<n, i>>] > 0 => queue'[<<n, i>>] > 0
  BY <1>1
<1>4. QED
  BY <1>2, <1>3 DEF Queued

\* A message whose last copy is lost is in the daily run's sight, or forsaken.
LEMMA LoseAccounts ==
    ASSUME NEW m, Lose(m), UNCHANGED <<age, hour, run>>
    PROVE  Accounted(m)' /\ forsaken \subseteq forsaken'
<1>1. InSight(m)' <=> InSight(m)
  BY DEF InSight
<1>2. QED
  BY <1>1 DEF Lose, Accounted, Pending

LEMMA SightStays ==
    ASSUME UNCHANGED <<age, hour, run>>
    PROVE  \A m : InSight(m) => Pending(m)'
BY DEF InSight, Pending

\* A worker turns to another task or puts its own away: the others' stay.
LEMMA OthersAtWork ==
    ASSUME NEW w \in Workers, NEW m,
           \A q \in Workers \ {w} : pc'[q] = pc[q] /\ job'[q] = job[q],
           AtWork(m)
    PROVE  AtWork(m)' \/ (pc[w] # "idle" /\ Message(w) = m)
BY DEF AtWork, Message

LEMMA FreeOthers ==
    ASSUME LedgerInv, NEW w \in Workers, Free(w)
    PROVE  \A q \in Workers \ {w} : pc'[q] = pc[q] /\ job'[q] = job[q]
BY LedgerFacts, BillingAssumption DEF Free

LEMMA TakeAccounts ==
    ASSUME TypeOK, LedgerInv, NEW w \in Workers, NEW m \in Messages, NEW k \in 0..MaxRetries,
           Take(w, m, k), NEW n \in saved, Accounted(n)
    PROVE  Accounted(n)'
<1>1. /\ \A q \in Workers \ {w} : pc'[q] = pc[q] /\ job'[q] = job[q]
      /\ pc'[w] = "select" /\ job'[w] = Charge(m)
      /\ pc[w] = "idle"
  BY LedgerFacts, BillingAssumption DEF Take, Begin
<1>2. UNCHANGED <<usage, refused, forsaken, failed, found, saved, age, hour, run>>
  BY DEF Take, Begin, books, clockVars
<1>3. AtWork(m)'
  BY <1>1 DEF AtWork, Message, Charge
<1>4. n # m /\ Queued(n) => Queued(n)'
  <2>1. n \in Messages /\ queue \in [Messages \X (0..MaxRetries) -> Nat]
    BY DEF TypeOK
  <2>2. n # m => \A i \in 0..MaxRetries : queue'[<<n, i>>] = queue[<<n, i>>]
    BY <2>1 DEF Take
  <2>3. QED
    BY <2>2 DEF Queued
<1>5. AtWork(n) => AtWork(n)'
  BY <1>1, OthersAtWork
<1>6. InSight(n) => Pending(n)'
  BY <1>2, SightStays
<1>7. QED
  BY <1>2, <1>3, <1>4, <1>5, <1>6, KeepAccounted DEF Accounted, Pending, SetAside

\* The ends of a task: each leaves its message somewhere it is looked for.
LEMMA EndAccounts ==
    ASSUME TypeOK, LedgerInv, NEW w \in Workers, Free(w),
           UNCHANGED <<found, saved, age, hour, run>>,
           refused \subseteq refused', forsaken \subseteq forsaken', failed \subseteq failed',
           \A q \in Messages : Queued(q) => Queued(q)',
           NEW m \in Messages, m = Message(w), Accounted(m)',
           NEW n \in saved, Accounted(n)
    PROVE  Accounted(n)'
<1>1. n \in Messages /\ UNCHANGED usage
  BY DEF TypeOK, Free, books
<1>2. AtWork(n) => Accounted(n)'
  <2>1. AtWork(n) => AtWork(n)' \/ m = n
    BY FreeOthers, OthersAtWork
  <2>2. QED
    BY <2>1 DEF Accounted, Pending
<1>3. InSight(n) => Pending(n)'
  BY SightStays
<1>4. SetAside(n) => SetAside(n)'
  BY DEF SetAside
<1>5. QED
  BY <1>1, <1>2, <1>3, <1>4, KeepAccounted DEF Accounted, Pending

LEMMA WorkerAccounts ==
    ASSUME TypeOK, LedgerInv, JobsInv, DoneIsPaid, NEW w \in Workers, WorkerNext(w),
           NEW n \in saved, Accounted(n)
    PROVE  Accounted(n)'
<1>0. TasksTypeOK /\ n \in Messages
  BY TypeParts DEF TasksTypeOK
<1>1. ASSUME NEW m \in Messages, NEW k \in 0..MaxRetries, Take(w, m, k)
      PROVE  Accounted(n)'
  BY <1>1, TakeAccounts
<1>2. CASE TaskRaises(w)
  <2>1. UNCHANGED <<usage, job, queue, failed, found, saved, age, hour, run, refused, forsaken>>
    BY <1>2 DEF TaskRaises, Leave, books, taskVars, clockVars
  <2>2. /\ \A q \in Workers \ {w} : pc'[q] = pc[q] /\ job'[q] = job[q]
        /\ pc'[w] # "idle"
    BY <1>2, LedgerFacts, BillingAssumption DEF TaskRaises, Leave
  <2>3. AtWork(n) => AtWork(n)'
    BY <2>1, <2>2 DEF AtWork, Message
  <2>4. InSight(n) => Pending(n)'
    BY <2>1, SightStays
  <2>5. QED
    BY <2>1, <2>3, <2>4, KeepAccounted DEF Accounted, Pending, SetAside, Queued
<1>3. CASE ~TaskRaises(w) /\ pc[w] # "idle"
  <2>1. PICK m \in Messages : m = Message(w)
    BY <1>3, WorkersMessage
  <2>2. CASE TaskEnds(w)
    <3>1. Accounted(m)'
      <4>1. usage[m] > 0 \/ m \in refused'
        BY <2>1, <2>2 DEF TaskEnds, DoneIsPaid
      <4>2. UNCHANGED usage
        BY <2>2 DEF TaskEnds, Free, books
      <4>3. QED
        BY <4>1, <4>2 DEF Accounted, Settled
    <3>2. /\ Free(w) /\ UNCHANGED <<queue, failed, found, saved, age, hour, run, forsaken>>
          /\ refused \subseteq refused'
      BY <2>2 DEF TaskEnds, clockVars
    <3>3. QED
      BY <2>1, <3>1, <3>2, EndAccounts DEF Queued
  <2>3. CASE Retry(w)
    <3>1. retries[w] + 1 \in 0..MaxRetries
      BY <2>3, <1>0, BillingAssumption DEF Retry, Retryable, TasksTypeOK
    <3>2. Queued(m)' /\ \A q \in Messages : Queued(q) => Queued(q)'
      BY <1>0, <2>1, <2>3, <3>1, EnqueueIsQueued DEF Retry
    <3>3. Free(w) /\ UNCHANGED <<failed, found, saved, age, hour, run, refused, forsaken>>
      BY <2>3 DEF Retry, clockVars
    <3>4. Accounted(m)'
      BY <3>2 DEF Accounted, Pending
    <3>5. QED
      BY <2>1, <3>2, <3>3, <3>4, EndAccounts
  <2>4. CASE StoreFailed(w)
    <3>1. /\ Free(w) /\ UNCHANGED <<queue, found, saved, age, hour, run, refused, forsaken>>
          /\ failed' = failed \cup {<<m, 0>>}
      BY <2>1, <2>4 DEF StoreFailed, clockVars
    <3>2. Accounted(m)'
      BY <3>1, Constants DEF Accounted, Pending, SetAside
    <3>3. QED
      BY <2>1, <3>1, <3>2, EndAccounts DEF Queued
  <2>5. CASE TaskLost(w)
    <3>1. Free(w) /\ Lose(m) /\ UNCHANGED <<queue, failed, found, saved, age, hour, run, refused>>
      BY <2>1, <2>5 DEF TaskLost, clockVars
    <3>2. Accounted(m)' /\ forsaken \subseteq forsaken'
      BY <3>1, LoseAccounts
    <3>3. QED
      BY <2>1, <3>1, <3>2, EndAccounts DEF Queued
  <2>6. CASE WorkerDies(w)
    <3>1. retries[w] \in 0..MaxRetries
      BY <1>0 DEF TasksTypeOK
    <3>2. Queued(m)' /\ \A q \in Messages : Queued(q) => Queued(q)'
      BY <1>0, <2>1, <2>6, <3>1, EnqueueIsQueued DEF WorkerDies
    <3>3. Free(w) /\ UNCHANGED <<failed, found, saved, age, hour, run, refused, forsaken>>
      BY <2>6 DEF WorkerDies, clockVars
    <3>4. Accounted(m)'
      BY <3>2 DEF Accounted, Pending
    <3>5. QED
      BY <2>1, <3>2, <3>3, <3>4, EndAccounts
  <2>7. CASE \E j \in Messages, k \in 0..MaxRetries : Take(w, j, k)
    BY <1>1, <2>7
  <2>8. QED
    BY <1>3, <2>2, <2>3, <2>4, <2>5, <2>6, <2>7 DEF WorkerNext
<1>4. CASE pc[w] = "idle"
  BY <1>1, <1>2, <1>4 DEF WorkerNext, TaskEnds, TaskRaises, Retry, Retryable, StoreFailed,
      TaskLost, WorkerDies, Open
<1>5. QED
  BY <1>2, <1>3, <1>4

\* The query of the daily run takes up what its window will not show again.
LEMMA QueryAccounts ==
    ASSUME TypeOK, RunIsAtHour0, run = "failed", run' = "found",
           UNCHANGED <<ledgerVars, queue, failed, saved, age, hour, refused>>,
           forsaken \subseteq forsaken',
           Missing \subseteq found' \cup forsaken',
           NEW n \in saved, Accounted(n)
    PROVE  Accounted(n)'
<1>1. hour = 0 /\ found = {} /\ age[n] \in Nat
  BY Constants DEF RunIsAtHour0, TypeOK
<1>2. CASE InWindow(age[n])
  <2>1. usage[n] \in Nat
    BY DEF TypeOK, LedgerTypeOK
  <2>2. usage[n] > 0 \/ n \in Missing
    BY <1>2, <2>1 DEF Missing
  <2>3. QED
    BY <2>2 DEF Accounted, Settled, Pending, ledgerVars, books
<1>3. CASE InWindow(age[n] + DayHours)
  BY <1>1, <1>3, Constants DEF InSight, Accounted, Pending
<1>4. InSight(n) => Accounted(n)'
  BY <1>2, <1>3 DEF InSight
<1>5. QED
  BY <1>1, <1>4, KeepAccounted
     DEF Accounted, Pending, Queued, AtWork, SetAside, Message, ledgerVars, books

\* The hour turns: what the next run would have seen it still sees.
LEMMA HourAccounts ==
    ASSUME TypeOK, HourPasses, NEW n \in saved, Accounted(n)
    PROVE  Accounted(n)'
<1>1. n \in Messages /\ age[n] \in 0..Old /\ hour \in 0..DayHours - 1
  BY DEF TypeOK
<1>2. age'[n] = IF age[n] < Old THEN age[n] + 1 ELSE age[n]
  BY <1>1 DEF HourPasses
<1>3. InSight(n) => InSight(n)'
  <2>1. run = "found"
    BY DEF HourPasses
  <2>2. CASE hour + 1 < DayHours
    <3>1. hour' = hour + 1
      BY <1>1, <2>2, BillingAssumption DEF HourPasses
    <3>2. run' = "found"
      BY <1>1, <3>1 DEF HourPasses
    <3>3. QED
      BY <1>1, <1>2, <2>1, <2>2, <3>1, <3>2, BillingAssumption DEF InSight, InWindow, Old
  <2>3. CASE hour + 1 = DayHours
    <3>1. hour' = 0
      BY <1>1, <2>3, BillingAssumption DEF HourPasses
    <3>2. run' = "failed"
      BY <3>1 DEF HourPasses
    <3>3. QED
      BY <1>1, <1>2, <2>1, <2>3, <3>1, <3>2, BillingAssumption DEF InSight, InWindow, Old
  <2>4. QED
    BY <1>1, <2>2, <2>3, BillingAssumption
<1>4. SetAside(n) => SetAside(n)'
  <2>1. ASSUME NEW i \in 0..2, <<n, i>> \in failed
        PROVE  SetAside(n)'
    <3>1. <<n, IF i < 2 THEN i + 1 ELSE 2>> \in failed'
      BY <2>1 DEF HourPasses
    <3>2. (IF i < 2 THEN i + 1 ELSE 2) \in 0..2
      BY <2>1
    <3>3. QED
      BY <3>1, <3>2 DEF SetAside
  <2>2. QED
    BY <2>1 DEF SetAside
<1>5. UNCHANGED <<ledgerVars, queue, found, refused, forsaken>>
  BY DEF HourPasses
<1>6. QED
  BY <1>3, <1>4, <1>5, KeepAccounted DEF Accounted, Pending, Queued, AtWork, Message, ledgerVars, books

LEMMA RunAccounts ==
    ASSUME TypeOK, RunIsAtHour0, RunNext, NEW n \in saved, Accounted(n)
    PROVE  Accounted(n)'
<1>0. TasksTypeOK /\ n \in Messages
  BY TypeParts DEF TasksTypeOK
<1>1. ASSUME NEW m \in Messages, RequeueFailed(m) \/ RequeueFailedHalf(m)
      PROVE  Accounted(n)'
  <2>1. /\ UNCHANGED <<ledgerVars, found, saved, age, hour, run, refused, forsaken>>
        /\ UNCHANGED queue \/ Enqueue(m, 0)
    BY <1>1 DEF RequeueFailed, RequeueFailedHalf, clockVars
  <2>2. Queued(n) => Queued(n)'
    BY <1>0, <2>1, EnqueueIsQueued, Constants DEF Queued
  <2>3. CASE n = m
    <3>1. Queued(n)' \/ <<n, 0>> \in failed'
      BY <1>0, <1>1, <2>3, EnqueueIsQueued, Constants DEF RequeueFailed, RequeueFailedHalf
    <3>2. QED
      BY <3>1, Constants DEF Accounted, Pending, SetAside
  <2>4. CASE n # m
    <3>1. SetAside(n) => SetAside(n)'
      BY <1>1, <2>4 DEF SetAside, RequeueFailed, RequeueFailedHalf
    <3>2. InSight(n) => Pending(n)'
      BY <2>1, SightStays
    <3>3. QED
      BY <2>1, <2>2, <3>1, <3>2, KeepAccounted
         DEF Accounted, Pending, AtWork, Message, ledgerVars, books
  <2>5. QED
    BY <2>3, <2>4
<1>2. CASE FindMissing
  <2>1. Missing \subseteq found' \cup forsaken' /\ forsaken \subseteq forsaken'
    BY <1>2 DEF FindMissing
  <2>2. QED
    BY <1>2, <2>1, QueryAccounts DEF FindMissing
<1>3. CASE FindNothing
  BY <1>3, QueryAccounts DEF FindNothing, taskVars
<1>4. ASSUME NEW m \in Messages, RequeueFound(m) \/ LoseFound(m)
      PROVE  Accounted(n)'
  <2>1. /\ UNCHANGED <<ledgerVars, failed, saved, age, hour, run, refused>>
        /\ found' = found \ {m}
        /\ UNCHANGED queue \/ Enqueue(m, 0)
    BY <1>4 DEF RequeueFound, LoseFound, clockVars
  <2>2. Queued(n) => Queued(n)'
    BY <1>0, <2>1, EnqueueIsQueued, Constants DEF Queued
  <2>3. Accounted(m)' /\ forsaken \subseteq forsaken'
    <3>1. CASE RequeueFound(m)
      BY <1>0, <3>1, EnqueueIsQueued, Constants DEF RequeueFound, Accounted, Pending
    <3>2. CASE LoseFound(m)
      BY <2>1, <3>2, LoseAccounts DEF LoseFound
    <3>3. QED
      BY <1>4, <3>1, <3>2
  <2>4. InSight(n) => Pending(n)'
    BY <2>1, SightStays
  <2>5. n \in found => Accounted(n)'
    BY <2>1, <2>3 DEF Accounted, Pending
  <2>6. QED
    BY <2>1, <2>2, <2>3, <2>4, <2>5, KeepAccounted
       DEF Accounted, Pending, AtWork, SetAside, Message, ledgerVars, books
<1>5. CASE RunDies
  <2>1. UNCHANGED <<ledgerVars, queue, failed, saved, age, hour, refused, forsaken>>
    BY <1>5 DEF RunDies
  <2>2. run = "found" /\ run' = "failed" /\ hour = 0 /\ age[n] \in Nat
    BY <1>5, Constants DEF RunDies, RunIsAtHour0, TypeOK
  <2>3. InSight(n) => Pending(n)'
    BY <2>1, <2>2, Constants DEF InSight, Pending
  <2>4. n \in found => Pending(n)'
    BY <2>1, <2>2 DEF RunIsAtHour0, InSight, Pending
  <2>5. QED
    BY <2>1, <2>3, <2>4, KeepAccounted
       DEF Accounted, Pending, Queued, AtWork, SetAside, Message, ledgerVars, books
<1>6. ASSUME NEW m \in Messages, OutliveRange(m)
      PROVE  Accounted(n)'
  <2>1. /\ UNCHANGED <<ledgerVars, queue, found, saved, age, hour, run, refused>>
        /\ failed' = failed \ {<<m, 2>>}
        /\ Lose(m)
    BY <1>6 DEF OutliveRange, clockVars
  <2>2. Accounted(m)' /\ forsaken \subseteq forsaken'
    BY <2>1, LoseAccounts
  <2>3. SetAside(n) => Accounted(n)'
    <3>1. CASE n = m
      BY <3>1, <2>2
    <3>2. CASE n # m
      BY <2>1, <3>2 DEF SetAside, Accounted, Pending
    <3>3. QED
      BY <3>1, <3>2
  <2>4. InSight(n) => Pending(n)'
    BY <2>1, SightStays
  <2>5. QED
    BY <2>1, <2>2, <2>3, <2>4, KeepAccounted
       DEF Accounted, Pending, Queued, AtWork, Message, ledgerVars, books
<1>7. QED
  BY <1>1, <1>2, <1>3, <1>4, <1>5, <1>6, HourAccounts DEF RunNext

LEMMA SaveAccounts ==
    ASSUME TypeOK, NEW m \in Messages, SaveMessage(m) \/ SaveUnqueued(m),
           NEW n \in saved', n \in saved => Accounted(n)
    PROVE  Accounted(n)'
<1>0. TasksTypeOK /\ saved' = saved \cup {m} /\ m \notin saved /\ n \in Messages
  BY TypeParts DEF TasksTypeOK, SaveMessage, SaveUnqueued
<1>1. /\ UNCHANGED <<ledgerVars, failed, found, age, hour, run, refused>>
      /\ UNCHANGED queue \/ Enqueue(m, 0)
  BY DEF SaveMessage, SaveUnqueued, taskVars
<1>2. Accounted(m)' /\ forsaken \subseteq forsaken'
  <2>1. CASE SaveMessage(m)
    BY <1>0, <2>1, EnqueueIsQueued, Constants DEF SaveMessage, Accounted, Pending
  <2>2. CASE SaveUnqueued(m)
    BY <1>1, <2>2, LoseAccounts DEF SaveUnqueued
  <2>3. QED
    BY <2>1, <2>2
<1>3. Queued(n) => Queued(n)'
  BY <1>0, <1>1, EnqueueIsQueued, Constants DEF Queued
<1>4. InSight(n) => Pending(n)'
  BY <1>1, SightStays
<1>5. CASE n # m
  BY <1>0, <1>1, <1>2, <1>3, <1>4, <1>5, KeepAccounted
     DEF Accounted, Pending, AtWork, SetAside, Message, ledgerVars, books
<1>6. QED
  BY <1>2, <1>5

LEMMA StepAccounts ==
    ASSUME TypeOK, LedgerInv, JobsInv, NEW s \in Sessions, Step(s), NEW n \in saved, Accounted(n)
    PROVE  Accounted(n)'
<1>1. /\ n \in Messages
      /\ UNCHANGED <<job, queue, failed, found, saved, age, hour, run, refused, forsaken>>
  BY WorkEffect DEF TypeOK, Step, taskVars, clockVars
<1>2. usage[n] > 0 => usage'[n] > 0
  BY <1>1, WorkCharges DEF Step
<1>3. AtWork(n) => AtWork(n)'
  BY <1>1, WorkEffect, BillingAssumption DEF Step, AtWork, Message, Open, Outcomes
<1>4. InSight(n) => Pending(n)'
  BY <1>1, SightStays
<1>5. QED
  BY <1>1, <1>2, <1>3, <1>4, KeepAccounted DEF Accounted, Pending, Queued, SetAside

LEMMA RequestAccounts ==
    ASSUME LedgerInv, NEW r \in Requests, RequestNext(r), NEW n \in saved, Accounted(n)
    PROVE  Accounted(n)'
<1>1. UNCHANGED <<usage, queue, failed, found, saved, age, hour, run, refused, forsaken>>
  BY DEF RequestNext, Request, Allocate, Respond, RequestDies, Begin, books, taskVars, clockVars
<1>2. \A w \in Workers : pc'[w] = pc[w] /\ job'[w] = job[w]
  BY LedgerFacts, BillingAssumption DEF RequestNext, Request, Allocate, Respond, RequestDies, Begin
<1>3. InSight(n) => Pending(n)'
  BY <1>1, SightStays
<1>4. QED
  BY <1>1, <1>2, <1>3, KeepAccounted DEF Accounted, Pending, Queued, AtWork, SetAside, Message

LEMMA NextKeepsAccounted ==
    ASSUME BillingInv, [Next]_vars
    PROVE  NothingForgotten'
<1>0. /\ TypeOK /\ LedgerInv /\ JobsInv /\ DoneIsPaid /\ RunIsAtHour0
      /\ \A m \in saved : Accounted(m)
  BY AccountedIsEnough DEF BillingInv, JobsInv
<1>1. SUFFICES ASSUME NEW n \in saved'
               PROVE  Accounted(n)'
  BY AccountedIsEnough DEF NothingForgotten, Accounted
<1>2. ASSUME NEW m \in Messages, SaveMessage(m) \/ SaveUnqueued(m)
      PROVE  Accounted(n)'
  BY <1>0, <1>2, SaveAccounts
<1>3. ASSUME NEW s \in Sessions, Step(s)
      PROVE  Accounted(n)'
  <2>1. saved' = saved
    BY <1>3 DEF Step, clockVars
  <2>2. QED
    BY <1>0, <1>3, <2>1, StepAccounts
<1>4. ASSUME NEW w \in Workers, WorkerNext(w)
      PROVE  Accounted(n)'
  <2>1. saved' = saved
    BY <1>4 DEF WorkerNext, Take, TaskEnds, TaskRaises, Retry, StoreFailed, TaskLost, WorkerDies,
        clockVars
  <2>2. QED
    BY <1>0, <1>4, <2>1, WorkerAccounts
<1>5. CASE RunNext
  <2>1. saved' = saved
    BY <1>5 DEF RunNext, RequeueFailed, RequeueFailedHalf, OutliveRange, FindMissing, FindNothing,
        RequeueFound, LoseFound, RunDies, HourPasses, clockVars
  <2>2. QED
    BY <1>0, <1>5, <2>1, RunAccounts
<1>6. ASSUME NEW r \in Requests, RequestNext(r)
      PROVE  Accounted(n)'
  <2>1. saved' = saved
    BY <1>6 DEF RequestNext, Request, Allocate, Respond, RequestDies, clockVars
  <2>2. QED
    BY <1>0, <1>6, <2>1, RequestAccounts
<1>7. CASE UNCHANGED vars
  <2>1. UNCHANGED <<usage, pc, job, queue, failed, found, saved, age, hour, run, refused, forsaken>>
    BY <1>7 DEF vars, ledgerVars, taskVars, clockVars
  <2>2. QED
    BY <1>0, <2>1 DEF Accounted, Settled, Pending, Queued, AtWork, SetAside, InSight, Message
<1>8. QED
  BY <1>2, <1>3, <1>4, <1>5, <1>6, <1>7 DEF Next

-------------------------------------------------------------------------------
(* The theorems.                                                             *)

LEMMA InitInv ==
    ASSUME Init
    PROVE  BillingInv
<1>1. LedgerTypeOK
  BY LedgerAssumption, JobsAsked DEF Init, LedgerInit, LedgerTypeOK, Rows, EmptyRow
<1>2. BooksBalance /\ LockIsHeld /\ SeenIsRow /\ FirstIsEmpty
  <2>1. row.total \in Nat /\ row.used = 0 /\ row.avail = row.total
    BY LedgerAssumption DEF Init, LedgerInit, EmptyRow
  <2>2. BooksBalance
    BY <2>1 DEF Init, LedgerInit, BooksBalance
  <2>3. LockIsHeld /\ SeenIsRow /\ FirstIsEmpty
    BY LedgerAssumption DEF Init, LedgerInit, LockIsHeld, SeenIsRow, FirstIsEmpty
  <2>4. QED
    BY <2>2, <2>3
<1>3. TasksTypeOK
  BY Constants, BillingAssumption DEF Init, TasksTypeOK, Stages
<1>4. WorkersCharge /\ DoneIsPaid
  BY BillingAssumption DEF Init, LedgerInit, WorkersCharge, DoneIsPaid
<1>5. RequestsAsk
  BY BillingAssumption DEF Init, LedgerInit, RequestsAsk
<1>6. RunIsAtHour0 /\ NothingForgotten
  BY DEF Init, RunIsAtHour0, NothingForgotten
<1>7. QED
  BY <1>1, <1>2, <1>3, <1>4, <1>5, <1>6, TypeParts DEF BillingInv, LedgerInv

LEMMA NextKeepsInv ==
    ASSUME BillingInv, [Next]_vars
    PROVE  BillingInv'
<1>1. TypeOK /\ TasksTypeOK /\ LedgerInv /\ JobsInv /\ DoneIsPaid /\ RunIsAtHour0
  BY TypeParts DEF BillingInv, JobsInv
<1>2. LedgerInv'
  BY <1>1, NextKeepsLedger
<1>3. JobsInv'
  BY <1>1, NextKeepsJobs DEF TasksTypeOK
<1>4. TypeOK'
  <2>1. TasksTypeOK'
    BY <1>1, NextKeepsTypes
  <2>2. LedgerTypeOK'
    BY <1>2 DEF LedgerInv
  <2>3. QED
    BY <2>1, <2>2 DEF TypeOK, TasksTypeOK
<1>5. DoneIsPaid' /\ RunIsAtHour0' /\ NothingForgotten'
  BY <1>1, NextKeepsPaid, NextKeepsHour, NextKeepsAccounted
<1>6. QED
  BY <1>2, <1>3, <1>4, <1>5 DEF BillingInv, JobsInv

\* The inductive invariant: the locks protect what sessions compute from, workers
\* charge for the message they hold, and the daily run keeps to its window.
THEOREM BillingInvariant == Spec => []BillingInv
BY InitInv, NextKeepsInv, PTL DEF Spec

\* Every variable keeps its type.
THEOREM TypeCorrect == Spec => []TypeOK
<1>1. BillingInv => TypeOK
  BY DEF BillingInv
<1>2. QED
  BY <1>1, BillingInvariant, PTL

\* Whatever sessions interleave, die, or insert the first balance at once: the row
\* holds what was granted, less what was spent (CreditService under its row locks).
THEOREM BooksAlwaysBalance == Spec => []BooksBalance
<1>1. BillingInv => BooksBalance
  BY DEF BillingInv, LedgerInv
<1>2. QED
  BY <1>1, BillingInvariant, PTL

\* A saved message is charged for, refused, still to be tried, or was lost where no
\* daily run looks (deduct_credits_async, reconcile_credits_daily).
THEOREM NoMessageForgotten == Spec => []NothingForgotten
<1>1. BillingInv => NothingForgotten
  BY DEF BillingInv
<1>2. QED
  BY <1>1, BillingInvariant, PTL

\* The account's view of the first balance.
LEMMA InitIsAccount ==
    ASSUME Init
    PROVE  TheAccount!Init
<1>1. row.avail \in {0, Opening} /\ row.used = 0
  BY DEF Init, LedgerInit, EmptyRow
<1>2. Charged = {}
  BY DEF Init, LedgerInit, Charged
<1>3. QED
  BY <1>1, <1>2 DEF TheAccount!Init

LEMMA NextIsAccount ==
    ASSUME BillingInv, [Next]_vars
    PROVE  [TheAccount!Next]_(TheAccount!accountVars)
<1>1. LedgerInv /\ JobsInv
  BY DEF BillingInv, JobsInv
<1>2. CASE \E s \in Sessions : Step(s)
  <2>1. PICK s \in Sessions : Work(s)
    BY <1>2 DEF Step
  <2>2. TheAccount!Next \/ UNCHANGED <<row, usage>>
    BY <1>1, <2>1, WorkIsAccount
  <2>3. QED
    BY <2>2 DEF TheAccount!accountVars, Charged
<1>3. CASE ~\E s \in Sessions : Step(s)
  <2>1. UNCHANGED <<row, usage>>
    BY <1>3 DEF Next, vars, ledgerVars, books, SaveMessage, SaveUnqueued, WorkerNext, Take, Begin,
        TaskEnds, TaskRaises, Retry, StoreFailed, TaskLost, WorkerDies, Free, RunNext,
        RequeueFailed, RequeueFailedHalf, OutliveRange, FindMissing, FindNothing, RequeueFound,
        LoseFound, RunDies, HourPasses, RequestNext, Request, Allocate, Respond, RequestDies
  <2>2. QED
    BY <2>1 DEF TheAccount!accountVars, Charged
<1>4. QED
  BY <1>2, <1>3

\* The ledger, with its sessions, locks, retries and crashes, implements an account
\* whose operations take effect at once: never overdrawn, and no message billed twice
\* or for anything but its cost.
THEOREM LedgerImplementsAccount == Spec => IsAnAccount
BY InitIsAccount, NextIsAccount, BillingInvariant, PTL DEF Spec, IsAnAccount, TheAccount!Spec

===============================================================================

----------------------------- MODULE HumanApproval -----------------------------
(***************************************************************************)
(* Human approval of an autonomous task's actions: the runs of one task,   *)
(* whose tool calls pass the gate of agents/adk_tools.py, and the          *)
(* responders, API requests in services/human_approval_service.py.  They   *)
(* share the table of requests and two kinds of Redis keys: the routing    *)
(* key of the task's channel, and one execution token per action, an       *)
(* action being a tool and the hash of its arguments.  Redis holds "1" for *)
(* a token; the model holds the request the token was stored for.          *)
(***************************************************************************)
EXTENDS Naturals, FiniteSets

CONSTANTS Rows,        \* the rows agent_approval_requests may get
          Actions,     \* the gated tool calls the agent may make
          Slots,       \* flows of tool calls: a run's own, or of one of its parallel calls
          Responders,  \* API requests that answer, at any one time
          MaxRuns,     \* bound: runs of the task in the queue, and flows under way
          None

ASSUME ApprovalAssumption == None \notin Rows /\ None \notin Actions

VARIABLES action,      \* the action of each row (tool_name, tool_args_hash)
          status,      \* the column status; "none" before the row exists
          overdue,     \* rows past expires_at
          route,       \* the routing key: the row a reply in the channel is about
          token,       \* the execution token of each action
          queue,       \* runs in the Celery queue
          call,        \* what each flow does
          answer,      \* what each responder does
          performed,   \* history: how often an action was performed on a row's token
          overturned,  \* history: a decision was written over another
          shared       \* history: two flows found the same token

vars == <<action, status, overdue, route, token, queue, call, answer, performed,
          overturned, shared>>
history == <<performed, overturned, shared>>

\* ApprovalStatus, and "none". "executed" is in the enum and in the model's lifecycle
\* (approved, then executed once the tool ran); nothing in the code ever writes it.
Statuses == {"none", "pending", "approved", "rejected", "expired", "executed"}
Decisions == {"approved", "rejected", "feedback", "expired"}

\* A flow is "free" or runs the task.  In a tool call it has "found" a token, is about to
\* "perform" the action, or to "ask" for approval and "route" the request.
Ops == {"free", "run", "found", "perform", "ask", "route"}

\* A responder has the row's id, has the row ("read"), has decided ("commit"), stores the
\* token, fires the run, and deletes the routing key.
Steps == {"idle", "read", "commit", "store", "fire", "unroute"}

Calls   == [op : Ops, act : Actions \cup {None}, row : Rows \cup {None}]
Answers == [step : Steps, row : Rows \cup {None},
            via : {"channel", "dashboard"}, to : Decisions \cup {None}]

Free    == [op |-> "free", act |-> None, row |-> None]
Running == [Free EXCEPT !.op = "run"]
Idle    == [step |-> "idle", row |-> None, via |-> "dashboard", to |-> None]

TypeOK ==
    /\ action \in [Rows -> Actions \cup {None}]
    /\ status \in [Rows -> Statuses]
    /\ overdue \subseteq Rows
    /\ route \in Rows \cup {None}
    /\ token \in [Actions -> Rows \cup {None}]
    /\ queue \in Nat
    /\ call \in [Slots -> Calls]
    /\ answer \in [Responders -> Answers]
    /\ performed \in [Rows -> Nat]
    /\ overturned \in BOOLEAN
    /\ shared \in BOOLEAN

Init ==
    /\ action = [r \in Rows |-> None]
    /\ status = [r \in Rows |-> "none"]
    /\ overdue = {}
    /\ route = None
    /\ token = [a \in Actions |-> None]
    /\ queue = 0
    /\ call = [w \in Slots |-> Free]
    /\ answer = [x \in Responders |-> Idle]
    /\ performed = [r \in Rows |-> 0]
    /\ overturned = FALSE
    /\ shared = FALSE

-------------------------------------------------------------------------------
(* The task's runs.                                                          *)

rows == <<action, status, overdue>>

Busy == {w \in Slots : call[w].op # "free"}

\* The bound on runs.
MayQueue == queue + Cardinality(Busy) < MaxRuns

\* Celery beat queues a run of the task.
Tick ==
    /\ MayQueue
    /\ queue' = queue + 1
    /\ UNCHANGED <<rows, route, token, call, answer, history>>

\* Mutant of StartRun: it takes a run off an empty queue.
StartRunUnasked(w) ==
    /\ call[w].op = "free"
    /\ queue' = queue - 1
    /\ call' = [call EXCEPT ![w] = Running]
    /\ UNCHANGED <<rows, route, token, answer, history>>

\* A process takes a run off the queue: a due one, a redelivered one, or one that an approval
\* or feedback fired; whichever it is, the agent may call any action.
StartRun(w) ==
    /\ call[w].op = "free"
    /\ queue > 0
    /\ queue' = queue - 1
    /\ call' = [call EXCEPT ![w] = Running]
    /\ UNCHANGED <<rows, route, token, answer, history>>

\* A run's tool calls may be executed in parallel.
ParallelCall(w) ==
    /\ call[w].op = "free"
    /\ Busy # {}
    /\ MayQueue
    /\ call' = [call EXCEPT ![w] = Running]
    /\ UNCHANGED <<rows, route, token, queue, answer, history>>

\* The flow is over, or cut off at an await by the run's time limit.
EndRun(w) ==
    /\ call[w].op # "free"
    /\ call' = [call EXCEPT ![w] = Free]
    /\ UNCHANGED <<rows, route, token, queue, answer, history>>

\* A process dies with the flows W of its run, which was not acknowledged and is delivered
\* again.
LoseWorker(W) ==
    /\ W # {}
    /\ call' = [w \in Slots |-> IF w \in W THEN Free ELSE call[w]]
    /\ queue' = queue + 1
    /\ UNCHANGED <<rows, route, token, answer, history>>

\* The gate reads the token of the action the agent calls.
CheckToken(w, a) ==
    /\ call[w].op = "run"
    /\ call' = [call EXCEPT ![w] =
            [op |-> IF token[a] = None THEN "ask" ELSE "found", act |-> a, row |-> token[a]]]
    /\ shared' = \/ shared
                  \/ \E v \in Slots : call[v].op = "found" /\ call[v].row = token[a]
    /\ UNCHANGED <<rows, route, token, queue, answer, performed, overturned>>

\* Mutant of ConsumeToken: the token stays until it expires.
KeepToken(w) ==
    /\ call[w].op = "found"
    /\ call' = [call EXCEPT ![w].op = "perform"]
    /\ UNCHANGED <<rows, route, token, queue, answer, history>>

\* It deletes the token, whosever it is by now.
ConsumeToken(w) ==
    /\ call[w].op = "found"
    /\ token' = [token EXCEPT ![call[w].act] = None]
    /\ call' = [call EXCEPT ![w].op = "perform"]
    /\ UNCHANGED <<rows, route, queue, answer, history>>

Perform(w) ==
    /\ call[w].op = "perform"
    /\ performed' = [performed EXCEPT ![call[w].row] = @ + 1]
    /\ call' = [call EXCEPT ![w] = Running]
    /\ UNCHANGED <<rows, route, token, queue, answer, overturned, shared>>

\* create_and_notify() commits a row, whatever requests for the action there are.
Ask(w, r) ==
    /\ call[w].op = "ask"
    /\ status[r] = "none"
    /\ status' = [status EXCEPT ![r] = "pending"]
    /\ action' = [action EXCEPT ![r] = call[w].act]
    /\ call' = [call EXCEPT ![w].op = "route", ![w].row = r]
    /\ UNCHANGED <<overdue, route, token, queue, answer, history>>

\* It sets the routing key, whatever the key holds, and notifies.
Route(w) ==
    /\ call[w].op = "route"
    /\ route' = call[w].row
    /\ call' = [call EXCEPT ![w] = Running]
    /\ UNCHANGED <<rows, token, queue, answer, history>>

\* An exception on the way: the tool call is answered all the same, and not performed.
GateFails(w) ==
    /\ call[w].op \in {"found", "perform", "ask", "route"}
    /\ call' = [call EXCEPT ![w] = Running]
    /\ UNCHANGED <<rows, route, token, queue, answer, history>>

-------------------------------------------------------------------------------
(* Time.                                                                     *)

TimeOut(r) ==
    /\ status[r] # "none"
    /\ r \notin overdue
    /\ overdue' = overdue \cup {r}
    /\ UNCHANGED <<action, status, route, token, queue, call, answer, history>>

\* The routing key is set after expires_at is computed, with the same time to live.
RouteExpires ==
    /\ route \in overdue
    /\ route' = None
    /\ UNCHANGED <<rows, token, queue, call, answer, history>>

TokenExpires(a) ==
    /\ token[a] # None
    /\ token' = [token EXCEPT ![a] = None]
    /\ UNCHANGED <<rows, route, queue, call, answer, history>>

-------------------------------------------------------------------------------
(* The responders.                                                           *)

\* A message in the channel: the handler finds the routing key.
Reply(x) ==
    /\ answer[x].step = "idle"
    /\ route # None
    /\ answer' = [answer EXCEPT ![x] =
            [Idle EXCEPT !.step = "read", !.row = route, !.via = "channel"]]
    /\ UNCHANGED <<rows, route, token, queue, call, history>>

\* A response in the dashboard names the row.
Respond(x, r) ==
    /\ answer[x].step = "idle"
    /\ status[r] # "none"
    /\ answer' = [answer EXCEPT ![x] = [Idle EXCEPT !.step = "read", !.row = r]]
    /\ UNCHANGED <<rows, route, token, queue, call, history>>

\* What a responder does when it is done with the row.
Leave(x) == IF answer[x].via = "channel" THEN [answer[x] EXCEPT !.step = "unroute"] ELSE Idle

\* It reads the row and decides, on what it read, or finds nothing left to decide.
Read(x) ==
    LET r == answer[x].row
        Decide(d) == answer' = [answer EXCEPT ![x].step = "commit", ![x].to = d]
    IN  /\ answer[x].step = "read"
        /\ IF status[r] # "pending" THEN answer' = [answer EXCEPT ![x] = Leave(x)]
           ELSE IF r \in overdue THEN Decide("expired")
           ELSE \E d \in Decisions \ {"expired"} : Decide(d)
        /\ UNCHANGED <<rows, route, token, queue, call, history>>

\* An unclear reply decides nothing and leaves the routing key.
Unclear(x) ==
    /\ answer[x].step = "read"
    /\ status[answer[x].row] = "pending"
    /\ answer[x].row \notin overdue
    /\ answer' = [answer EXCEPT ![x] = Idle]
    /\ UNCHANGED <<rows, route, token, queue, call, history>>

\* The status of a row that a decision has been made on: feedback rejects.
StatusOf(d) == IF d = "feedback" THEN "rejected" ELSE d

\* Mutant of Follow: feedback, with which the row is rejected, is taken for approval.
FollowFeedback(x) == IF answer[x].to \in {"approved", "feedback"}
                     THEN [answer[x] EXCEPT !.step = "store"]
                     ELSE Leave(x)

\* What follows the commit.
Follow(x) ==
    CASE answer[x].to = "approved" -> [answer[x] EXCEPT !.step = "store"]
      [] answer[x].to = "feedback" -> [answer[x] EXCEPT !.step = "fire"]
      [] OTHER -> Leave(x)

\* Mutant of Commit: db.commit() is missing.
ForgetCommit(x) ==
    /\ answer[x].step = "commit"
    /\ answer' = [answer EXCEPT ![x] = Follow(x)]
    /\ UNCHANGED <<rows, route, token, queue, call, history>>

\* UPDATE ... WHERE id: the decision is written over whatever the row says by now.
Commit(x) ==
    LET r == answer[x].row
    IN  /\ answer[x].step = "commit"
        /\ status' = [status EXCEPT ![r] = StatusOf(answer[x].to)]
        /\ overturned' = (overturned \/ status[r] # "pending")
        /\ answer' = [answer EXCEPT ![x] = Follow(x)]
        /\ UNCHANGED <<action, overdue, route, token, queue, call, performed, shared>>

Store(x) ==
    LET r == answer[x].row
    IN  /\ answer[x].step = "store"
        /\ token' = [token EXCEPT ![action[r]] = r]
        /\ answer' = [answer EXCEPT ![x].step = "fire"]
        /\ UNCHANGED <<rows, route, queue, call, history>>

Fire(x) ==
    /\ answer[x].step = "fire"
    /\ MayQueue
    /\ queue' = queue + 1
    /\ answer' = [answer EXCEPT ![x] = Leave(x)]
    /\ UNCHANGED <<rows, route, token, call, history>>

\* The handler deletes the routing key, whichever row it holds by now.
Unroute(x) ==
    /\ answer[x].step = "unroute"
    /\ route' = None
    /\ answer' = [answer EXCEPT ![x] = Idle]
    /\ UNCHANGED <<rows, token, queue, call, history>>

\* A call raises, or the API process dies.
Abort(x) ==
    /\ answer[x].step # "idle"
    /\ answer' = [answer EXCEPT ![x] = Idle]
    /\ UNCHANGED <<rows, route, token, queue, call, history>>

-------------------------------------------------------------------------------

RunStep(w) ==
    \/ StartRun(w) \/ ParallelCall(w) \/ EndRun(w)
    \/ \E a \in Actions : CheckToken(w, a)
    \/ ConsumeToken(w) \/ Perform(w)
    \/ \E r \in Rows : Ask(w, r)
    \/ Route(w) \/ GateFails(w)

AnswerStep(x) ==
    \/ Reply(x)
    \/ \E r \in Rows : Respond(x, r)
    \/ Read(x) \/ Unclear(x) \/ Commit(x) \/ Store(x) \/ Fire(x) \/ Unroute(x) \/ Abort(x)

Time ==
    \/ \E r \in Rows : TimeOut(r)
    \/ RouteExpires
    \/ \E a \in Actions : TokenExpires(a)

Next ==
    \/ Tick
    \/ \E w \in Slots : RunStep(w)
    \/ \E W \in SUBSET Busy : LoseWorker(W)
    \/ \E x \in Responders : AnswerStep(x)
    \/ Time

Spec == Init /\ [][Next]_vars

-------------------------------------------------------------------------------
(* Properties.                                                               *)

\* "Consume the one-time token and allow execution": an action is performed at most once
\* for each request that is approved.
PerformedOnce == \A r \in Rows : performed[r] <= 1

\* So it is, through crashes, time-outs, redeliveries and repeated requests, as long as no
\* two responders decide one request and no two flows find one token: the windows between
\* reading and writing the row, and between reading and deleting the token.
OnceUnlessRaced == overturned \/ shared \/ PerformedOnce

\* As long as no two responders decide one request, an action is performed only on a
\* request whose approval was committed before the token could be found, and whose row
\* then stays within what the lifecycle has after "user said yes": it is never rejected
\* or expired. "EXECUTED (tool ran)" is allowed here and never reached, for the gate does
\* not write it: by its row, a performed request is like one that waits to be performed.
PerformedIsApproved ==
    overturned \/ \A r \in Rows : performed[r] > 0 => status[r] \in {"approved", "executed"}

\* The table of requests, the keys and the flows are one approval: a request is decided
\* once and stays as it was decided; it expires only when its time is over; and what it is
\* about is performed after it has been approved, and once, unless two responders decide
\* one request or two flows find one token.
TheApproval == INSTANCE ApprovalOnce WITH
                   decision <- status, late <- overdue, times <- performed,
                   contested <- overturned
IsApprovedOnce == TheApproval!Spec

-------------------------------------------------------------------------------
(* The inductive invariant.                                                  *)

\* A flow with request r's ticket in hand; a responder about to store r's token.
Holds(w, r)  == call[w].op \in {"found", "perform"} /\ call[w].row = r
Stores(x, r) == answer[x].step = "store" /\ answer[x].row = r

\* What refers to a row refers to one that exists, and to its action.
RefersToRows ==
    /\ \A r \in Rows : status[r] # "none" => action[r] \in Actions
    /\ \A r \in Rows : performed[r] > 0 => status[r] # "none"
    /\ route # None => status[route] # "none"
    /\ \A a \in Actions : token[a] # None => status[token[a]] # "none" /\ action[token[a]] = a
    /\ \A w \in Slots :
          /\ call[w].op \notin {"free", "run"} => call[w].act \in Actions
          /\ call[w].op \in {"found", "perform", "route"} =>
                call[w].row \in Rows /\ status[call[w].row] # "none"
          /\ call[w].op \in {"found", "perform"} => action[call[w].row] = call[w].act
    /\ \A x \in Responders :
          /\ answer[x].step # "idle" => answer[x].row \in Rows /\ status[answer[x].row] # "none"
          /\ answer[x].step = "commit" =>
                /\ answer[x].to \in Decisions
                /\ answer[x].to = "expired" => answer[x].row \in overdue

\* A ticket, wherever it is, is for an approved request.
TicketsAreApproved ==
    \A r \in Rows :
        (\/ \E x \in Responders : Stores(x, r)
         \/ \E a \in Actions : token[a] = r
         \/ \E w \in Slots : Holds(w, r)
         \/ performed[r] > 0) => status[r] = "approved"

\* There is one ticket for a request: with a responder, then as the token, which at most
\* one flow has found, then with that flow, then used up.
OneTicket ==
    \A r \in Rows :
        /\ performed[r] <= 1
        /\ \A x, y \in Responders : Stores(x, r) /\ Stores(y, r) => x = y
        /\ \A v, w \in Slots : Holds(v, r) /\ Holds(w, r) => v = w
        /\ \A x \in Responders : Stores(x, r) =>
              /\ \A a \in Actions : token[a] # r
              /\ \A w \in Slots : ~ Holds(w, r)
              /\ performed[r] = 0
        /\ \A w \in Slots : Holds(w, r) => performed[r] = 0
        /\ \A a \in Actions : token[a] = r =>
              /\ \A w \in Slots : ~ (Holds(w, r) /\ call[w].op = "perform")
              /\ performed[r] = 0

ApprovedInv == overturned \/ TicketsAreApproved
TicketInv   == overturned \/ shared \/ OneTicket
ApprovalInv == TypeOK /\ RefersToRows /\ ApprovedInv /\ TicketInv

===============================================================================

------------------------- MODULE HumanApprovalProofs -------------------------
(***************************************************************************)
(* Theorems about HumanApproval, for every number of rows, actions, flows, *)
(* responders and runs.                                                    *)
(***************************************************************************)
EXTENDS HumanApproval, TLAPS

(* Types.                                                                    *)

LEMMA TypeStep ==
    ASSUME TypeOK, RefersToRows, [Next]_vars
    PROVE  TypeOK'
<1> USE DEF TypeOK, rows, history
<1>1. CASE Tick
  BY <1>1 DEF Tick
<1>2. ASSUME NEW W \in SUBSET Busy, LoseWorker(W) PROVE TypeOK'
  BY <1>2 DEF LoseWorker, Calls, Free, Ops
<1>3. ASSUME NEW w \in Slots, StartRun(w) PROVE TypeOK'
  BY <1>3 DEF StartRun, Calls, Free, Running, Ops
<1>4. ASSUME NEW w \in Slots, ParallelCall(w) PROVE TypeOK'
  BY <1>4 DEF ParallelCall, Calls, Free, Running, Ops
<1>5. ASSUME NEW w \in Slots, EndRun(w) PROVE TypeOK'
  BY <1>5 DEF EndRun, Calls, Free, Ops
<1>6. ASSUME NEW w \in Slots, ConsumeToken(w) PROVE TypeOK'
  BY <1>6 DEF ConsumeToken, Calls, Ops
<1>7. ASSUME NEW w \in Slots, Perform(w) PROVE TypeOK'
  BY <1>7 DEF Perform, Calls, Free, Running, Ops, RefersToRows
<1>8. ASSUME NEW w \in Slots, Route(w) PROVE TypeOK'
  BY <1>8 DEF Route, Calls, Free, Running, Ops
<1>9. ASSUME NEW w \in Slots, GateFails(w) PROVE TypeOK'
  BY <1>9 DEF GateFails, Calls, Free, Running, Ops
<1>10. ASSUME NEW w \in Slots, NEW a \in Actions, CheckToken(w, a) PROVE TypeOK'
  BY <1>10 DEF CheckToken, Calls, Ops
<1>11. ASSUME NEW w \in Slots, NEW r \in Rows, Ask(w, r) PROVE TypeOK'
  BY <1>11 DEF Ask, Calls, Ops, Statuses
<1>12. ASSUME NEW x \in Responders, Reply(x) PROVE TypeOK'
  BY <1>12 DEF Reply, Answers, Idle, Steps
<1>13. ASSUME NEW x \in Responders, Read(x) PROVE TypeOK'
  BY <1>13 DEF Read, Answers, Idle, Steps, Leave
<1>14. ASSUME NEW x \in Responders, Unclear(x) PROVE TypeOK'
  BY <1>14 DEF Unclear, Answers, Idle, Steps
<1>15. ASSUME NEW x \in Responders, Commit(x) PROVE TypeOK'
  BY <1>15 DEF Commit, Answers, Idle, Steps, Decisions, Leave, Follow,
              StatusOf, Statuses, RefersToRows
<1>16. ASSUME NEW x \in Responders, Store(x) PROVE TypeOK'
  BY <1>16 DEF Store, Answers, Steps
<1>17. ASSUME NEW x \in Responders, Fire(x) PROVE TypeOK'
  BY <1>17 DEF Fire, Answers, Idle, Steps, Leave
<1>18. ASSUME NEW x \in Responders, Unroute(x) PROVE TypeOK'
  BY <1>18 DEF Unroute, Answers, Idle, Steps
<1>19. ASSUME NEW x \in Responders, Abort(x) PROVE TypeOK'
  BY <1>19 DEF Abort, Answers, Idle, Steps
<1>20. ASSUME NEW x \in Responders, NEW r \in Rows, Respond(x, r) PROVE TypeOK'
  BY <1>20 DEF Respond, Answers, Idle, Steps
<1>21. ASSUME NEW r \in Rows, TimeOut(r) PROVE TypeOK'
  BY <1>21 DEF TimeOut
<1>22. CASE RouteExpires
  BY <1>22 DEF RouteExpires
<1>23. ASSUME NEW a \in Actions, TokenExpires(a) PROVE TypeOK'
  BY <1>23 DEF TokenExpires
<1>24. CASE UNCHANGED vars
  BY <1>24 DEF vars
<1>25. QED
  BY <1>1, <1>2, <1>3, <1>4, <1>5, <1>6, <1>7, <1>8, <1>9, <1>10, <1>11, <1>12, <1>13,
     <1>14, <1>15, <1>16, <1>17, <1>18, <1>19, <1>20, <1>21, <1>22, <1>23, <1>24 DEF
     Next, RunStep, AnswerStep, Time

\* No row is ever removed, and its action does not change.
LEMMA RefersStep ==
    ASSUME TypeOK, RefersToRows, [Next]_vars
    PROVE  RefersToRows'
<1> USE DEF TypeOK, RefersToRows, rows, history
<1>1. CASE Tick
  BY <1>1 DEF Tick
<1>2. ASSUME NEW W \in SUBSET Busy, LoseWorker(W) PROVE RefersToRows'
  BY <1>2 DEF LoseWorker, Free
<1>3. ASSUME NEW w \in Slots, StartRun(w) PROVE RefersToRows'
  BY <1>3 DEF StartRun, Running
<1>4. ASSUME NEW w \in Slots, ParallelCall(w) PROVE RefersToRows'
  BY <1>4 DEF ParallelCall, Running
<1>5. ASSUME NEW w \in Slots, EndRun(w) PROVE RefersToRows'
  BY <1>5 DEF EndRun, Free
<1>6. ASSUME NEW w \in Slots, ConsumeToken(w) PROVE RefersToRows'
  BY <1>6 DEF ConsumeToken
<1>7. ASSUME NEW w \in Slots, Perform(w) PROVE RefersToRows'
  BY <1>7 DEF Perform, Running
<1>8. ASSUME NEW w \in Slots, Route(w) PROVE RefersToRows'
  BY <1>8 DEF Route, Running
<1>9. ASSUME NEW w \in Slots, GateFails(w) PROVE RefersToRows'
  BY <1>9 DEF GateFails, Running
<1>10. ASSUME NEW w \in Slots, NEW a \in Actions, CheckToken(w, a) PROVE RefersToRows'
  BY <1>10 DEF CheckToken
<1>11. ASSUME NEW w \in Slots, NEW r \in Rows, Ask(w, r) PROVE RefersToRows'
  BY <1>11 DEF Ask
<1>12. ASSUME NEW x \in Responders, Reply(x) PROVE RefersToRows'
  BY <1>12 DEF Reply
<1>13. ASSUME NEW x \in Responders, Read(x) PROVE RefersToRows'
  BY <1>13 DEF Read, Answers, Idle, Decisions, Leave
<1>14. ASSUME NEW x \in Responders, Unclear(x) PROVE RefersToRows'
  BY <1>14 DEF Unclear, Idle
<1>15. ASSUME NEW x \in Responders, Commit(x) PROVE RefersToRows'
  BY <1>15 DEF Commit, Idle, Decisions, Leave, Follow, StatusOf
<1>16. ASSUME NEW x \in Responders, Store(x) PROVE RefersToRows'
  BY <1>16 DEF Store
<1>17. ASSUME NEW x \in Responders, Fire(x) PROVE RefersToRows'
  BY <1>17 DEF Fire, Idle, Leave
<1>18. ASSUME NEW x \in Responders, Unroute(x) PROVE RefersToRows'
  BY <1>18 DEF Unroute, Idle
<1>19. ASSUME NEW x \in Responders, Abort(x) PROVE RefersToRows'
  BY <1>19 DEF Abort, Idle
<1>20. ASSUME NEW x \in Responders, NEW r \in Rows, Respond(x, r) PROVE RefersToRows'
  BY <1>20 DEF Respond
<1>21. ASSUME NEW r \in Rows, TimeOut(r) PROVE RefersToRows'
  BY <1>21 DEF TimeOut
<1>22. CASE RouteExpires
  BY <1>22 DEF RouteExpires
<1>23. ASSUME NEW a \in Actions, TokenExpires(a) PROVE RefersToRows'
  BY <1>23 DEF TokenExpires
<1>24. CASE UNCHANGED vars
  BY <1>24 DEF vars
<1>25. QED
  BY <1>1, <1>2, <1>3, <1>4, <1>5, <1>6, <1>7, <1>8, <1>9, <1>10, <1>11, <1>12, <1>13,
     <1>14, <1>15, <1>16, <1>17, <1>18, <1>19, <1>20, <1>21, <1>22, <1>23, <1>24 DEF
     Next, RunStep, AnswerStep, Time

\* An approved row stays so until a decision is overturned: a ticket for it may be anywhere.
LEMMA ApprovedStep ==
    ASSUME TypeOK, RefersToRows, ApprovedInv, [Next]_vars
    PROVE  ApprovedInv'
<1> USE DEF ApprovedInv, TicketsAreApproved, Stores, Holds, rows, history
<1>1. CASE Tick
  BY <1>1 DEF Tick
<1>2. ASSUME NEW W \in SUBSET Busy, LoseWorker(W) PROVE ApprovedInv'
  BY <1>2 DEF LoseWorker, Free
<1>3. ASSUME NEW w \in Slots, StartRun(w) PROVE ApprovedInv'
  BY <1>3 DEF StartRun, Running
<1>4. ASSUME NEW w \in Slots, ParallelCall(w) PROVE ApprovedInv'
  BY <1>4 DEF ParallelCall, Running
<1>5. ASSUME NEW w \in Slots, EndRun(w) PROVE ApprovedInv'
  BY <1>5 DEF EndRun, Free
<1>6. ASSUME NEW w \in Slots, ConsumeToken(w) PROVE ApprovedInv'
  <2>1. /\ \A a \in Actions : token'[a] \in {token[a], None}
        /\ \A v \in Slots : \A r \in Rows : Holds(v, r)' => Holds(v, r)
        /\ UNCHANGED <<answer, performed, status, overturned>>
    BY <1>6 DEF ConsumeToken, TypeOK, Calls, Ops
  <2>2. QED
    BY <2>1, ApprovalAssumption
<1>7. ASSUME NEW w \in Slots, Perform(w) PROVE ApprovedInv'
  BY <1>7 DEF Perform, Running
<1>8. ASSUME NEW w \in Slots, Route(w) PROVE ApprovedInv'
  BY <1>8 DEF Route, Running
<1>9. ASSUME NEW w \in Slots, GateFails(w) PROVE ApprovedInv'
  BY <1>9 DEF GateFails, Running
<1>10. ASSUME NEW w \in Slots, NEW a \in Actions, CheckToken(w, a) PROVE ApprovedInv'
  BY <1>10 DEF CheckToken
<1>11. ASSUME NEW w \in Slots, NEW r \in Rows, Ask(w, r) PROVE ApprovedInv'
  BY <1>11 DEF Ask, TypeOK
<1>12. ASSUME NEW x \in Responders, Reply(x) PROVE ApprovedInv'
  BY <1>12 DEF Reply
<1>13. ASSUME NEW x \in Responders, Read(x) PROVE ApprovedInv'
  BY <1>13 DEF Read, TypeOK, Answers, Idle, Leave
<1>14. ASSUME NEW x \in Responders, Unclear(x) PROVE ApprovedInv'
  BY <1>14 DEF Unclear, Idle
<1>15. ASSUME NEW x \in Responders, Commit(x) PROVE ApprovedInv'
  BY <1>15 DEF Commit, TypeOK, Answers, Idle, Steps, Leave, Follow, StatusOf
<1>16. ASSUME NEW x \in Responders, Store(x) PROVE ApprovedInv'
  BY <1>16 DEF Store
<1>17. ASSUME NEW x \in Responders, Fire(x) PROVE ApprovedInv'
  BY <1>17 DEF Fire, Idle, Leave
<1>18. ASSUME NEW x \in Responders, Unroute(x) PROVE ApprovedInv'
  BY <1>18 DEF Unroute, Idle
<1>19. ASSUME NEW x \in Responders, Abort(x) PROVE ApprovedInv'
  BY <1>19 DEF Abort, Idle
<1>20. ASSUME NEW x \in Responders, NEW r \in Rows, Respond(x, r) PROVE ApprovedInv'
  BY <1>20 DEF Respond
<1>21. ASSUME NEW r \in Rows, TimeOut(r) PROVE ApprovedInv'
  BY <1>21 DEF TimeOut
<1>22. CASE RouteExpires
  BY <1>22 DEF RouteExpires
<1>23. ASSUME NEW a \in Actions, TokenExpires(a) PROVE ApprovedInv'
  BY <1>23, ApprovalAssumption DEF TokenExpires
<1>24. CASE UNCHANGED vars
  BY <1>24 DEF vars
<1>25. QED
  BY <1>1, <1>2, <1>3, <1>4, <1>5, <1>6, <1>7, <1>8, <1>9, <1>10, <1>11, <1>12, <1>13,
     <1>14, <1>15, <1>16, <1>17, <1>18, <1>19, <1>20, <1>21, <1>22, <1>23, <1>24 DEF
     Next, RunStep, AnswerStep, Time

\* The ticket moves: from the responder to the token, to the flow that finds it, and no two
\* have it unless a decision is overturned or the token is shared.
LEMMA TicketStep ==
    ASSUME TypeOK, RefersToRows, ApprovedInv, TicketInv, [Next]_vars
    PROVE  TicketInv'
<1> USE DEF TicketInv, OneTicket, Stores, Holds, rows, history
<1>1. CASE Tick
  BY <1>1 DEF Tick
<1>2. ASSUME NEW W \in SUBSET Busy, LoseWorker(W) PROVE TicketInv'
  BY <1>2 DEF LoseWorker, Free
<1>3. ASSUME NEW w \in Slots, StartRun(w) PROVE TicketInv'
  BY <1>3 DEF StartRun, Running
<1>4. ASSUME NEW w \in Slots, ParallelCall(w) PROVE TicketInv'
  BY <1>4 DEF ParallelCall, Running
<1>5. ASSUME NEW w \in Slots, EndRun(w) PROVE TicketInv'
  BY <1>5 DEF EndRun, Free
<1>6. ASSUME NEW w \in Slots, ConsumeToken(w) PROVE TicketInv'
  <2> DEFINE q == call[w].row
  <2>1. /\ \A a \in Actions : token'[a] \in {token[a], None}
        /\ \A v \in Slots : \A r \in Rows : Holds(v, r)' <=> Holds(v, r)
        /\ UNCHANGED <<answer, performed, overturned, shared>>
    BY <1>6 DEF ConsumeToken, TypeOK, Calls, Ops
  <2>2. \A v \in Slots \ {w} : call'[v] = call[v]
    BY <1>6 DEF ConsumeToken, TypeOK
  <2>3. \A a \in Actions : token'[a] # q
    BY <1>6, ApprovalAssumption DEF ConsumeToken, TypeOK, RefersToRows
  <2>4. q' = q
    BY <1>6 DEF ConsumeToken, TypeOK, Calls, Ops
  <2> SUFFICES ASSUME ~ overturned, ~ shared
               PROVE  OneTicket'
    BY <2>1 DEF OneTicket
  <2>5. \A a \in Actions : \A r \in Rows : token'[a] = r =>
              /\ \A v \in Slots : ~ (Holds(v, r)' /\ call'[v].op = "perform")
              /\ performed'[r] = 0
    BY <2>1, <2>2, <2>3, <2>4, ApprovalAssumption
  <2>6. QED
    BY <2>1, <2>5, ApprovalAssumption
<1>7. ASSUME NEW w \in Slots, Perform(w) PROVE TicketInv'
  BY <1>7 DEF Perform, TypeOK, Running
<1>8. ASSUME NEW w \in Slots, Route(w) PROVE TicketInv'
  BY <1>8 DEF Route, Running
<1>9. ASSUME NEW w \in Slots, GateFails(w) PROVE TicketInv'
  BY <1>9 DEF GateFails, Running
<1>10. ASSUME NEW w \in Slots, NEW a \in Actions, CheckToken(w, a) PROVE TicketInv'
  <2>1. CASE token[a] = None
    <3>1. /\ \A v \in Slots : \A r \in Rows : Holds(v, r)' => Holds(v, r)
          /\ \A v \in Slots : \A r \in Rows :
                Holds(v, r)' /\ call'[v].op = "perform" => Holds(v, r) /\ call[v].op = "perform"
          /\ UNCHANGED <<token, answer, performed, overturned>>
          /\ shared => shared'
      BY <1>10, <2>1 DEF CheckToken, TypeOK, Calls, Ops
    <3>2. QED
      BY <3>1
  <2>2. CASE token[a] # None
    <3> DEFINE q == token[a]
    <3>1. q \in Rows
      BY <2>2 DEF TypeOK
    <3>2. /\ call' = [call EXCEPT ![w] = [op |-> "found", act |-> a, row |-> q]]
          /\ UNCHANGED <<token, answer, performed, overturned>>
          /\ shared' = (shared \/ \E v \in Slots : call[v].op = "found" /\ call[v].row = q)
      BY <1>10, <2>2 DEF CheckToken
    <3> SUFFICES ASSUME ~ overturned, ~ shared, ~ shared'
                 PROVE  OneTicket'
      BY <3>2 DEF OneTicket
    <3>3. \A v \in Slots : ~ Holds(v, q)
      BY <3>1, <3>2
    <3>4. /\ Holds(w, q)' /\ call'[w].op = "found"
          /\ \A r \in Rows : Holds(w, r)' => r = q
          /\ \A v \in Slots \ {w} : call'[v] = call[v]
      BY <3>2 DEF TypeOK
    <3>5. performed[q] = 0 /\ \A x \in Responders : ~ Stores(x, q)
      BY <3>1
    <3>6. QED
      BY <3>1, <3>2, <3>3, <3>4, <3>5
  <2>3. QED
    BY <2>1, <2>2
<1>11. ASSUME NEW w \in Slots, NEW r \in Rows, Ask(w, r) PROVE TicketInv'
  BY <1>11 DEF Ask, TypeOK
<1>12. ASSUME NEW x \in Responders, Reply(x) PROVE TicketInv'
  BY <1>12 DEF Reply
<1>13. ASSUME NEW x \in Responders, Read(x) PROVE TicketInv'
  <2>1. /\ \A y \in Responders : \A r \in Rows : Stores(y, r)' => Stores(y, r)
        /\ UNCHANGED <<token, call, performed, overturned, shared>>
    BY <1>13 DEF Read, TypeOK, Answers, Idle, Steps, Decisions, Leave
  <2>2. QED
    BY <2>1
<1>14. ASSUME NEW x \in Responders, Unclear(x) PROVE TicketInv'
  BY <1>14 DEF Unclear, Idle
<1>15. ASSUME NEW x \in Responders, Commit(x) PROVE TicketInv'
  <2> DEFINE q == answer[x].row
  <2>0. q \in Rows
    BY <1>15 DEF Commit, RefersToRows
  <2>1. /\ UNCHANGED <<token, call, performed, shared>>
        /\ overturned' = (overturned \/ status[q] # "pending")
    BY <1>15 DEF Commit
  <2>2. /\ \A r \in Rows : Stores(x, r)' => r = q
        /\ \A y \in Responders \ {x} : answer'[y] = answer[y]
    BY <1>15 DEF Commit, TypeOK, Answers, Idle, Steps, Leave, Follow
  <2> SUFFICES ASSUME ~ overturned, ~ shared, status[q] = "pending"
               PROVE  OneTicket'
    BY <2>1 DEF OneTicket
  <2>3. /\ \A y \in Responders : ~ Stores(y, q)
        /\ \A a \in Actions : token[a] # q
        /\ \A w \in Slots : ~ Holds(w, q)
        /\ ~ (performed[q] > 0)
    BY <2>0 DEF ApprovedInv, TicketsAreApproved
  <2>4. performed[q] = 0
    BY <2>0, <2>3 DEF TypeOK
  <2>5. QED
    BY <2>0, <2>1, <2>2, <2>3, <2>4
<1>16. ASSUME NEW x \in Responders, Store(x) PROVE TicketInv'
  BY <1>16 DEF Store, TypeOK
<1>17. ASSUME NEW x \in Responders, Fire(x) PROVE TicketInv'
  BY <1>17 DEF Fire, Idle, Leave
<1>18. ASSUME NEW x \in Responders, Unroute(x) PROVE TicketInv'
  BY <1>18 DEF Unroute, Idle
<1>19. ASSUME NEW x \in Responders, Abort(x) PROVE TicketInv'
  BY <1>19 DEF Abort, Idle
<1>20. ASSUME NEW x \in Responders, NEW r \in Rows, Respond(x, r) PROVE TicketInv'
  BY <1>20 DEF Respond
<1>21. ASSUME NEW r \in Rows, TimeOut(r) PROVE TicketInv'
  BY <1>21 DEF TimeOut
<1>22. CASE RouteExpires
  BY <1>22 DEF RouteExpires
<1>23. ASSUME NEW a \in Actions, TokenExpires(a) PROVE TicketInv'
  <2>1. /\ \A b \in Actions : token'[b] \in {token[b], None}
        /\ UNCHANGED <<call, answer, performed, overturned, shared>>
    BY <1>23 DEF TokenExpires, TypeOK
  <2>2. QED
    BY <2>1, ApprovalAssumption
<1>24. CASE UNCHANGED vars
  BY <1>24 DEF vars
<1>25. QED
  BY <1>1, <1>2, <1>3, <1>4, <1>5, <1>6, <1>7, <1>8, <1>9, <1>10, <1>11, <1>12, <1>13,
     <1>14, <1>15, <1>16, <1>17, <1>18, <1>19, <1>20, <1>21, <1>22, <1>23, <1>24 DEF
     Next, RunStep, AnswerStep, Time

\* At first there are no rows.
LEMMA InitApproval == Init => ApprovalInv
<1> SUFFICES ASSUME Init
             PROVE  ApprovalInv
  OBVIOUS
<1>1. TypeOK
  BY DEF Init, TypeOK, Statuses, Calls, Ops, Free, Answers, Steps, Idle, Decisions
<1>2. RefersToRows
  BY DEF Init, RefersToRows, Free, Idle
<1>3. ApprovedInv
  BY ApprovalAssumption DEF Init, ApprovedInv, TicketsAreApproved, Stores, Holds, Free, Idle
<1>4. TicketInv
  BY ApprovalAssumption DEF Init, TicketInv, OneTicket, Stores, Holds, Free, Idle
<1>5. QED
  BY <1>1, <1>2, <1>3, <1>4 DEF ApprovalInv

\* The inductive invariant holds of every behaviour.
THEOREM ApprovalInvariant == Spec => []ApprovalInv
<1>1. ApprovalInv /\ [Next]_vars => ApprovalInv'
  BY TypeStep, RefersStep, ApprovedStep, TicketStep DEF ApprovalInv
<1>2. QED
  BY InitApproval, <1>1, PTL DEF Spec

\* Type correctness of the rows, the keys, the runs and the responders.
THEOREM TypeCorrect == Spec => []TypeOK
<1>1. ApprovalInv => TypeOK
  BY DEF ApprovalInv
<1>2. QED
  BY ApprovalInvariant, <1>1, PTL

\* Unless two responders decide one request or two flows find one token, an action is
\* performed at most once for each approved request, whatever crashes, time-outs, repeats
\* and redeliveries there are.
THEOREM ApprovedActionOnce == Spec => []OnceUnlessRaced
<1>1. ApprovalInv => OnceUnlessRaced
  BY DEF ApprovalInv, TicketInv, OneTicket, OnceUnlessRaced, PerformedOnce
<1>2. QED
  BY ApprovalInvariant, <1>1, PTL

\* Unless two responders decide one request, what was performed was approved and is so still.
THEOREM PerformedWasApproved == Spec => []PerformedIsApproved
<1>1. ApprovalInv => PerformedIsApproved
  BY DEF ApprovalInv, ApprovedInv, TicketsAreApproved, PerformedIsApproved
<1>2. QED
  BY ApprovalInvariant, <1>1, PTL

(* What it promises: HumanApproval implements ApprovalOnce.                  *)

\* What no row, no decision and no count of performances shows promises nothing.
Unseen == UNCHANGED <<status, overdue, performed, overturned, shared>>

LEMMA UnseenIsNothing == ASSUME Unseen PROVE TheApproval!Next
<1>1. TheApproval!Nothing
  BY DEF Unseen, TheApproval!Nothing, TheApproval!promise
<1>2. QED
  BY <1>1 DEF TheApproval!Next

\* A flow that finds a token finds an approved one; that another has found it too is
\* what sharing is.
LEMMA FindingIsShare ==
    ASSUME TypeOK, RefersToRows, ApprovedInv, NEW w \in Slots, NEW a \in Actions, CheckToken(w, a)
    PROVE  TheApproval!Next
<1>1. UNCHANGED <<status, overdue, performed, overturned>>
  BY DEF CheckToken, rows
<1>2. CASE shared' = shared
  BY <1>1, <1>2, UnseenIsNothing DEF Unseen
<1>3. CASE shared' # shared
  <2>1. PICK v \in Slots : call[v].op = "found" /\ call[v].row = token[a]
    BY <1>3 DEF CheckToken, TypeOK
  <2>2. ~ shared /\ shared' = TRUE
    BY <1>3, <2>1 DEF CheckToken, TypeOK
  <2>3. token[a] \in Rows /\ Holds(v, token[a])
    BY <2>1 DEF RefersToRows, Holds
  <2>4. status[token[a]] = "approved" \/ overturned
    BY <2>3 DEF ApprovedInv, TicketsAreApproved
  <2>5. TheApproval!Share
    BY <1>1, <2>2, <2>3, <2>4 DEF TheApproval!Share
  <2>6. QED
    BY <2>5 DEF TheApproval!Next
<1>4. QED
  BY <1>2, <1>3

\* An action is performed with the ticket in hand, of which there is one.
LEMMA PerformIsAct ==
    ASSUME TypeOK, RefersToRows, ApprovedInv, TicketInv, NEW w \in Slots, Perform(w)
    PROVE  TheApproval!Next
<1> DEFINE r == call[w].row
<1>1. r \in Rows /\ Holds(w, r)
  BY DEF Perform, RefersToRows, Holds
<1>2. status[r] = "approved" \/ overturned
  BY <1>1 DEF ApprovedInv, TicketsAreApproved
<1>3. performed[r] = 0 \/ overturned \/ shared
  BY <1>1 DEF TicketInv, OneTicket
<1>4. TheApproval!Act(r)
  BY <1>2, <1>3 DEF Perform, rows, TheApproval!Act
<1>5. QED
  BY <1>1, <1>4 DEF TheApproval!Next

\* The decision that a responder made on what it read is committed over what the row says
\* by now; that it expired was true then and is so for good.
LEMMA CommitIsDecide ==
    ASSUME TypeOK, RefersToRows, NEW x \in Responders, Commit(x)
    PROVE  TheApproval!Next
<1> DEFINE r == answer[x].row
           d == StatusOf(answer[x].to)
<1>1. r \in Rows /\ status[r] # "none"
  BY DEF Commit, RefersToRows
<1>2. d \in {"approved", "rejected", "expired"} /\ (d = "expired" => r \in overdue)
  BY DEF Commit, RefersToRows, StatusOf, Decisions
<1>3. TheApproval!Decide(r, d)
  BY <1>1, <1>2 DEF Commit, TheApproval!Decide
<1>4. QED
  BY <1>1, <1>2, <1>3 DEF TheApproval!Next

LEMMA AskIsMake ==
    ASSUME NEW w \in Slots, NEW r \in Rows, Ask(w, r)
    PROVE  TheApproval!Next
<1>1. TheApproval!Make(r)
  BY DEF Ask, history, TheApproval!Make
<1>2. QED
  BY <1>1 DEF TheApproval!Next

LEMMA TimeOutIsLapse ==
    ASSUME NEW r \in Rows, TimeOut(r)
    PROVE  TheApproval!Next
<1>1. TheApproval!Lapse(r)
  BY DEF TimeOut, history, TheApproval!Lapse
<1>2. QED
  BY <1>1 DEF TheApproval!Next

\* Nothing else is seen of the runs.
LEMMA RunsAreUnseen ==
    ASSUME NEW w \in Slots,
           \/ StartRun(w) \/ ParallelCall(w) \/ EndRun(w)
           \/ ConsumeToken(w) \/ Route(w) \/ GateFails(w)
    PROVE  Unseen
BY DEF StartRun, ParallelCall, EndRun, ConsumeToken, Route, GateFails, rows, history, Unseen

\* Nothing else is seen of the responders.
LEMMA AnswersAreUnseen ==
    ASSUME NEW x \in Responders,
           \/ Reply(x) \/ Read(x) \/ Unclear(x) \/ Store(x) \/ Fire(x) \/ Unroute(x) \/ Abort(x)
           \/ \E r \in Rows : Respond(x, r)
    PROVE  Unseen
BY DEF Reply, Read, Unclear, Store, Fire, Unroute, Abort, Respond, rows, history, Unseen

\* Every step maps to a step of the promise, or to none.
LEMMA NextKeepsPromise ==
    ASSUME ApprovalInv, [Next]_vars
    PROVE  TheApproval!Next
<1> USE DEF ApprovalInv
<1>1. CASE Tick
  BY <1>1, UnseenIsNothing DEF Tick, rows, history, Unseen
<1>2. ASSUME NEW W \in SUBSET Busy, LoseWorker(W) PROVE TheApproval!Next
  BY <1>2, UnseenIsNothing DEF LoseWorker, rows, history, Unseen
<1>3. ASSUME NEW w \in Slots, RunStep(w) PROVE TheApproval!Next
  <2>1. CASE \E a \in Actions : CheckToken(w, a)
    BY <2>1, FindingIsShare
  <2>2. CASE Perform(w)
    BY <2>2, PerformIsAct
  <2>3. CASE \E r \in Rows : Ask(w, r)
    BY <2>3, AskIsMake
  <2>4. CASE ~ (\E a \in Actions : CheckToken(w, a)) /\ ~ Perform(w) /\ ~ (\E r \in Rows : Ask(w, r))
    BY <1>3, <2>4, RunsAreUnseen, UnseenIsNothing DEF RunStep
  <2>5. QED
    BY <2>1, <2>2, <2>3, <2>4
<1>4. ASSUME NEW x \in Responders, AnswerStep(x) PROVE TheApproval!Next
  <2>1. CASE Commit(x)
    BY <2>1, CommitIsDecide
  <2>2. CASE ~ Commit(x)
    BY <1>4, <2>2, AnswersAreUnseen, UnseenIsNothing DEF AnswerStep
  <2>3. QED
    BY <2>1, <2>2
<1>5. CASE Time
  <2>1. CASE \E r \in Rows : TimeOut(r)
    BY <2>1, TimeOutIsLapse
  <2>2. CASE RouteExpires \/ \E a \in Actions : TokenExpires(a)
    BY <2>2, UnseenIsNothing DEF RouteExpires, TokenExpires, rows, history, Unseen
  <2>3. QED
    BY <1>5, <2>1, <2>2 DEF Time
<1>6. CASE UNCHANGED vars
  BY <1>6, UnseenIsNothing DEF vars, Unseen
<1>7. QED
  BY <1>1, <1>2, <1>3, <1>4, <1>5, <1>6 DEF Next

\* The table, the keys, the flows and the responders are one approval: decided once, expired
\* only when its time is over, and performed once after it was approved, unless two responders
\* decide one request or two flows find one token.
THEOREM ApprovalImplementsOnce == Spec => IsApprovedOnce
<1>1. Init => TheApproval!Init
  BY DEF Init, TheApproval!Init
<1>2. ApprovalInv /\ [Next]_vars => TheApproval!Next
  BY NextKeepsPromise
<1>3. QED
  BY <1>1, <1>2, ApprovalInvariant, PTL DEF Spec, IsApprovedOnce, TheApproval!Spec

===============================================================================

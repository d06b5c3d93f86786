------------------------ MODULE ConversationLaneProofs ------------------------
(***************************************************************************)
(* Theorems about ConversationLane, for every finite set of requests, every*)
(* set of processes and every kind of fault.                               *)
(***************************************************************************)
EXTENDS ConversationLane, FiniteSetTheorems, TLAPS

\* What LaneInv says beyond the types and the key.
TablesInv ==
    /\ Placed
    /\ CountIsExact
    /\ InsideUseTheLock
    /\ HoldersOwn
    /\ LockIsWanted
    /\ ActiveIsWanted
    /\ EntryIsWanted
    /\ ClosersHaveTokens

LEMMA InsideIsFinite ==
    ASSUME NEW p
    PROVE  IsFiniteSet(Inside(p)) /\ Cardinality(Inside(p)) \in Nat
BY LaneAssumption, FS_Subset, FS_CardinalityType DEF Inside

-------------------------------------------------------------------------------
(* Entering and leaving the lane.                                            *)

LEMMA EnterKeepsInv ==
    ASSUME LaneInv, NEW r \in Requests, NEW p \in Processes, Enter(r, p)
    PROVE  LaneInv'
<1> USE DEF LaneInv
<1>1. TypeOK'
  BY DEF TypeOK, Enter, Stages
<1>2. /\ Inside(p)' = Inside(p) \cup {r}
      /\ r \notin Inside(p)
      /\ \A q \in Processes \ {p} : Inside(q)' = Inside(q)
  BY DEF TypeOK, Enter, Inside
<1>3. Placed'
  BY LaneAssumption DEF TypeOK, Enter, Placed
<1>4. CountIsExact'
  <2>1. Cardinality(Inside(p) \cup {r}) = Cardinality(Inside(p)) + 1
    BY <1>2, InsideIsFinite, FS_AddElement
  <2>2. count' = [count EXCEPT ![p] = count[p] + 1]
    BY DEF Enter
  <2>3. \A q \in Processes \ {p} : Cardinality(Inside(q))' = Cardinality(Inside(q))
    BY <1>2
  <2>4. Cardinality(Inside(p))' = Cardinality(Inside(p)) + 1
    BY <1>2, <2>1
  <2>5. QED
    BY <2>2, <2>3, <2>4 DEF TypeOK, CountIsExact
<1>5. InsideUseTheLock'
  <2>1. ref'[r] = lock'[p]
    BY DEF TypeOK, Enter
  <2>2. \A s \in Inside(p) : ref'[s] = lock'[p]
    BY <1>2, LaneAssumption DEF TypeOK, Enter, InsideUseTheLock, Placed, Inside
  <2>3. \A q \in Processes \ {p} : \A s \in Inside(q) : ref'[s] = lock'[q]
    BY <1>2 DEF TypeOK, Enter, InsideUseTheLock, Inside
  <2>4. QED
    BY <1>2, <2>1, <2>2, <2>3 DEF InsideUseTheLock
<1>6. HoldersOwn'
  BY DEF TypeOK, Enter, HoldersOwn
<1>7. LockIsWanted' /\ ActiveIsWanted' /\ ClosersHaveTokens'
  BY DEF TypeOK, Enter, LockIsWanted, ActiveIsWanted, ClosersHaveTokens
<1>8. EntryIsWanted'
  BY DEF TypeOK, Enter, EntryIsWanted
<1>9. RunnersHaveTheKey'
  BY DEF TypeOK, Enter, RunnersHaveTheKey, Running
<1>10. QED
  BY <1>1, <1>3, <1>4, <1>5, <1>6, <1>7, <1>8, <1>9

\* What the end of the finally block does to the tables, with or without a KeyError.
LEMMA CleanUpEffect ==
    ASSUME TypeOK, NEW r \in Requests, host[r] \in Processes, NEW n \in Nat, CleanUp(r, n)
    PROVE  /\ lock' = [lock EXCEPT ![host[r]] = IF n = 0 THEN None ELSE @]
           /\ counted' \subseteq Processes /\ raised' \subseteq Requests
           /\ raised \subseteq raised'
           /\ counted' \subseteq counted \cup {host[r]}
           /\ host[r] \in counted' => n # 0 \/ r \in raised'
BY DEF TypeOK, CleanUp

\* Whoever leaves, in whatever stage: the lock object goes with the last of those
\* who wait for it or run under it.
LEMMA LeaveKeepsTables ==
    ASSUME LaneInv, NEW r \in Requests, stage[r] \notin {"new", "done"}, NEW n,
           n = Cardinality(Inside(host[r]) \ {r}), Leave(r, n),
           key' \in Requests \cup {None}, spoilt' = spoilt
    PROVE  TypeOK' /\ TablesInv'
<1> USE DEF LaneInv
<1>0. PICK p \in Processes : p = host[r] /\ ref[r] \in Requests
  BY DEF Placed
<1>1. n \in Nat /\ (n = 0 <=> Inside(p) \ {r} = {})
  BY <1>0, InsideIsFinite, FS_RemoveElement, FS_CardinalityType, FS_EmptySet
<1> HIDE DEF LaneInv
<1>c. /\ lock' = [lock EXCEPT ![p] = IF n = 0 THEN None ELSE @]
      /\ counted' \subseteq Processes /\ raised' \subseteq Requests
      /\ raised \subseteq raised'
      /\ counted' \subseteq counted \cup {p}
      /\ p \in counted' => n # 0 \/ r \in raised'
  BY <1>0, <1>1, CleanUpEffect DEF Leave, LaneInv
<1> USE DEF LaneInv
<1>2. TypeOK'
  BY <1>0, <1>1, <1>c DEF TypeOK, Leave, Stages
<1>3. /\ Inside(p)' = Inside(p) \ {r}
      /\ \A q \in Processes \ {p} : Inside(q)' = Inside(q)
  BY <1>0 DEF TypeOK, Leave, Inside
<1>4. Placed'
  BY DEF TypeOK, Leave, Placed
<1>5. CountIsExact'
  <2>1. count' = [count EXCEPT ![p] = n]
    BY <1>0 DEF Leave
  <2>2. Cardinality(Inside(p))' = n
    BY <1>0, <1>3
  <2>3. \A q \in Processes \ {p} : Cardinality(Inside(q))' = Cardinality(Inside(q))
    BY <1>3
  <2>4. QED
    BY <1>0, <2>1, <2>2, <2>3 DEF TypeOK, CountIsExact
<1>6. InsideUseTheLock'
  <2>1. \A q \in Processes : \A s \in Inside(q)' : ref'[s] = lock[q]
    BY <1>0, <1>3 DEF Leave, InsideUseTheLock
  <2>2. \A q \in Processes : \A s \in Inside(q)' : lock'[q] = lock[q]
    <3> SUFFICES ASSUME NEW q \in Processes, NEW s \in Inside(q)'
                 PROVE  lock'[q] = lock[q]
      OBVIOUS
    <3>1. CASE q # p
      BY <1>0, <1>c, <3>1 DEF TypeOK
    <3>2. CASE q = p
      BY <1>0, <1>1, <1>3, <1>c, <3>2 DEF TypeOK
    <3>3. QED
      BY <3>1, <3>2
  <2>3. QED
    BY <2>1, <2>2 DEF InsideUseTheLock
<1>7. HoldersOwn'
  <2> SUFFICES ASSUME NEW s \in Requests, stage'[s] \in {"setting", "running", "closing"}
               PROVE  owner'[ref'[s]] = s
    BY DEF HoldersOwn
  <2>1. s # r /\ stage[s] = stage'[s]
    BY DEF TypeOK, Leave
  <2>2. owner[ref[s]] = s /\ ref[s] \in Requests
    BY <2>1 DEF HoldersOwn, Placed
  <2>3. QED
    BY <1>0, <2>1, <2>2 DEF TypeOK, Leave
<1>8. LockIsWanted'
  <2> SUFFICES ASSUME NEW q \in Processes, lock'[q] # None
               PROVE  \E s \in Requests : host'[s] = q /\ stage'[s] \notin {"new", "done"}
    BY DEF LockIsWanted
  <2>1. CASE q # p
    <3>1. lock[q] # None
      BY <1>0, <1>c, <2>1 DEF TypeOK
    <3>2. PICK s \in Requests : host[s] = q /\ stage[s] \notin {"new", "done"}
      BY <3>1 DEF LockIsWanted
    <3>3. QED
      BY <1>0, <2>1, <3>2 DEF TypeOK, Leave
  <2>2. CASE q = p
    <3>1. n # 0
      BY <1>0, <1>c, <2>2 DEF TypeOK
    <3>2. PICK s \in Inside(p)' : TRUE
      BY <1>1, <1>3, <3>1
    <3>3. QED
      BY <2>2, <3>2 DEF Inside, Leave
  <2>3. QED
    BY <2>1, <2>2
<1>9. ActiveIsWanted'
  <2> SUFFICES ASSUME NEW q \in Processes, active'[q]
               PROVE  \E s \in Requests : host'[s] = q /\ stage'[s] \notin {"new", "done"}
    BY DEF ActiveIsWanted
  <2>1. q # p /\ active[q]
    BY <1>0 DEF TypeOK, Leave
  <2>2. PICK s \in Requests : host[s] = q /\ stage[s] \notin {"new", "done"}
    BY <2>1 DEF ActiveIsWanted
  <2>3. QED
    BY <1>0, <2>1, <2>2 DEF TypeOK, Leave
<1>10. EntryIsWanted'
  <2> SUFFICES ASSUME NEW q \in counted'
               PROVE  \E s \in Requests : /\ host'[s] = q
                                          /\ stage'[s] # "new"
                                          /\ stage'[s] # "done" \/ s \in raised'
    BY DEF EntryIsWanted
  <2>1. CASE q # p
    <3>1. q \in counted
      BY <1>c, <2>1
    <3>2. PICK s \in Requests : /\ host[s] = q /\ stage[s] # "new"
                                /\ stage[s] # "done" \/ s \in raised
      BY <3>1 DEF EntryIsWanted
    <3>3. s # r
      BY <1>0, <2>1, <3>2
    <3>4. QED
      BY <1>c, <3>2, <3>3 DEF TypeOK, Leave
  <2>2. CASE q = p /\ n # 0
    <3>1. PICK s \in Inside(p)' : TRUE
      BY <1>1, <1>3, <2>2
    <3>2. QED
      BY <2>2, <3>1 DEF Inside
  <2>3. CASE q = p /\ r \in raised'
    BY <1>0, <2>3 DEF Leave
  <2>4. QED
    BY <1>c, <2>1, <2>2, <2>3
<1>11. ClosersHaveTokens'
  BY DEF TypeOK, Leave, ClosersHaveTokens
<1>12. QED
  BY <1>2, <1>4, <1>5, <1>6, <1>7, <1>8, <1>9, <1>10, <1>11 DEF TablesInv

\* The count without r, before and after r has left it.
LEMMA CountWithout ==
    ASSUME LaneInv, NEW r \in Requests, stage[r] \notin {"new", "done"}
    PROVE  /\ r \in Inside(host[r]) =>
                  count[host[r]] - 1 = Cardinality(Inside(host[r]) \ {r})
           /\ r \notin Inside(host[r]) =>
                  count[host[r]] = Cardinality(Inside(host[r]) \ {r})
BY InsideIsFinite, FS_RemoveElement DEF LaneInv, Placed, CountIsExact

LEMMA LeaversKeepInv ==
    ASSUME LaneInv, NEW r \in Requests, GiveUp(r) \/ Close(r)
    PROVE  LaneInv'
<1> DEFINE n == IF stage[r] = "closing" THEN count[host[r]] ELSE count[host[r]] - 1
<1>1. stage[r] \in {"waiting", "setting", "closing"} /\ Leave(r, n) /\ spoilt' = spoilt
  BY DEF GiveUp, Close
<1>2. n = Cardinality(Inside(host[r]) \ {r})
  BY <1>1, CountWithout DEF Inside
<1>3. key' \in Requests \cup {None}
  BY DEF GiveUp, Close, SetUnanswered, LaneInv, TypeOK
<1>4. TypeOK' /\ TablesInv'
  BY <1>1, <1>2, <1>3, LeaveKeepsTables
<1>5. RunnersHaveTheKey'
  <2> SUFFICES ASSUME ~ spoilt, NEW s \in Running'
               PROVE  key' = s /\ s \in token'
    BY <1>1 DEF RunnersHaveTheKey
  <2>1. s \in Running /\ s # r
    BY <1>1 DEF Running, Leave, LaneInv, TypeOK
  <2>2. key = s /\ s \in token
    BY <2>1 DEF LaneInv, RunnersHaveTheKey
  <2>3. QED
    BY <2>1, <2>2, LaneAssumption DEF GiveUp, Close, SetUnanswered, Leave, Running
<1>6. QED
  BY <1>4, <1>5 DEF LaneInv, TablesInv

-------------------------------------------------------------------------------
(* In the lane.                                                              *)

LEMMA TakeLockKeepsInv ==
    ASSUME LaneInv, NEW r \in Requests, TakeLock(r)
    PROVE  LaneInv'
<1> USE DEF LaneInv
<1>0. ref[r] \in Requests /\ host[r] \in Processes
  BY DEF TakeLock, Placed
<1>1. TypeOK'
  BY <1>0 DEF TypeOK, TakeLock, Stages
<1>2. \A p : Inside(p)' = Inside(p)
  BY DEF TypeOK, TakeLock, Inside
<1>3. Placed' /\ LockIsWanted' /\ ActiveIsWanted' /\ EntryIsWanted' /\ ClosersHaveTokens'
  BY <1>0 DEF TypeOK, TakeLock, Placed, LockIsWanted, ActiveIsWanted, EntryIsWanted,
              ClosersHaveTokens
<1>4. CountIsExact' /\ InsideUseTheLock'
  BY <1>2 DEF TakeLock, CountIsExact, InsideUseTheLock
<1>5. HoldersOwn'
  BY <1>0, LaneAssumption DEF TypeOK, TakeLock, HoldersOwn, Placed
<1>6. RunnersHaveTheKey'
  BY DEF TypeOK, TakeLock, RunnersHaveTheKey, Running
<1>7. QED
  BY <1>1, <1>3, <1>4, <1>5, <1>6

LEMMA RunKeepsTables ==
    ASSUME LaneInv, NEW r \in Requests, stage[r] = "setting", Run(r), token \subseteq token'
    PROVE  /\ TablesInv'
           /\ stage' \in [Requests -> Stages]
           /\ active' \in [Processes -> BOOLEAN]
<1> USE DEF LaneInv
<1>0. ref[r] \in Requests /\ host[r] \in Processes
  BY DEF Placed
<1>1. \A p : Inside(p)' = Inside(p)
  BY DEF TypeOK, Run, Inside
<1>2. Placed' /\ LockIsWanted' /\ EntryIsWanted'
  BY <1>0 DEF TypeOK, Run, Placed, LockIsWanted, EntryIsWanted
<1>3. CountIsExact' /\ InsideUseTheLock'
  BY <1>1 DEF Run, CountIsExact, InsideUseTheLock
<1>4. HoldersOwn'
  BY DEF TypeOK, Run, HoldersOwn
<1>5. ActiveIsWanted'
  <2> SUFFICES ASSUME NEW q \in Processes, active'[q]
               PROVE  \E s \in Requests : host'[s] = q /\ stage'[s] \notin {"new", "done"}
    BY DEF ActiveIsWanted
  <2>1. CASE q = host[r]
    BY <2>1 DEF TypeOK, Run
  <2>2. CASE q # host[r]
    BY <2>2 DEF TypeOK, Run, ActiveIsWanted
  <2>3. QED
    BY <2>1, <2>2
<1>6. stage' \in [Requests -> Stages] /\ active' \in [Processes -> BOOLEAN]
  BY <1>0 DEF TypeOK, Run, Stages
<1>7. ClosersHaveTokens'
  BY DEF TypeOK, Run, ClosersHaveTokens
<1>8. QED
  BY <1>2, <1>3, <1>4, <1>5, <1>6, <1>7 DEF TablesInv

LEMMA RunnersKeepInv ==
    ASSUME LaneInv, NEW r \in Requests, SetKey(r) \/ RunWithoutKey(r)
    PROVE  LaneInv'
<1> USE DEF LaneInv
<1>1. stage[r] = "setting" /\ Run(r) /\ token \subseteq token'
  BY DEF SetKey, RunWithoutKey
<1>2. TablesInv' /\ stage' \in [Requests -> Stages] /\ active' \in [Processes -> BOOLEAN]
  BY <1>1, RunKeepsTables
<1>3. TypeOK'
  BY <1>1, <1>2 DEF TypeOK, Run, SetKey, RunWithoutKey, SetUnanswered, Fault
<1>4. RunnersHaveTheKey'
  <2>1. CASE RunWithoutKey(r)
    BY <2>1 DEF RunWithoutKey, Fault, RunnersHaveTheKey
  <2>2. CASE SetKey(r)
    <3> SUFFICES ASSUME ~ spoilt, NEW s \in Running'
                 PROVE  key' = s /\ s \in token'
      BY <2>2 DEF SetKey, RunnersHaveTheKey
    <3>1. Running = {}
      BY <2>2, LaneAssumption DEF SetKey, RunnersHaveTheKey, Running
    <3>2. s = r
      BY <1>1, <3>1 DEF Run, Running, TypeOK
    <3>3. QED
      BY <2>2, <3>2 DEF SetKey
  <2>3. QED
    BY <2>1, <2>2
<1>5. QED
  BY <1>2, <1>3, <1>4 DEF TablesInv

LEMMA EndRunKeepsInv ==
    ASSUME LaneInv, NEW r \in Requests, EndRun(r)
    PROVE  LaneInv'
<1> USE DEF LaneInv
<1>0. /\ stage[r] = "running"
      /\ UNCHANGED <<key, spoilt>>
      /\ ref[r] \in Requests /\ host[r] \in Processes
      /\ r \in Inside(host[r])
  BY DEF EndRun, Placed, Inside
<1> DEFINE n == Cardinality(Inside(host[r]) \ {r})
<1>1. count[host[r]] - 1 = n /\ n \in Nat
  BY <1>0, CountWithout, InsideIsFinite, FS_RemoveElement, FS_CardinalityType
<1>2. CASE r \notin token
  <2>1. Leave(r, count[host[r]] - 1)
    BY <1>2 DEF EndRun
  <2>2. TypeOK' /\ TablesInv'
    BY <1>0, <1>1, <2>1, LeaveKeepsTables DEF TypeOK
  <2>3. RunnersHaveTheKey'
    BY <1>0, <2>1 DEF Leave, RunnersHaveTheKey, Running, TypeOK
  <2>4. QED
    BY <2>2, <2>3 DEF TablesInv
<1>3. CASE r \in token
  <2>0. /\ stage' = [stage EXCEPT ![r] = "closing"]
        /\ count' = [count EXCEPT ![host[r]] = count[host[r]] - 1]
        /\ UNCHANGED <<alive, host, lock, ref, owner, counted, active, token, raised>>
    BY <1>3 DEF EndRun
  <2>1. TypeOK'
    BY <1>0, <1>1, <2>0 DEF TypeOK, Stages
  <2>2. /\ Inside(host[r])' = Inside(host[r]) \ {r}
        /\ \A q \in Processes \ {host[r]} : Inside(q)' = Inside(q)
    BY <1>0, <2>0 DEF TypeOK, Inside
  <2>3. CountIsExact'
    <3>1. \A q \in Processes \ {host[r]} : Cardinality(Inside(q))' = Cardinality(Inside(q))
      BY <2>2
    <3>2. Cardinality(Inside(host[r]))' = n
      BY <2>2
    <3>3. count'[host[r]] = n /\ \A q \in Processes \ {host[r]} : count'[q] = count[q]
      BY <1>0, <1>1, <2>0 DEF TypeOK
    <3>4. \A q \in Processes : count'[q] = Cardinality(Inside(q))'
      <4> SUFFICES ASSUME NEW q \in Processes
                   PROVE  count'[q] = Cardinality(Inside(q))'
        OBVIOUS
      <4>1. CASE q = host[r]
        <5>1. Inside(q)' = Inside(host[r])'
          BY <2>0, <4>1 DEF Inside
        <5>2. QED
          BY <3>2, <3>3, <4>1, <5>1
      <4>2. CASE q # host[r]
        BY <3>1, <3>3, <4>2 DEF CountIsExact
      <4>3. QED
        BY <4>1, <4>2
    <3>5. QED
      BY <3>4 DEF CountIsExact
  <2>4. InsideUseTheLock'
    BY <2>0, <2>2 DEF InsideUseTheLock, Inside
  <2>5. /\ Placed' /\ LockIsWanted' /\ ActiveIsWanted'
        /\ EntryIsWanted' /\ ClosersHaveTokens'
    BY <1>0, <1>3, <2>0 DEF TypeOK, Placed, LockIsWanted, ActiveIsWanted, EntryIsWanted,
                            ClosersHaveTokens
  <2>6. HoldersOwn'
    BY <1>0, <2>0 DEF TypeOK, HoldersOwn
  <2>7. RunnersHaveTheKey'
    BY <1>0, <2>0 DEF TypeOK, RunnersHaveTheKey, Running
  <2>8. QED
    BY <2>1, <2>3, <2>4, <2>5, <2>6, <2>7
<1>4. QED
  BY <1>2, <1>3

-------------------------------------------------------------------------------
(* Redis, and the processes.                                                 *)

LEMMA CrashKeepsInv ==
    ASSUME LaneInv, NEW p \in Processes, Crash(p)
    PROVE  LaneInv'
<1> USE DEF LaneInv
<1> DEFINE gone == {r \in Requests : host[r] = p}
<1>1. TypeOK'
  BY DEF TypeOK, Crash, Stages
<1>2. Inside(p)' = {} /\ \A q \in Processes \ {p} : Inside(q)' = Inside(q)
  BY DEF TypeOK, Crash, Inside
<1>3. CountIsExact'
  <2>1. Cardinality(Inside(p))' = 0
    BY <1>2, FS_EmptySet
  <2>2. \A q \in Processes \ {p} : Cardinality(Inside(q))' = Cardinality(Inside(q))
    BY <1>2
  <2>3. QED
    BY <2>1, <2>2 DEF TypeOK, Crash, CountIsExact
<1>4. InsideUseTheLock'
  BY <1>2 DEF TypeOK, Crash, InsideUseTheLock
<1>5. Placed'
  BY DEF TypeOK, Crash, Placed
<1>6. HoldersOwn'
  BY DEF TypeOK, Crash, HoldersOwn, Placed
<1>7. LockIsWanted' /\ ActiveIsWanted' /\ EntryIsWanted' /\ ClosersHaveTokens'
  BY DEF TypeOK, Crash, LockIsWanted, ActiveIsWanted, EntryIsWanted, ClosersHaveTokens
<1>8. RunnersHaveTheKey'
  BY DEF TypeOK, Crash, RunnersHaveTheKey, Running
<1>9. QED
  BY <1>1, <1>3, <1>4, <1>5, <1>6, <1>7, <1>8

\* Steps that leave the tables of the processes as they are.
LEMMA KeyStepsKeepInv ==
    ASSUME LaneInv,
           ExpireKey \/ Stall \/ (\E p \in Processes : Boot(p)) \/ UNCHANGED vars
    PROVE  LaneInv'
<1> USE DEF LaneInv
<1>1. UNCHANGED <<stage, host, lock, ref, owner, count, counted, active, token, raised>>
  BY DEF ExpireKey, Stall, Boot, vars, laneVars
<1>2. TypeOK'
  BY <1>1 DEF TypeOK, ExpireKey, Stall, Boot, Fault, vars, laneVars
<1>3. \A p : Inside(p)' = Inside(p)
  BY <1>1 DEF Inside
<1>4. TablesInv'
  BY <1>1, <1>3 DEF TablesInv, Placed, CountIsExact, InsideUseTheLock, HoldersOwn,
                    LockIsWanted, ActiveIsWanted, EntryIsWanted, ClosersHaveTokens
<1>5. RunnersHaveTheKey'
  <2>1. CASE ExpireKey
    BY <1>1, <2>1 DEF ExpireKey, Renewed, RunnersHaveTheKey, Running
  <2>2. CASE Stall \/ \E p \in Processes : Boot(p)
    BY <2>2 DEF Stall, Boot, Fault, RunnersHaveTheKey
  <2>3. CASE UNCHANGED vars
    BY <1>1, <2>3 DEF vars, RunnersHaveTheKey, Running
  <2>4. QED
    BY <2>1, <2>2, <2>3
<1>6. QED
  BY <1>2, <1>4, <1>5 DEF TablesInv

-------------------------------------------------------------------------------
(* The theorems.                                                             *)

LEMMA InitInv == Init => LaneInv
<1> SUFFICES ASSUME Init
             PROVE  LaneInv
  OBVIOUS
<1>1. \A p : Inside(p) = {}
  BY DEF Init, Inside
<1>2. CountIsExact
  BY <1>1, FS_EmptySet DEF Init, CountIsExact
<1>3. QED
  BY <1>1, <1>2 DEF Init, LaneInv, TypeOK, Stages, Placed, InsideUseTheLock, HoldersOwn,
                    LockIsWanted, ActiveIsWanted, EntryIsWanted, ClosersHaveTokens,
                    RunnersHaveTheKey, Running

LEMMA StepInv == LaneInv /\ [Next]_vars => LaneInv'
BY EnterKeepsInv, LeaversKeepInv, TakeLockKeepsInv, RunnersKeepInv, EndRunKeepsInv,
   CrashKeepsInv, KeyStepsKeepInv
DEF Next

\* The inductive invariant of the lane.
THEOREM LaneInvariant == Spec => []LaneInv
BY InitInv, StepInv, PTL DEF Spec

\* Every table, key and token of the lane keeps its type.
THEOREM TypeCorrect == Spec => []TypeOK
<1>1. LaneInv => TypeOK
  BY DEF LaneInv
<1>2. QED
  BY <1>1, LaneInvariant, PTL

\* Two executions of a conversation never run in the same process, whatever faults
\* Redis has and however requests time out, are cancelled or find the lock object
\* deleted and made anew.
THEOREM LocalLaneExcludes == Spec => []OneLocalExecution
<1>1. LaneInv => OneLocalExecution
  <2> SUFFICES ASSUME LaneInv, NEW r \in Running, NEW s \in Running, host[r] = host[s]
               PROVE  r = s
    BY DEF OneLocalExecution
  <2>1. host[r] \in Processes /\ r \in Inside(host[r]) /\ s \in Inside(host[r])
    BY DEF LaneInv, Placed, Running, Inside
  <2>2. ref[r] = ref[s]
    BY <2>1 DEF LaneInv, InsideUseTheLock
  <2>3. owner[ref[r]] = r /\ owner[ref[s]] = s
    BY DEF LaneInv, HoldersOwn, Running
  <2>4. QED
    BY <2>2, <2>3
<1>2. QED
  BY <1>1, LaneInvariant, PTL

\* Two executions of a conversation run at once, in two processes, only after Redis
\* has failed, a key has not been renewed in time or a process has started.
THEOREM LaneExcludes == Spec => []OverlapNeedsFault
<1>1. LaneInv => OverlapNeedsFault
  BY DEF LaneInv, RunnersHaveTheKey, OverlapNeedsFault, OneExecution
<1>2. QED
  BY <1>1, LaneInvariant, PTL

\* A process in which nobody is left in the lane keeps no lock object and no active
\* entry of the conversation, and its count reads as 0; an entry of _waiting_count stays
\* only where a KeyError left acquire() and cut the cleaning short.
THEOREM LaneIsCleanedUp == Spec => []NothingLeft
<1>1. LaneInv => NothingLeft
  <2> SUFFICES ASSUME LaneInv, NEW p \in Processes,
                      \A r \in Requests : host[r] = p => stage[r] = "done"
               PROVE  /\ lock[p] = None /\ count[p] = 0 /\ ~ active[p]
                      /\ p \in counted => {r \in Requests : host[r] = p} \cap raised # {}
    BY DEF NothingLeft
  <2>1. lock[p] = None /\ ~ active[p]
    BY DEF LaneInv, LockIsWanted, ActiveIsWanted
  <2>2. Inside(p) = {}
    BY DEF Inside
  <2>3. count[p] = 0
    BY <2>2, FS_EmptySet DEF LaneInv, CountIsExact
  <2>4. p \in counted => \E r \in Requests : host[r] = p /\ r \in raised
    BY DEF LaneInv, EntryIsWanted
  <2>5. QED
    BY <2>1, <2>3, <2>4
<1>2. QED
  BY <1>1, LaneInvariant, PTL

\* Whoever waits for the lock object or runs under it finds it in _locks on leaving.
LEMMA LeaversOfTheCount ==
    ASSUME LaneInv, NEW r \in Requests, r \in Inside(host[r]), NEW n, Leave(r, n)
    PROVE  raised' = raised
<1>1. host[r] \in Processes /\ ref[r] \in Requests /\ ref[r] = lock[host[r]]
  BY DEF LaneInv, Placed, InsideUseTheLock, Inside
<1>2. lock[host[r]] # None
  BY <1>1, LaneAssumption
<1>3. QED
  BY <1>2 DEF Leave, CleanUp

\* A KeyError leaves acquire() only after the execution of a request that had set the
\* key; nobody who times out, is cancelled in the queue or ran without a key sees one.
THEOREM KeyErrorsAreLate == Spec => KeyErrorAfterRelease
<1>1. ASSUME LaneInv, [Next]_vars
      PROVE  [\A r \in raised' \ raised : stage[r] = "closing" /\ r \in token]_vars
  <2>1. ASSUME NEW r \in Requests, GiveUp(r) \/ EndRun(r)
        PROVE  raised' = raised
    <3>1. r \in Inside(host[r])
      BY <2>1 DEF GiveUp, EndRun, Inside
    <3>2. CASE UNCHANGED raised
      BY <3>2
    <3>3. CASE Leave(r, count[host[r]] - 1)
      BY <1>1, <3>1, <3>3, LeaversOfTheCount
    <3>4. QED
      BY <2>1, <3>2, <3>3 DEF GiveUp, EndRun
  <2>2. ASSUME NEW r \in Requests, Close(r)
        PROVE  raised' \subseteq raised \cup {r} /\ stage[r] = "closing" /\ r \in token
    BY <1>1, <2>2 DEF Close, Leave, CleanUp, LaneInv, ClosersHaveTokens
  <2>3. ASSUME NEW r \in Requests, TakeLock(r) \/ SetKey(r) \/ RunWithoutKey(r)
        PROVE  raised' = raised
    BY <2>3 DEF TakeLock, SetKey, RunWithoutKey, Run
  <2>4. ASSUME \/ \E r \in Requests, p \in Processes : Enter(r, p)
               \/ ExpireKey \/ Stall \/ UNCHANGED vars
               \/ \E p \in Processes : Crash(p) \/ Boot(p)
        PROVE  raised' = raised
    BY <2>4 DEF Enter, ExpireKey, Stall, Crash, Boot, vars
  <2>5. QED
    BY <1>1, <2>1, <2>2, <2>3, <2>4 DEF Next
<1>2. QED
  BY <1>1, LaneInvariant, PTL DEF Spec, KeyErrorAfterRelease

-------------------------------------------------------------------------------
(* The lane is a lock.                                                       *)

\* A step of one request changes its standing only.
LEMMA StandingOfOne ==
    ASSUME TypeOK, NEW r \in Requests, NEW new \in Stages,
           stage' = [stage EXCEPT ![r] = new]
    PROVE  /\ Standing(r)' = CASE new = "new"                   -> "away"
                               [] new \in {"waiting", "setting"} -> "waits"
                               [] new = "running"               -> "in"
                               [] OTHER                         -> "gone"
           /\ [q \in Requests |-> Standing(q)]'
                  = [[q \in Requests |-> Standing(q)] EXCEPT ![r] = Standing(r)']
<1>1. stage'[r] = new /\ \A q \in Requests \ {r} : stage'[q] = stage[q]
  BY DEF TypeOK
<1>2. \A q \in Requests \ {r} : Standing(q)' = Standing(q)
  BY <1>1 DEF Standing
<1>3. Standing(r)' = CASE new = "new"                   -> "away"
                       [] new \in {"waiting", "setting"} -> "waits"
                       [] new = "running"               -> "in"
                       [] OTHER                         -> "gone"
  BY <1>1 DEF Standing
<1>4. QED
  BY <1>2, <1>3

\* The lock's view of who is in.
LEMMA InIsRunning == TypeOK => TheLane!In = Running
BY DEF TheLane!In, Running, Standing, TypeOK, Stages

\* A request that starts to run is let in.
LEMMA RunIsAdmit ==
    ASSUME LaneInv, NEW r \in Requests, SetKey(r) \/ RunWithoutKey(r)
    PROVE  TheLane!Admit(r)
<1> USE DEF LaneInv
<1>1. stage[r] = "setting" /\ stage' = [stage EXCEPT ![r] = "running"] /\ host' = host
  BY DEF SetKey, RunWithoutKey, Run
<1>2. Standing(r)' = "in" /\ Standing(r) = "waits"
  BY <1>1, StandingOfOne DEF Stages, Standing
<1>3. \A s \in Running : host[s] # host[r]
  <2> SUFFICES ASSUME NEW s \in Running, host[s] = host[r]
               PROVE  FALSE
    OBVIOUS
  <2>1. s \in Requests /\ stage[s] = "running" /\ host[r] \in Processes
    BY <1>1 DEF Running, Placed
  <2>2. r \in Inside(host[r]) /\ s \in Inside(host[r])
    BY <1>1, <2>1 DEF Inside
  <2>3. ref[r] = ref[s]
    BY <2>1, <2>2 DEF InsideUseTheLock
  <2>4. QED
    BY <1>1, <2>1, <2>3 DEF HoldersOwn
<1>4. ~ spoilt' => ~ spoilt /\ Running = {}
  BY LaneAssumption DEF SetKey, RunWithoutKey, Fault, RunnersHaveTheKey, Running
<1>5. (~ spoilt') \in {~ spoilt, FALSE}
  BY <1>4
<1>6. QED
  BY <1>1, <1>2, <1>3, <1>4, <1>5, StandingOfOne, InIsRunning DEF TheLane!Admit, Stages

\* A request that gives up or whose execution is over departs.
LEMMA LeavingIsDepart ==
    ASSUME LaneInv, NEW r \in Requests, GiveUp(r) \/ EndRun(r)
    PROVE  TheLane!Depart(r)
<1>1. /\ stage[r] \in {"waiting", "setting", "running"}
      /\ stage' \in {[stage EXCEPT ![r] = "closing"], [stage EXCEPT ![r] = "done"]}
      /\ UNCHANGED <<host, spoilt>>
  BY DEF GiveUp, EndRun, Leave
<1>2. Standing(r)' = "gone" /\ Standing(r) \in {"waits", "in"}
  BY <1>1, StandingOfOne DEF Stages, Standing, LaneInv
<1>3. QED
  BY <1>1, <1>2, StandingOfOne DEF TheLane!Depart, Stages, LaneInv

\* Every other step of a request, the lock does not see.
LEMMA InnerSteps ==
    ASSUME LaneInv, NEW r \in Requests, TakeLock(r) \/ Close(r)
    PROVE  UNCHANGED TheLane!lockVars
<1>1. /\ \/ stage[r] = "waiting" /\ stage' = [stage EXCEPT ![r] = "setting"]
         \/ stage[r] = "closing" /\ stage' = [stage EXCEPT ![r] = "done"]
      /\ UNCHANGED <<host, spoilt>>
  BY DEF TakeLock, Close, Leave
<1>2. \A q \in Requests : Standing(q)' = Standing(q)
  BY <1>1 DEF Standing, LaneInv, TypeOK
<1>3. QED
  BY <1>1, <1>2 DEF TheLane!lockVars

LEMMA CrashIsDie ==
    ASSUME LaneInv, NEW p \in Processes, Crash(p)
    PROVE  TheLane!Die(p)
<1>1. /\ stage' = [r \in Requests |-> IF host[r] = p THEN "done" ELSE stage[r]]
      /\ UNCHANGED <<host, spoilt>>
  BY DEF Crash
<1>2. \A r \in Requests : Standing(r)' = IF host[r] = p THEN "gone" ELSE Standing(r)
  BY <1>1 DEF Standing
<1>3. QED
  BY <1>1, <1>2 DEF TheLane!Die

LEMMA NextIsLock ==
    ASSUME LaneInv, [Next]_vars
    PROVE  [TheLane!Next]_(TheLane!lockVars)
<1>1. ASSUME NEW r \in Requests, NEW p \in Processes, Enter(r, p)
      PROVE  TheLane!Arrive(r, p)
  <2>1. /\ stage[r] = "new" /\ stage' = [stage EXCEPT ![r] = "waiting"]
        /\ host' = [host EXCEPT ![r] = p] /\ spoilt' = spoilt
    BY <1>1 DEF Enter
  <2>2. Standing(r)' = "waits" /\ Standing(r) = "away"
    BY <2>1, StandingOfOne DEF Stages, Standing, LaneInv
  <2>3. QED
    BY <2>1, <2>2, StandingOfOne DEF TheLane!Arrive, Stages, LaneInv
<1>2. ASSUME NEW r \in Requests,
             TakeLock(r) \/ SetKey(r) \/ RunWithoutKey(r) \/ GiveUp(r) \/ EndRun(r) \/ Close(r)
      PROVE  \/ TheLane!Admit(r) \/ TheLane!Depart(r)
             \/ UNCHANGED TheLane!lockVars
  BY <1>2, RunIsAdmit, LeavingIsDepart, InnerSteps
<1>3. CASE \/ ExpireKey \/ Stall \/ UNCHANGED vars
           \/ \E p \in Processes : Boot(p)
  <2>1. UNCHANGED <<stage, host>> /\ spoilt' \in {spoilt, TRUE}
    BY <1>3 DEF ExpireKey, Stall, Boot, Fault, vars
  <2>2. [r \in Requests |-> Standing(r)]' = [r \in Requests |-> Standing(r)]
    BY <2>1 DEF Standing
  <2>3. CASE spoilt' = spoilt
    BY <2>1, <2>2, <2>3 DEF TheLane!lockVars
  <2>4. CASE spoilt' = TRUE
    BY <2>1, <2>2, <2>4 DEF TheLane!Next, TheLane!Break
  <2>5. QED
    BY <2>1, <2>3, <2>4
<1>4. QED
  BY <1>1, <1>2, <1>3, CrashIsDie DEF Next, TheLane!Next

\* The lane, with its lock objects, counts and expiring key, implements a lock: each
\* request is let in at most once, while nobody else is in its process, and nobody
\* anywhere as long as no fault has happened (ConversationLane.acquire).
THEOREM LaneImplementsLock == Spec => IsALock
<1>1. Init => TheLane!Init
  BY DEF Init, TheLane!Init, Standing
<1>2. LaneInv /\ [Next]_vars => [TheLane!Next]_(TheLane!lockVars)
  BY NextIsLock
<1>3. QED
  BY <1>1, <1>2, LaneInvariant, PTL DEF Spec, IsALock, TheLane!Spec
===============================================================================

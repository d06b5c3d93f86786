----------------------------- MODULE BotPoolProofs -----------------------------
(***************************************************************************)
(* Theorems about BotPool, for every set of workers and bots, every order  *)
(* of the workers on the ring and every bound on requests and faults.      *)
(***************************************************************************)
EXTENDS BotPool, FiniteSetTheorems, TLAPS

-------------------------------------------------------------------------------
(* Type correctness.                                                         *)

\* The part of WorkerTypeOK and StoreTypeOK that starting and stopping bots changes.
TablesTypeOK ==
    /\ active \in [Workers -> SUBSET Bots]
    /\ handler \in [Workers -> SUBSET Bots]
    /\ runner \in [Workers -> SUBSET Bots]
    /\ conn \in [Workers -> SUBSET Bots]
    /\ leaked \in [Workers -> SUBSET Bots]
    /\ assign \in [Bots -> Workers \cup {None}]

BotsTypeOK ==
    /\ TablesTypeOK
    /\ task \in [Workers -> [Coroutines -> Tasks]]

LEMMA AddType ==
    ASSUME NEW f \in [Workers -> SUBSET Bots], NEW w \in Workers, NEW S \in SUBSET Bots
    PROVE  /\ Add(f, w, S) \in [Workers -> SUBSET Bots]
           /\ Remove(f, w, S) \in [Workers -> SUBSET Bots]
BY DEF Add, Remove

LEMMA SetTaskType ==
    ASSUME BotsTypeOK, NEW w \in Workers, NEW t \in Coroutines, NEW x \in Tasks,
           SetTask(w, t, x)
    PROVE  task' \in [Workers -> [Coroutines -> Tasks]]
BY DEF BotsTypeOK, SetTask

\* A coroutine with nothing in hand names no bot.
LEMMA TaskBot ==
    ASSUME BotsTypeOK, NEW w \in Workers, NEW t \in Coroutines
    PROVE  /\ task[w][t] \in Tasks
           /\ task[w][t].op \notin {"idle", "ended", "query"}
                 => task[w][t].bot \in Bots /\ task[w][t].again \in BOOLEAN
BY DEF BotsTypeOK, Tasks, Idle, Ended, Query, Task

LEMMA NoTaskType == Idle \in Tasks /\ Ended \in Tasks /\ Query \in Tasks
BY DEF Tasks

LEMMA BusyTaskType ==
    ASSUME NEW op \in {"start", "unwind", "close", "nap"}, NEW b \in Bots,
           NEW again \in BOOLEAN
    PROVE  Task(op, b, again) \in Tasks
BY DEF Task, Tasks

LEMMA StartTaskType ==
    ASSUME NEW w \in Workers, NEW b \in Bots
    PROVE  StartTask(w, b) \in Tasks
BY NoTaskType, BusyTaskType DEF StartTask

LEMMA AfterStopType ==
    ASSUME NEW b \in Bots, NEW again \in BOOLEAN
    PROVE  AfterStop(b, again) \in Tasks
BY NoTaskType, BusyTaskType DEF AfterStop

LEMMA BeginStartType ==
    ASSUME BotsTypeOK, NEW w \in Workers, NEW t \in Coroutines, NEW b \in Bots,
           BeginStart(w, t, b)
    PROVE  BotsTypeOK'
<1>1. task' \in [Workers -> [Coroutines -> Tasks]]
  BY StartTaskType, SetTaskType DEF BeginStart
<1>2. QED
  BY <1>1 DEF BotsTypeOK, TablesTypeOK, BeginStart, botVars

LEMMA TakeHandlerType ==
    ASSUME BotsTypeOK, NEW w \in Workers, NEW t \in Coroutines, NEW b \in Bots,
           NEW again \in BOOLEAN, TakeHandler(w, t, b, again), UNCHANGED runner
    PROVE  BotsTypeOK'
<1>1. task' \in [Workers -> [Coroutines -> Tasks]]
  BY BusyTaskType, SetTaskType DEF TakeHandler
<1>2. /\ handler' \in [Workers -> SUBSET Bots]
      /\ conn' \in [Workers -> SUBSET Bots]
  BY AddType DEF TakeHandler, BotsTypeOK, TablesTypeOK
<1>3. QED
  BY <1>1, <1>2 DEF TakeHandler, BotsTypeOK, TablesTypeOK

LEMMA DropEntriesType ==
    ASSUME TablesTypeOK, NEW w \in Workers, NEW b \in Bots, NEW stray \in SUBSET Bots,
           DropEntries(w, b, stray)
    PROVE  TablesTypeOK'
<1>1. (({b} \cap conn[w]) \cup stray) \in SUBSET Bots /\ {b} \in SUBSET Bots
  OBVIOUS
<1>2. QED
  BY <1>1, AddType DEF DropEntries, TablesTypeOK

LEMMA LeaveTablesType ==
    ASSUME TablesTypeOK, NEW w \in Workers, NEW b \in Bots, NEW stray \in SUBSET Bots,
           LeaveTables(w, b, stray)
    PROVE  TablesTypeOK'
<1>1. CASE DropEntries(w, b, stray)
  BY <1>1, DropEntriesType
<1>2. CASE /\ active' = Remove(active, w, {b})
           /\ leaked' = Add(leaked, w, stray)
           /\ UnassignBot(b)
           /\ UNCHANGED <<handler, runner, conn>>
  <2>1. active' \in [Workers -> SUBSET Bots] /\ leaked' \in [Workers -> SUBSET Bots]
    BY <1>2, AddType DEF TablesTypeOK
  <2>2. assign' \in [Bots -> Workers \cup {None}]
    BY <1>2 DEF TablesTypeOK, UnassignBot
  <2>3. QED
    BY <1>2, <2>1, <2>2 DEF TablesTypeOK
<1>3. QED
  BY <1>1, <1>2 DEF LeaveTables

LEMMA BeginStopType ==
    ASSUME BotsTypeOK, NEW w \in Workers, NEW t \in Coroutines, NEW b \in Bots,
           NEW again \in BOOLEAN, BeginStop(w, t, b, again)
    PROVE  BotsTypeOK'
<1>1. CASE SetTask(w, t, AfterStop(b, again)) /\ UNCHANGED <<botVars, assign>>
  BY <1>1, AfterStopType, SetTaskType DEF BotsTypeOK, TablesTypeOK, botVars
<1>2. CASE /\ SetTask(w, t, Task("unwind", b, again))
           /\ runner' = Remove(runner, w, {b})
           /\ UNCHANGED <<active, handler, conn, leaked, assign>>
  <2>1. runner' \in [Workers -> SUBSET Bots]
    BY <1>2, AddType DEF BotsTypeOK, TablesTypeOK
  <2>2. task' \in [Workers -> [Coroutines -> Tasks]]
    BY <1>2, BusyTaskType, SetTaskType
  <2>3. QED
    BY <1>2, <2>1, <2>2 DEF BotsTypeOK, TablesTypeOK
<1>3. CASE TakeHandler(w, t, b, again) /\ UNCHANGED runner
  BY <1>3, TakeHandlerType
<1>4. CASE /\ SetTask(w, t, AfterStop(b, again))
           /\ active' = Remove(active, w, {b})
           /\ handler' = Remove(handler, w, {b})
           /\ conn' = Remove(conn, w, {b})
           /\ UNCHANGED runner
           /\ \/ UnassignBot(b) /\ leaked' = Add(leaked, w, {b} \cap conn[w])
              \/ UNCHANGED <<leaked, assign>>
  <2>1. task' \in [Workers -> [Coroutines -> Tasks]]
    BY <1>4, AfterStopType, SetTaskType
  <2>2. /\ active' \in [Workers -> SUBSET Bots]
        /\ handler' \in [Workers -> SUBSET Bots]
        /\ conn' \in [Workers -> SUBSET Bots]
    BY <1>4, AddType DEF BotsTypeOK, TablesTypeOK
  <2>3. leaked' \in [Workers -> SUBSET Bots]
    BY <1>4, AddType DEF BotsTypeOK, TablesTypeOK
  <2>4. assign' \in [Bots -> Workers \cup {None}]
    BY <1>4 DEF BotsTypeOK, TablesTypeOK, UnassignBot
  <2>5. QED
    BY <1>4, <2>1, <2>2, <2>3, <2>4 DEF BotsTypeOK, TablesTypeOK
<1>5. QED
  BY <1>1, <1>2, <1>3, <1>4 DEF BeginStop

\* The rest of TypeOK.
OthersTypeOK ==
    /\ enabled \subseteq Bots
    /\ hb \in [Workers -> {"none", "fresh", "stale"}]
    /\ info \subseteq Workers
    /\ events \in Seq(BotEvents)
    /\ inbox \in [Workers -> Seq(Commands)]
    /\ phase \in [Workers -> Phases]
    /\ ring \in [Workers -> SUBSET Workers]
    /\ todo \in [Workers -> SUBSET Bots]
    /\ last \in [Workers -> Nat]
    /\ pending \subseteq Requests
    /\ asked \in Nat
    /\ faults \in Nat

LEMMA TypeParts ==
    /\ TypeOK <=> BotsTypeOK /\ OthersTypeOK
    /\ TypeOK' <=> BotsTypeOK' /\ OthersTypeOK'
BY DEF TypeOK, StoreTypeOK, WorkerTypeOK, BotsTypeOK, TablesTypeOK, OthersTypeOK

LEMMA ResumeType ==
    ASSUME BotsTypeOK, NEW w \in Workers, NEW t \in Coroutines,
           Resume(w, t) \/ FailStart(w, t) \/ FailStop(w, t)
    PROVE  BotsTypeOK' /\ UNCHANGED <<phase, loopVars, enabled, hb, info, events, inbox>>
<1> DEFINE b == task[w][t].bot
           again == task[w][t].again
<1>0. b \in Bots /\ again \in BOOLEAN
  BY TaskBot DEF Resume, FinishStart, Unwind, FinishStop, WakeUp, FailStart, FailStop
<1>1. CASE FinishStart(w, t)
  <2>1. task' \in [Workers -> [Coroutines -> Tasks]]
    BY <1>1, NoTaskType, SetTaskType DEF FinishStart
  <2>2. /\ active' = Add(active, w, {b})
        /\ handler' = Add(handler, w, {b})
        /\ runner' = Add(runner, w, {b} \cap SlackBots)
        /\ conn' = Add(conn, w, {b})
        /\ leaked' = Add(leaked, w, {b} \cap conn[w])
        /\ assign' = [assign EXCEPT ![b] = w]
    BY <1>1 DEF FinishStart, AssignBot
  <2>3. /\ active' \in [Workers -> SUBSET Bots]
        /\ handler' \in [Workers -> SUBSET Bots]
        /\ runner' \in [Workers -> SUBSET Bots]
        /\ conn' \in [Workers -> SUBSET Bots]
        /\ leaked' \in [Workers -> SUBSET Bots]
    BY <1>0, <2>2, AddType DEF BotsTypeOK, TablesTypeOK
  <2>4. assign' \in [Bots -> Workers \cup {None}]
    BY <1>0, <2>2 DEF BotsTypeOK, TablesTypeOK
  <2>5. QED
    BY <1>1, <2>1, <2>3, <2>4 DEF BotsTypeOK, TablesTypeOK, FinishStart
<1>2. CASE FinishStop(w, t)
  <2>1. task' \in [Workers -> [Coroutines -> Tasks]]
    BY <1>0, <1>2, AfterStopType, SetTaskType DEF FinishStop
  <2>2. TablesTypeOK'
    BY <1>0, <1>2, LeaveTablesType DEF FinishStop, BotsTypeOK
  <2>3. QED
    BY <1>2, <2>1, <2>2 DEF BotsTypeOK, FinishStop
<1>3. CASE WakeUp(w, t)
  BY <1>0, <1>3, BeginStartType DEF WakeUp
<1>4. CASE FailStart(w, t)
  BY <1>4, NoTaskType, SetTaskType
     DEF FailStart, BotsTypeOK, TablesTypeOK, botVars, storeVars
<1>5. CASE FailStop(w, t)
  <2>1. task' \in [Workers -> [Coroutines -> Tasks]]
    BY <1>0, <1>5, AfterStopType, SetTaskType DEF FailStop
  <2>2. {b} \in SUBSET Bots
    BY <1>0
  <2>3. TablesTypeOK'
    BY <1>0, <1>5, <2>2, DropEntriesType, LeaveTablesType DEF FailStop, BotsTypeOK
  <2>4. QED
    BY <1>5, <2>1, <2>3 DEF BotsTypeOK, FailStop
<1>6. CASE Unwind(w, t)
  <2>1. CASE TakeHandler(w, t, b, again) /\ UNCHANGED runner
    BY <1>0, <1>6, <2>1, TakeHandlerType DEF Unwind
  <2>2. CASE SetTask(w, t, AfterStop(b, again)) /\ DropEntries(w, b, {})
    <3>1. task' \in [Workers -> [Coroutines -> Tasks]]
      BY <1>0, <2>2, AfterStopType, SetTaskType
    <3>2. TablesTypeOK'
      BY <1>0, <2>2, DropEntriesType DEF BotsTypeOK
    <3>3. QED
      BY <1>6, <3>1, <3>2 DEF BotsTypeOK, Unwind
  <2>3. QED
    BY <1>6, <2>1, <2>2 DEF Unwind
<1>7. QED
  BY <1>1, <1>2, <1>3, <1>4, <1>5, <1>6 DEF Resume

LEMMA ExitType ==
    ASSUME TypeOK, NEW w \in Workers, Exit(w),
           hb' \in [Workers -> {"none", "fresh", "stale"}], info' \subseteq Workers,
           pending' \subseteq Requests, asked' \in Nat, faults' \in Nat
    PROVE  TypeOK'
<1>0. BotsTypeOK /\ OthersTypeOK
  BY TypeParts
<1>1. task' \in [Workers -> [Coroutines -> Tasks]]
  BY <1>0, NoTaskType DEF Exit, BotsTypeOK
<1>2. BotsTypeOK'
  BY <1>0, <1>1 DEF Exit, BotsTypeOK, TablesTypeOK
<1>3. <<>> \in Seq(Commands)
  OBVIOUS
<1>4. OthersTypeOK'
  BY <1>0, <1>3 DEF Exit, OthersTypeOK, Phases
<1>5. QED
  BY <1>2, <1>4, TypeParts

LEMMA SweepType ==
    ASSUME TypeOK, NEW w \in Workers, Sweep(w), UNCHANGED poolVars
    PROVE  TypeOK'
<1>0. BotsTypeOK /\ OthersTypeOK
  BY TypeParts
<1>1. CASE BuildRing(w) \/ Scan(w)
  <2>1. Healthy \cup {w} \in SUBSET Workers
    BY DEF Healthy
  <2>2. OthersTypeOK'
    <3>1. CASE BuildRing(w)
      BY <1>0, <2>1, <3>1 DEF BuildRing, OthersTypeOK, Phases, storeVars, poolVars
    <3>2. CASE Scan(w)
      BY <1>0, <2>1, <3>2 DEF Scan, UnregisterWorkers, OthersTypeOK, poolVars
    <3>3. QED
      BY <1>1, <3>1, <3>2
  <2>3. SetTask(w, "sweep", Query) /\ UNCHANGED <<botVars, assign>>
    BY <1>1 DEF BuildRing, Scan, storeVars
  <2>4. task' \in [Workers -> [Coroutines -> Tasks]]
    BY <1>0, <2>3, NoTaskType, SetTaskType DEF Coroutines, Loops
  <2>5. BotsTypeOK'
    BY <1>0, <2>3, <2>4 DEF BotsTypeOK, TablesTypeOK, botVars
  <2>6. QED
    BY <2>2, <2>5, TypeParts
<1>2. CASE ListBots(w)
  <2>1. OwnedBots(w, ring[w]) \in SUBSET Bots
    BY <1>0 DEF OwnedBots, OthersTypeOK
  <2>2. OthersTypeOK'
    BY <1>0, <1>2, <2>1 DEF ListBots, OthersTypeOK, storeVars, poolVars
  <2>3. task' \in [Workers -> [Coroutines -> Tasks]]
    BY <1>0, <1>2, NoTaskType, SetTaskType DEF ListBots, Coroutines, Loops
  <2>4. BotsTypeOK'
    BY <1>0, <1>2, <2>3 DEF ListBots, BotsTypeOK, TablesTypeOK, botVars, storeVars
  <2>5. QED
    BY <2>2, <2>4, TypeParts
<1>3. CASE ClaimAssigned(w)
  <2>1. PICK b \in todo[w] : /\ todo' = Remove(todo, w, {b})
                             /\ SetTask(w, "sweep", Task("nap", b, FALSE))
    BY <1>3 DEF ClaimAssigned
  <2>2. b \in Bots
    BY <1>0 DEF OthersTypeOK
  <2>3. task' \in [Workers -> [Coroutines -> Tasks]]
    BY <1>0, <2>1, <2>2, BusyTaskType, SetTaskType DEF Coroutines, Loops
  <2>4. BotsTypeOK'
    BY <1>0, <1>3, <2>3 DEF ClaimAssigned, BotsTypeOK, TablesTypeOK, botVars, storeVars
  <2>5. OthersTypeOK'
    BY <1>0, <1>3, <2>1 DEF ClaimAssigned, OthersTypeOK, Remove, storeVars, poolVars
  <2>6. QED
    BY <2>4, <2>5, TypeParts
<1>4. CASE BecomeReady(w)
  <2>1. Len(events) \in Nat
    BY <1>0 DEF OthersTypeOK
  <2>2. OthersTypeOK'
    BY <1>0, <1>4, <2>1 DEF BecomeReady, OthersTypeOK, Phases, storeVars, poolVars
  <2>3. BotsTypeOK'
    BY <1>0, <1>4 DEF BecomeReady, BotsTypeOK, TablesTypeOK, botVars, storeVars
  <2>4. QED
    BY <2>2, <2>3, TypeParts
<1>5. CASE ClaimOrphan(w)
  <2>1. PICK b \in todo[w] :
           /\ todo' = Remove(todo, w, {b})
           /\ UNCHANGED <<task, botVars, assign>> \/ BeginStart(w, "sweep", b)
    BY <1>5 DEF ClaimOrphan
  <2>2. b \in Bots
    BY <1>0 DEF OthersTypeOK
  <2>3. BotsTypeOK'
    <3>1. CASE BeginStart(w, "sweep", b)
      BY <1>0, <2>2, <3>1, BeginStartType DEF Coroutines, Loops
    <3>2. CASE UNCHANGED <<task, botVars, assign>>
      BY <1>0, <3>2 DEF BotsTypeOK, TablesTypeOK, botVars
    <3>3. QED
      BY <2>1, <3>1, <3>2
  <2>4. OthersTypeOK'
    BY <1>0, <1>5, <2>1 DEF ClaimOrphan, OthersTypeOK, Remove, poolVars
  <2>5. QED
    BY <2>3, <2>4, TypeParts
<1>6. CASE Resume(w, "sweep")
  <2>1. BotsTypeOK' /\ UNCHANGED <<phase, loopVars, enabled, hb, info, events, inbox>>
    BY <1>0, <1>6, ResumeType DEF Coroutines, Loops
  <2>2. OthersTypeOK'
    BY <1>0, <2>1 DEF OthersTypeOK, loopVars, poolVars
  <2>3. QED
    BY <2>1, <2>2, TypeParts
<1>7. QED
  BY <1>1, <1>2, <1>3, <1>4, <1>5, <1>6 DEF Sweep

LEMMA ShutdownType ==
    ASSUME TypeOK, NEW w \in Workers, Shutdown(w), UNCHANGED poolVars
    PROVE  TypeOK'
<1>0. BotsTypeOK /\ OthersTypeOK
  BY TypeParts
<1>1. ASSUME NEW t \in Loops, Cancel(w, t)
      PROVE  TypeOK'
  <2>0. t \in Coroutines
    BY DEF Coroutines
  <2>1. task' \in [Workers -> [Coroutines -> Tasks]]
    BY <1>0, <1>1, <2>0, NoTaskType, SetTaskType DEF Cancel
  <2>2. leaked' \in [Workers -> SUBSET Bots]
    <3>1. CASE UNCHANGED leaked
      BY <1>0, <3>1 DEF BotsTypeOK, TablesTypeOK
    <3>2. CASE task[w][t].op = "close" /\ leaked' = Add(leaked, w, {task[w][t].bot})
      BY <1>0, <2>0, <3>2, TaskBot, AddType DEF BotsTypeOK, TablesTypeOK
    <3>3. QED
      BY <1>1, <3>1, <3>2 DEF Cancel
  <2>3. BotsTypeOK'
    BY <1>0, <1>1, <2>1, <2>2 DEF Cancel, BotsTypeOK, TablesTypeOK, storeVars
  <2>4. OthersTypeOK'
    <3>1. inbox' \in [Workers -> Seq(Commands)]
      BY <1>0, <1>1 DEF Cancel, OthersTypeOK
    <3>2. QED
      BY <1>0, <1>1, <3>1 DEF Cancel, OthersTypeOK, loopVars, poolVars
  <2>5. QED
    BY <2>3, <2>4, TypeParts
<1>2. CASE StopAll(w)
  <2>1. active[w] \in SUBSET Bots
    BY <1>0 DEF BotsTypeOK, TablesTypeOK
  <2>2. OthersTypeOK'
    BY <1>0, <1>2, <2>1 DEF StopAll, OthersTypeOK, Phases, storeVars, poolVars
  <2>3. BotsTypeOK'
    BY <1>0, <1>2 DEF StopAll, BotsTypeOK, TablesTypeOK, botVars, storeVars
  <2>4. QED
    BY <2>2, <2>3, TypeParts
<1>3. CASE StopNext(w)
  <2>1. PICK b \in todo[w] : /\ todo' = Remove(todo, w, {b})
                             /\ BeginStop(w, "shutdown", b, FALSE)
    BY <1>3 DEF StopNext
  <2>2. b \in Bots
    BY <1>0 DEF OthersTypeOK
  <2>3. BotsTypeOK'
    BY <1>0, <2>1, <2>2, BeginStopType DEF Coroutines
  <2>4. OthersTypeOK'
    BY <1>0, <1>3, <2>1 DEF StopNext, OthersTypeOK, Remove, poolVars
  <2>5. QED
    BY <2>3, <2>4, TypeParts
<1>4. CASE Unregister(w)
  <2>1. Exit(w) /\ UnregisterWorkers({w})
    BY <1>4 DEF Unregister
  <2>2. /\ hb' \in [Workers -> {"none", "fresh", "stale"}]
        /\ info' \subseteq Workers
    BY <1>0, <2>1 DEF UnregisterWorkers, OthersTypeOK
  <2>3. pending' \subseteq Requests /\ asked' \in Nat /\ faults' \in Nat
    BY <1>0 DEF OthersTypeOK, poolVars
  <2>4. QED
    BY <2>1, <2>2, <2>3, ExitType
<1>5. CASE Resume(w, "shutdown")
  <2>1. BotsTypeOK' /\ UNCHANGED <<phase, loopVars, enabled, hb, info, events, inbox>>
    BY <1>0, <1>5, ResumeType DEF Coroutines
  <2>2. OthersTypeOK'
    BY <1>0, <2>1 DEF OthersTypeOK, loopVars, poolVars
  <2>3. QED
    BY <2>1, <2>2, TypeParts
<1>6. QED
  BY <1>1, <1>2, <1>3, <1>4, <1>5 DEF Shutdown

LEMMA LoopsType ==
    ASSUME TypeOK, NEW w \in Workers, UNCHANGED poolVars,
           EventLoop(w) \/ CommandLoop(w) \/ SendHeartbeat(w)
    PROVE  TypeOK'
<1>0. BotsTypeOK /\ OthersTypeOK
  BY TypeParts
<1>1. ASSUME NEW t \in Coroutines, Resume(w, t)
      PROVE  TypeOK'
  <2>1. BotsTypeOK' /\ UNCHANGED <<phase, loopVars, enabled, hb, info, events, inbox>>
    BY <1>0, <1>1, ResumeType
  <2>2. OthersTypeOK'
    BY <1>0, <2>1 DEF OthersTypeOK, loopVars, poolVars
  <2>3. QED
    BY <2>1, <2>2, TypeParts
<1>2. CASE HandleEvent(w)
  <2> DEFINE e == events[last[w] + 1]
  <2>1. e \in BotEvents
    BY <1>0, <1>2 DEF HandleEvent, OthersTypeOK
  <2>2. e.bot \in Bots
    BY <2>1 DEF BotEvents
  <2>3. BotsTypeOK'
    <3>1. CASE UNCHANGED <<task, botVars, assign>>
      BY <1>0, <3>1 DEF BotsTypeOK, TablesTypeOK, botVars
    <3>2. CASE BeginStart(w, "events", e.bot)
      BY <1>0, <2>2, <3>2, BeginStartType DEF Coroutines, Loops
    <3>3. CASE BeginStop(w, "events", e.bot, FALSE)
      BY <1>0, <2>2, <3>3, BeginStopType DEF Coroutines, Loops
    <3>4. CASE BeginStop(w, "events", e.bot, TRUE)
      BY <1>0, <2>2, <3>4, BeginStopType DEF Coroutines, Loops
    <3>5. QED
      BY <1>2, <3>1, <3>2, <3>3, <3>4 DEF HandleEvent
  <2>4. OthersTypeOK'
    BY <1>0, <1>2 DEF HandleEvent, OthersTypeOK, poolVars
  <2>5. QED
    BY <2>3, <2>4, TypeParts
<1>3. CASE HandleCommand(w)
  <2> DEFINE c == Head(inbox[w])
  <2>1. c \in Commands /\ Tail(inbox[w]) \in Seq(Commands)
    BY <1>0, <1>3 DEF HandleCommand, OthersTypeOK
  <2>2. c.bot \in Bots
    BY <2>1 DEF Commands
  <2>3. BotsTypeOK'
    <3>1. PICK again \in BOOLEAN : BeginStop(w, "commands", c.bot, again)
      BY <1>3 DEF HandleCommand
    <3>2. QED
      BY <1>0, <2>2, <3>1, BeginStopType DEF Coroutines, Loops
  <2>4. OthersTypeOK'
    BY <1>0, <1>3, <2>1 DEF HandleCommand, OthersTypeOK, loopVars, poolVars
  <2>5. QED
    BY <2>3, <2>4, TypeParts
<1>4. CASE SendHeartbeat(w)
  <2>1. BotsTypeOK'
    BY <1>0, <1>4 DEF SendHeartbeat, BotsTypeOK, TablesTypeOK, workerVars, botVars
  <2>2. OthersTypeOK'
    BY <1>0, <1>4 DEF SendHeartbeat, WriteHeartbeat, OthersTypeOK, workerVars, loopVars, poolVars
  <2>3. QED
    BY <2>1, <2>2, TypeParts
<1>5. QED
  BY <1>1, <1>2, <1>3, <1>4 DEF EventLoop, CommandLoop, Coroutines, Loops

\* What a signal, a lapse or a fault does to a worker.
LEMMA EnvironmentType ==
    ASSUME TypeOK, NEW w \in Workers,
           (Happen(w) /\ UNCHANGED poolVars) \/ Fail(w)
    PROVE  TypeOK'
<1>0. BotsTypeOK /\ OthersTypeOK
  BY TypeParts
<1>1. pending' \subseteq Requests /\ asked' \in Nat /\ faults' \in Nat
  BY <1>0 DEF Happen, Fail, Fault, OthersTypeOK, poolVars
<1>2. CASE Terminate(w) \/ TerminateEarly(w)
  <2>1. BotsTypeOK'
    BY <1>0, <1>2 DEF Terminate, TerminateEarly, BotsTypeOK, TablesTypeOK, botVars, storeVars
  <2>2. active[w] \in SUBSET Bots /\ <<>> \in Seq(Commands)
    BY <1>0 DEF BotsTypeOK, TablesTypeOK
  <2>3. OthersTypeOK'
    BY <1>0, <1>1, <1>2, <2>2
       DEF Terminate, TerminateEarly, OthersTypeOK, Phases, loopVars, storeVars
  <2>4. QED
    BY <2>1, <2>3, TypeParts
<1>3. CASE Exit(w) /\ UNCHANGED <<hb, info>>
  BY <1>0, <1>1, <1>3, ExitType DEF OthersTypeOK
<1>4. CASE ExpireHeartbeat(w)
  <2>1. BotsTypeOK'
    BY <1>0, <1>4 DEF ExpireHeartbeat, BotsTypeOK, TablesTypeOK, workerVars, botVars
  <2>2. OthersTypeOK'
    BY <1>0, <1>1, <1>4 DEF ExpireHeartbeat, OthersTypeOK, workerVars, loopVars
  <2>3. QED
    BY <2>1, <2>2, TypeParts
<1>5. ASSUME NEW b \in Bots, PollerEnds(w, b) \/ ThreadEnds(w, b) \/ ConnectionEnds(w, b)
      PROVE  TypeOK'
  <2>1. /\ active' \in {active, Remove(active, w, {b})}
        /\ handler' \in {handler, Remove(handler, w, {b})}
        /\ runner' \in {runner, Remove(runner, w, {b})}
        /\ conn' \in {conn, Remove(conn, w, {b})}
        /\ leaked' \in {leaked, Remove(leaked, w, {b})}
    BY <1>5 DEF PollerEnds, ThreadEnds, ConnectionEnds
  <2>2. UNCHANGED <<task, assign, phase, loopVars, enabled, hb, info, events, inbox>>
    BY <1>5 DEF PollerEnds, ThreadEnds, ConnectionEnds, storeVars
  <2>3. /\ active' \in [Workers -> SUBSET Bots]
        /\ handler' \in [Workers -> SUBSET Bots]
        /\ runner' \in [Workers -> SUBSET Bots]
        /\ conn' \in [Workers -> SUBSET Bots]
        /\ leaked' \in [Workers -> SUBSET Bots]
    BY <1>0, <2>1, AddType DEF BotsTypeOK, TablesTypeOK
  <2>4. BotsTypeOK'
    BY <1>0, <2>2, <2>3 DEF BotsTypeOK, TablesTypeOK
  <2>5. OthersTypeOK'
    BY <1>0, <1>1, <2>2 DEF OthersTypeOK, loopVars
  <2>6. QED
    BY <2>4, <2>5, TypeParts
<1>6. CASE Start(w)
  <2>1. BotsTypeOK'
    BY <1>0, <1>6 DEF Start, BotsTypeOK, TablesTypeOK, botVars
  <2>2. OthersTypeOK'
    BY <1>0, <1>1, <1>6 DEF Start, RegisterWorker, OthersTypeOK, Phases, loopVars
  <2>3. QED
    BY <2>1, <2>2, TypeParts
<1>7. ASSUME NEW t \in Coroutines, FailStart(w, t) \/ FailStop(w, t)
      PROVE  TypeOK'
  <2>1. BotsTypeOK' /\ UNCHANGED <<phase, loopVars, enabled, hb, info, events, inbox>>
    BY <1>0, <1>7, ResumeType
  <2>2. OthersTypeOK'
    BY <1>0, <1>1, <2>1 DEF OthersTypeOK, loopVars
  <2>3. QED
    BY <2>1, <2>2, TypeParts
<1>8. CASE FailSweep(w)
  <2>1. task' \in [Workers -> [Coroutines -> Tasks]]
    BY <1>0, <1>8, NoTaskType, SetTaskType DEF FailSweep, Coroutines, Loops
  <2>2. BotsTypeOK'
    BY <1>0, <1>8, <2>1 DEF FailSweep, BotsTypeOK, TablesTypeOK, botVars, storeVars
  <2>3. active[w] \in SUBSET Bots
    BY <1>0 DEF BotsTypeOK, TablesTypeOK
  <2>4. OthersTypeOK'
    BY <1>0, <1>1, <1>8, <2>3 DEF FailSweep, OthersTypeOK, Phases, storeVars
  <2>5. QED
    BY <2>2, <2>4, TypeParts
<1>9. QED
  BY <1>2, <1>3, <1>4, <1>5, <1>6, <1>7, <1>8
     DEF Happen, Fail, ExitEarly, HeartbeatLapses, Crash

LEMMA ServiceType ==
    ASSUME TypeOK,
           \/ \E type \in EventTypes, b \in Bots : Request(type, b)
           \/ \E r \in pending : Publish(r) \/ LoseRequest(r)
    PROVE  TypeOK'
<1>0. BotsTypeOK /\ OthersTypeOK
  BY TypeParts
<1>1. ASSUME NEW type \in EventTypes, NEW b \in Bots, Request(type, b)
      PROVE  TypeOK'
  <2>1. BotsTypeOK'
    BY <1>0, <1>1 DEF Request, BotsTypeOK, TablesTypeOK, workerVars, botVars
  <2>2. OthersTypeOK'
    BY <1>0, <1>1 DEF Request, Requests, OthersTypeOK, workerVars, loopVars
  <2>3. QED
    BY <2>1, <2>2, TypeParts
<1>2. ASSUME NEW r \in pending, Publish(r)
      PROVE  TypeOK'
  <2>1. BotsTypeOK'
    BY <1>0, <1>2 DEF Publish, BotsTypeOK, TablesTypeOK, workerVars, botVars
  <2>2. r.bot \in Bots
    BY <1>0 DEF OthersTypeOK, Requests
  <2>3. ASSUME NEW type \in EventTypes, PublishEvent(type, r.bot)
        PROVE  events' \in Seq(BotEvents)
    BY <1>0, <2>2, <2>3 DEF PublishEvent, BotEvents, OthersTypeOK
  <2>4. ASSUME NEW v \in Workers, NEW action \in Actions, NEW subscribed,
               SendCommand(v, action, r.bot, subscribed)
        PROVE  inbox' \in [Workers -> Seq(Commands)]
    <3>1. [action |-> action, bot |-> r.bot] \in Commands
      BY <2>2 DEF Commands
    <3>2. CASE subscribed
      BY <1>0, <2>4, <3>1, <3>2 DEF SendCommand, OthersTypeOK
    <3>3. CASE ~ subscribed
      BY <1>0, <2>4, <3>3 DEF SendCommand, OthersTypeOK
    <3>4. QED
      BY <3>2, <3>3
  <2>5. ASSUME NEW type \in EventTypes, NEW action \in Actions, Direct(type, action, r.bot)
        PROVE  events' \in Seq(BotEvents) /\ inbox' \in [Workers -> Seq(Commands)]
    <3>1. CASE assign[r.bot] = None
      BY <1>0, <2>3, <2>5, <3>1 DEF Direct, OthersTypeOK
    <3>2. CASE assign[r.bot] # None
      <4>1. assign[r.bot] \in Workers
        BY <1>0, <2>2, <3>2 DEF BotsTypeOK, TablesTypeOK
      <4>2. SendCommand(assign[r.bot], action, r.bot, Subscribed(assign[r.bot]))
        BY <2>5, <3>2 DEF Direct
      <4>3. QED
        BY <1>0, <2>4, <2>5, <3>2, <4>1, <4>2 DEF Direct, OthersTypeOK
    <3>3. QED
      BY <3>1, <3>2
  <2>6. events' \in Seq(BotEvents) /\ inbox' \in [Workers -> Seq(Commands)]
    <3>1. CASE Activate(r.bot)
      BY <1>0, <2>3, <3>1 DEF Activate, EventTypes, OthersTypeOK
    <3>2. CASE Direct("deactivate", "stop_bot", r.bot)
      BY <2>5, <3>2 DEF EventTypes, Actions
    <3>3. CASE Direct("restart", "restart_bot", r.bot)
      BY <2>5, <3>3 DEF EventTypes, Actions
    <3>4. QED
      BY <1>2, <3>1, <3>2, <3>3 DEF Publish
  <2>7. OthersTypeOK'
    BY <1>0, <1>2, <2>6 DEF Publish, OthersTypeOK, workerVars, loopVars
  <2>8. QED
    BY <2>1, <2>7, TypeParts
<1>3. ASSUME NEW r \in pending, LoseRequest(r)
      PROVE  TypeOK'
  <2>1. BotsTypeOK'
    BY <1>0, <1>3 DEF LoseRequest, BotsTypeOK, TablesTypeOK, storeVars, workerVars, botVars
  <2>2. OthersTypeOK'
    BY <1>0, <1>3 DEF LoseRequest, OthersTypeOK, storeVars, workerVars, loopVars
  <2>3. QED
    BY <2>1, <2>2, TypeParts
<1>4. QED
  BY <1>1, <1>2, <1>3

\* Every variable keeps its type, however the coroutines of the workers, the
\* requests and the faults interleave.
THEOREM TypeCorrect == Spec => []TypeOK
<1>1. Init => TypeOK
  <2> SUFFICES ASSUME Init
               PROVE  BotsTypeOK /\ OthersTypeOK
    BY TypeParts
  <2>1. BotsTypeOK
    BY NoTaskType DEF Init, BotsTypeOK, TablesTypeOK
  <2>2. <<>> \in Seq(Commands) /\ <<>> \in Seq(BotEvents)
    OBVIOUS
  <2>3. OthersTypeOK
    BY <2>2, PoolAssumption DEF Init, OthersTypeOK, Phases
  <2>4. QED
    BY <2>1, <2>3
<1>2. TypeOK /\ [Next]_vars => TypeOK'
  <2> SUFFICES ASSUME TypeOK, [Next]_vars
               PROVE  TypeOK'
    OBVIOUS
  <2>1. ASSUME NEW w \in Workers, Work(w), UNCHANGED poolVars
        PROVE  TypeOK'
    BY <2>1, SweepType, LoopsType, ShutdownType DEF Work
  <2>2. ASSUME NEW w \in Workers, (Happen(w) /\ UNCHANGED poolVars) \/ Fail(w)
        PROVE  TypeOK'
    BY <2>2, EnvironmentType
  <2>3. CASE UNCHANGED vars
    BY <2>3 DEF TypeOK, StoreTypeOK, WorkerTypeOK, vars, storeVars, workerVars, loopVars,
                botVars, poolVars
  <2>4. QED
    BY <2>1, <2>2, <2>3, ServiceType DEF Next
<1>3. QED
  BY <1>1, <1>2, PTL DEF Spec
-------------------------------------------------------------------------------
(* The tables: no worker goes over its capacity by more than two bots, and   *)
(* no bot stays active without a handler.                                    *)

\* A process has three loops, and one coroutine that ends it.
LEMMA CoroutinesFinite ==
    /\ IsFiniteSet(Loops) /\ Cardinality(Loops) = 3
    /\ IsFiniteSet(Coroutines)
<1>1. IsFiniteSet({"sweep"}) /\ Cardinality({"sweep"}) = 1
  BY FS_Singleton
<1>2. IsFiniteSet({"sweep"} \cup {"events"}) /\ Cardinality({"sweep"} \cup {"events"}) = 2
  BY <1>1, FS_AddElement
<1>3. /\ IsFiniteSet(({"sweep"} \cup {"events"}) \cup {"commands"})
      /\ Cardinality(({"sweep"} \cup {"events"}) \cup {"commands"}) = 3
  BY <1>2, FS_AddElement
<1>4. Loops = ({"sweep"} \cup {"events"}) \cup {"commands"}
  BY DEF Loops
<1>5. IsFiniteSet(Loops) /\ Cardinality(Loops) = 3
  BY <1>3, <1>4
<1>6. Coroutines = Loops \cup {"shutdown"}
  BY DEF Coroutines
<1>7. QED
  BY <1>5, <1>6, FS_AddElement

\* Fewer bots and fewer coroutines make no greater load.
LEMMA LessLoad ==
    ASSUME NEW S, NEW T \in SUBSET S, IsFiniteSet(S),
           NEW X \in SUBSET Coroutines, NEW Y \in SUBSET X,
           Cardinality(S) + Cardinality(X) <= Capacity + 2
    PROVE  IsFiniteSet(T) /\ Cardinality(T) + Cardinality(Y) <= Capacity + 2
<1>1. IsFiniteSet(T) /\ Cardinality(T) \in Nat /\ Cardinality(S) \in Nat /\ Cardinality(T) <= Cardinality(S)
  BY FS_Subset, FS_CardinalityType
<1>3. IsFiniteSet(X)
  BY CoroutinesFinite, FS_Subset
<1>4. Cardinality(X) \in Nat /\ Cardinality(Y) \in Nat /\ Cardinality(Y) <= Cardinality(X)
  BY <1>3, FS_Subset, FS_CardinalityType
<1>5. QED
  BY <1>1, <1>4, CapacityAssumption

\* A bot that is inserted was counted already, with the coroutine that starts it.
LEMMA SameLoad ==
    ASSUME NEW S, IsFiniteSet(S), NEW b, NEW X \in SUBSET Coroutines, NEW t \in X,
           Cardinality(S) + Cardinality(X) <= Capacity + 2
    PROVE  /\ IsFiniteSet(S \cup {b})
           /\ Cardinality(S \cup {b}) + Cardinality(X \ {t}) <= Capacity + 2
<1>1. /\ IsFiniteSet(S \cup {b}) /\ Cardinality(S) \in Nat
      /\ Cardinality(S \cup {b}) \in {Cardinality(S), Cardinality(S) + 1}
  BY FS_AddElement, FS_CardinalityType
<1>3. IsFiniteSet(X) /\ Cardinality(X) \in Nat
  BY CoroutinesFinite, FS_Subset, FS_CardinalityType
<1>4. Cardinality(X \ {t}) = Cardinality(X) - 1
  BY <1>3, FS_RemoveElement
<1>5. QED
  BY <1>1, <1>3, <1>4, CapacityAssumption

\* Below the capacity all three loops may start a bot.
LEMMA RoomForAll ==
    ASSUME NEW S, IsFiniteSet(S), ~ (Cardinality(S) >= Capacity), NEW X \in SUBSET Loops
    PROVE  Cardinality(S) + Cardinality(X) <= Capacity + 2
<1>2. Cardinality(X) \in Nat /\ Cardinality(X) <= 3 /\ Cardinality(S) \in Nat
  BY CoroutinesFinite, FS_Subset, FS_CardinalityType
<1>3. QED
  BY <1>2, CapacityAssumption

\* What the tables' invariant says of one worker.
TablesFit(w) == LoadBounded(w) /\ ShutdownStops(w) /\ NothingYet(w) /\ HandlersAccounted(w)

\* The step concerns worker w only.
LEMMA OneWorker ==
    ASSUME TablesInv, NEW w \in Workers, TablesFit(w)',
           \A v \in Workers \ {w} : /\ active'[v] = active[v] /\ handler'[v] = handler[v]
                                    /\ task'[v] = task[v] /\ phase'[v] = phase[v]
    PROVE  TablesInv'
<1>1. ASSUME NEW v \in Workers, v # w
      PROVE  TablesFit(v)'
  <2>1. /\ active'[v] = active[v] /\ handler'[v] = handler[v]
        /\ task'[v] = task[v] /\ phase'[v] = phase[v]
    BY <1>1
  <2>2. TablesFit(v)
    BY DEF TablesInv, TablesFit
  <2>3. Starting(v)' = Starting(v) /\ \A b : Closing(v, b)' <=> Closing(v, b)
    BY <2>1 DEF Starting, Closing
  <2>4. QED
    BY <2>1, <2>2, <2>3 DEF TablesFit, LoadBounded, ShutdownStops, NothingYet, HandlersAccounted
<1>2. QED
  BY <1>1 DEF TablesInv, TablesFit

\* Nothing happens but that a process goes on to its next phase.
LEMMA PhaseKeepsTables ==
    ASSUME TablesInv, UNCHANGED <<active, handler, task>>,
           \A w \in Workers : \/ phase'[w] = phase[w]
                              \/ phase'[w] \in {"draining", "stopping"}
                              \/ phase[w] = "down" /\ phase'[w] = "waiting"
                              \/ phase[w] = "claiming" /\ phase'[w] = "running"
    PROVE  TablesInv'
<1>1. ASSUME NEW w \in Workers
      PROVE  TablesFit(w)'
  <2>1. TablesFit(w)
    BY DEF TablesInv, TablesFit
  <2>2. Starting(w)' = Starting(w) /\ \A b : Closing(w, b)' <=> Closing(w, b)
    BY DEF Starting, Closing
  <2>3. LoadBounded(w)' /\ ShutdownStops(w)'
    BY <2>1, <2>2 DEF TablesFit, LoadBounded, ShutdownStops
  <2>4. NothingYet(w)' /\ HandlersAccounted(w)'
    BY <2>1, <2>2 DEF TablesFit, NothingYet, HandlersAccounted
  <2>5. QED
    BY <2>3, <2>4 DEF TablesFit
<1>2. QED
  BY <1>1 DEF TablesInv, TablesFit

\* What SetTask does to the coroutines of its worker.
LEMMA SetTaskEffect ==
    ASSUME TypeOK, NEW w \in Workers, NEW t \in Coroutines, NEW x, SetTask(w, t, x)
    PROVE  /\ task'[w][t] = x
           /\ \A u \in Coroutines \ {t} : task'[w][u] = task[w][u]
           /\ \A v \in Workers \ {w} : task'[v] = task[v]
BY TypeParts DEF SetTask, BotsTypeOK

\* A coroutine takes up another task, no close among those it leaves, and the tables
\* stay as they are.
LEMMA TaskKeepsTables ==
    ASSUME TypeOK, TablesInv, NEW w \in Workers, NEW t \in Coroutines, NEW x,
           SetTask(w, t, x), UNCHANGED <<active, handler>>,
           \A v \in Workers \ {w} : phase'[v] = phase[v],
           x.op = "start" => t \in Loops /\ ~ (Cardinality(active[w]) >= Capacity),
           t = "shutdown" => x.op \in {"idle", "unwind", "close"} /\ x.again = FALSE,
           phase'[w] \notin {"down", "waiting"},
           phase'[w] \in {"claiming", "running"} =>
               /\ phase[w] \in {"waiting", "claiming", "running"}
               /\ task[w][t].op # "close"
    PROVE  TablesInv'
<1>1. /\ task'[w][t] = x
      /\ \A u \in Coroutines \ {t} : task'[w][u] = task[w][u]
      /\ \A v \in Workers \ {w} : task'[v] = task[v]
  BY SetTaskEffect
<1>2. TablesFit(w)
  BY DEF TablesInv, TablesFit
<1>3. LoadBounded(w)'
  <2>1. CASE x.op = "start"
    <3>1. Starting(w)' \in SUBSET Loops
      <4>1. task'[w]["shutdown"].op # "start"
        BY <1>1, <1>2, <2>1 DEF TablesFit, ShutdownStops, Loops, Coroutines
      <4>2. QED
        BY <4>1 DEF Starting, Coroutines
    <3>2. QED
      BY <1>2, <2>1, <3>1, RoomForAll DEF TablesFit, LoadBounded
  <2>2. CASE x.op # "start"
    <3>1. Starting(w)' \in SUBSET Starting(w) /\ Starting(w) \in SUBSET Coroutines
      BY <1>1, <2>2 DEF Starting
    <3>2. QED
      BY <1>2, <3>1, LessLoad DEF TablesFit, LoadBounded
  <2>3. QED
    BY <2>1, <2>2
<1>4. ShutdownStops(w)'
  BY <1>1, <1>2 DEF TablesFit, ShutdownStops, Coroutines
<1>5. HandlersAccounted(w)'
  <2>1. SUFFICES ASSUME phase'[w] \in {"claiming", "running"}, NEW b \in active[w] \ handler[w]
                 PROVE  Closing(w, b)'
    BY DEF HandlersAccounted
  <2>2. Closing(w, b)
    BY <1>2, <2>1 DEF TablesFit, HandlersAccounted, NothingYet
  <2>3. QED
    BY <1>1, <2>1, <2>2 DEF Closing
<1>6. NothingYet(w)'
  BY DEF NothingYet
<1>7. TablesFit(w)'
  BY <1>3, <1>4, <1>5, <1>6 DEF TablesFit
<1>8. QED
  BY <1>1, <1>7, OneWorker

\* A bot leaves the tables, and with it the coroutine that stopped it, if any.
LEMMA LeavingKeepsTables ==
    ASSUME TypeOK, TablesInv, NEW w \in Workers, NEW b,
           active' = Remove(active, w, {b}),
           handler' \in {handler, Remove(handler, w, {b})},
           UNCHANGED phase,
           \/ UNCHANGED task
           \/ \E t \in Coroutines : \E again :
                 /\ SetTask(w, t, AfterStop(b, again))
                 /\ t = "shutdown" => again = FALSE
                 /\ task[w][t].op # "close" \/ task[w][t].bot = b
                 /\ phase[w] \notin {"down", "waiting"}
    PROVE  TablesInv'
<1>1. /\ active'[w] = active[w] \ {b} /\ handler'[w] \in {handler[w], handler[w] \ {b}}
      /\ \A v \in Workers \ {w} : active'[v] = active[v] /\ handler'[v] = handler[v]
  BY TypeParts DEF BotsTypeOK, TablesTypeOK, Remove
<1>2. TablesFit(w)
  BY DEF TablesInv, TablesFit
<1>3. /\ Starting(w)' \in SUBSET Starting(w)
      /\ \A c : c # b /\ Closing(w, c) => Closing(w, c)'
      /\ ShutdownStops(w)'
      /\ \A v \in Workers \ {w} : task'[v] = task[v]
      /\ phase[w] \in {"down", "waiting"} => task' = task
  <2>1. CASE UNCHANGED task
    BY <1>2, <2>1 DEF Starting, Closing, TablesFit, ShutdownStops
  <2>2. ASSUME NEW t \in Coroutines, NEW again,
               SetTask(w, t, AfterStop(b, again)),
               t = "shutdown" => again = FALSE,
               task[w][t].op # "close" \/ task[w][t].bot = b,
               phase[w] \notin {"down", "waiting"}
        PROVE  <1>3!1 /\ <1>3!2 /\ <1>3!3 /\ <1>3!4 /\ <1>3!5
    <3>1. /\ task'[w][t] = AfterStop(b, again)
          /\ \A u \in Coroutines \ {t} : task'[w][u] = task[w][u]
          /\ \A v \in Workers \ {w} : task'[v] = task[v]
      BY <2>2, SetTaskEffect
    <3>2. /\ AfterStop(b, again).op \notin {"start", "close"}
          /\ again = FALSE => AfterStop(b, again).op = "idle" /\ AfterStop(b, again).again = FALSE
      BY DEF AfterStop, Task, Idle
    <3>3. Starting(w)' \in SUBSET Starting(w)
      BY <3>1, <3>2 DEF Starting
    <3>4. ASSUME NEW c, c # b, Closing(w, c)
          PROVE  Closing(w, c)'
      BY <2>2, <3>1, <3>4 DEF Closing
    <3>5. ShutdownStops(w)'
      BY <1>2, <2>2, <3>1, <3>2 DEF TablesFit, ShutdownStops, Coroutines
    <3>6. QED
      BY <2>2, <3>1, <3>3, <3>4, <3>5
  <2>3. QED
    BY <2>1, <2>2
<1>4. LoadBounded(w)'
  <2>1. active'[w] \in SUBSET active[w] /\ Starting(w) \in SUBSET Coroutines
    BY <1>1 DEF Starting
  <2>2. QED
    BY <1>2, <1>3, <2>1, LessLoad DEF TablesFit, LoadBounded
<1>5. NothingYet(w)'
  BY <1>1, <1>2, <1>3 DEF TablesFit, NothingYet
<1>6. HandlersAccounted(w)'
  BY <1>1, <1>2, <1>3 DEF TablesFit, HandlersAccounted
<1>7. TablesFit(w)'
  BY <1>3, <1>4, <1>5, <1>6 DEF TablesFit
<1>8. QED
  BY <1>1, <1>3, <1>7, OneWorker

\* The handler of a bot is taken by a coroutine that closes it.
LEMMA TakingKeepsTables ==
    ASSUME TypeOK, TablesInv, NEW w \in Workers, NEW t \in Coroutines, NEW b,
           NEW again, TakeHandler(w, t, b, again), UNCHANGED phase,
           t = "shutdown" => again = FALSE,
           task[w][t].op # "close", phase[w] \notin {"down", "waiting"}
    PROVE  TablesInv'
<1>1. /\ task'[w][t] = Task("close", b, again)
      /\ \A u \in Coroutines \ {t} : task'[w][u] = task[w][u]
      /\ \A v \in Workers \ {w} : task'[v] = task[v]
  BY SetTaskEffect DEF TakeHandler
<1>2. /\ active' = active /\ handler'[w] = handler[w] \ {b}
      /\ \A v \in Workers \ {w} : handler'[v] = handler[v]
  BY TypeParts DEF TakeHandler, BotsTypeOK, TablesTypeOK, Remove
<1>3. TablesFit(w)
  BY DEF TablesInv, TablesFit
<1>4. LoadBounded(w)'
  <2>1. /\ Starting(w)' \in SUBSET Starting(w) /\ Starting(w) \in SUBSET Coroutines
        /\ active'[w] \in SUBSET active[w]
    BY <1>1, <1>2 DEF Starting, Task
  <2>2. QED
    BY <1>3, <2>1, LessLoad DEF TablesFit, LoadBounded
<1>5. ShutdownStops(w)'
  BY <1>1, <1>3 DEF TablesFit, ShutdownStops, Task, Coroutines
<1>6. NothingYet(w)'
  BY DEF NothingYet
<1>7. HandlersAccounted(w)'
  <2>1. Closing(w, b)' /\ \A c : Closing(w, c) => Closing(w, c)'
    BY <1>1 DEF Closing, Task
  <2>2. QED
    BY <1>2, <1>3, <2>1 DEF TablesFit, HandlersAccounted
<1>8. TablesFit(w)'
  BY <1>4, <1>5, <1>6, <1>7 DEF TablesFit
<1>9. QED
  BY <1>1, <1>2, <1>8, OneWorker

\* A bot is inserted, with its handler.
LEMMA FinishStartKeepsTables ==
    ASSUME TypeOK, TablesInv, NEW w \in Workers, NEW t \in Coroutines, FinishStart(w, t)
    PROVE  TablesInv'
<1> DEFINE b == task[w][t].bot
<1>1. /\ task'[w][t] = Idle
      /\ \A u \in Coroutines \ {t} : task'[w][u] = task[w][u]
      /\ \A v \in Workers \ {w} : task'[v] = task[v]
  BY SetTaskEffect DEF FinishStart
<1>2. /\ active'[w] = active[w] \cup {b} /\ handler'[w] = handler[w] \cup {b}
      /\ \A v \in Workers \ {w} : active'[v] = active[v] /\ handler'[v] = handler[v]
      /\ phase' = phase
  BY TypeParts DEF FinishStart, BotsTypeOK, TablesTypeOK, Add
<1>3. TablesFit(w) /\ task[w][t].op = "start"
  BY DEF TablesInv, TablesFit, FinishStart
<1>4. LoadBounded(w)'
  <2>1. /\ Starting(w)' = Starting(w) \ {t} /\ t \in Starting(w)
        /\ Starting(w) \in SUBSET Coroutines
    BY <1>1, <1>3 DEF Starting, Idle, Task
  <2>2. /\ IsFiniteSet(active[w])
        /\ Cardinality(active[w]) + Cardinality(Starting(w)) <= Capacity + 2
    BY <1>3 DEF TablesFit, LoadBounded
  <2>3. /\ IsFiniteSet(active[w] \cup {b})
        /\ Cardinality(active[w] \cup {b}) + Cardinality(Starting(w) \ {t}) <= Capacity + 2
    BY <2>1, <2>2, SameLoad
  <2>4. QED
    BY <1>2, <2>1, <2>3 DEF LoadBounded
<1>5. ShutdownStops(w)'
  BY <1>1, <1>3 DEF TablesFit, ShutdownStops, Coroutines
<1>6. NothingYet(w)'
  BY <1>2, <1>3 DEF TablesFit, NothingYet, Idle, Task
<1>7. HandlersAccounted(w)'
  <2>1. \A c : Closing(w, c) => Closing(w, c)'
    BY <1>1, <1>3 DEF Closing
  <2>2. QED
    BY <1>2, <1>3, <2>1 DEF TablesFit, HandlersAccounted
<1>8. TablesFit(w)'
  BY <1>4, <1>5, <1>6, <1>7 DEF TablesFit
<1>9. QED
  BY <1>1, <1>2, <1>8, OneWorker

\* The process ends.
LEMMA ExitKeepsTables ==
    ASSUME TypeOK, TablesInv, NEW w \in Workers, Exit(w)
    PROVE  TablesInv'
<1>1. /\ active'[w] = {} /\ task'[w] = [t \in Coroutines |-> Idle] /\ phase'[w] = "down"
      /\ \A v \in Workers \ {w} : /\ active'[v] = active[v] /\ handler'[v] = handler[v]
                                  /\ task'[v] = task[v] /\ phase'[v] = phase[v]
  BY TypeParts DEF Exit, BotsTypeOK, TablesTypeOK, OthersTypeOK
<1>2. Starting(w)' = {}
  BY <1>1 DEF Starting, Idle, Task
<1>3. LoadBounded(w)'
  BY <1>1, <1>2, FS_EmptySet, CapacityAssumption DEF LoadBounded
<1>4. ShutdownStops(w)' /\ NothingYet(w)' /\ HandlersAccounted(w)'
  BY <1>1 DEF ShutdownStops, NothingYet, HandlersAccounted, Idle, Task, Coroutines
<1>5. TablesFit(w)'
  BY <1>3, <1>4 DEF TablesFit
<1>6. QED
  BY <1>1, <1>5, OneWorker

\* A coroutine that is at work belongs to a process that has built its ring.
LEMMA AtWorkIsUp ==
    ASSUME TypeOK, TablesInv, NEW w \in Workers, NEW t \in Coroutines, task[w][t].op # "idle"
    PROVE  /\ phase[w] \notin {"down", "waiting"}
           /\ t = "shutdown" => task[w][t].again = FALSE
<1>1. NothingYet(w) /\ ShutdownStops(w)
  BY DEF TablesInv
<1>2. phase[w] \notin {"down", "waiting"}
  BY <1>1 DEF NothingYet, Idle, Task
<1>3. QED
  BY <1>1, <1>2 DEF ShutdownStops

LEMMA BeginStartKeepsTables ==
    ASSUME TypeOK, TablesInv, NEW w \in Workers, NEW t \in Loops, NEW b,
           BeginStart(w, t, b), UNCHANGED phase,
           task[w][t].op # "close", phase[w] \notin {"down", "waiting"}
    PROVE  TablesInv'
<1>1. SetTask(w, t, StartTask(w, b)) /\ UNCHANGED <<active, handler>>
  BY DEF BeginStart, botVars
<1>2. StartTask(w, b).op = "start" => ~ (Cardinality(active[w]) >= Capacity)
  BY DEF StartTask, Idle, Task
<1>3. t \in Coroutines /\ t # "shutdown"
  BY DEF Coroutines, Loops
<1>4. QED
  BY <1>1, <1>2, <1>3, TaskKeepsTables

LEMMA BeginStopKeepsTables ==
    ASSUME TypeOK, TablesInv, NEW w \in Workers, NEW t \in Coroutines, NEW b,
           NEW again, BeginStop(w, t, b, again), UNCHANGED phase,
           t = "shutdown" => again = FALSE,
           task[w][t].op # "close", phase[w] \notin {"down", "waiting"}
    PROVE  TablesInv'
<1>1. ASSUME NEW x \in {AfterStop(b, again), Task("unwind", b, again)},
             SetTask(w, t, x), UNCHANGED <<active, handler>>
      PROVE  TablesInv'
  <2>1. /\ x.op # "start"
        /\ t = "shutdown" => x.op \in {"idle", "unwind", "close"} /\ x.again = FALSE
    BY DEF AfterStop, Task, Idle
  <2>2. QED
    BY <1>1, <2>1, TaskKeepsTables
<1>2. CASE SetTask(w, t, AfterStop(b, again)) /\ UNCHANGED <<active, handler>>
  BY <1>1, <1>2
<1>3. CASE SetTask(w, t, Task("unwind", b, again)) /\ UNCHANGED <<active, handler>>
  BY <1>1, <1>3
<1>4. CASE TakeHandler(w, t, b, again)
  BY <1>4, TakingKeepsTables
<1>5. CASE /\ SetTask(w, t, AfterStop(b, again))
           /\ active' = Remove(active, w, {b}) /\ handler' = Remove(handler, w, {b})
  BY <1>5, LeavingKeepsTables
<1>6. QED
  BY <1>2, <1>3, <1>4, <1>5 DEF BeginStop, botVars

\* A stop comes to its end, be it that the close failed.
LEMMA EndStopKeepsTables ==
    ASSUME TypeOK, TablesInv, NEW w \in Workers, NEW t \in Coroutines, NEW stray,
           LET b == task[w][t].bot IN
           /\ SetTask(w, t, AfterStop(b, task[w][t].again))
           /\ LeaveTables(w, b, stray) \/ DropEntries(w, b, stray),
           task[w][t].op # "idle", UNCHANGED phase
    PROVE  TablesInv'
<1> DEFINE b == task[w][t].bot
           again == task[w][t].again
<1>1. /\ t = "shutdown" => again = FALSE
      /\ phase[w] \notin {"down", "waiting"}
  BY AtWorkIsUp
<1>2. active' = Remove(active, w, {b}) /\ handler' \in {handler, Remove(handler, w, {b})}
  BY DEF LeaveTables, DropEntries
<1>3. SetTask(w, t, AfterStop(b, again)) /\ (task[w][t].op # "close" \/ task[w][t].bot = b)
  OBVIOUS
<1> HIDE DEF b, again
<1>4. QED
  BY <1>1, <1>2, <1>3, LeavingKeepsTables

\* An awaited call comes back.
LEMMA ResumeKeepsTables ==
    ASSUME TypeOK, TablesInv, NEW w \in Workers, NEW t \in Coroutines,
           Resume(w, t) \/ FailStop(w, t)
    PROVE  TablesInv'
<1>1. CASE FinishStart(w, t)
  BY <1>1, FinishStartKeepsTables
<1>2. CASE Unwind(w, t)
  <2>1. task[w][t].op = "unwind" /\ UNCHANGED phase
    BY <1>2 DEF Unwind
  <2>2. /\ phase[w] \notin {"down", "waiting"}
        /\ t = "shutdown" => task[w][t].again = FALSE
    BY <2>1, AtWorkIsUp
  <2>3. CASE TakeHandler(w, t, task[w][t].bot, task[w][t].again)
    BY <2>1, <2>2, <2>3, TakingKeepsTables
  <2>4. CASE /\ SetTask(w, t, AfterStop(task[w][t].bot, task[w][t].again))
             /\ DropEntries(w, task[w][t].bot, {})
    BY <2>1, <2>4, EndStopKeepsTables
  <2>5. QED
    BY <1>2, <2>3, <2>4 DEF Unwind
<1>3. CASE FinishStop(w, t)
  BY <1>3, EndStopKeepsTables DEF FinishStop
<1>4. CASE FailStop(w, t)
  BY <1>4, EndStopKeepsTables DEF FailStop
<1>5. CASE WakeUp(w, t)
  <2>1. task[w][t].op = "nap" /\ UNCHANGED phase /\ BeginStart(w, t, task[w][t].bot)
    BY <1>5 DEF WakeUp
  <2>2. t \in Loops
    BY <2>1 DEF TablesInv, ShutdownStops, Coroutines
  <2>3. phase[w] \notin {"down", "waiting"}
    BY <2>1, AtWorkIsUp
  <2>4. QED
    BY <2>1, <2>2, <2>3, BeginStartKeepsTables
<1>6. QED
  BY <1>1, <1>2, <1>3, <1>4, <1>5 DEF Resume

LEMMA SweepKeepsTables ==
    ASSUME TypeOK, TablesInv, NEW w \in Workers, Sweep(w) \/ FailSweep(w)
    PROVE  TablesInv'
<1> "sweep" \in Coroutines /\ "sweep" \in Loops /\ "sweep" # "shutdown"
  BY DEF Coroutines, Loops
<1> phase \in [Workers -> Phases]
  BY TypeParts DEF OthersTypeOK
<1> Idle.op = "idle" /\ Query.op = "query"
  BY DEF Idle, Query, Task
<1>1. CASE BuildRing(w)
  <2>1. /\ SetTask(w, "sweep", Query) /\ UNCHANGED <<active, handler>>
        /\ phase[w] = "waiting" /\ phase' = [phase EXCEPT ![w] = "claiming"]
    BY <1>1 DEF BuildRing, botVars
  <2>2. task[w]["sweep"].op # "close"
    BY <2>1 DEF TablesInv, NothingYet
  <2>3. QED
    BY <2>1, <2>2, TaskKeepsTables
<1>2. CASE ListBots(w)
  <2>1. /\ SetTask(w, "sweep", Idle) /\ UNCHANGED <<active, handler, phase>>
        /\ task[w]["sweep"] = Query
    BY <1>2 DEF ListBots, botVars
  <2>2. phase[w] \notin {"down", "waiting"}
    BY <2>1, AtWorkIsUp
  <2>3. QED
    BY <2>1, <2>2, TaskKeepsTables DEF Phases
<1>3. CASE ClaimAssigned(w)
  <2>1. PICK b : /\ SetTask(w, "sweep", Task("nap", b, FALSE))
                 /\ UNCHANGED <<active, handler, phase>>
                 /\ task[w]["sweep"] = Idle /\ phase[w] = "claiming"
    BY <1>3 DEF ClaimAssigned, botVars
  <2>2. Task("nap", b, FALSE).op = "nap"
    BY DEF Task
  <2>3. QED
    BY <2>1, <2>2, TaskKeepsTables
<1>4. CASE BecomeReady(w)
  BY <1>4, PhaseKeepsTables DEF BecomeReady, botVars
<1>5. CASE Scan(w)
  <2>1. /\ SetTask(w, "sweep", Query) /\ UNCHANGED <<active, handler, phase>>
        /\ task[w]["sweep"] = Idle /\ phase[w] \in {"running", "draining"}
    BY <1>5 DEF Scan, botVars, Listening
  <2>2. QED
    BY <2>1, TaskKeepsTables
<1>6. CASE ClaimOrphan(w)
  <2>1. /\ UNCHANGED phase /\ task[w]["sweep"] = Idle /\ phase[w] \in {"running", "draining"}
        /\ \E b : UNCHANGED <<task, botVars>> \/ BeginStart(w, "sweep", b)
    BY <1>6 DEF ClaimOrphan, Listening
  <2>2. CASE UNCHANGED <<task, botVars>>
    BY <2>1, <2>2, PhaseKeepsTables DEF botVars
  <2>3. ASSUME NEW b, BeginStart(w, "sweep", b)
        PROVE  TablesInv'
    BY <2>1, <2>3, BeginStartKeepsTables
  <2>4. QED
    BY <2>1, <2>2, <2>3
<1>7. CASE FailSweep(w)
  <2>1. /\ SetTask(w, "sweep", Idle) /\ UNCHANGED <<active, handler>>
        /\ task[w]["sweep"].op \in {"query", "start"}
        /\ \/ phase' = [phase EXCEPT ![w] = "stopping"]
           \/ UNCHANGED phase
    BY <1>7 DEF FailSweep, botVars
  <2>2. phase[w] \notin {"down", "waiting"}
    BY <2>1, AtWorkIsUp
  <2>3. QED
    BY <2>1, <2>2, TaskKeepsTables DEF Phases
<1>8. QED
  BY <1>1, <1>2, <1>3, <1>4, <1>5, <1>6, <1>7, ResumeKeepsTables DEF Sweep

LEMMA ShutdownKeepsTables ==
    ASSUME TypeOK, TablesInv, NEW w \in Workers, Shutdown(w)
    PROVE  TablesInv'
<1> "shutdown" \in Coroutines /\ Idle.op = "idle" /\ Ended.op = "ended"
  BY DEF Coroutines, Idle, Ended, Task
<1> phase \in [Workers -> Phases]
  BY TypeParts DEF OthersTypeOK
<1>1. ASSUME NEW t \in Loops, Cancel(w, t)
      PROVE  TablesInv'
  <2>1. /\ SetTask(w, t, Ended) /\ UNCHANGED <<active, handler, phase>>
        /\ phase[w] = "draining"
    BY <1>1 DEF Cancel
  <2>2. t \in Coroutines /\ t # "shutdown"
    BY DEF Coroutines, Loops
  <2>3. QED
    BY <2>1, <2>2, TaskKeepsTables
<1>2. CASE StopAll(w)
  BY <1>2, PhaseKeepsTables DEF StopAll, botVars
<1>3. CASE StopNext(w)
  <2>1. /\ phase[w] = "stopping" /\ UNCHANGED phase /\ task[w]["shutdown"] = Idle
        /\ \E b : BeginStop(w, "shutdown", b, FALSE)
    BY <1>3 DEF StopNext
  <2>2. QED
    BY <2>1, BeginStopKeepsTables
<1>4. CASE Unregister(w)
  BY <1>4, ExitKeepsTables DEF Unregister
<1>5. QED
  BY <1>1, <1>2, <1>3, <1>4, ResumeKeepsTables DEF Shutdown

LEMMA ListenersKeepTables ==
    ASSUME TypeOK, TablesInv, NEW w \in Workers, EventLoop(w) \/ CommandLoop(w)
    PROVE  TablesInv'
<1> /\ "events" \in Coroutines /\ "events" \in Loops /\ "events" # "shutdown"
    /\ "commands" \in Coroutines /\ "commands" # "shutdown" /\ Idle.op = "idle"
  BY DEF Coroutines, Loops, Idle, Task
<1>1. CASE HandleEvent(w)
  <2>1. /\ UNCHANGED phase /\ task[w]["events"] = Idle /\ phase[w] \in {"running", "draining"}
        /\ \/ UNCHANGED <<task, botVars>>
           \/ \E b : BeginStart(w, "events", b)
           \/ \E b, again : BeginStop(w, "events", b, again)
    BY <1>1 DEF HandleEvent, Listening
  <2>2. CASE UNCHANGED <<task, botVars>>
    BY <2>1, <2>2, PhaseKeepsTables DEF botVars
  <2>3. ASSUME NEW b, BeginStart(w, "events", b)
        PROVE  TablesInv'
    BY <2>1, <2>3, BeginStartKeepsTables
  <2>4. ASSUME NEW b, NEW again, BeginStop(w, "events", b, again)
        PROVE  TablesInv'
    BY <2>1, <2>4, BeginStopKeepsTables
  <2>5. QED
    BY <2>1, <2>2, <2>3, <2>4
<1>2. CASE HandleCommand(w)
  <2>1. /\ UNCHANGED phase /\ task[w]["commands"] = Idle
        /\ phase[w] \in {"running", "draining"}
        /\ \E b, again : BeginStop(w, "commands", b, again)
    BY <1>2 DEF HandleCommand, Listening
  <2>2. QED
    BY <2>1, BeginStopKeepsTables
<1>3. QED
  BY <1>1, <1>2, ResumeKeepsTables DEF EventLoop, CommandLoop

LEMMA EnvironmentKeepsTables ==
    ASSUME TypeOK, TablesInv, NEW w \in Workers,
           SendHeartbeat(w) \/ Happen(w) \/ Fail(w)
    PROVE  TablesInv'
<1> phase \in [Workers -> Phases]
  BY TypeParts DEF OthersTypeOK
<1>1. CASE SendHeartbeat(w) \/ ExpireHeartbeat(w)
  BY <1>1, PhaseKeepsTables DEF SendHeartbeat, ExpireHeartbeat, workerVars, botVars
<1>2. CASE Terminate(w) \/ TerminateEarly(w)
  <2>1. /\ UNCHANGED <<active, handler, task>>
        /\ phase' \in {[phase EXCEPT ![w] = "draining"], [phase EXCEPT ![w] = "stopping"]}
    BY <1>2 DEF Terminate, TerminateEarly, botVars
  <2>2. QED
    BY <2>1, PhaseKeepsTables
<1>3. CASE Start(w)
  BY <1>3, PhaseKeepsTables DEF Start, botVars
<1>4. CASE ExitEarly(w) \/ Crash(w)
  BY <1>4, ExitKeepsTables DEF ExitEarly, Crash
<1>5. ASSUME NEW b, PollerEnds(w, b) \/ ThreadEnds(w, b) \/ ConnectionEnds(w, b)
      PROVE  TablesInv'
  <2>1. UNCHANGED <<task, phase>>
    BY <1>5 DEF PollerEnds, ThreadEnds, ConnectionEnds
  <2>2. \/ UNCHANGED <<active, handler>>
        \/ active' = Remove(active, w, {b}) /\ handler' = Remove(handler, w, {b})
    BY <1>5 DEF PollerEnds, ThreadEnds, ConnectionEnds
  <2>3. CASE UNCHANGED <<active, handler>>
    BY <2>1, <2>3, PhaseKeepsTables
  <2>4. CASE active' = Remove(active, w, {b}) /\ handler' = Remove(handler, w, {b})
    BY <2>1, <2>4, LeavingKeepsTables
  <2>5. QED
    BY <2>2, <2>3, <2>4
<1>6. ASSUME NEW t \in Coroutines, FailStart(w, t)
      PROVE  TablesInv'
  <2>1. /\ SetTask(w, t, Idle) /\ UNCHANGED <<active, handler, phase>>
        /\ task[w][t].op = "start"
    BY <1>6 DEF FailStart, botVars
  <2>2. phase[w] \notin {"down", "waiting"} /\ Idle.op = "idle" /\ Idle.again = FALSE
    BY <2>1, AtWorkIsUp DEF Idle, Task
  <2>3. QED
    BY <2>1, <2>2, TaskKeepsTables DEF Phases
<1>7. CASE Happen(w)
  BY <1>1, <1>2, <1>4, <1>5, <1>7 DEF Happen, HeartbeatLapses
<1>8. CASE Fail(w)
  BY <1>1, <1>3, <1>4, <1>5, <1>6, <1>8, SweepKeepsTables, ResumeKeepsTables DEF Fail
<1>9. QED
  BY <1>1, <1>7, <1>8

LEMMA ServiceKeepsTables ==
    ASSUME TypeOK, TablesInv,
           \/ \E type \in EventTypes, b \in Bots : Request(type, b)
           \/ \E r \in pending : Publish(r) \/ LoseRequest(r)
    PROVE  TablesInv'
<1>1. UNCHANGED workerVars
  BY DEF Request, Publish, LoseRequest
<1>2. QED
  BY <1>1, PhaseKeepsTables DEF workerVars, botVars

\* The inductive invariant: what a worker may yet insert fits into its capacity and two,
\* and whoever took the handler of an active bot is still at it.
THEOREM TablesInvariant == Spec => []TablesInv
<1>1. Init => TablesInv
  <2> SUFFICES ASSUME Init, NEW w \in Workers
               PROVE  TablesFit(w)
    BY DEF TablesInv, TablesFit
  <2>1. active[w] = {} /\ \A t \in Coroutines : task[w][t] = Idle
    BY DEF Init
  <2>2. Idle.op = "idle" /\ Idle.again = FALSE
    BY DEF Idle, Task
  <2>3. Starting(w) = {}
    BY <2>1, <2>2 DEF Starting
  <2>4. LoadBounded(w)
    BY <2>1, <2>3, FS_EmptySet, CapacityAssumption DEF LoadBounded
  <2>5. ShutdownStops(w) /\ NothingYet(w) /\ HandlersAccounted(w)
    BY <2>1, <2>2 DEF ShutdownStops, NothingYet, HandlersAccounted, Coroutines
  <2>6. QED
    BY <2>4, <2>5 DEF TablesFit
<1>2. TypeOK /\ TablesInv /\ [Next]_vars => TablesInv'
  <2> SUFFICES ASSUME TypeOK, TablesInv, [Next]_vars
               PROVE  TablesInv'
    OBVIOUS
  <2>1. ASSUME NEW w \in Workers, Work(w)
        PROVE  TablesInv'
    BY <2>1, SweepKeepsTables, ListenersKeepTables, ShutdownKeepsTables, EnvironmentKeepsTables
       DEF Work
  <2>2. ASSUME NEW w \in Workers, Happen(w) \/ Fail(w)
        PROVE  TablesInv'
    BY <2>2, EnvironmentKeepsTables
  <2>3. CASE UNCHANGED vars
    BY <2>3, PhaseKeepsTables DEF vars, workerVars, botVars
  <2>4. QED
    BY <2>1, <2>2, <2>3, ServiceKeepsTables DEF Next
<1>3. QED
  BY <1>1, <1>2, TypeCorrect, PTL DEF Spec

\* No worker holds more than two bots beyond its capacity, those included that its
\* coroutines are about to insert, however the checks and the insertions of the three
\* loops interleave (_start_bot).
THEOREM OvershootIsBounded == Spec => []OvershootBounded
<1>1. TablesInv => OvershootBounded
  BY DEF TablesInv, LoadBounded, OvershootBounded
<1>2. QED
  BY <1>1, TablesInvariant, PTL

\* While a worker listens, a bot in _active_bots has its handler, or a coroutine is
\* closing it, however starts and stops of the bot overlap (_start_bot, _stop_bot).
THEOREM NoGhosts == Spec => []NoGhost
<1>1. TablesInv => NoGhost
  BY DEF TablesInv, HandlersAccounted, NoGhost
<1>2. QED
  BY <1>1, TablesInvariant, PTL
===============================================================================

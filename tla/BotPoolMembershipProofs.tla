------------------------ MODULE BotPoolMembershipProofs ------------------------
(***************************************************************************)
(* Why no bot runs on two workers, as long as no worker joins and no live  *)
(* worker is taken for dead.  Live workers then only grow fewer, so every  *)
(* ring, however old, holds all of them, and a worker that its ring makes  *)
(* the owner of a bot comes before every live worker on the bot's walk     *)
(* (Best) and stays so.  Two live workers cannot both be the best for the  *)
(* same bot: their places on its walk would be the same.                   *)
(***************************************************************************)
EXTENDS BotPoolProofs

LEMMA OwnersAreBest ==
    ASSUME NEW w \in Workers, NEW b \in Bots, NEW r, Up \subseteq r, Owns(w, r, b)
    PROVE  Best(w, b)
BY DEF Owns, Best

LEMMA BestIsOne ==
    ASSUME NEW b \in Bots, NEW v \in Up, NEW w \in Up, Best(v, b), Best(w, b)
    PROVE  v = w
<1>1. v \in Workers /\ w \in Workers
  BY DEF Up
<1>2. Rank[b][v] \in Nat /\ Rank[b][w] \in Nat
  BY <1>1, RankAssumption
<1>3. Rank[b][v] = Rank[b][w]
  BY <1>2 DEF Best
<1>4. QED
  BY <1>1, <1>3, RankAssumption

\* Concerns that are not new are of the best, and those of an owner are.
LEMMA ConcernsStayBest ==
    ASSUME OnlyTheBest, Up' \subseteq Up,
           \A v \in Up', b \in Bots : Concerned(v, b)' => Concerned(v, b) \/ Best(v, b)
    PROVE  OnlyTheBest'
BY DEF OnlyTheBest, Best

\* A worker with anything in hand is up and has its ring.
LEMMA BusyIsUp ==
    ASSUME TypeOK, IdleAreQuiet, NEW w \in Workers, ~ Quiet(w)
    PROVE  w \in Up /\ phase[w] # "waiting"
BY DEF IdleAreQuiet, Up

-------------------------------------------------------------------------------
(* Steps of one worker on one of its bots.                                   *)

\* The step changes nothing but what worker w has of bot b, and keeps b registered
\* under w while w has it.
TouchTables(w, b) ==
    /\ \A v \in Workers \ {w} : /\ active'[v] = active[v]
                                /\ conn'[v] = conn[v]
                                /\ leaked'[v] = leaked[v]
                                /\ task'[v] = task[v]
    /\ active'[w] \subseteq active[w] \cup {b}
    /\ conn'[w] \subseteq conn[w] \cup {b}
    /\ leaked'[w] \subseteq leaked[w] \cup {b}
    /\ \A t \in Coroutines : task'[w][t].bot \in {task[w][t].bot, b, None}
    /\ \A c \in Bots \ {b} : assign'[c] = assign[c]
    /\ assign'[b] \in {assign[b], w, None}
    /\ b \in active'[w] => assign'[b] = w

\* Besides, it brings w no other work.
Touch(w, b) ==
    /\ TouchTables(w, b)
    /\ \A v \in Workers \ {w} : inbox'[v] = inbox[v]
    /\ \A i \in DOMAIN inbox'[w] : \E j \in DOMAIN inbox[w] : inbox'[w][i] = inbox[w][j]
    /\ \A v \in Workers : todo'[v] \subseteq todo[v]
    /\ UNCHANGED <<phase, ring, hb>>

LEMMA TouchKeepsInv ==
    ASSUME TypeOK, MembershipInv, NEW w \in Up, phase[w] # "waiting",
           NEW b \in Bots, Best(w, b), Touch(w, b)
    PROVE  MembershipInv'
<1>0. /\ w \in Workers
      /\ Up' = Up
      /\ None \notin Workers /\ None \notin Bots
  BY NoneAssumption DEF Up, Touch, TouchTables
<1>1. LiveAreHealthy'
  BY DEF MembershipInv, LiveAreHealthy, Healthy, Up, Touch, TouchTables
<1>2. RingsHoldTheLive'
  BY <1>0 DEF MembershipInv, RingsHoldTheLive, Touch, TouchTables
<1>3. IdleAreQuiet'
  <2> SUFFICES ASSUME NEW v \in Workers, phase'[v] \in {"down", "waiting"}
               PROVE  Quiet(v)'
    BY DEF IdleAreQuiet
  <2>1. v # w /\ phase[v] \in {"down", "waiting"}
    BY DEF Touch, TouchTables, Up
  <2>2. Quiet(v)
    BY <2>1 DEF MembershipInv, IdleAreQuiet
  <2>3. QED
    BY <2>1, <2>2 DEF Quiet, Touch, TouchTables
<1>4. OnlyTheBest'
  <2>1. ASSUME NEW v \in Up, NEW c \in Bots, Concerned(v, c)'
        PROVE  Concerned(v, c) \/ Best(v, c)
    <3>0. v \in Workers
      BY DEF Up
    <3>1. CASE v # w
      <4>1. /\ active'[v] = active[v]
            /\ conn'[v] = conn[v]
            /\ leaked'[v] = leaked[v]
            /\ task'[v] = task[v]
            /\ inbox'[v] = inbox[v]
            /\ todo'[v] \subseteq todo[v]
            /\ assign'[c] = v => assign[c] = v
        BY <1>0, <3>0, <3>1 DEF Touch, TouchTables
      <4>2. QED
        BY <2>1, <4>1 DEF Concerned
    <3>2. CASE v = w /\ c # b
      <4>1. /\ c \in active'[v] => c \in active[v]
            /\ c \in conn'[v] => c \in conn[v]
            /\ c \in leaked'[v] => c \in leaked[v]
            /\ c \in todo'[v] => c \in todo[v]
            /\ assign'[c] = assign[c]
        BY <3>0, <3>2 DEF Touch, TouchTables
      <4>2. ASSUME NEW t \in Coroutines, task'[v][t].bot = c
            PROVE  task[v][t].bot = c
        BY <1>0, <3>2, <4>2 DEF Touch, TouchTables
      <4>3. ASSUME NEW i \in DOMAIN inbox'[v], inbox'[v][i].bot = c
            PROVE  \E j \in DOMAIN inbox[v] : inbox[v][j].bot = c
        BY <3>2, <4>3 DEF Touch, TouchTables
      <4>4. QED
        BY <2>1, <4>1, <4>2, <4>3 DEF Concerned
    <3>3. QED
      BY <3>1, <3>2
  <2>2. QED
    BY <1>0, <2>1, ConcernsStayBest DEF MembershipInv
<1>5. ActiveIsAssigned'
  <2> SUFFICES ASSUME NEW v \in Workers, NEW c \in active'[v]
               PROVE  assign'[c] = v
    BY DEF ActiveIsAssigned
  <2>1. CASE c = b /\ v = w
    BY <2>1 DEF Touch, TouchTables
  <2>2. CASE c # b
    <3>1. c \in active[v] /\ c \in Bots
      BY <2>2 DEF Touch, TouchTables, TypeOK, WorkerTypeOK
    <3>2. QED
      BY <2>2, <3>1 DEF Touch, TouchTables, MembershipInv, ActiveIsAssigned
  <2>3. CASE c = b /\ v # w
    <3>1. b \in active[v]
      BY <2>3 DEF Touch, TouchTables
    <3>2. v \in Up
      BY <3>1, BusyIsUp DEF Quiet, MembershipInv
    <3>3. Best(v, b)
      BY <3>1, <3>2 DEF MembershipInv, OnlyTheBest, Concerned
    <3>4. QED
      BY <2>3, <3>2, <3>3, BestIsOne
  <2>4. QED
    BY <2>1, <2>2, <2>3
<1>6. QED
  BY <1>1, <1>2, <1>3, <1>4, <1>5 DEF MembershipInv

LEMMA SetTaskTouches ==
    ASSUME BotsTypeOK, NEW w \in Workers, NEW t \in Coroutines, NEW b \in Bots,
           NEW x \in Tasks, x.bot \in {b, None}, SetTask(w, t, x)
    PROVE  /\ \A v \in Workers \ {w} : task'[v] = task[v]
           /\ \A u \in Coroutines : task'[w][u].bot \in {task[w][u].bot, b, None}
BY DEF BotsTypeOK, TablesTypeOK, SetTask

LEMMA BeginStartTouches ==
    ASSUME BotsTypeOK, ActiveIsAssigned, NEW w \in Workers, NEW t \in Coroutines,
           NEW b \in Bots, BeginStart(w, t, b)
    PROVE  TouchTables(w, b)
<1>1. StartTask(w, b) \in Tasks /\ StartTask(w, b).bot \in {b, None}
  BY StartTaskType DEF StartTask, Task, Idle
<1>2. /\ \A v \in Workers \ {w} : task'[v] = task[v]
      /\ \A u \in Coroutines : task'[w][u].bot \in {task[w][u].bot, b, None}
  BY <1>1, SetTaskTouches DEF BeginStart
<1>3. QED
  BY <1>2 DEF BeginStart, botVars, TouchTables, ActiveIsAssigned

\* A coroutine's task names no bot but those it has in hand.
LEMMA AfterStopBot ==
    ASSUME NEW b \in Bots, NEW again \in BOOLEAN, NEW op \in {"start", "unwind", "close", "nap"}
    PROVE  /\ AfterStop(b, again) \in Tasks /\ AfterStop(b, again).bot \in {b, None}
           /\ Task(op, b, again) \in Tasks /\ Task(op, b, again).bot \in {b, None}
           /\ Idle.bot = None /\ Ended.bot = None /\ Query.bot = None
<1>1. AfterStop(b, again).bot \in {b, None}
  BY DEF AfterStop, Idle, Task
<1>2. QED
  BY <1>1, AfterStopType, BusyTaskType DEF Task, Idle, Ended, Query

LEMMA TakeHandlerTouches ==
    ASSUME BotsTypeOK, ActiveIsAssigned, NEW w \in Workers, NEW t \in Coroutines,
           NEW b \in Bots, NEW again \in BOOLEAN, TakeHandler(w, t, b, again)
    PROVE  TouchTables(w, b)
<1>1. /\ \A v \in Workers \ {w} : task'[v] = task[v]
      /\ \A u \in Coroutines : task'[w][u].bot \in {task[w][u].bot, b, None}
  BY AfterStopBot, SetTaskTouches DEF TakeHandler
<1>2. conn' = Remove(conn, w, {b}) /\ UNCHANGED <<active, leaked, assign>>
  BY DEF TakeHandler
<1>3. QED
  BY <1>1, <1>2 DEF Remove, TouchTables, ActiveIsAssigned, BotsTypeOK, TablesTypeOK

LEMMA BeginStopTouches ==
    ASSUME BotsTypeOK, ActiveIsAssigned, NEW w \in Workers, NEW t \in Coroutines,
           NEW b \in Bots, NEW again \in BOOLEAN, BeginStop(w, t, b, again)
    PROVE  TouchTables(w, b)
<1>1. CASE TakeHandler(w, t, b, again)
  BY <1>1, TakeHandlerTouches
<1>2. CASE ~ TakeHandler(w, t, b, again)
  <2>1. /\ \A v \in Workers \ {w} : task'[v] = task[v]
        /\ \A u \in Coroutines : task'[w][u].bot \in {task[w][u].bot, b, None}
    BY <1>2, AfterStopBot, SetTaskTouches DEF BeginStop
  <2>2. CASE UNCHANGED <<active, conn, leaked, assign>>
    BY <2>1, <2>2 DEF TouchTables, ActiveIsAssigned
  <2>3. CASE /\ active' = Remove(active, w, {b})
             /\ conn' = Remove(conn, w, {b})
             /\ leaked' = Add(leaked, w, {b} \cap conn[w])
             /\ UnassignBot(b)
    BY <2>1, <2>3 DEF Add, Remove, TouchTables, UnassignBot, BotsTypeOK, TablesTypeOK
  <2>4. CASE /\ active' = Remove(active, w, {b})
             /\ conn' = Remove(conn, w, {b})
             /\ UNCHANGED <<leaked, assign>>
    BY <2>1, <2>4 DEF Remove, TouchTables, BotsTypeOK, TablesTypeOK
  <2>5. QED
    BY <1>2, <2>2, <2>3, <2>4 DEF BeginStop, botVars
<1>3. QED
  BY <1>1, <1>2

\* What DropEntries and LeaveTables do to the tables.
LEMMA LeaveTouches ==
    ASSUME BotsTypeOK, NEW w \in Workers, NEW b \in Bots, NEW stray \in SUBSET {b},
           DropEntries(w, b, stray) \/ LeaveTables(w, b, stray)
    PROVE  /\ \A v \in Workers \ {w} : /\ active'[v] = active[v]
                                       /\ conn'[v] = conn[v]
                                       /\ leaked'[v] = leaked[v]
           /\ active'[w] \subseteq active[w] \ {b}
           /\ conn'[w] \subseteq conn[w]
           /\ leaked'[w] \subseteq leaked[w] \cup {b}
           /\ \A c \in Bots \ {b} : assign'[c] = assign[c]
           /\ assign'[b] \in {assign[b], None}
<1>1. CASE DropEntries(w, b, stray)
  BY <1>1 DEF DropEntries, BotsTypeOK, TablesTypeOK, Add, Remove
<1>2. CASE /\ active' = Remove(active, w, {b})
           /\ leaked' = Add(leaked, w, stray)
           /\ UnassignBot(b)
           /\ conn' = conn
  BY <1>2 DEF UnassignBot, BotsTypeOK, TablesTypeOK, Add, Remove
<1>3. QED
  BY <1>1, <1>2 DEF LeaveTables

LEMMA ResumeTouches ==
    ASSUME BotsTypeOK, ActiveIsAssigned, NEW w \in Workers, NEW t \in Coroutines,
           Resume(w, t) \/ FailStart(w, t) \/ FailStop(w, t)
    PROVE  /\ task[w][t].op # "idle"
           /\ task[w][t].bot \in Bots
           /\ TouchTables(w, task[w][t].bot)
           /\ UNCHANGED <<phase, ring, hb, todo, inbox>>
<1> DEFINE b == task[w][t].bot
           again == task[w][t].again
<1>1. task[w][t].op \notin {"idle", "ended", "query"}
  BY DEF Resume, FinishStart, Unwind, FinishStop, WakeUp, FailStart, FailStop
<1>2. b \in Bots /\ again \in BOOLEAN
  BY <1>1, TaskBot
<1>3. UNCHANGED <<phase, ring, hb, todo, inbox>>
  BY ResumeType DEF loopVars
<1>4. CASE FinishStart(w, t)
  <2>1. /\ \A v \in Workers \ {w} : task'[v] = task[v]
        /\ \A u \in Coroutines : task'[w][u].bot \in {task[w][u].bot, b, None}
    BY <1>2, <1>4, NoTaskType, AfterStopBot, SetTaskTouches DEF FinishStart
  <2>2. /\ active' = Add(active, w, {b})
        /\ conn' = Add(conn, w, {b})
        /\ leaked' = Add(leaked, w, {b} \cap conn[w])
        /\ assign' = [assign EXCEPT ![b] = w]
    BY <1>4 DEF FinishStart, AssignBot
  <2>3. TouchTables(w, b)
    BY <1>2, <2>1, <2>2 DEF TouchTables, Add, BotsTypeOK, TablesTypeOK
  <2>4. QED
    BY <1>1, <1>2, <1>3, <2>3
<1>5. ASSUME SetTask(w, t, AfterStop(b, again)), NEW stray \in SUBSET {b},
             DropEntries(w, b, stray) \/ LeaveTables(w, b, stray)
      PROVE  TouchTables(w, b)
  <2>1. /\ \A v \in Workers \ {w} : task'[v] = task[v]
        /\ \A u \in Coroutines : task'[w][u].bot \in {task[w][u].bot, b, None}
    BY <1>2, <1>5, AfterStopBot, SetTaskTouches
  <2>2. QED
    BY <1>2, <1>5, <2>1, LeaveTouches DEF TouchTables
<1>6. CASE FinishStop(w, t)
  BY <1>1, <1>2, <1>3, <1>5, <1>6 DEF FinishStop
<1>7. CASE FailStop(w, t)
  BY <1>1, <1>2, <1>3, <1>5, <1>7 DEF FailStop
<1>8. CASE Unwind(w, t)
  <2>1. CASE TakeHandler(w, t, b, again)
    BY <1>1, <1>2, <1>3, <2>1, TakeHandlerTouches
  <2>2. CASE SetTask(w, t, AfterStop(b, again)) /\ DropEntries(w, b, {})
    BY <1>1, <1>2, <1>3, <1>5, <2>2
  <2>3. QED
    BY <1>8, <2>1, <2>2 DEF Unwind
<1>9. CASE WakeUp(w, t)
  BY <1>1, <1>2, <1>3, <1>9, BeginStartTouches DEF WakeUp
<1>10. CASE FailStart(w, t)
  <2>1. /\ \A v \in Workers \ {w} : task'[v] = task[v]
        /\ \A u \in Coroutines : task'[w][u].bot \in {task[w][u].bot, b, None}
    BY <1>2, <1>10, NoTaskType, AfterStopBot, SetTaskTouches DEF FailStart
  <2>2. TouchTables(w, b)
    BY <1>10, <2>1 DEF FailStart, TouchTables, ActiveIsAssigned, botVars, storeVars
  <2>3. QED
    BY <1>1, <1>2, <1>3, <2>2
<1>11. QED
  BY <1>4, <1>6, <1>7, <1>8, <1>9, <1>10 DEF Resume

-------------------------------------------------------------------------------
(* Every step keeps the invariant.                                           *)

LEMMA SameKeepsInv ==
    ASSUME MembershipInv,
           UNCHANGED <<phase, ring, hb, inbox, todo, task, active, conn, leaked, assign>>
    PROVE  MembershipInv'
BY DEF MembershipInv, LiveAreHealthy, RingsHoldTheLive, IdleAreQuiet, OnlyTheBest,
       ActiveIsAssigned, Up, Healthy, Quiet, Best, Concerned

LEMMA ResumeKeepsInv ==
    ASSUME TypeOK, MembershipInv, NEW w \in Workers, NEW t \in Coroutines,
           Resume(w, t) \/ FailStart(w, t) \/ FailStop(w, t)
    PROVE  MembershipInv'
<1> DEFINE b == task[w][t].bot
<1>1. BotsTypeOK /\ ActiveIsAssigned /\ IdleAreQuiet
  BY TypeParts DEF MembershipInv
<1>2. /\ task[w][t].op # "idle"
      /\ b \in Bots
      /\ TouchTables(w, b)
      /\ UNCHANGED <<phase, ring, hb, todo, inbox>>
  BY <1>1, ResumeTouches
<1>3. w \in Up /\ phase[w] # "waiting"
  <2>1. task[w][t] # Idle
    BY <1>2 DEF Idle, Task
  <2>2. QED
    BY <1>1, <2>1, BusyIsUp DEF Quiet
<1>4. Best(w, b)
  BY <1>2, <1>3 DEF MembershipInv, OnlyTheBest, Concerned
<1>5. Touch(w, b)
  BY <1>2 DEF Touch
<1>6. QED
  BY <1>2, <1>3, <1>4, <1>5, TouchKeepsInv

\* A step that takes bot b off what worker w has to look at, and starts or stops it.
LEMMA TodoKeepsInv ==
    ASSUME TypeOK, MembershipInv, NEW w \in Workers, NEW b \in todo[w],
           todo' = Remove(todo, w, {b}), UNCHANGED <<phase, ring, hb, inbox>>,
           \/ BeginStart(w, "sweep", b)
           \/ BeginStop(w, "shutdown", b, FALSE)
           \/ UNCHANGED <<task, botVars, assign>>
           \/ SetTask(w, "sweep", Task("nap", b, FALSE)) /\ UNCHANGED <<botVars, assign>>
    PROVE  MembershipInv'
<1>1. BotsTypeOK /\ OthersTypeOK /\ ActiveIsAssigned /\ IdleAreQuiet
  BY TypeParts DEF MembershipInv
<1>2. b \in Bots
  BY <1>1 DEF OthersTypeOK
<1>3. w \in Up /\ phase[w] # "waiting"
  BY <1>1, BusyIsUp DEF Quiet
<1>4. Best(w, b)
  BY <1>2, <1>3 DEF MembershipInv, OnlyTheBest, Concerned
<1>5. TouchTables(w, b)
  <2>1. CASE BeginStart(w, "sweep", b)
    BY <1>1, <1>2, <2>1, BeginStartTouches DEF Coroutines, Loops
  <2>2. CASE BeginStop(w, "shutdown", b, FALSE)
    BY <1>1, <1>2, <2>2, BeginStopTouches DEF Coroutines
  <2>3. CASE UNCHANGED <<task, botVars, assign>>
    BY <1>1, <2>3 DEF TouchTables, botVars, ActiveIsAssigned
  <2>4. CASE SetTask(w, "sweep", Task("nap", b, FALSE)) /\ UNCHANGED <<botVars, assign>>
    <3>1. /\ \A v \in Workers \ {w} : task'[v] = task[v]
          /\ \A u \in Coroutines : task'[w][u].bot \in {task[w][u].bot, b, None}
      BY <1>1, <1>2, <2>4, AfterStopBot, SetTaskTouches DEF Coroutines, Loops
    <3>2. QED
      BY <1>1, <2>4, <3>1 DEF TouchTables, botVars, ActiveIsAssigned
  <2>5. QED
    BY <2>1, <2>2, <2>3, <2>4
<1>6. Touch(w, b)
  BY <1>1, <1>5 DEF Touch, Remove, OthersTypeOK
<1>7. QED
  BY <1>2, <1>3, <1>4, <1>6, TouchKeepsInv

LEMMA HandleEventKeepsInv ==
    ASSUME TypeOK, MembershipInv, NEW w \in Workers, HandleEvent(w)
    PROVE  MembershipInv'
<1> DEFINE b == events[last[w] + 1].bot
<1>1. BotsTypeOK /\ OthersTypeOK /\ ActiveIsAssigned
  BY TypeParts DEF MembershipInv
<1>2. b \in Bots
  <2>1. last[w] \in Nat /\ last[w] < Len(events) /\ events \in Seq(BotEvents)
    BY <1>1 DEF HandleEvent, OthersTypeOK
  <2>2. events[last[w] + 1] \in BotEvents
    BY <2>1
  <2>3. QED
    BY <2>2 DEF BotEvents
<1>3. w \in Up /\ phase[w] # "waiting"
  BY DEF HandleEvent, Listening, Up
<1>4. UNCHANGED <<phase, ring, hb, inbox, todo>>
  BY DEF HandleEvent
<1>5. CASE Owns(w, ring[w], b)
  <2>1. Best(w, b)
    BY <1>2, <1>3, <1>5, OwnersAreBest
       DEF MembershipInv, RingsHoldTheLive, HandleEvent, Listening
  <2>2. TouchTables(w, b)
    BY <1>1, <1>2, <1>5, BeginStartTouches, BeginStopTouches DEF HandleEvent, Coroutines, Loops
  <2>3. Touch(w, b)
    BY <1>4, <2>2 DEF Touch
  <2>4. QED
    BY <1>2, <1>3, <2>1, <2>3, TouchKeepsInv
<1>6. CASE UNCHANGED <<task, botVars, assign>>
  <2>1. UNCHANGED <<phase, ring, hb, inbox, todo, task, active, conn, leaked, assign>>
    BY <1>4, <1>6 DEF botVars
  <2>2. QED
    BY <2>1, SameKeepsInv
<1>7. QED
  BY <1>5, <1>6 DEF HandleEvent

LEMMA HandleCommandKeepsInv ==
    ASSUME TypeOK, MembershipInv, NEW w \in Workers, HandleCommand(w)
    PROVE  MembershipInv'
<1> DEFINE c == Head(inbox[w])
<1>1. BotsTypeOK /\ OthersTypeOK /\ ActiveIsAssigned
  BY TypeParts DEF MembershipInv
<1>2. /\ inbox[w] \in Seq(Commands)
      /\ inbox[w] # <<>>
      /\ inbox' = [inbox EXCEPT ![w] = Tail(@)]
      /\ UNCHANGED <<phase, ring, hb, todo>>
  BY <1>1 DEF HandleCommand, OthersTypeOK, loopVars
<1>3. c \in Commands /\ c.bot \in Bots /\ 1 \in DOMAIN inbox[w] /\ c = inbox[w][1]
  <2>1. c \in Commands /\ 1 \in DOMAIN inbox[w] /\ c = inbox[w][1]
    BY <1>2
  <2>2. QED
    BY <2>1 DEF Commands
<1>4. w \in Up /\ phase[w] # "waiting"
  BY DEF HandleCommand, Listening, Up
<1>5. Best(w, c.bot)
  BY <1>3, <1>4 DEF MembershipInv, OnlyTheBest, Concerned
<1>6. TouchTables(w, c.bot)
  <2>1. PICK again \in BOOLEAN : BeginStop(w, "commands", c.bot, again)
    BY DEF HandleCommand
  <2>2. QED
    BY <1>1, <1>3, <2>1, BeginStopTouches DEF Coroutines, Loops
<1>7. /\ \A v \in Workers \ {w} : inbox'[v] = inbox[v]
      /\ inbox'[w] = Tail(inbox[w])
  BY <1>1, <1>2 DEF OthersTypeOK
<1>8. \A i \in DOMAIN inbox'[w] : \E j \in DOMAIN inbox[w] : inbox'[w][i] = inbox[w][j]
  <2>1. Tail(inbox[w]) \in Seq(Commands) /\ Len(Tail(inbox[w])) = Len(inbox[w]) - 1
    BY <1>2
  <2>2. ASSUME NEW i \in DOMAIN Tail(inbox[w])
        PROVE  /\ i + 1 \in DOMAIN inbox[w]
               /\ Tail(inbox[w])[i] = inbox[w][i + 1]
    <3>1. i \in 1 .. Len(inbox[w]) - 1
      BY <2>1
    <3>2. i + 1 \in 1 .. Len(inbox[w])
      BY <1>2, <3>1
    <3>3. QED
      BY <1>2, <3>1, <3>2
  <2>3. QED
    BY <1>7, <2>2
<1>9. Touch(w, c.bot)
  BY <1>2, <1>6, <1>7, <1>8 DEF Touch
<1>10. QED
  BY <1>3, <1>4, <1>5, <1>9, TouchKeepsInv

\* A connection that ends by itself.
LEMMA EndsKeepInv ==
    ASSUME TypeOK, MembershipInv, NEW w \in Workers, NEW b \in Bots,
           PollerEnds(w, b) \/ ThreadEnds(w, b) \/ ConnectionEnds(w, b)
    PROVE  MembershipInv'
<1>1. BotsTypeOK /\ OthersTypeOK /\ ActiveIsAssigned /\ IdleAreQuiet
  BY TypeParts DEF MembershipInv
<1>2. b \in leaked[w] \cup conn[w]
  BY DEF PollerEnds, ThreadEnds, ConnectionEnds
<1>3. w \in Up /\ phase[w] # "waiting"
  BY <1>1, <1>2, BusyIsUp DEF Quiet
<1>4. Best(w, b)
  BY <1>2, <1>3 DEF MembershipInv, OnlyTheBest, Concerned
<1>5. UNCHANGED <<phase, ring, hb, todo, inbox, task, assign>>
  BY DEF PollerEnds, ThreadEnds, ConnectionEnds, loopVars, storeVars
<1>6. /\ active' = active \/ active' = Remove(active, w, {b})
      /\ conn' = conn \/ conn' = Remove(conn, w, {b})
      /\ leaked' = leaked \/ leaked' = Remove(leaked, w, {b})
  BY DEF PollerEnds, ThreadEnds, ConnectionEnds
<1>7. TouchTables(w, b)
  BY <1>1, <1>5, <1>6 DEF TouchTables, Remove, BotsTypeOK, TablesTypeOK, ActiveIsAssigned
<1>8. Touch(w, b)
  BY <1>5, <1>7 DEF Touch
<1>9. QED
  BY <1>3, <1>4, <1>8, TouchKeepsInv

\* The sweep's two rebuildings of the ring: the ring holds every healthy worker, so
\* every live one.
LEMMA RebuildKeepsInv ==
    ASSUME TypeOK, MembershipInv, NEW w \in Workers, BuildRing(w) \/ Scan(w)
    PROVE  MembershipInv'
<1> DEFINE r == Healthy \cup {w}
<1>1. BotsTypeOK /\ OthersTypeOK
  BY TypeParts
<1>2. /\ ring' = [ring EXCEPT ![w] = r]
      /\ SetTask(w, "sweep", Query)
      /\ UNCHANGED <<todo, active, conn, leaked, assign, inbox>>
  BY DEF BuildRing, Scan, botVars, storeVars
<1>3. /\ w \in Up
      /\ Up' = Up
      /\ \A v \in Workers : v # w => phase'[v] = phase[v]
      /\ phase'[w] \notin {"down", "waiting"}
  BY <1>1 DEF BuildRing, Scan, Listening, Up, OthersTypeOK
<1>4. Up \subseteq r
  BY DEF MembershipInv, LiveAreHealthy
<1>5. /\ \A v \in Workers \ {w} : task'[v] = task[v]
      /\ \A t \in Coroutines : task'[w][t].bot \in {task[w][t].bot, None}
  BY <1>1, <1>2, NoTaskType DEF SetTask, BotsTypeOK, Query, Task
<1>6. LiveAreHealthy'
  BY <1>1, <1>3 DEF MembershipInv, LiveAreHealthy, BuildRing, Scan, UnregisterWorkers, Dead,
                    Healthy, storeVars, OthersTypeOK
<1>7. RingsHoldTheLive'
  BY <1>1, <1>2, <1>3, <1>4 DEF MembershipInv, RingsHoldTheLive, OthersTypeOK, Up
<1>8. IdleAreQuiet'
  <2> SUFFICES ASSUME NEW v \in Workers, phase'[v] \in {"down", "waiting"}
               PROVE  Quiet(v)'
    BY DEF IdleAreQuiet
  <2>1. v # w /\ Quiet(v)
    BY <1>3 DEF MembershipInv, IdleAreQuiet
  <2>2. QED
    BY <1>2, <1>5, <2>1 DEF Quiet
<1>9. OnlyTheBest'
  <2>1. ASSUME NEW v \in Up, NEW b \in Bots, Concerned(v, b)'
        PROVE  Concerned(v, b)
    <3>1. ASSUME NEW t \in Coroutines, task'[v][t].bot = b
          PROVE  task[v][t].bot = b
      BY <1>5, <3>1, NoneAssumption DEF Up
    <3>2. QED
      BY <1>2, <2>1, <3>1 DEF Concerned
  <2>2. QED
    BY <1>3, <2>1, ConcernsStayBest DEF MembershipInv
<1>10. ActiveIsAssigned'
  BY <1>2 DEF MembershipInv, ActiveIsAssigned
<1>11. QED
  BY <1>6, <1>7, <1>8, <1>9, <1>10 DEF MembershipInv

\* What its ring gives a worker, though built before the bots are read, the worker
\* is best for.
LEMMA ListBotsKeepsInv ==
    ASSUME TypeOK, MembershipInv, NEW w \in Workers, ListBots(w)
    PROVE  MembershipInv'
<1>1. BotsTypeOK /\ OthersTypeOK /\ IdleAreQuiet
  BY TypeParts DEF MembershipInv
<1>2. /\ todo' = [todo EXCEPT ![w] = OwnedBots(w, ring[w])]
      /\ SetTask(w, "sweep", Idle)
      /\ UNCHANGED <<phase, ring, hb, active, conn, leaked, assign, inbox>>
  BY DEF ListBots, botVars, storeVars
<1>3. w \in Up /\ phase[w] # "waiting" /\ Up' = Up
  <2>1. ~ Quiet(w)
    BY DEF ListBots, Quiet, Query, Idle, Task, Coroutines, Loops
  <2>2. QED
    BY <1>1, <1>2, <2>1, BusyIsUp DEF Up
<1>4. Up \subseteq ring[w]
  BY <1>3 DEF MembershipInv, RingsHoldTheLive, ListBots
<1>5. /\ \A v \in Workers \ {w} : task'[v] = task[v]
      /\ \A t \in Coroutines : task'[w][t].bot \in {task[w][t].bot, None}
  BY <1>1, <1>2, NoTaskType DEF SetTask, BotsTypeOK, Idle, Task
<1>6. LiveAreHealthy' /\ RingsHoldTheLive' /\ ActiveIsAssigned'
  BY <1>2, <1>3 DEF MembershipInv, LiveAreHealthy, RingsHoldTheLive, ActiveIsAssigned, Healthy, Up
<1>7. IdleAreQuiet'
  <2> SUFFICES ASSUME NEW v \in Workers, phase'[v] \in {"down", "waiting"}
               PROVE  Quiet(v)'
    BY DEF IdleAreQuiet
  <2>1. v # w /\ Quiet(v)
    BY <1>1, <1>2, <1>3 DEF IdleAreQuiet, Up
  <2>2. todo'[v] = todo[v]
    BY <1>1, <1>2, <2>1 DEF OthersTypeOK
  <2>3. QED
    BY <1>2, <1>5, <2>1, <2>2 DEF Quiet
<1>8. OnlyTheBest'
  <2>1. ASSUME NEW v \in Up, NEW b \in Bots, Concerned(v, b)'
        PROVE  Concerned(v, b) \/ Best(v, b)
    <3>1. CASE v = w /\ b \in OwnedBots(w, ring[w])
      BY <1>4, <3>1, OwnersAreBest DEF OwnedBots, Up
    <3>2. CASE ~ (v = w /\ b \in OwnedBots(w, ring[w]))
      <4>1. b \in todo'[v] => b \in todo[v]
        BY <1>1, <1>2, <3>2 DEF OthersTypeOK, Up
      <4>2. ASSUME NEW t \in Coroutines, task'[v][t].bot = b
            PROVE  task[v][t].bot = b
        BY <1>5, <4>2, NoneAssumption DEF Up
      <4>3. QED
        BY <1>2, <2>1, <4>1, <4>2 DEF Concerned
    <3>3. QED
      BY <3>1, <3>2
  <2>2. QED
    BY <1>3, <2>1, ConcernsStayBest DEF MembershipInv
<1>9. QED
  BY <1>6, <1>7, <1>8 DEF MembershipInv

\* A step in the life of worker w that brings it no bot it has nothing of.
MoveOn(w) ==
    /\ phase[w] # "down"
    /\ phase'[w] \in {"running", "draining", "stopping"}
    /\ phase'[w] = "stopping" \/ phase[w] \notin {"waiting", "stopping"}
    /\ \A v \in Workers \ {w} : /\ phase'[v] = phase[v]
                                /\ leaked'[v] = leaked[v]
                                /\ task'[v] = task[v]
                                /\ todo'[v] = todo[v]
                                /\ inbox'[v] = inbox[v]
    /\ leaked'[w] \subseteq leaked[w] \cup {task[w][t].bot : t \in Coroutines}
    /\ \A t \in Coroutines : task'[w][t].bot \in {task[w][t].bot, None}
    /\ todo'[w] \subseteq todo[w] \cup active[w]
    /\ inbox'[w] \in {inbox[w], <<>>}
    /\ UNCHANGED <<ring, hb, active, conn, assign>>

LEMMA MoveOnKeepsInv ==
    ASSUME TypeOK, MembershipInv, NEW w \in Workers, MoveOn(w)
    PROVE  MembershipInv'
<1>1. w \in Up /\ Up' = Up
  BY DEF MoveOn, Up
<1>2. LiveAreHealthy' /\ RingsHoldTheLive' /\ ActiveIsAssigned'
  BY <1>1 DEF MembershipInv, LiveAreHealthy, RingsHoldTheLive, ActiveIsAssigned, Healthy, MoveOn, Up
<1>3. IdleAreQuiet'
  <2> SUFFICES ASSUME NEW v \in Workers, phase'[v] \in {"down", "waiting"}
               PROVE  Quiet(v)'
    BY DEF IdleAreQuiet
  <2>1. v # w /\ Quiet(v)
    BY DEF MoveOn, MembershipInv, IdleAreQuiet
  <2>2. QED
    BY <2>1 DEF Quiet, MoveOn
<1>4. OnlyTheBest'
  <2>1. ASSUME NEW v \in Up, NEW b \in Bots, Concerned(v, b)'
        PROVE  Concerned(v, b)
    <3>1. CASE v # w
      BY <2>1, <3>1 DEF Concerned, MoveOn, Up
    <3>2. CASE v = w
      <4>1. ASSUME NEW t \in Coroutines, task'[w][t].bot = b
            PROVE  task[w][t].bot = b
        BY <4>1, NoneAssumption DEF MoveOn
      <4>2. /\ b \in leaked'[w] => b \in leaked[w] \/ \E t \in Coroutines : task[w][t].bot = b
            /\ b \in todo'[w] => b \in todo[w] \cup active[w]
            /\ inbox'[w] = inbox[w] \/ DOMAIN inbox'[w] = {}
        BY DEF MoveOn
      <4>3. QED
        BY <2>1, <3>2, <4>1, <4>2 DEF Concerned, MoveOn
    <3>3. QED
      BY <3>1, <3>2
  <2>2. QED
    BY <1>1, <2>1, ConcernsStayBest DEF MembershipInv
<1>5. QED
  BY <1>2, <1>3, <1>4 DEF MembershipInv

LEMMA StagesMoveOn ==
    ASSUME TypeOK, NEW w \in Workers,
           \/ BecomeReady(w)
           \/ Terminate(w)
           \/ TerminateEarly(w)
           \/ \E t \in Loops : Cancel(w, t)
           \/ StopAll(w)
           \/ FailSweep(w)
    PROVE  MoveOn(w)
<1>1. BotsTypeOK /\ OthersTypeOK
  BY TypeParts
<1>2. CASE BecomeReady(w)
  BY <1>1, <1>2 DEF BecomeReady, MoveOn, OthersTypeOK, botVars, storeVars
<1>3. CASE Terminate(w)
  BY <1>1, <1>3 DEF Terminate, MoveOn, OthersTypeOK, loopVars, botVars, storeVars
<1>4. CASE TerminateEarly(w)
  BY <1>1, <1>4 DEF TerminateEarly, MoveOn, OthersTypeOK, botVars, storeVars
<1>5. ASSUME NEW t \in Loops, Cancel(w, t)
      PROVE  MoveOn(w)
  <2>1. t \in Coroutines
    BY DEF Coroutines
  <2>2. /\ \A v \in Workers \ {w} : task'[v] = task[v]
        /\ \A u \in Coroutines : task'[w][u].bot \in {task[w][u].bot, None}
    BY <1>1, <1>5, <2>1, NoTaskType DEF Cancel, SetTask, BotsTypeOK, Ended, Task
  <2>3. /\ \A v \in Workers \ {w} : leaked'[v] = leaked[v]
        /\ leaked'[w] \subseteq leaked[w] \cup {task[w][u].bot : u \in Coroutines}
    <3>1. CASE leaked' = leaked
      BY <3>1
    <3>2. CASE leaked' = Add(leaked, w, {task[w][t].bot})
      BY <1>1, <2>1, <3>2 DEF Add, BotsTypeOK, TablesTypeOK
    <3>3. QED
      BY <1>5, <3>1, <3>2 DEF Cancel
  <2>4. phase[w] = "draining" /\ UNCHANGED <<phase, ring, hb, todo, active, conn, assign>>
    BY <1>5 DEF Cancel, loopVars
  <2>5. /\ \A v \in Workers \ {w} : inbox'[v] = inbox[v]
        /\ inbox'[w] \in {inbox[w], <<>>}
    BY <1>1, <1>5 DEF Cancel, OthersTypeOK
  <2>6. QED
    BY <2>2, <2>3, <2>4, <2>5 DEF MoveOn
<1>6. CASE StopAll(w)
  BY <1>1, <1>6 DEF StopAll, MoveOn, OthersTypeOK, botVars, storeVars
<1>7. CASE FailSweep(w)
  <2>1. /\ \A v \in Workers \ {w} : task'[v] = task[v]
        /\ \A u \in Coroutines : task'[w][u].bot \in {task[w][u].bot, None}
    BY <1>1, <1>7, NoTaskType DEF FailSweep, SetTask, BotsTypeOK, Idle, Task
  <2>2. QED
    BY <1>1, <1>7, <2>1 DEF FailSweep, Listening, MoveOn, OthersTypeOK, botVars, storeVars
<1>8. QED
  BY <1>2, <1>3, <1>4, <1>5, <1>6, <1>7

\* A process that ends: those that are left are the best they were.
LEMMA ExitKeepsInv ==
    ASSUME TypeOK, MembershipInv, NEW w \in Workers, Exit(w),
           \A v \in Workers \ {w} : hb'[v] = hb[v]
    PROVE  MembershipInv'
<1>1. BotsTypeOK /\ OthersTypeOK
  BY TypeParts
<1>2. /\ Up' = Up \ {w}
      /\ \A v \in Workers \ {w} : phase'[v] = phase[v] /\ ring'[v] = ring[v]
      /\ phase'[w] = "down"
  BY <1>1 DEF Exit, Up, OthersTypeOK
<1>3. \A v \in Workers \ {w} : /\ active'[v] = active[v]
                               /\ conn'[v] = conn[v]
                               /\ leaked'[v] = leaked[v]
                               /\ task'[v] = task[v]
                               /\ todo'[v] = todo[v]
                               /\ inbox'[v] = inbox[v]
  BY <1>1 DEF Exit, BotsTypeOK, TablesTypeOK, OthersTypeOK
<1>4. Quiet(w)' /\ assign' = assign
  BY <1>1 DEF Exit, Quiet, BotsTypeOK, TablesTypeOK, OthersTypeOK
<1>5. LiveAreHealthy'
  BY <1>2 DEF MembershipInv, LiveAreHealthy, Healthy, Up
<1>6. RingsHoldTheLive'
  BY <1>2 DEF MembershipInv, RingsHoldTheLive, Up
<1>7. IdleAreQuiet'
  BY <1>2, <1>3, <1>4 DEF MembershipInv, IdleAreQuiet, Quiet
<1>8. OnlyTheBest'
  <2>1. ASSUME NEW v \in Up', NEW b \in Bots, Concerned(v, b)'
        PROVE  Concerned(v, b)
    <3>1. v \in Workers \ {w}
      BY <1>2 DEF Up
    <3>2. QED
      BY <1>3, <1>4, <2>1, <3>1 DEF Concerned
  <2>2. QED
    BY <1>2, <2>1, ConcernsStayBest DEF MembershipInv
<1>9. ActiveIsAssigned'
  <2>1. active'[w] = {}
    BY <1>4 DEF Quiet
  <2>2. QED
    BY <1>3, <1>4, <2>1 DEF MembershipInv, ActiveIsAssigned
<1>10. QED
  BY <1>5, <1>6, <1>7, <1>8, <1>9 DEF MembershipInv

\* The score of a worker that is gone grows old.
LEMMA LapseKeepsInv ==
    ASSUME TypeOK, MembershipInv, NEW w \in Workers, HeartbeatLapses(w)
    PROVE  MembershipInv'
<1>1. OthersTypeOK
  BY TypeParts
<1>2. w \notin Up /\ UNCHANGED <<phase, ring, inbox, todo, task, active, conn, leaked, assign>>
  BY DEF HeartbeatLapses, ExpireHeartbeat, Up, workerVars, loopVars, botVars
<1>3. LiveAreHealthy'
  BY <1>1, <1>2 DEF MembershipInv, LiveAreHealthy, Healthy, Up, HeartbeatLapses, ExpireHeartbeat,
                    OthersTypeOK
<1>4. RingsHoldTheLive' /\ IdleAreQuiet' /\ ActiveIsAssigned'
  BY <1>2 DEF MembershipInv, RingsHoldTheLive, IdleAreQuiet, ActiveIsAssigned, Quiet, Up
<1>5. OnlyTheBest'
  BY <1>2 DEF MembershipInv, OnlyTheBest, Concerned, Best, Up
<1>6. QED
  BY <1>3, <1>4, <1>5 DEF MembershipInv

\* A command goes to the worker the bot is registered under, whom it concerns already.
LEMMA PublishKeepsInv ==
    ASSUME TypeOK, MembershipInv, NEW r \in pending, Publish(r)
    PROVE  MembershipInv'
<1>1. BotsTypeOK /\ OthersTypeOK
  BY TypeParts
<1>2. r.bot \in Bots
  BY <1>1 DEF OthersTypeOK, Requests
<1>3. UNCHANGED <<phase, ring, hb, todo, task, active, conn, leaked, assign>>
  BY DEF Publish, workerVars, loopVars, botVars
<1>4. CASE UNCHANGED inbox
  BY <1>3, <1>4, SameKeepsInv
<1>5. ASSUME NEW action \in Actions,
             SendCommand(assign[r.bot], action, r.bot, Subscribed(assign[r.bot])),
             assign[r.bot] # None
      PROVE  MembershipInv'
  <2> DEFINE w == assign[r.bot]
             c == [action |-> action, bot |-> r.bot]
  <2>1. w \in Workers
    BY <1>1, <1>2, <1>5 DEF BotsTypeOK, TablesTypeOK
  <2>2. CASE ~ Subscribed(w)
    BY <1>4, <1>5, <2>2 DEF SendCommand
  <2>3. CASE Subscribed(w)
    <3>1. inbox' = [inbox EXCEPT ![w] = Append(@, c)]
      BY <1>5, <2>3 DEF SendCommand
    <3>2. /\ inbox[w] \in Seq(Commands)
          /\ c \in Commands
          /\ \A v \in Workers \ {w} : inbox'[v] = inbox[v]
          /\ inbox'[w] = Append(inbox[w], c)
      BY <1>1, <1>2, <2>1, <3>1 DEF OthersTypeOK, Commands
    <3>3. ASSUME NEW i \in DOMAIN inbox'[w]
          PROVE  \/ inbox'[w][i].bot = r.bot
                 \/ i \in DOMAIN inbox[w] /\ inbox'[w][i] = inbox[w][i]
      <4>1. CASE i = Len(inbox[w]) + 1
        BY <3>2, <4>1
      <4>2. CASE i # Len(inbox[w]) + 1
        <5>1. i \in 1 .. Len(inbox[w])
          BY <3>2, <4>2
        <5>2. QED
          BY <3>2, <5>1
      <4>3. QED
        BY <4>1, <4>2
    <3>4. OnlyTheBest'
      <4>1. ASSUME NEW v \in Up, NEW b \in Bots, Concerned(v, b)'
            PROVE  Concerned(v, b)
        <5>1. CASE v = w /\ b = r.bot
          BY <5>1 DEF Concerned
        <5>2. CASE ~ (v = w /\ b = r.bot)
          <6>1. (\E i \in DOMAIN inbox'[v] : inbox'[v][i].bot = b)
                  => \E i \in DOMAIN inbox[v] : inbox[v][i].bot = b
            BY <3>2, <3>3, <5>2 DEF Up
          <6>2. QED
            BY <1>3, <4>1, <6>1 DEF Concerned
        <5>3. QED
          BY <5>1, <5>2
      <4>2. Up' = Up
        BY <1>3 DEF Up
      <4>3. QED
        BY <4>1, <4>2, ConcernsStayBest DEF MembershipInv
    <3>5. IdleAreQuiet'
      BY <1>3, <2>3, <3>2 DEF MembershipInv, IdleAreQuiet, Quiet, Subscribed, Listening
    <3>6. LiveAreHealthy' /\ RingsHoldTheLive' /\ ActiveIsAssigned'
      BY <1>3 DEF MembershipInv, LiveAreHealthy, RingsHoldTheLive, ActiveIsAssigned, Healthy, Up
    <3>7. QED
      BY <3>4, <3>5, <3>6 DEF MembershipInv
  <2>4. QED
    BY <2>2, <2>3
<1>6. QED
  BY <1>4, <1>5 DEF Publish, Activate, Direct, Actions

-------------------------------------------------------------------------------
(* The theorems.                                                             *)

LEMMA InitInv == Init => MembershipInv
<1> SUFFICES ASSUME Init
             PROVE  MembershipInv
  OBVIOUS
<1>1. Up = Initial /\ Healthy = Initial
  BY PoolAssumption DEF Init, Up, Healthy
<1>2. \A w \in Workers : Quiet(w) /\ phase[w] \in {"down", "waiting"}
  BY DEF Init, Quiet
<1>3. LiveAreHealthy /\ RingsHoldTheLive /\ IdleAreQuiet /\ ActiveIsAssigned
  BY <1>1, <1>2 DEF LiveAreHealthy, RingsHoldTheLive, IdleAreQuiet, ActiveIsAssigned, Quiet, Up
<1>4. OnlyTheBest
  <2>1. ASSUME NEW w \in Up, NEW b \in Bots
        PROVE  ~ Concerned(w, b)
    <3>1. w \in Workers /\ Quiet(w) /\ assign[b] = None /\ None # w /\ None # b
      BY <1>2, NoneAssumption DEF Up, Init
    <3>2. \A t \in Coroutines : task[w][t].bot = None
      BY <3>1 DEF Quiet, Idle, Task
    <3>3. DOMAIN inbox[w] = {}
      BY <3>1 DEF Quiet
    <3>4. QED
      BY <3>1, <3>2, <3>3 DEF Concerned, Quiet
  <2>2. QED
    BY <2>1 DEF OnlyTheBest
<1>5. QED
  BY <1>3, <1>4 DEF MembershipInv

LEMMA StepInv ==
    ASSUME StableMembership, TypeOK, MembershipInv, [Next]_vars
    PROVE  MembershipInv'
<1>1. ASSUME NEW w \in Workers, Sweep(w) \/ Shutdown(w)
      PROVE  MembershipInv'
  <2>1. CASE ClaimAssigned(w)
    <3>1. PICK b \in todo[w] : /\ todo' = Remove(todo, w, {b})
                               /\ SetTask(w, "sweep", Task("nap", b, FALSE))
      BY <2>1 DEF ClaimAssigned
    <3>2. UNCHANGED <<phase, ring, hb, inbox, botVars, assign>>
      BY <2>1 DEF ClaimAssigned, storeVars
    <3>3. QED
      BY <3>1, <3>2, TodoKeepsInv
  <2>2. CASE ClaimOrphan(w)
    BY <2>2, TodoKeepsInv DEF ClaimOrphan
  <2>3. CASE StopNext(w)
    BY <2>3, TodoKeepsInv DEF StopNext
  <2>4. CASE Unregister(w)
    <3>1. \A v \in Workers \ {w} : hb'[v] = hb[v]
      BY <2>4 DEF Unregister, UnregisterWorkers
    <3>2. QED
      BY <2>4, <3>1, ExitKeepsInv DEF Unregister
  <2>5. QED
    BY <1>1, <2>1, <2>2, <2>3, <2>4, RebuildKeepsInv, ListBotsKeepsInv, StagesMoveOn,
       MoveOnKeepsInv, ResumeKeepsInv DEF Sweep, Shutdown, Coroutines, Loops
<1>2. ASSUME NEW w \in Workers, EventLoop(w) \/ CommandLoop(w)
      PROVE  MembershipInv'
  BY <1>2, HandleEventKeepsInv, HandleCommandKeepsInv, ResumeKeepsInv
     DEF EventLoop, CommandLoop, Coroutines, Loops
<1>3. ASSUME NEW w \in Workers
      PROVE  ~ SendHeartbeat(w)
  BY DEF SendHeartbeat, MembershipInv, LiveAreHealthy, Up, Healthy
<1>4. ASSUME NEW w \in Workers, Happen(w)
      PROVE  MembershipInv'
  <2>1. CASE ExitEarly(w)
    BY <2>1, ExitKeepsInv DEF ExitEarly
  <2>2. QED
    BY <1>4, <2>1, StagesMoveOn, MoveOnKeepsInv, LapseKeepsInv, EndsKeepInv DEF Happen
<1>5. ASSUME NEW w \in Workers, Fail(w)
      PROVE  MembershipInv'
  <2>1. CASE Crash(w)
    BY <2>1, ExitKeepsInv DEF Crash
  <2>2. QED
    BY <1>5, <2>1, EndsKeepInv, ResumeKeepsInv, StagesMoveOn, MoveOnKeepsInv
       DEF Fail, Fault, StableMembership
<1>6. ASSUME NEW type \in EventTypes, NEW b \in Bots, Request(type, b)
      PROVE  MembershipInv'
  BY <1>6, SameKeepsInv DEF Request, workerVars, loopVars, botVars
<1>7. ASSUME NEW r \in pending, LoseRequest(r)
      PROVE  MembershipInv'
  BY <1>7, SameKeepsInv DEF LoseRequest, storeVars, workerVars, loopVars, botVars
<1>8. CASE UNCHANGED vars
  BY <1>8, SameKeepsInv DEF vars, storeVars, workerVars, loopVars, botVars
<1>9. QED
  BY <1>1, <1>2, <1>3, <1>4, <1>5, <1>6, <1>7, <1>8, PublishKeepsInv DEF Next, Work

LEMMA InvExcludesDoubleRun ==
    ASSUME TypeOK, MembershipInv
    PROVE  NoDoubleRun
<1> SUFFICES ASSUME NEW b \in Bots, NEW v \in Workers, NEW w \in Workers,
                    Connected(v, b), Connected(w, b)
             PROVE  v = w
  BY DEF NoDoubleRun
<1>1. ASSUME NEW u \in Workers, Connected(u, b)
      PROVE  u \in Up /\ Best(u, b)
  <2>1. Concerned(u, b)
    BY <1>1 DEF Connected, Concerned
  <2>2. ~ Quiet(u)
    BY <1>1 DEF Connected, Quiet, Idle, Task
  <2>3. u \in Up
    BY <2>2, BusyIsUp DEF MembershipInv
  <2>4. QED
    BY <2>1, <2>3 DEF MembershipInv, OnlyTheBest
<1>2. QED
  BY <1>1, BestIsOne

\* The inductive invariant holds in every behaviour.
THEOREM MembershipInvariant ==
    ASSUME StableMembership
    PROVE  Spec => []MembershipInv
<1>1. Init => MembershipInv
  BY InitInv
<1>2. TypeOK /\ MembershipInv /\ [Next]_vars => MembershipInv'
  BY StepInv
<1>3. Spec => []TypeOK
  BY TypeCorrect
<1>4. QED
  BY <1>1, <1>2, <1>3, PTL DEF Spec

\* With a stable membership, no bot ever has connections on two workers, whatever
\* crashes, exceptions, disconnections, shutdowns and lost requests there are, and
\* however the workers' coroutines interleave.
THEOREM AtMostOneWorker ==
    ASSUME StableMembership
    PROVE  Spec => []NoDoubleRun
<1>1. TypeOK /\ MembershipInv => NoDoubleRun
  BY InvExcludesDoubleRun
<1>2. QED
  BY <1>1, TypeCorrect, MembershipInvariant, PTL

\* And a bot that runs is registered under the worker that runs it, so that the
\* API's commands find it.
THEOREM RunningBotsAreAddressable ==
    ASSUME StableMembership
    PROVE  Spec => []ActiveIsAssigned
<1>1. MembershipInv => ActiveIsAssigned
  BY DEF MembershipInv
<1>2. QED
  BY <1>1, MembershipInvariant, PTL
===============================================================================

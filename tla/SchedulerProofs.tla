---------------------------- MODULE SchedulerProofs ---------------------------
(***************************************************************************)
(* Proofs about Scheduler: its types, and that checks queue a task once    *)
(* for each time it falls due.                                             *)
(***************************************************************************)
EXTENDS Scheduler, TLAPS

LEMMA Numbers ==
    /\ Oldest \in Nat /\ MaxTick \in Nat /\ Period \in Nat /\ BatchSize \in Nat
    /\ MaxTick <= Oldest /\ Oldest = Period + MaxTick /\ MaxTick <= Period /\ Period > 0
    /\ 0 \in 0..MaxTick /\ 0 \in 0..Oldest /\ None \notin Nat
BY SchedulerAssumption DEF Oldest

LEMMA Types ==
    ASSUME TypeOK
    PROVE  /\ stored \subseteq Tasks /\ active \subseteq Tasks /\ cron \subseteq Tasks
           /\ last \in [Tasks -> 0..Oldest] /\ phase \in 0..Period - 1
           /\ at \in [Ticks -> {"idle", "reading", "queueing", "finishing"}]
           /\ ago \in [Ticks -> 0..MaxTick] /\ offset \in [Ticks -> Nat]
           /\ due \in [Ticks -> SUBSET Tasks]
           /\ wrote \in [Ticks -> [Tasks -> 0..MaxTick \cup {None}]]
           /\ queue \in [Tasks -> Nat] /\ running \in [Workers -> Tasks \cup {None}]
           /\ since \in [Tasks -> 0..Oldest] /\ cause \subseteq Tasks
           /\ NoWrites \in [Tasks -> 0..MaxTick \cup {None}]
BY DEF TypeOK, NoWrites

LEMMA FaultCounts ==
    ASSUME TypeOK, Fault
    PROVE  faults' \in 0..MaxFaults
BY SchedulerAssumption DEF TypeOK, Fault

LEMMA EditCounts ==
    ASSUME TypeOK, Edit
    PROVE  edits' \in 0..MaxEdits
BY SchedulerAssumption DEF TypeOK, Edit

\* The parts of the invariant that speak of a task of which checks know.
TaskInv == \A t \in Tasks \ cause : OneHand(t) /\ Recorded(t) /\ DueIsDue(t)

LEMMA Parts ==
    ASSUME SchedulerInv
    PROVE  TypeOK /\ PagesAreClosed /\ TaskInv
BY DEF SchedulerInv, TaskInv

LEMMA Whole ==
    ASSUME TypeOK', PagesAreClosed', TaskInv'
    PROVE  SchedulerInv'
BY DEF SchedulerInv, TaskInv

-------------------------------------------------------------------------------
(* Steps that leave the checks alone.                                        *)

\* Rows, the queue and executions change, and last_run_at becomes now, if anything.
LEMMA ElsewhereKeepsInv ==
    ASSUME SchedulerInv, TypeOK',
           UNCHANGED <<cron, phase, at, ago, due, wrote, since>>,
           cause \subseteq cause',
           \A t \in Tasks : last'[t] = last[t] \/ last'[t] = 0
    PROVE  SchedulerInv'
<1>1. PagesAreClosed'
  BY Parts DEF PagesAreClosed, Wrote
<1>2. SUFFICES ASSUME NEW t \in Tasks \ cause'
               PROVE  OneHand(t)' /\ Recorded(t)' /\ DueIsDue(t)'
  BY <1>1, Whole DEF TaskInv
<1>3. OneHand(t) /\ Recorded(t) /\ DueIsDue(t)
  BY Parts DEF TaskInv
<1>4. OneHand(t)'
  BY <1>3 DEF OneHand, InHand, Wrote
<1>5. Recorded(t)'
  <2>1. last[t] <= since[t] => last'[t] <= since[t]
    BY Parts, Types, Numbers
  <2>2. QED
    BY <1>3, <2>1 DEF Recorded, Wrote
<1>6. DueIsDue(t)'
  BY <1>3 DEF DueIsDue, MayQueue, CronTime
<1>7. QED
  BY <1>4, <1>5, <1>6

LEMMA WorkerKeepsInv ==
    ASSUME SchedulerInv, NEW w \in Workers, WorkerNext(w)
    PROVE  SchedulerInv'
<1> USE Parts, Types, Numbers
<1>1. ASSUME NEW t \in Tasks, Take(w, t)
      PROVE  SchedulerInv'
  <2>1. queue' \in [Tasks -> Nat] /\ running' \in [Workers -> Tasks \cup {None}]
    BY <1>1 DEF Take
  <2>2. TypeOK'
    BY <1>1, <2>1 DEF Take, TypeOK, rowVars, tickVars, histVars
  <2>3. QED
    BY <1>1, <2>2, ElsewhereKeepsInv DEF Take, rowVars, tickVars, histVars
<1>2. CASE Finish(w)
  <2>1. last' \in [Tasks -> 0..Oldest] /\ \A t \in Tasks : last'[t] = last[t] \/ last'[t] = 0
    BY <1>2 DEF Finish
  <2>2. TypeOK'
    BY <1>2, <2>1 DEF Finish, TypeOK, tickVars, histVars
  <2>3. QED
    BY <1>2, <2>1, <2>2, ElsewhereKeepsInv DEF Finish, tickVars, histVars
<1>3. CASE FinishForGood(w)
  <2>1. last' \in [Tasks -> 0..Oldest] /\ \A t \in Tasks : last'[t] = last[t] \/ last'[t] = 0
    BY <1>3 DEF FinishForGood
  <2>2. TypeOK'
    BY <1>3, <2>1 DEF FinishForGood, TypeOK, histVars
  <2>3. QED
    BY <1>3, <2>1, <2>2, ElsewhereKeepsInv DEF FinishForGood, histVars
<1>4. CASE WorkerDies(w)
  <2>1. queue' \in [Tasks -> Nat] /\ faults' \in 0..MaxFaults
    BY <1>4, FaultCounts DEF WorkerDies
  <2>2. TypeOK'
    BY <1>4, <2>1 DEF WorkerDies, TypeOK, rowVars, tickVars, histVars
  <2>3. QED
    BY <1>4, <2>2, ElsewhereKeepsInv DEF WorkerDies, rowVars, tickVars, histVars
<1>5. QED
  BY <1>1, <1>2, <1>3, <1>4 DEF WorkerNext

LEMMA EditKeepsInv ==
    ASSUME SchedulerInv, NEW t \in Tasks, EditNext(t)
    PROVE  SchedulerInv'
<1> USE Parts, Types, Numbers
<1>1. CASE Toggle(t)
  <2>1. TypeOK'
    BY <1>1, EditCounts DEF Toggle, TypeOK, execVars, histVars
  <2>2. QED
    BY <1>1, <2>1, ElsewhereKeepsInv DEF Toggle, histVars
<1>2. CASE Delete(t)
  <2>1. TypeOK'
    BY <1>2, EditCounts DEF Delete, TypeOK, execVars, histVars
  <2>2. QED
    BY <1>2, <2>1, ElsewhereKeepsInv DEF Delete, histVars
<1>3. CASE Fire(t)
  <2>1. queue' \in [Tasks -> Nat]
    BY <1>3 DEF Fire
  <2>2. TypeOK'
    BY <1>3, <2>1, EditCounts DEF Fire, TypeOK, rowVars, tickVars, histVars
  <2>3. QED
    BY <1>3, <2>2, ElsewhereKeepsInv DEF Fire, rowVars, tickVars, histVars
<1>4. CASE Reschedule(t)
  <2>1. /\ UNCHANGED <<stored, active, last, phase, beaten, at, ago, offset, due, wrote, queue, running,
                       since, faults>>
        /\ cause' = cause \cup {u \in {t} : \E b \in Ticks : InHand(b, u)}
        /\ cron' \subseteq Tasks /\ \A u \in Tasks \ {t} : u \in cron' <=> u \in cron
        /\ edits' \in 0..MaxEdits
    BY <1>4, EditCounts DEF Reschedule, tickVars, execVars
  <2>2. TypeOK'
    BY <2>1 DEF TypeOK
  <2>3. PagesAreClosed'
    BY <2>1 DEF PagesAreClosed, Wrote
  <2>4. ASSUME NEW u \in Tasks \ cause'
        PROVE  OneHand(u)' /\ Recorded(u)' /\ DueIsDue(u)'
    <3>1. OneHand(u) /\ Recorded(u) /\ DueIsDue(u)
      BY <2>1 DEF TaskInv
    <3>2. OneHand(u)' /\ Recorded(u)'
      BY <2>1, <3>1 DEF OneHand, Recorded, InHand, Wrote
    <3>3. CASE u = t
      <4>1. \A b \in Ticks : u \notin due[b]
        BY <2>1, <3>3 DEF InHand
      <4>2. QED
        BY <2>1, <3>2, <4>1 DEF DueIsDue
    <3>4. CASE u # t
      <4>1. ASSUME NEW b \in Ticks, u \in due'[b]
            PROVE  MayQueue(b, u)'
        <5>1. MayQueue(b, u) /\ (u \in cron' <=> u \in cron)
          BY <2>1, <3>1, <3>4, <4>1 DEF DueIsDue
        <5>2. CronTime(ago[b])' = CronTime(ago[b])
          BY <2>1 DEF CronTime
        <5>3. QED
          BY <2>1, <5>1, <5>2 DEF MayQueue
      <4>2. QED
        BY <3>2, <4>1 DEF DueIsDue
    <3>5. QED
      BY <3>3, <3>4
  <2>5. QED
    BY <2>2, <2>3, <2>4, Whole DEF TaskInv
<1>5. QED
  BY <1>1, <1>2, <1>3, <1>4 DEF EditNext

-------------------------------------------------------------------------------
(* Steps of a check.                                                         *)

\* A check lets go of all it has in hand, and what it wrote is committed, or the task
\* may be queued once more.
LEMMA LettingGoKeepsInv ==
    ASSUME SchedulerInv, TypeOK', NEW b \in Ticks,
           UNCHANGED <<cron, phase, since>>,
           \A c \in Ticks \ {b} : /\ at'[c] = at[c] /\ ago'[c] = ago[c]
                                 /\ due'[c] = due[c] /\ wrote'[c] = wrote[c],
           due'[b] = {}, wrote'[b] = NoWrites, (at'[b] = "idle" => ago'[b] = 0),
           \A t \in Tasks \ cause' :
               \/ t \notin cause /\ t \notin Wrote(b) /\ last'[t] = last[t]
               \/ t \notin cause /\ t \in Wrote(b) /\ last'[t] = wrote[b][t]
               \/ t \in Settled(b) /\ last'[t] = wrote[b][t]
    PROVE  SchedulerInv'
<1>1. /\ \A c \in Ticks \ {b} : Wrote(c)' = Wrote(c)
      /\ Wrote(b)' = {}
  BY DEF Wrote, NoWrites
<1>2. PagesAreClosed'
  <2>1. ASSUME NEW c \in Ticks
        PROVE  /\ at'[c] \in {"idle", "reading"} => due'[c] = {} /\ wrote'[c] = NoWrites'
               /\ at'[c] = "idle" => ago'[c] = 0
               /\ \A t \in Wrote(c)' : wrote'[c][t] <= ago'[c]
    <3>1. NoWrites' = NoWrites
      BY DEF NoWrites
    <3>2. CASE c = b
      BY <1>1, <3>1, <3>2
    <3>3. CASE c # b
      <4>1. /\ at[c] \in {"idle", "reading"} => due[c] = {} /\ wrote[c] = NoWrites
            /\ at[c] = "idle" => ago[c] = 0
            /\ \A t \in Wrote(c) : wrote[c][t] <= ago[c]
        BY Parts DEF PagesAreClosed
      <4>2. QED
        BY <1>1, <3>1, <3>3, <4>1
    <3>4. QED
      BY <3>2, <3>3
  <2>2. QED
    BY <2>1 DEF PagesAreClosed
<1>3. ASSUME NEW t \in Tasks \ cause'
      PROVE  OneHand(t)' /\ Recorded(t)' /\ DueIsDue(t)'
  <2>1. /\ ~InHand(b, t)'
        /\ \A c \in Ticks \ {b} : InHand(c, t)' <=> InHand(c, t)
    BY <1>1 DEF InHand
  <2>2. CASE t \in Settled(b) /\ last'[t] = wrote[b][t]
    <3>1. \A c \in Ticks : ~InHand(c, t)'
      BY <2>1, <2>2 DEF Settled
    <3>2. last'[t] <= since'[t]
      BY <2>2 DEF Settled
    <3>3. OneHand(t)' /\ DueIsDue(t)'
      BY <3>1 DEF OneHand, DueIsDue, InHand
    <3>4. Recorded(t)'
      BY <3>1, <3>2 DEF Recorded, InHand
    <3>5. QED
      BY <3>3, <3>4
  <2>3. CASE /\ t \notin cause
             /\ t \notin Wrote(b) => last'[t] = last[t]
             /\ t \in Wrote(b) => last'[t] = wrote[b][t]
    <3>1. OneHand(t) /\ Recorded(t) /\ DueIsDue(t)
      BY <2>3, Parts DEF TaskInv
    <3>2. OneHand(t)'
      BY <2>1, <3>1 DEF OneHand
    <3>3. Recorded(t)'
      BY <1>1, <2>3, <3>1 DEF Recorded
    <3>4. DueIsDue(t)'
      <4>1. ASSUME NEW c \in Ticks, t \in due'[c]
            PROVE  MayQueue(c, t)'
        <5>1. c # b /\ t \in due[c] /\ ago'[c] = ago[c]
          BY <4>1
        <5>2. QED
          BY <3>1, <5>1 DEF DueIsDue, MayQueue, CronTime
      <4>2. QED
        BY <4>1 DEF DueIsDue
    <3>5. QED
      BY <3>2, <3>3, <3>4
  <2>4. QED
    BY <2>2, <2>3
<1>4. QED
  BY <1>2, <1>3, Whole DEF TaskInv

\* What EndTick does to the check, and that it keeps the types.
LEMMA EndOfTick ==
    ASSUME TypeOK, NEW b \in Ticks, EndTick(b)
    PROVE  /\ at' \in [Ticks -> {"idle", "reading", "queueing", "finishing"}]
           /\ ago' \in [Ticks -> 0..MaxTick] /\ offset' \in [Ticks -> Nat]
           /\ due' \in [Ticks -> SUBSET Tasks]
           /\ wrote' \in [Ticks -> [Tasks -> 0..MaxTick \cup {None}]]
           /\ \A c \in Ticks \ {b} : /\ at'[c] = at[c] /\ ago'[c] = ago[c]
                                     /\ due'[c] = due[c] /\ wrote'[c] = wrote[c]
           /\ due'[b] = {} /\ wrote'[b] = NoWrites /\ ago'[b] = 0
BY Types, Numbers DEF EndTick

LEMMA EndOfPage ==
    ASSUME TypeOK, NEW b \in Ticks, EndPage(b), due[b] = {}
    PROVE  /\ at' \in [Ticks -> {"idle", "reading", "queueing", "finishing"}]
           /\ ago' \in [Ticks -> 0..MaxTick] /\ offset' \in [Ticks -> Nat]
           /\ due' \in [Ticks -> SUBSET Tasks]
           /\ wrote' \in [Ticks -> [Tasks -> 0..MaxTick \cup {None}]]
           /\ \A c \in Ticks \ {b} : /\ at'[c] = at[c] /\ ago'[c] = ago[c]
                                     /\ due'[c] = due[c] /\ wrote'[c] = wrote[c]
           /\ due'[b] = {} /\ wrote'[b] = NoWrites
           /\ at'[b] = "idle" => ago'[b] = 0
<1>1. CASE at[b] = "finishing"
  BY <1>1, EndOfTick DEF EndPage
<1>2. CASE at[b] # "finishing"
  <2>1. /\ at' = [at EXCEPT ![b] = "reading"] /\ offset' = [offset EXCEPT ![b] = @ + BatchSize]
        /\ wrote' = [wrote EXCEPT ![b] = NoWrites] /\ ago' = ago /\ due' = due
    BY <1>2 DEF EndPage
  <2>2. offset[b] + BatchSize \in Nat
    BY Types, Numbers
  <2>3. /\ at' \in [Ticks -> {"idle", "reading", "queueing", "finishing"}] /\ at'[b] = "reading"
        /\ offset' \in [Ticks -> Nat]
    BY <2>1, <2>2, Types
  <2>4. /\ wrote' \in [Ticks -> [Tasks -> 0..MaxTick \cup {None}]] /\ wrote'[b] = NoWrites
        /\ \A c \in Ticks \ {b} : at'[c] = at[c] /\ wrote'[c] = wrote[c]
    BY <2>1, Types
  <2>5. QED
    BY <2>1, <2>3, <2>4, Types
<1>3. QED
  BY <1>1, <1>2

LEMMA StartTickKeepsInv ==
    ASSUME SchedulerInv, NEW b \in Ticks, StartTick(b)
    PROVE  SchedulerInv'
<1>1. /\ at' = [at EXCEPT ![b] = "reading"] /\ at[b] = "idle"
      /\ UNCHANGED <<rowVars, phase, ago, offset, due, wrote, execVars, histVars, edits, faults>>
  BY DEF StartTick
<1>2. TypeOK'
  <2>1. at' \in [Ticks -> {"idle", "reading", "queueing", "finishing"}] /\ beaten' \in BOOLEAN
    BY <1>1, Parts, Types DEF StartTick
  <2>2. QED
    BY <1>1, <2>1, Parts DEF TypeOK, rowVars, execVars, histVars
<1>3. PagesAreClosed'
  <2>1. \A c \in Ticks : at'[c] = IF c = b THEN "reading" ELSE at[c]
    BY <1>1, Parts, Types
  <2>2. QED
    BY <1>1, <2>1, Parts DEF PagesAreClosed, Wrote, NoWrites
<1>4. TaskInv'
  BY <1>1, Parts
  DEF TaskInv, OneHand, Recorded, DueIsDue, MayQueue, CronTime, InHand, Wrote, rowVars, histVars
<1>5. QED
  BY <1>2, <1>3, <1>4, Whole

LEMMA ReadPageKeepsInv ==
    ASSUME SchedulerInv, NEW b \in Ticks, ReadPage(b)
    PROVE  SchedulerInv'
<1> DEFINE read == {t \in Page(offset[b]) : IsDue(t, ago[b])}
<1>1. /\ at[b] = "reading" /\ due' = [due EXCEPT ![b] = read]
      /\ cause' = cause \cup {t \in due'[b] : \E c \in Ticks \ {b} : InHand(c, t)}
      /\ UNCHANGED <<rowVars, phase, beaten, ago, offset, wrote, execVars, since, edits, faults>>
  BY DEF ReadPage
<1>2. read \in SUBSET Tasks
  BY Parts, Types DEF Page, Listed
<1>3. /\ due' \in [Ticks -> SUBSET Tasks] /\ due'[b] = read
      /\ \A c \in Ticks \ {b} : due'[c] = due[c]
  BY <1>1, <1>2, Parts, Types
<1>4. /\ at' \in [Ticks -> {"idle", "reading", "queueing", "finishing"}]
      /\ at'[b] \in OnPage /\ \A c \in Ticks \ {b} : at'[c] = at[c]
  BY Parts, Types DEF ReadPage, OnPage
<1>5. TypeOK'
  <2>1. cause' \subseteq Tasks
    BY <1>1, <1>2, <1>3, Parts, Types
  <2>2. QED
    BY <1>1, <1>3, <1>4, <2>1, Parts DEF TypeOK, rowVars, execVars
<1>6. /\ due[b] = {} /\ Wrote(b) = {}
      /\ \A c \in Ticks : Wrote(c)' = Wrote(c)
  BY <1>1, Parts DEF PagesAreClosed, Wrote, NoWrites
<1>7. PagesAreClosed'
  <2>1. ASSUME NEW c \in Ticks
        PROVE  /\ at'[c] \in {"idle", "reading"} => due'[c] = {} /\ wrote'[c] = NoWrites'
               /\ at'[c] = "idle" => ago'[c] = 0
               /\ \A t \in Wrote(c)' : wrote'[c][t] <= ago'[c]
    <3>1. NoWrites' = NoWrites
      BY DEF NoWrites
    <3>2. /\ at[c] \in {"idle", "reading"} => due[c] = {} /\ wrote[c] = NoWrites
          /\ at[c] = "idle" => ago[c] = 0
          /\ \A t \in Wrote(c) : wrote[c][t] <= ago[c]
      BY Parts DEF PagesAreClosed
    <3>3. CASE c = b
      BY <1>1, <1>4, <1>6, <3>3 DEF OnPage
    <3>4. CASE c # b
      BY <1>1, <1>3, <1>4, <1>6, <3>1, <3>2, <3>4
    <3>5. QED
      BY <3>3, <3>4
  <2>2. QED
    BY <2>1 DEF PagesAreClosed
<1>8. ASSUME NEW t \in Tasks \ cause'
      PROVE  OneHand(t)' /\ Recorded(t)' /\ DueIsDue(t)'
  <2>1. OneHand(t) /\ Recorded(t) /\ DueIsDue(t)
    BY <1>1, <1>8, Parts DEF TaskInv
  <2>2. \A c \in Ticks \ {b} : InHand(c, t)' <=> InHand(c, t)
    BY <1>3, <1>6 DEF InHand
  <2>3. InHand(b, t)' <=> t \in read
    BY <1>3, <1>6 DEF InHand
  <2>4. t \in read => \A c \in Ticks \ {b} : ~InHand(c, t)
    BY <1>1, <1>3, <1>8
  <2>5. OneHand(t)'
    BY <2>1, <2>2, <2>3, <2>4 DEF OneHand
  <2>6. Recorded(t)'
    BY <1>1, <1>6, <2>1 DEF Recorded, rowVars
  <2>7. /\ \A n : CronTime(n)' = CronTime(n)
        /\ UNCHANGED <<cron, ago, since>>
    BY <1>1 DEF CronTime, rowVars
  <2>8. t \in read => MayQueue(b, t)
    <3>1. SUFFICES ASSUME t \in read
                   PROVE  MayQueue(b, t)
      OBVIOUS
    <3>2. last[t] <= since[t]
      BY <1>6, <2>1, <2>4, <3>1 DEF Recorded, InHand
    <3>3. IsDue(t, ago[b])
      BY <3>1
    <3>4. /\ last[t] \in Nat /\ since[t] \in Nat /\ ago[b] \in Nat /\ phase \in Nat
          /\ Period \in Nat /\ CronTime(ago[b]) \in Nat
      BY Parts, Types, Numbers DEF CronTime
    <3>5. QED
      BY <3>2, <3>3, <3>4 DEF IsDue, MayQueue
  <2>9. DueIsDue(t)'
    <3>1. ASSUME NEW c \in Ticks, t \in due'[c]
          PROVE  MayQueue(c, t)'
      <4>1. MayQueue(c, t)
        BY <1>3, <2>1, <2>8, <3>1 DEF DueIsDue
      <4>2. QED
        BY <2>7, <4>1 DEF MayQueue
    <3>2. QED
      BY <3>1 DEF DueIsDue
  <2>10. QED
    BY <2>5, <2>6, <2>9
<1>9. QED
  BY <1>5, <1>7, <1>8, Whole DEF TaskInv

LEMMA QueueDueKeepsInv ==
    ASSUME SchedulerInv, NEW b \in Ticks, NEW t \in Tasks, QueueDue(b, t)
    PROVE  SchedulerInv'
<1>1. /\ at[b] \in OnPage /\ t \in due[b]
      /\ due' = [due EXCEPT ![b] = @ \ {t}] /\ wrote' = [wrote EXCEPT ![b][t] = 0]
      /\ queue' = [queue EXCEPT ![t] = @ + 1] /\ since' = [since EXCEPT ![t] = 0]
      /\ UNCHANGED <<rowVars, phase, beaten, at, ago, offset, running, cause, edits, faults>>
  BY DEF QueueDue
<1>2. /\ due' \in [Ticks -> SUBSET Tasks] /\ due'[b] = due[b] \ {t}
      /\ \A c \in Ticks \ {b} : due'[c] = due[c]
  BY <1>1, Parts, Types
<1>3. /\ wrote' \in [Ticks -> [Tasks -> 0..MaxTick \cup {None}]]
      /\ \A c \in Ticks \ {b} : wrote'[c] = wrote[c]
      /\ wrote'[b][t] = 0 /\ \A u \in Tasks \ {t} : wrote'[b][u] = wrote[b][u]
  <2> DEFINE w == [wrote[b] EXCEPT ![t] = 0]
  <2>1. w \in [Tasks -> 0..MaxTick \cup {None}] /\ w[t] = 0 /\ \A u \in Tasks \ {t} : w[u] = wrote[b][u]
    BY Parts, Types, Numbers
  <2>2. wrote' = [wrote EXCEPT ![b] = w]
    BY <1>1
  <2> HIDE DEF w
  <2>3. QED
    BY <2>1, <2>2, Parts, Types
<1>4. /\ since' \in [Tasks -> 0..Oldest] /\ since'[t] = 0
      /\ \A u \in Tasks \ {t} : since'[u] = since[u]
      /\ queue' \in [Tasks -> Nat]
  BY <1>1, Parts, Types, Numbers
<1>5. TypeOK'
  BY <1>1, <1>2, <1>3, <1>4, Parts DEF TypeOK, rowVars
<1>6. /\ Wrote(b)' = Wrote(b) \cup {t} /\ \A c \in Ticks \ {b} : Wrote(c)' = Wrote(c)
      /\ \A u \in Tasks : \A c \in Ticks : InHand(c, u)' <=> InHand(c, u)
  <2>1. Wrote(b)' = Wrote(b) \cup {t} /\ \A c \in Ticks \ {b} : Wrote(c)' = Wrote(c)
    BY <1>3, Numbers DEF Wrote
  <2>2. QED
    BY <1>1, <1>2, <2>1 DEF InHand
<1>7. PagesAreClosed'
  <2>1. ASSUME NEW c \in Ticks
        PROVE  /\ at'[c] \in {"idle", "reading"} => due'[c] = {} /\ wrote'[c] = NoWrites'
               /\ at'[c] = "idle" => ago'[c] = 0
               /\ \A u \in Wrote(c)' : wrote'[c][u] <= ago'[c]
    <3>1. NoWrites' = NoWrites
      BY DEF NoWrites
    <3>2. /\ at[c] \in {"idle", "reading"} => due[c] = {} /\ wrote[c] = NoWrites
          /\ at[c] = "idle" => ago[c] = 0
          /\ \A u \in Wrote(c) : wrote[c][u] <= ago[c]
      BY Parts DEF PagesAreClosed
    <3>3. CASE c = b
      <4>1. at'[c] \notin {"idle", "reading"}
        BY <1>1, <3>3 DEF OnPage
      <4>2. 0 <= ago[b] /\ Wrote(b) \subseteq Tasks
        BY Parts, Types, Numbers DEF Wrote
      <4>3. \A u \in Wrote(c)' : wrote'[c][u] <= ago'[c]
        BY <1>1, <1>3, <1>6, <3>2, <3>3, <4>2
      <4>4. QED
        BY <4>1, <4>3
    <3>4. CASE c # b
      BY <1>1, <1>2, <1>3, <1>6, <3>1, <3>2, <3>4
    <3>5. QED
      BY <3>3, <3>4
  <2>2. QED
    BY <2>1 DEF PagesAreClosed
<1>8. ASSUME NEW u \in Tasks \ cause'
      PROVE  OneHand(u)' /\ Recorded(u)' /\ DueIsDue(u)'
  <2>1. OneHand(u) /\ Recorded(u) /\ DueIsDue(u)
    BY <1>1, <1>8, Parts DEF TaskInv
  <2>2. OneHand(u)'
    BY <1>6, <2>1 DEF OneHand
  <2>3. \A n : CronTime(n)' = CronTime(n)
    BY <1>1 DEF CronTime
  <2>4. CASE u = t
    <3>1. \A c \in Ticks \ {b} : ~InHand(c, t)
      BY <1>1, <2>1, <2>4 DEF OneHand, InHand
    <3>2. \A c \in Ticks : t \notin due'[c]
      BY <1>2, <3>1 DEF InHand
    <3>3. \A c \in Ticks : t \in Wrote(c)' => c = b
      BY <1>6, <3>1 DEF InHand
    <3>4. t \in Wrote(b)' /\ wrote'[b][t] <= since'[t]
      BY <1>3, <1>4, <1>6
    <3>5. Recorded(u)'
      BY <2>4, <3>3, <3>4 DEF Recorded
    <3>6. DueIsDue(u)'
      BY <2>4, <3>2 DEF DueIsDue
    <3>7. QED
      BY <2>2, <3>5, <3>6
  <2>5. CASE u # t
    <3>1. since'[u] = since[u] /\ last'[u] = last[u] /\ cron' = cron /\ ago' = ago
      BY <1>1, <1>4, <2>5 DEF rowVars
    <3>2. \A c \in Ticks : /\ u \in Wrote(c)' <=> u \in Wrote(c)
                           /\ u \in due'[c] <=> u \in due[c]
                           /\ wrote'[c][u] = wrote[c][u]
      BY <1>2, <1>3, <1>6, <2>5
    <3>3. Recorded(u)'
      BY <2>1, <3>1, <3>2 DEF Recorded
    <3>4. \A c \in Ticks : MayQueue(c, u)' <=> MayQueue(c, u)
      BY <2>3, <3>1 DEF MayQueue
    <3>5. DueIsDue(u)'
      BY <2>1, <3>2, <3>4 DEF DueIsDue
    <3>6. QED
      BY <2>2, <3>3, <3>5
  <2>6. QED
    BY <2>4, <2>5
<1>9. QED
  BY <1>5, <1>7, <1>8, Whole DEF TaskInv

LEMMA QueueFailsKeepsInv ==
    ASSUME SchedulerInv, NEW b \in Ticks, NEW t \in Tasks, QueueFails(b, t)
    PROVE  SchedulerInv'
<1>1. /\ due' = [due EXCEPT ![b] = @ \ {t}] /\ at[b] \in OnPage
      /\ UNCHANGED <<rowVars, phase, beaten, at, ago, offset, wrote, execVars, histVars, edits>>
  BY DEF QueueFails
<1>2. due' \in [Ticks -> SUBSET Tasks] /\ \A c \in Ticks : due'[c] \subseteq due[c]
  BY <1>1, Parts, Types
<1>3. TypeOK'
  <2>1. faults' \in 0..MaxFaults
    BY Parts, FaultCounts DEF QueueFails
  <2>2. QED
    BY <1>1, <1>2, <2>1, Parts DEF TypeOK, rowVars, execVars, histVars
<1>4. \A c \in Ticks : Wrote(c)' = Wrote(c)
  BY <1>1 DEF Wrote
<1>5. PagesAreClosed'
  BY <1>1, <1>2, <1>4, Parts DEF PagesAreClosed, NoWrites
<1>6. ASSUME NEW u \in Tasks \ cause'
      PROVE  OneHand(u)' /\ Recorded(u)' /\ DueIsDue(u)'
  <2>1. OneHand(u) /\ Recorded(u) /\ DueIsDue(u)
    BY <1>1, <1>6, Parts DEF TaskInv, histVars
  <2>2. OneHand(u)'
    BY <1>2, <1>4, <2>1 DEF OneHand, InHand
  <2>3. Recorded(u)'
    BY <1>1, <1>4, <2>1 DEF Recorded, rowVars, histVars
  <2>4. \A c \in Ticks : MayQueue(c, u)' <=> MayQueue(c, u)
    BY <1>1 DEF MayQueue, CronTime, rowVars, histVars
  <2>5. DueIsDue(u)'
    BY <1>2, <2>1, <2>4 DEF DueIsDue
  <2>6. QED
    BY <2>2, <2>3, <2>5
<1>7. QED
  BY <1>3, <1>5, <1>6, Whole DEF TaskInv

LEMMA TickKeepsInv ==
    ASSUME SchedulerInv, NEW b \in Ticks, TickNext(b)
    PROVE  SchedulerInv'
<1>1. CASE CommitPage(b)
  <2>1. /\ due[b] = {} /\ EndPage(b)
        /\ last' = [t \in Tasks |-> IF t \in Wrote(b) THEN wrote[b][t] ELSE last[t]]
        /\ cause' = cause \ Settled(b)
        /\ UNCHANGED <<stored, active, cron, phase, beaten, execVars, since, edits, faults>>
    BY <1>1 DEF CommitPage
  <2>2. last' \in [Tasks -> 0..Oldest]
    BY <2>1, Parts, Types, Numbers DEF Wrote
  <2>3. TypeOK'
    BY <2>1, <2>2, Parts, EndOfPage DEF TypeOK, execVars
  <2>4. \A t \in Tasks \ cause' :
            \/ t \notin cause /\ t \notin Wrote(b) /\ last'[t] = last[t]
            \/ t \notin cause /\ t \in Wrote(b) /\ last'[t] = wrote[b][t]
            \/ t \in Settled(b) /\ last'[t] = wrote[b][t]
    BY <2>1 DEF Settled
  <2>5. QED
    BY <2>1, <2>3, <2>4, Parts, EndOfPage, LettingGoKeepsInv
<1>2. CASE CommitFails(b)
  <2>1. /\ cause' = cause \cup Wrote(b) /\ EndTick(b)
        /\ UNCHANGED <<rowVars, phase, beaten, execVars, since, edits>>
    BY <1>2 DEF CommitFails
  <2>2. faults' \in 0..MaxFaults
    BY <1>2, Parts, FaultCounts DEF CommitFails, TypeOK
  <2>3. TypeOK'
    BY <2>1, <2>2, Parts, EndOfTick DEF TypeOK, rowVars, execVars, Wrote
  <2>4. QED
    BY <2>1, <2>3, Parts, EndOfTick, LettingGoKeepsInv DEF rowVars
<1>3. CASE TickEnds(b)
  <2>1. /\ at[b] = "reading" /\ EndTick(b)
        /\ UNCHANGED <<rowVars, phase, beaten, execVars, histVars, edits, faults>>
    BY <1>3 DEF TickEnds
  <2>2. TypeOK'
    BY <2>1, Parts, EndOfTick DEF TypeOK, rowVars, execVars, histVars
  <2>3. Wrote(b) = {}
    BY <2>1, Parts DEF PagesAreClosed, Wrote, NoWrites
  <2>4. QED
    BY <2>1, <2>2, <2>3, Parts, EndOfTick, LettingGoKeepsInv DEF rowVars, histVars
<1>4. CASE TickDies(b)
  <2>1. /\ cause' = cause \cup Wrote(b)
        /\ at' = [at EXCEPT ![b] = "reading"] /\ ago' = [ago EXCEPT ![b] = 0]
        /\ offset' = [offset EXCEPT ![b] = 0] /\ due' = [due EXCEPT ![b] = {}]
        /\ wrote' = [wrote EXCEPT ![b] = NoWrites]
        /\ UNCHANGED <<rowVars, phase, beaten, execVars, since, edits>>
    BY <1>4 DEF TickDies
  <2>2. /\ at' \in [Ticks -> {"idle", "reading", "queueing", "finishing"}]
        /\ ago' \in [Ticks -> 0..MaxTick] /\ offset' \in [Ticks -> Nat]
        /\ due' \in [Ticks -> SUBSET Tasks]
        /\ wrote' \in [Ticks -> [Tasks -> 0..MaxTick \cup {None}]]
        /\ \A c \in Ticks \ {b} : /\ at'[c] = at[c] /\ ago'[c] = ago[c]
                                  /\ due'[c] = due[c] /\ wrote'[c] = wrote[c]
        /\ due'[b] = {} /\ wrote'[b] = NoWrites /\ ago'[b] = 0
    BY <2>1, Parts, Types, Numbers
  <2>3. faults' \in 0..MaxFaults
    BY <1>4, Parts, FaultCounts DEF TickDies
  <2>4. TypeOK'
    BY <2>1, <2>2, <2>3, Parts DEF TypeOK, rowVars, execVars, Wrote
  <2>5. QED
    BY <2>1, <2>2, <2>4, LettingGoKeepsInv DEF rowVars
<1>5. QED
  BY <1>1, <1>2, <1>3, <1>4, StartTickKeepsInv, ReadPageKeepsInv, QueueDueKeepsInv,
     QueueFailsKeepsInv
  DEF TickNext

-------------------------------------------------------------------------------
(* A minute passes.                                                          *)

LEMMA NextPhase ==
    ASSUME NEW p \in 0..Period - 1
    PROVE  (p + 1) % Period = IF p + 1 = Period THEN 0 ELSE p + 1
<1>1. CASE p + 1 = Period
  BY <1>1, Numbers
<1>2. CASE p + 1 # Period
  BY <1>2, Numbers
<1>3. QED
  BY <1>1, <1>2

\* The cron time a check looks back to ages with the check.
LEMMA CronTimeAges ==
    ASSUME TypeOK, phase' = (phase + 1) % Period, NEW n \in 0..MaxTick, n < MaxTick
    PROVE  /\ CronTime(n + 1)' = CronTime(n) + 1
           /\ CronTime(n) + 1 < Oldest /\ CronTime(n) \in Nat
<1>1. phase \in 0..Period - 1
  BY Types
<1>2. phase' = IF phase + 1 = Period THEN 0 ELSE phase + 1
  BY <1>1, NextPhase
<1>3. QED
  BY <1>1, <1>2, Numbers DEF CronTime

LEMMA MinuteKeepsInv ==
    ASSUME SchedulerInv, Minute
    PROVE  SchedulerInv'
<1>1. /\ \A b \in Ticks : ago[b] < MaxTick
      /\ phase' = (phase + 1) % Period /\ beaten' = FALSE
      /\ last' = [t \in Tasks |-> Older(last[t])]
      /\ since' = [t \in Tasks |-> Older(since[t])]
      /\ ago' = [b \in Ticks |-> IF at[b] = "idle" THEN 0 ELSE ago[b] + 1]
      /\ wrote' = [b \in Ticks |->
                      [t \in Tasks |-> IF t \in Wrote(b) THEN wrote[b][t] + 1 ELSE None]]
      /\ UNCHANGED <<stored, active, cron, at, offset, due, execVars, cause, edits, faults>>
  BY DEF Minute
<1>2. /\ last' \in [Tasks -> 0..Oldest] /\ since' \in [Tasks -> 0..Oldest]
      /\ \A t \in Tasks : last'[t] = Older(last[t]) /\ since'[t] = Older(since[t])
  BY <1>1, Parts, Types, Numbers DEF Older
<1>3. ago' \in [Ticks -> 0..MaxTick]
  BY <1>1, Parts, Types, Numbers
<1>4. ASSUME NEW b \in Ticks, NEW t \in Wrote(b)
      PROVE  /\ wrote[b][t] \in 0..MaxTick /\ wrote[b][t] <= ago[b]
             /\ at[b] # "idle" /\ wrote[b][t] + 1 \in 0..MaxTick
  <2>1. wrote[b][t] \in 0..MaxTick /\ wrote[b][t] # None
    BY Parts, Types DEF Wrote
  <2>2. wrote[b][t] <= ago[b] /\ at[b] # "idle"
    BY <2>1, Parts DEF PagesAreClosed, NoWrites, Wrote
  <2>3. QED
    BY <1>1, <2>1, <2>2, Parts, Types, Numbers
<1>5. /\ wrote' \in [Ticks -> [Tasks -> 0..MaxTick \cup {None}]]
      /\ \A b \in Ticks : \A t \in Tasks :
            wrote'[b][t] = IF t \in Wrote(b) THEN wrote[b][t] + 1 ELSE None
  BY <1>1, <1>4
<1>6. \A b \in Ticks : Wrote(b)' = Wrote(b)
  BY <1>4, <1>5, Numbers DEF Wrote
<1>7. TypeOK'
  <2>1. phase' \in 0..Period - 1
    BY <1>1, NextPhase, Parts, Types, Numbers
  <2>2. QED
    BY <1>1, <1>2, <1>3, <1>5, <2>1, Parts DEF TypeOK, execVars
<1>8. PagesAreClosed'
  <2>1. ASSUME NEW b \in Ticks
        PROVE  /\ at'[b] \in {"idle", "reading"} => due'[b] = {} /\ wrote'[b] = NoWrites'
               /\ at'[b] = "idle" => ago'[b] = 0
               /\ \A t \in Wrote(b)' : wrote'[b][t] <= ago'[b]
    <3>1. /\ at[b] \in {"idle", "reading"} => due[b] = {} /\ wrote[b] = NoWrites
          /\ at[b] = "idle" => ago[b] = 0
      BY Parts DEF PagesAreClosed
    <3>2. at'[b] \in {"idle", "reading"} => wrote'[b] = NoWrites'
      <4>1. at[b] \in {"idle", "reading"} => Wrote(b) = {}
        BY <3>1 DEF Wrote, NoWrites
      <4>2. wrote'[b] = [t \in Tasks |-> IF t \in Wrote(b) THEN wrote[b][t] + 1 ELSE None]
        BY <1>1
      <4>3. QED
        BY <1>1, <4>1, <4>2 DEF NoWrites
    <3>3. \A t \in Wrote(b)' : wrote'[b][t] <= ago'[b]
      <4>1. ASSUME NEW t \in Wrote(b)
            PROVE  wrote'[b][t] <= ago'[b]
        <5>1. t \in Tasks /\ wrote'[b][t] = wrote[b][t] + 1
          BY <1>5 DEF Wrote
        <5>2. ago'[b] = ago[b] + 1
          BY <1>1, <1>4
        <5>3. QED
          BY <1>4, <5>1, <5>2, Parts, Types, Numbers
      <4>2. QED
        BY <1>6, <4>1
    <3>4. QED
      BY <1>1, <3>1, <3>2, <3>3
  <2>2. QED
    BY <2>1 DEF PagesAreClosed
<1>9. ASSUME NEW t \in Tasks \ cause'
      PROVE  OneHand(t)' /\ Recorded(t)' /\ DueIsDue(t)'
  <2>1. OneHand(t) /\ Recorded(t) /\ DueIsDue(t)
    BY <1>1, <1>9, Parts DEF TaskInv
  <2>2. OneHand(t)'
    BY <1>1, <1>6, <2>1 DEF OneHand, InHand
  <2>3. last[t] \in 0..Oldest /\ since[t] \in 0..Oldest
    BY Parts, Types
  <2>4. Recorded(t)'
    <3>1. last[t] <= since[t] => last'[t] <= since'[t]
      BY <1>2, <2>3, Numbers DEF Older
    <3>2. ASSUME NEW b \in Ticks, t \in Wrote(b)
          PROVE  wrote'[b][t] <= since'[t]
      <4>1. wrote[b][t] <= since[t] /\ wrote'[b][t] = wrote[b][t] + 1
        BY <1>5, <2>1, <3>2 DEF Recorded
      <4>2. wrote[b][t] \in 0..MaxTick /\ wrote[b][t] + 1 \in 0..MaxTick
        BY <1>4, <3>2
      <4>3. QED
        BY <1>2, <2>3, <4>1, <4>2, Numbers DEF Older
    <3>3. QED
      BY <1>6, <2>1, <3>1, <3>2 DEF Recorded
  <2>5. DueIsDue(t)'
    <3>1. ASSUME NEW b \in Ticks, t \in due[b]
          PROVE  MayQueue(b, t)'
      <4>1. at[b] # "idle"
        BY <3>1, Parts DEF PagesAreClosed
      <4>2. ago'[b] = ago[b] + 1 /\ ago[b] \in 0..MaxTick /\ ago[b] < MaxTick
        BY <1>1, <4>1, Parts, Types
      <4>3. MayQueue(b, t)
        BY <2>1, <3>1 DEF DueIsDue
      <4>4. PICK n \in 0..MaxTick : n = ago[b]
        BY <4>2
      <4>5. /\ CronTime(n + 1)' = CronTime(n) + 1
            /\ CronTime(n) + 1 < Oldest /\ CronTime(n) \in Nat
        BY <1>1, <4>2, <4>4, Parts, CronTimeAges
      <4>6. CronTime(ago[b])' = CronTime(ago[b]) + 1 /\ CronTime(ago[b]) = CronTime(n)
        BY <4>2, <4>5, <4>4 DEF CronTime
      <4>7. CASE t \in cron
        <5>1. since[t] > CronTime(ago[b])
          BY <4>3, <4>7 DEF MayQueue
        <5>2. since'[t] > CronTime(ago[b]) + 1
          BY <1>2, <2>3, <4>5, <4>6, <5>1, Numbers DEF Older
        <5>3. QED
          BY <1>1, <4>6, <4>7, <5>2 DEF MayQueue
      <4>8. CASE t \notin cron
        <5>1. since[t] >= Period
          BY <4>3, <4>8 DEF MayQueue
        <5>2. since'[t] >= Period
          BY <1>2, <2>3, <5>1, Numbers DEF Older
        <5>3. QED
          BY <1>1, <4>8, <5>2 DEF MayQueue
      <4>9. QED
        BY <4>7, <4>8
    <3>2. QED
      BY <1>1, <3>1 DEF DueIsDue
  <2>6. QED
    BY <2>2, <2>4, <2>5
<1>10. QED
  BY <1>7, <1>8, <1>9, Whole DEF TaskInv

-------------------------------------------------------------------------------
(* The theorems.                                                             *)

LEMMA InitInv == Init => SchedulerInv
<1> SUFFICES ASSUME Init
             PROVE  SchedulerInv
  OBVIOUS
<1>1. TypeOK
  <2>1. /\ last \in [Tasks -> 0..Oldest] /\ since \in [Tasks -> 0..Oldest]
        /\ phase \in 0..Period - 1 /\ edits \in 0..MaxEdits /\ faults \in 0..MaxFaults
    BY Numbers, SchedulerAssumption DEF Init
  <2>2. /\ at \in [Ticks -> {"idle", "reading", "queueing", "finishing"}]
        /\ ago \in [Ticks -> 0..MaxTick] /\ offset \in [Ticks -> Nat]
        /\ due \in [Ticks -> SUBSET Tasks]
    BY Numbers DEF Init
  <2>3. /\ wrote \in [Ticks -> [Tasks -> 0..MaxTick \cup {None}]]
        /\ queue \in [Tasks -> Nat] /\ running \in [Workers -> Tasks \cup {None}]
    BY DEF Init, NoWrites
  <2>4. QED
    BY <2>1, <2>2, <2>3 DEF Init, TypeOK
<1>2. PagesAreClosed
  BY DEF Init, PagesAreClosed, Wrote, NoWrites
<1>3. \A b \in Ticks : due[b] = {} /\ Wrote(b) = {}
  BY DEF Init, Wrote, NoWrites
<1>4. ASSUME NEW t \in Tasks
      PROVE  OneHand(t) /\ Recorded(t) /\ DueIsDue(t)
  <2>1. last[t] <= since[t]
    BY Numbers DEF Init
  <2>2. QED
    BY <1>3, <2>1 DEF OneHand, Recorded, DueIsDue, InHand
<1>5. QED
  BY <1>1, <1>2, <1>4 DEF SchedulerInv

LEMMA StutterKeepsInv ==
    ASSUME SchedulerInv, UNCHANGED vars
    PROVE  SchedulerInv'
<1>1. UNCHANGED <<stored, active, cron, last, phase, beaten, at, ago, offset, due, wrote, queue,
                  running, since, cause, edits, faults>>
  BY DEF vars, rowVars, tickVars, execVars, histVars
<1>2. TypeOK'
  BY <1>1, Parts DEF TypeOK
<1>3. QED
  BY <1>1, <1>2, ElsewhereKeepsInv

\* Every reachable state satisfies the inductive invariant: checks hold a task one at
\* a time, last_run_at or the check that is to write it tells of the latest queueing,
\* and what was read as due stays so until it is queued.
THEOREM SchedulerInvariant == Spec => []SchedulerInv
<1>1. SchedulerInv /\ [Next]_vars => SchedulerInv'
  <2> SUFFICES ASSUME SchedulerInv, [Next]_vars
               PROVE  SchedulerInv'
    OBVIOUS
  <2>1. QED
    BY TickKeepsInv, WorkerKeepsInv, EditKeepsInv, MinuteKeepsInv, StutterKeepsInv DEF Next
<1>2. QED
  BY InitInv, <1>1, PTL DEF Spec

\* Ages, counters, pages and the queue keep their types.
THEOREM TypeCorrect == Spec => []TypeOK
BY SchedulerInvariant, Parts, PTL

\* Checks queue a task once for each time it falls due, however many of them run and
\* whatever executions, the API and the clock do meanwhile, but for the causes named at
\* the property.
THEOREM QueuesOnce == Spec => QueuedOnce
<1>1. SchedulerInv /\ [Next]_vars =>
        [\A b \in Ticks, t \in Tasks : QueueDue(b, t) /\ t \notin cause => MayQueue(b, t)]_vars
  BY Parts DEF TaskInv, DueIsDue, QueueDue
<1>2. QED
  BY SchedulerInvariant, <1>1, PTL DEF Spec, QueuedOnce

===============================================================================

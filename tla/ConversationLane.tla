--------------------------- MODULE ConversationLane ---------------------------
(***************************************************************************)
(* The lane of one conversation (services/agents/conversation_lane.py): an *)
(* asyncio lock in each API process, created on demand and deleted when    *)
(* nobody wants it, and a Redis key with a TTL between the processes.  The *)
(* tables are keyed by conversation and no step but Boot touches two, so   *)
(* one conversation stands for all.  A lock object is named after the      *)
(* request that created it.                                                *)
(***************************************************************************)
EXTENDS Naturals, FiniteSets

CONSTANTS Requests,   \* the messages of the conversation, each executed at most once
          Processes,  \* API processes (pods, and the gunicorn workers of each)
          Faults,     \* the kinds of fault that may happen
          None

\* "boot": an API process starts while others run.  "redis": a call to Redis raises.
\* "stall": a running execution does not get to renew its key for the key's TTL.
FaultKinds == {"boot", "redis", "stall"}

ASSUME LaneAssumption ==
    /\ IsFiniteSet(Requests)
    /\ None \notin Requests /\ None \notin Processes
    /\ Faults \subseteq FaultKinds

VARIABLES alive,    \* the processes that are up
          stage,    \* how far each request has come through acquire()
          host,     \* the process a request landed on
          lock,     \* _locks: the conversation's lock object in each process
          ref,      \* acquire()'s own lock: the object it found in _locks
          owner,    \* who holds a lock object
          count,    \* _waiting_count, which reads as 0 where it has no entry
          counted,  \* the processes whose _waiting_count has an entry
          active,   \* the conversation is in _active_conversations
          key,      \* the Redis key: whose token it holds
          token,    \* requests whose distributed_token is set
          raised,   \* history: requests out of whose acquire() a KeyError came
          spoilt    \* history: a fault has happened

laneVars == <<lock, ref, owner, count, counted, active>>
vars     == <<alive, stage, host, laneVars, key, token, raised, spoilt>>

\* "waiting" for the lock object, "setting" the key, "running" the execution, and
\* "closing": in acquire()'s finally block, releasing the key.
Stages == {"new", "waiting", "setting", "running", "closing", "done"}

TypeOK ==
    /\ alive \subseteq Processes
    /\ stage \in [Requests -> Stages]
    /\ host \in [Requests -> Processes \cup {None}]
    /\ lock \in [Processes -> Requests \cup {None}]
    /\ ref \in [Requests -> Requests \cup {None}]
    /\ owner \in [Requests -> Requests \cup {None}]
    /\ count \in [Processes -> Nat]
    /\ counted \subseteq Processes
    /\ active \in [Processes -> BOOLEAN]
    /\ key \in Requests \cup {None}
    /\ token \subseteq Requests
    /\ raised \subseteq Requests
    /\ spoilt \in BOOLEAN

Init ==
    /\ alive \in SUBSET Processes
    /\ stage = [r \in Requests |-> "new"]
    /\ host = [r \in Requests |-> None]
    /\ lock = [p \in Processes |-> None]
    /\ ref = [r \in Requests |-> None]
    /\ owner = [l \in Requests |-> None]
    /\ count = [p \in Processes |-> 0]
    /\ counted = {}
    /\ active = [p \in Processes |-> FALSE]
    /\ key = None
    /\ token = {}
    /\ raised = {}
    /\ spoilt = FALSE

Fault(kind) == kind \in Faults /\ spoilt' = TRUE

-------------------------------------------------------------------------------
(* acquire(), from one await to the next.                                    *)

\* acquire() as far as the wait for the lock object.
Enter(r, p) ==
    /\ stage[r] = "new"
    /\ p \in alive
    /\ stage' = [stage EXCEPT ![r] = "waiting"]
    /\ host' = [host EXCEPT ![r] = p]
    /\ lock' = [lock EXCEPT ![p] = IF @ = None THEN r ELSE @]
    /\ ref' = [ref EXCEPT ![r] = lock'[p]]
    /\ count' = [count EXCEPT ![p] = @ + 1]
    /\ counted' = counted \cup {p}
    /\ UNCHANGED <<alive, owner, active, key, token, raised, spoilt>>

\* The lock object is free and goes to one who waits for it.
TakeLock(r) ==
    /\ stage[r] = "waiting"
    /\ owner[ref[r]] = None
    /\ owner' = [owner EXCEPT ![ref[r]] = r]
    /\ stage' = [stage EXCEPT ![r] = "setting"]
    /\ UNCHANGED <<alive, host, lock, ref, count, counted, active, key, token, raised, spoilt>>

\* The execution begins.
Run(r) ==
    /\ stage' = [stage EXCEPT ![r] = "running"]
    /\ active' = [active EXCEPT ![host[r]] = TRUE]
    /\ UNCHANGED <<alive, host, lock, ref, owner, count, counted, raised>>

\* Mutant of SetKey: the SET is not NX.
SetKeyAnyway(r) ==
    /\ stage[r] = "setting"
    /\ key' = r
    /\ token' = token \cup {r}
    /\ Run(r)
    /\ UNCHANGED spoilt

\* _acquire_distributed_lock gets the key; one that is busy is tried again.
SetKey(r) ==
    /\ stage[r] = "setting"
    /\ key = None
    /\ key' = r
    /\ token' = token \cup {r}
    /\ Run(r)
    /\ UNCHANGED spoilt

\* The SET may have been carried out though its answer never came.
SetUnanswered(r) ==
    \/ UNCHANGED key
    \/ key = None /\ key' = r

\* Redis raises: the execution goes on with the local lock only.
RunWithoutKey(r) ==
    /\ stage[r] = "setting"
    /\ Fault("redis")
    /\ SetUnanswered(r)
    /\ Run(r)
    /\ UNCHANGED token

\* Mutants of CleanUp: it is done whoever still waits for the lock object; only by who
\* has held it.
CleanUpInAnyCase(r, n) ==
    LET p == host[r] IN
    IF lock[p] # None
       THEN /\ lock' = [lock EXCEPT ![p] = None]
            /\ counted' = counted \ {p}
            /\ UNCHANGED raised
       ELSE /\ counted' = counted \cup {p}
            /\ raised' = raised \cup {r}
            /\ UNCHANGED lock

CleanUpIfHeld(r, n) ==
    LET p == host[r] IN
    IF n = 0 /\ owner[ref[r]] = r
       THEN /\ lock' = [lock EXCEPT ![p] = None]
            /\ counted' = counted \ {p}
            /\ UNCHANGED raised
       ELSE UNCHANGED <<lock, counted, raised>>

\* The finally block ends with "if self._waiting_count[...] == 0: del self._locks[...];
\* del self._waiting_count[...]". The test makes an entry of 0 where there is none, and
\* if the lock object is gone already, the first del raises KeyError: the entry stays,
\* and the KeyError leaves acquire(). n is what the count stands at.
CleanUp(r, n) ==
    LET p == host[r] IN
    \/ /\ n > 0
       /\ UNCHANGED <<lock, counted, raised>>
    \/ /\ n = 0 /\ lock[p] # None
       /\ lock' = [lock EXCEPT ![p] = None]
       /\ counted' = counted \ {p}
       /\ UNCHANGED raised
    \/ /\ n = 0 /\ lock[p] = None
       /\ counted' = counted \cup {p}
       /\ raised' = raised \cup {r}
       /\ UNCHANGED lock

\* Mutant of Leave: the lock object is released only by who has set the key.
LeaveIfKeyed(r, n) ==
    LET p == host[r] IN
    /\ stage' = [stage EXCEPT ![r] = "done"]
    /\ active' = [active EXCEPT ![p] = FALSE]
    /\ owner' = [owner EXCEPT ![ref[r]] = IF @ = r /\ r \in token THEN None ELSE @]
    /\ count' = [count EXCEPT ![p] = n]
    /\ CleanUp(r, n)
    /\ UNCHANGED <<alive, host, ref, token>>

\* The finally block after its last await. The entry in _active_conversations goes,
\* whoever made it.
Leave(r, n) ==
    LET p == host[r] IN
    /\ stage' = [stage EXCEPT ![r] = "done"]
    /\ active' = [active EXCEPT ![p] = FALSE]
    /\ owner' = [owner EXCEPT ![ref[r]] = IF @ = r THEN None ELSE @]
    /\ count' = [count EXCEPT ![p] = n]
    /\ CleanUp(r, n)
    /\ UNCHANGED <<alive, host, ref, token>>

\* acquire() times out or is cancelled before the execution began: there is nothing
\* to await in the finally block.
GiveUp(r) ==
    /\ \/ stage[r] = "waiting" /\ UNCHANGED key
       \/ stage[r] = "setting" /\ SetUnanswered(r)
    /\ Leave(r, count[host[r]] - 1)
    /\ UNCHANGED spoilt

\* The execution ends, by itself or cancelled, and leaves the count; if it has set
\* the key, it awaits the release.
EndRun(r) ==
    /\ stage[r] = "running"
    /\ \/ /\ r \in token
          /\ stage' = [stage EXCEPT ![r] = "closing"]
          /\ count' = [count EXCEPT ![host[r]] = @ - 1]
          /\ UNCHANGED <<alive, host, lock, ref, owner, counted, active, token, raised>>
       \/ /\ r \notin token
          /\ Leave(r, count[host[r]] - 1)
    /\ UNCHANGED <<key, spoilt>>

\* Mutant of Close: the count is left a second time.
CloseTwice(r) ==
    /\ stage[r] = "closing"
    /\ \/ key' = IF key = r THEN None ELSE key
       \/ UNCHANGED key
    /\ Leave(r, count[host[r]] - 1)
    /\ UNCHANGED spoilt

\* _release_distributed_lock and what follows it. The script deletes the key only if
\* it is the request's own; when the call fails or is cancelled, the key stays.
Close(r) ==
    /\ stage[r] = "closing"
    /\ \/ key' = IF key = r THEN None ELSE key
       \/ UNCHANGED key
    /\ Leave(r, count[host[r]])
    /\ UNCHANGED spoilt

-------------------------------------------------------------------------------
(* Redis, and the processes.                                                 *)

\* Mutant of Renewed: acquire() starts no task that renews the key.
RenewedByNobody(r) == FALSE

\* _renew_distributed_lock keeps the key of this request alive.
Renewed(r) == stage[r] = "running" /\ r \in token

\* The TTL of a key that nobody renews passes, be it left behind or held.
ExpireKey ==
    /\ key # None
    /\ ~ Renewed(key)
    /\ key' = None
    /\ UNCHANGED <<alive, stage, host, laneVars, token, raised, spoilt>>

Stall ==
    /\ key # None
    /\ Renewed(key)
    /\ Fault("stall")
    /\ key' = None
    /\ UNCHANGED <<alive, stage, host, laneVars, token, raised>>

\* A process dies with all its requests.
Crash(p) ==
    LET gone == {r \in Requests : host[r] = p} IN
    /\ p \in alive
    /\ alive' = alive \ {p}
    /\ stage' = [r \in Requests |-> IF r \in gone THEN "done" ELSE stage[r]]
    /\ owner' = [l \in Requests |-> IF owner[l] \in gone THEN None ELSE owner[l]]
    /\ lock' = [lock EXCEPT ![p] = None]
    /\ count' = [count EXCEPT ![p] = 0]
    /\ counted' = counted \ {p}
    /\ active' = [active EXCEPT ![p] = FALSE]
    /\ UNCHANGED <<host, ref, key, token, raised, spoilt>>

\* lifespan() of a starting process clears the keys of all conversations.
Boot(p) ==
    /\ p \notin alive
    /\ Fault("boot")
    /\ alive' = alive \cup {p}
    /\ key' = None
    /\ UNCHANGED <<stage, host, laneVars, token, raised>>

Next ==
    \/ \E r \in Requests, p \in Processes : Enter(r, p)
    \/ \E r \in Requests :
          TakeLock(r) \/ SetKey(r) \/ RunWithoutKey(r) \/ GiveUp(r) \/ EndRun(r) \/ Close(r)
    \/ ExpireKey
    \/ Stall
    \/ \E p \in Processes : Crash(p) \/ Boot(p)

Spec == Init /\ [][Next]_vars

\* A lock object that is free wakes a waiter, a busy key is tried again every quarter
\* of a second, every execution ends, a release returns, and Redis keeps its TTLs.
Fairness ==
    /\ \A r \in Requests :
          WF_vars(TakeLock(r)) /\ WF_vars(SetKey(r)) /\ WF_vars(EndRun(r)) /\ WF_vars(Close(r))
    /\ WF_vars(ExpireKey)

FairSpec == Spec /\ Fairness

-------------------------------------------------------------------------------
(* Properties.                                                               *)

Running == {r \in Requests : stage[r] = "running"}

\* "Ensures only one agent execution per conversation at a time".
OneExecution == \A r, s \in Running : r = s

\* Within a process it does so whatever becomes of Redis, and although the lock
\* object may be deleted and made anew while somebody still holds the old one.
OneLocalExecution == \A r, s \in Running : host[r] = host[s] => r = s

\* Between processes it does so as long as Redis answers, keys are renewed in time
\* and no process starts: no timeout, cancellation or crash lets two executions in.
OverlapNeedsFault == ~ spoilt => OneExecution

\* What a request's stage is to those who only know that it waits or runs.
Standing(r) ==
    CASE stage[r] = "new"                   -> "away"
      [] stage[r] \in {"waiting", "setting"} -> "waits"
      [] stage[r] = "running"               -> "in"
      [] OTHER                              -> "gone"

TheLane == INSTANCE LaneLock WITH
               place <- host, at <- [r \in Requests |-> Standing(r)], sound <- ~ spoilt

\* To its requests the lane is a lock: each is let in once at most, after it has
\* waited, and only while nobody else is in, although the lane is made of an object
\* that comes and goes, a count of those who want it, and a key that expires.
IsALock == TheLane!Spec

\* "Clean up lock if no one is waiting": a process that has no request left in the
\* lane holds no lock object, no count above 0 and no active entry of the
\* conversation; and it holds no entry in _waiting_count either, unless a KeyError cut
\* the cleaning short.
NothingLeft ==
    \A p \in Processes :
        LET came == {r \in Requests : host[r] = p} IN
        (\A r \in came : stage[r] = "done") =>
            /\ lock[p] = None /\ count[p] = 0 /\ ~ active[p]
            /\ p \in counted => came \cap raised # {}

\* acquire() "Raises: asyncio.TimeoutError". A KeyError leaves it only after the
\* execution, and only one that had set the key: while such a request awaits the
\* release of its key, another one of its process may come, leave and clean up.
\* Whoever times out, is cancelled in the queue or ran without a key never sees one.
KeyErrorAfterRelease ==
    [][\A r \in raised' \ raised : stage[r] = "closing" /\ r \in token]_vars

\* A request that does not give up is executed: no lock object and no key stays
\* taken for good, whoever crashed, timed out or was cancelled while it had it.
Served ==
    \A r \in Requests : stage[r] = "waiting" ~> stage[r] \in {"running", "closing", "done"}

-------------------------------------------------------------------------------
(* Why they hold: the inductive invariant.                                   *)

\* Who has joined the count and not left it yet.
Inside(p) == {r \in Requests : host[r] = p /\ stage[r] \in {"waiting", "setting", "running"}}

Placed ==
    \A r \in Requests : stage[r] \notin {"new", "done"} =>
        host[r] \in Processes /\ ref[r] \in Requests

CountIsExact == \A p \in Processes : count[p] = Cardinality(Inside(p))

\* A lock object that somebody waits for, or runs under, is the one in _locks; only
\* those who are closing may hold another.
InsideUseTheLock == \A p \in Processes : \A r \in Inside(p) : ref[r] = lock[p]

HoldersOwn ==
    \A r \in Requests : stage[r] \in {"setting", "running", "closing"} => owner[ref[r]] = r

LockIsWanted ==
    \A p \in Processes : lock[p] # None =>
        \E r \in Requests : host[r] = p /\ stage[r] \notin {"new", "done"}

ActiveIsWanted ==
    \A p \in Processes : active[p] =>
        \E r \in Requests : host[r] = p /\ stage[r] \notin {"new", "done"}

\* An entry that is not counted in is left over from a KeyError, or will be cleaned up.
EntryIsWanted ==
    \A p \in counted :
        \E r \in Requests :
            /\ host[r] = p
            /\ stage[r] # "new"
            /\ stage[r] # "done" \/ r \in raised

ClosersHaveTokens == \A r \in Requests : stage[r] = "closing" => r \in token

RunnersHaveTheKey == ~ spoilt => \A r \in Running : key = r /\ r \in token

LaneInv ==
    /\ TypeOK
    /\ Placed
    /\ CountIsExact
    /\ InsideUseTheLock
    /\ HoldersOwn
    /\ LockIsWanted
    /\ ActiveIsWanted
    /\ EntryIsWanted
    /\ ClosersHaveTokens
    /\ RunnersHaveTheKey
===============================================================================

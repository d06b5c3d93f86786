---------------------------- MODULE CircuitBreaker ----------------------------
(***************************************************************************)
(* The circuit breaker that an LLM client or the vector database pool puts *)
(* before a provider (services/performance/circuit_breaker.py).  A lock    *)
(* makes every record and every admission atomic; what interleaves is the  *)
(* calls themselves, which are admitted in one state of the circuit and    *)
(* end in another.                                                         *)
(***************************************************************************)
EXTENDS Naturals

CONSTANTS Callers,           \* the tasks that call through the breaker
          FailureThreshold,  \* failure_threshold
          HalfOpenMax        \* half_open_max_requests

ASSUME ThresholdAssumption ==
    /\ FailureThreshold \in Nat \ {0}
    /\ HalfOpenMax \in Nat \ {0}

VARIABLES state,     \* _state
          failures,  \* _stats.consecutive_failures, as far as FailureThreshold
          wins,      \* _stats.consecutive_successes, as far as HalfOpenMax
          passed,    \* _half_open_requests
          ripe,      \* recovery_timeout has passed since _last_state_change
          calling,   \* callers between their admission and their result
          up,        \* the provider works (environment)
          hit        \* calls that were under way when it did not (environment)

counters == <<failures, wins, passed>>
vars     == <<state, counters, ripe, calling, up, hit>>

States == {"closed", "open", "half_open"}

TypeOK ==
    /\ state \in States
    /\ failures \in 0 .. FailureThreshold
    /\ wins \in 0 .. HalfOpenMax
    /\ passed \in 0 .. HalfOpenMax
    /\ ripe \in BOOLEAN
    /\ calling \subseteq Callers
    /\ up \in BOOLEAN
    /\ hit \subseteq calling

Init ==
    /\ state = "closed"
    /\ failures = 0
    /\ wins = 0
    /\ passed = 0
    /\ ripe = FALSE
    /\ calling = {}
    /\ up \in BOOLEAN
    /\ hit = {}

\* A counter that nothing compares with more than max.
Count(n, max) == IF n < max THEN n + 1 ELSE max

\* Mutant of TransitionTo: a circuit that half-opens again counts on from the last time.
TransitionToCountingOn(new, requests) ==
    /\ state' = new
    /\ ripe' = FALSE
    /\ passed' = requests

\* _transition_to, which starts the clock again; requests is what _half_open_requests
\* stands at.
TransitionTo(new, requests) ==
    /\ state' = new
    /\ ripe' = FALSE
    /\ passed' = IF new = "half_open" THEN 0 ELSE requests

\* What _check_state_transition leaves the state as.
Now == IF (state = "open" /\ ripe) THEN "half_open" ELSE state

CheckStateTransition ==
    IF Now = state
       THEN UNCHANGED <<state, ripe, passed>>
       ELSE TransitionTo(Now, passed)

\* The answer of _should_allow_request, which checks the clock first.
Allowed ==
    \/ state' = "closed"
    \/ state' = "half_open" /\ passed' < HalfOpenMax

\* _should_allow_request took a request in.
Admit(c) ==
    /\ calling' = calling \cup {c}
    /\ hit' = IF up THEN hit ELSE hit \cup {c}

\* Mutant of Call: only readers of the state property look at the clock.
CallWithoutCheck(c) ==
    /\ c \notin calling
    /\ UNCHANGED <<state, counters, ripe, up>>
    /\ \/ state # "open" /\ Admit(c)
       \/ state = "open" /\ UNCHANGED <<calling, hit>>

\* call and call_async up to the function's own call; allow_request.
Call(c) ==
    /\ c \notin calling
    /\ CheckStateTransition
    /\ \/ Allowed /\ Admit(c)
       \/ ~ Allowed /\ UNCHANGED <<calling, hit>>
    /\ UNCHANGED <<failures, wins, up>>

\* The state property: a reader moves the circuit on too.
ReadState ==
    /\ Now # state
    /\ CheckStateTransition
    /\ UNCHANGED <<failures, wins, calling, up, hit>>

\* Mutant of RecordSuccess: an off-by-one in the number of successes that close.
RecordSuccessOneMore ==
    /\ failures' = 0
    /\ wins' = Count(wins, HalfOpenMax)
    /\ IF state # "half_open" THEN UNCHANGED <<state, ripe, passed>>
       ELSE IF passed + 1 > HalfOpenMax THEN TransitionTo("closed", passed + 1)
       ELSE passed' = passed + 1 /\ UNCHANGED <<state, ripe>>

\* Mutant of RecordSuccess: the failures in a row are not forgotten.
RecordSuccessUnforgiving ==
    /\ failures' = failures
    /\ wins' = Count(wins, HalfOpenMax)
    /\ IF state # "half_open" THEN UNCHANGED <<state, ripe, passed>>
       ELSE IF passed + 1 >= HalfOpenMax THEN TransitionTo("closed", passed + 1)
       ELSE passed' = passed + 1 /\ UNCHANGED <<state, ripe>>

\* _record_success: the call returned, or raised an excluded exception.
RecordSuccess ==
    /\ failures' = 0
    /\ wins' = Count(wins, HalfOpenMax)
    /\ IF state # "half_open" THEN UNCHANGED <<state, ripe, passed>>
       ELSE IF passed + 1 >= HalfOpenMax THEN TransitionTo("closed", passed + 1)
       ELSE passed' = passed + 1 /\ UNCHANGED <<state, ripe>>

\* Mutant of RecordFailure: a failed probe does not open the circuit.
RecordFailureLenient ==
    /\ failures' = Count(failures, FailureThreshold)
    /\ wins' = 0
    /\ IF state = "closed" /\ failures' >= FailureThreshold
          THEN TransitionTo("open", passed)
          ELSE UNCHANGED <<state, ripe, passed>>

\* _record_failure.
RecordFailure ==
    /\ failures' = Count(failures, FailureThreshold)
    /\ wins' = 0
    /\ IF state = "half_open" \/ (state = "closed" /\ failures' >= FailureThreshold)
          THEN TransitionTo("open", passed)
          ELSE UNCHANGED <<state, ripe, passed>>

\* What every end of a call does, whatever it records.
Return(c) ==
    /\ c \in calling
    /\ calling' = calling \ {c}
    /\ hit' = hit \ {c}
    /\ UNCHANGED up

Succeed(c) == up /\ Return(c) /\ RecordSuccess

\* A call that was under way when the provider was down may fail long after.
FailCall(c) == c \in hit /\ Return(c) /\ RecordFailure

\* CancelledError is no Exception: a cancelled call is recorded as neither.
Cancel(c) == Return(c) /\ UNCHANGED <<state, counters, ripe>>

\* reset().
Reset ==
    /\ state' = "closed"
    /\ failures' = 0
    /\ wins' = 0
    /\ passed' = 0
    /\ ripe' = FALSE
    /\ UNCHANGED <<calling, up, hit>>

\* Time passes.
RecoveryTimeout ==
    /\ state = "open"
    /\ ~ ripe
    /\ ripe' = TRUE
    /\ UNCHANGED <<state, counters, calling, up, hit>>

\* The provider goes down or comes back.
Flip ==
    /\ up' = ~ up
    /\ hit' = IF up THEN calling ELSE hit
    /\ UNCHANGED <<state, counters, ripe, calling>>

Next ==
    \/ \E c \in Callers : Call(c) \/ Succeed(c) \/ FailCall(c) \/ Cancel(c)
    \/ ReadState
    \/ Reset
    \/ RecoveryTimeout
    \/ Flip

Spec == Init /\ [][Next]_vars

\* Time passes; calls keep coming and every one of them ends, in its result again
\* and again if there are results.
Fairness ==
    /\ WF_vars(RecoveryTimeout)
    /\ WF_vars(\E c \in Callers : Call(c))
    /\ SF_vars(\E c \in Callers : Succeed(c))

FairSpec == Spec /\ Fairness

-------------------------------------------------------------------------------
(* Properties.                                                               *)

\* A closed circuit has not seen FailureThreshold failures in a row: late failures of
\* calls that were admitted before the circuit opened keep counting while it is open
\* or half-open, and none of that is left when it closes again.
ClosedBelowThreshold == state = "closed" => failures < FailureThreshold

\* The half-open state always lets a request through, whatever became of the probes
\* before it (failed, cancelled, or still under way): no circuit stays half-open for
\* want of a request that could close or open it.
HalfOpenAdmits == state = "half_open" => passed < HalfOpenMax

\* But for reset(), the circuit closes only on HalfOpenMax successes in a row, with no
\* failure of any call, early or late, between them.
EarnedClose == [][(state = "half_open" /\ state' = "closed" /\ ~ Reset) => wins' = HalfOpenMax]_vars

\* A provider that stays up is called again, and its circuit closes for good.
Recovers == <>[]up => <>[](state = "closed")
===============================================================================

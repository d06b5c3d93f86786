------------------------- MODULE CircuitBreakerProofs -------------------------
(***************************************************************************)
(* Theorems about CircuitBreaker, for any number of callers and any        *)
(* thresholds.                                                             *)
(***************************************************************************)
EXTENDS CircuitBreaker, TLAPS

\* What a half-open circuit counts are successes in a row: no failure can have come
\* between them, for it would have opened the circuit.
PassedAreWins == state = "half_open" => passed <= wins

IInv ==
    /\ TypeOK
    /\ ClosedBelowThreshold
    /\ HalfOpenAdmits
    /\ PassedAreWins

LEMMA Zeros ==
    /\ HalfOpenMax \in Nat /\ FailureThreshold \in Nat
    /\ 0 < HalfOpenMax /\ 0 < FailureThreshold
    /\ 0 \in 0 .. HalfOpenMax /\ 0 \in 0 .. FailureThreshold
BY ThresholdAssumption

LEMMA CountType ==
    ASSUME NEW max \in Nat, NEW n \in 0 .. max
    PROVE  /\ Count(n, max) \in 0 .. max
           /\ Count(n, max) >= n
           /\ n < max => Count(n, max) = n + 1
BY DEF Count

LEMMA TransitionKeepsInv ==
    ASSUME IInv, CheckStateTransition, UNCHANGED <<failures, wins, up>>,
           hit' \subseteq calling', calling' \subseteq Callers
    PROVE  IInv'
<1>1. CASE Now = state
  BY <1>1 DEF IInv, TypeOK, ClosedBelowThreshold, HalfOpenAdmits, PassedAreWins,
              CheckStateTransition
<1>2. CASE Now # state
  <2>1. /\ state = "open" /\ state' = "half_open"
        /\ passed' = 0
        /\ ripe' = FALSE
    BY <1>2 DEF Now, CheckStateTransition, TransitionTo
  <2>2. TypeOK'
    BY <2>1, Zeros DEF IInv, TypeOK, States
  <2>3. 0 <= wins /\ wins' = wins
    BY DEF IInv, TypeOK
  <2>4. QED
    BY <2>1, <2>2, <2>3, Zeros DEF IInv, ClosedBelowThreshold, HalfOpenAdmits, PassedAreWins
<1>3. QED
  BY <1>1, <1>2

LEMMA SuccessKeepsInv ==
    ASSUME IInv, RecordSuccess, UNCHANGED up,
           hit' \subseteq calling', calling' \subseteq Callers
    PROVE  IInv' /\ (state = "half_open" /\ state' = "closed" => wins' = HalfOpenMax)
<1>1. /\ wins \in 0 .. HalfOpenMax /\ passed \in 0 .. HalfOpenMax
      /\ HalfOpenMax \in Nat \ {0} /\ FailureThreshold \in Nat \ {0}
  BY ThresholdAssumption DEF IInv, TypeOK
<1>2. /\ wins' = Count(wins, HalfOpenMax)
      /\ Count(wins, HalfOpenMax) \in 0 .. HalfOpenMax
      /\ Count(wins, HalfOpenMax) >= wins
      /\ wins < HalfOpenMax => Count(wins, HalfOpenMax) = wins + 1
      /\ failures' = 0
  BY <1>1, CountType DEF RecordSuccess
<1>3. CASE state # "half_open"
  BY <1>1, <1>2, <1>3
     DEF IInv, TypeOK, ClosedBelowThreshold, HalfOpenAdmits, PassedAreWins, RecordSuccess
<1>4. CASE state = "half_open" /\ passed + 1 >= HalfOpenMax
  <2>1. passed < HalfOpenMax /\ passed <= wins
    BY <1>4 DEF IInv, HalfOpenAdmits, PassedAreWins
  <2>2. passed + 1 \in 0 .. HalfOpenMax /\ wins' = HalfOpenMax
    BY <1>1, <1>2, <1>4, <2>1
  <2>3. state' = "closed" /\ ripe' = FALSE /\ passed' = passed + 1
    BY <1>4 DEF RecordSuccess, TransitionTo
  <2>4. QED
    BY <1>2, <2>2, <2>3, Zeros
       DEF IInv, TypeOK, States, ClosedBelowThreshold, HalfOpenAdmits, PassedAreWins
<1>5. CASE state = "half_open" /\ ~ (passed + 1 >= HalfOpenMax)
  BY <1>1, <1>2, <1>5
     DEF IInv, TypeOK, States, ClosedBelowThreshold, HalfOpenAdmits, PassedAreWins,
         RecordSuccess
<1>6. QED
  BY <1>3, <1>4, <1>5

LEMMA FailureKeepsInv ==
    ASSUME IInv, RecordFailure, UNCHANGED up,
           hit' \subseteq calling', calling' \subseteq Callers
    PROVE  IInv' /\ (state' = "closed" => state = "closed")
<1>1. /\ failures \in 0 .. FailureThreshold
      /\ HalfOpenMax \in Nat \ {0} /\ FailureThreshold \in Nat \ {0}
  BY ThresholdAssumption DEF IInv, TypeOK
<1>2. /\ failures' = Count(failures, FailureThreshold)
      /\ failures' \in 0 .. FailureThreshold
      /\ wins' = 0
  BY <1>1, CountType DEF RecordFailure
<1>3. CASE state = "half_open" \/ (state = "closed" /\ failures' >= FailureThreshold)
  BY <1>1, <1>2, <1>3, Zeros
     DEF IInv, TypeOK, States, ClosedBelowThreshold, HalfOpenAdmits, PassedAreWins,
         RecordFailure, TransitionTo
<1>4. CASE ~ (state = "half_open" \/ (state = "closed" /\ failures' >= FailureThreshold))
  BY <1>1, <1>2, <1>4, Zeros
     DEF IInv, TypeOK, States, ClosedBelowThreshold, HalfOpenAdmits, PassedAreWins,
         RecordFailure
<1>5. QED
  BY <1>3, <1>4

\* One step, whichever: the invariant stays, and a circuit that closes has earned it.
LEMMA StepIInv ==
    ASSUME IInv, [Next]_vars
    PROVE  /\ IInv'
           /\ (state = "half_open" /\ state' = "closed" /\ ~ Reset) => wins' = HalfOpenMax
<1>0. /\ hit \subseteq calling /\ calling \subseteq Callers
      /\ HalfOpenMax \in Nat \ {0} /\ FailureThreshold \in Nat \ {0}
  BY ThresholdAssumption DEF IInv, TypeOK
<1>1. ASSUME NEW c \in Callers, Call(c)
      PROVE  IInv' /\ (state = "half_open" => state' = "half_open")
  <2>1. hit' \subseteq calling' /\ calling' \subseteq Callers
    BY <1>0, <1>1 DEF Call, Admit
  <2>2. QED
    BY <1>1, <2>1, TransitionKeepsInv DEF Call, CheckStateTransition, Now
<1>2. ASSUME NEW c \in Callers, Succeed(c)
      PROVE  IInv' /\ (state = "half_open" /\ state' = "closed" => wins' = HalfOpenMax)
  BY <1>0, <1>2, SuccessKeepsInv DEF Succeed, Return
<1>3. ASSUME NEW c \in Callers, FailCall(c)
      PROVE  IInv' /\ (state' = "closed" => state = "closed")
  BY <1>0, <1>3, FailureKeepsInv DEF FailCall, Return
<1>4. ASSUME NEW c \in Callers, Cancel(c)
      PROVE  IInv' /\ state' = state
  BY <1>0, <1>4 DEF Cancel, Return, counters, IInv, TypeOK, ClosedBelowThreshold, HalfOpenAdmits,
                    PassedAreWins
<1>5. CASE ReadState
  <2>1. IInv'
    BY <1>0, <1>5, TransitionKeepsInv DEF ReadState
  <2>2. state # "half_open"
    BY <1>5 DEF ReadState, Now
  <2>3. QED
    BY <2>1, <2>2
<1>6. CASE Reset
  BY <1>6, Zeros DEF Reset, IInv, TypeOK, States, ClosedBelowThreshold, HalfOpenAdmits,
                    PassedAreWins
<1>7. CASE RecoveryTimeout
  BY <1>7 DEF RecoveryTimeout, counters, IInv, TypeOK, ClosedBelowThreshold, HalfOpenAdmits,
              PassedAreWins
<1>8. CASE Flip
  BY <1>8 DEF Flip, counters, IInv, TypeOK, ClosedBelowThreshold, HalfOpenAdmits, PassedAreWins
<1>9. CASE UNCHANGED vars
  BY <1>9 DEF vars, counters, IInv, TypeOK, ClosedBelowThreshold, HalfOpenAdmits, PassedAreWins
<1>10. QED
  BY <1>1, <1>2, <1>3, <1>4, <1>5, <1>6, <1>7, <1>8, <1>9 DEF Next

LEMMA InitIInv == Init => IInv
BY Zeros
   DEF Init, IInv, TypeOK, States, ClosedBelowThreshold, HalfOpenAdmits, PassedAreWins

THEOREM BreakerInvariant == Spec => []IInv
<1>1. IInv /\ [Next]_vars => IInv'
  BY StepIInv
<1>2. QED
  BY <1>1, InitIInv, PTL DEF Spec

\* Every counter, flag and set of calls of the breaker keeps its type.
THEOREM TypeCorrect == Spec => []TypeOK
<1>1. IInv => TypeOK
  BY DEF IInv
<1>2. QED
  BY <1>1, BreakerInvariant, PTL

\* No circuit stays half-open because it has run out of requests to let through.
THEOREM HalfOpenNeverWedges == Spec => []HalfOpenAdmits
<1>1. IInv => HalfOpenAdmits
  BY DEF IInv
<1>2. QED
  BY <1>1, BreakerInvariant, PTL

\* A circuit that is closed has seen fewer failures in a row than would open it.
THEOREM ClosedIsHealthy == Spec => []ClosedBelowThreshold
<1>1. IInv => ClosedBelowThreshold
  BY DEF IInv
<1>2. QED
  BY <1>1, BreakerInvariant, PTL

\* A circuit closes on as many successes in a row as it asks for, or by reset().
THEOREM ClosingIsEarned == Spec => EarnedClose
<1>1. IInv /\ [Next]_vars
        => [(state = "half_open" /\ state' = "closed" /\ ~ Reset) => wins' = HalfOpenMax]_vars
  BY StepIInv
<1>2. QED
  BY <1>1, BreakerInvariant, PTL DEF Spec, EarnedClose
===============================================================================

----------------------------- MODULE ApprovalOnce -----------------------------
(***************************************************************************)
(* What the approval of an action promises those who ask and those who     *)
(* answer: a request is decided once, and performed once, when it has been *)
(* approved.  Two decisions may contest each other, and two flows share an *)
(* approval: it is these that loosen the promise, and nothing else.        *)
(***************************************************************************)
EXTENDS Naturals

CONSTANT Rows

VARIABLES decision,   \* of each request: "none" before it is made, "pending", or what it is
          late,       \* the requests whose time is over
          times,      \* how often each was performed
          contested,  \* a decision was made on a request that had one
          shared      \* two flows found one approval

promise == <<decision, late, times, contested, shared>>

Init ==
    /\ decision = [r \in Rows |-> "none"]
    /\ late = {}
    /\ times = [r \in Rows |-> 0]
    /\ contested = FALSE
    /\ shared = FALSE

Make(r) ==
    /\ decision[r] = "none"
    /\ decision' = [decision EXCEPT ![r] = "pending"]
    /\ UNCHANGED <<late, times, contested, shared>>

\* It is too late for a request only when its time is over; an answer may still count then.
Decide(r, d) ==
    /\ decision[r] # "none"
    /\ d = "expired" => r \in late
    /\ contested' = (contested \/ decision[r] # "pending")
    /\ decision' = [decision EXCEPT ![r] = d]
    /\ UNCHANGED <<late, times, shared>>

Lapse(r) ==
    /\ decision[r] # "none"
    /\ r \notin late
    /\ late' = late \cup {r}
    /\ UNCHANGED <<decision, times, contested, shared>>

Act(r) ==
    /\ decision[r] = "approved" \/ contested
    /\ times[r] = 0 \/ contested \/ shared
    /\ times' = [times EXCEPT ![r] = @ + 1]
    /\ UNCHANGED <<decision, late, contested, shared>>

Share ==
    /\ ~ shared
    /\ shared' = TRUE
    /\ \E r \in Rows : decision[r] = "approved" \/ contested
    /\ UNCHANGED <<decision, late, times, contested>>

\* Most of what an implementation does is this: it stands first for the model checker,
\* which tries the disjuncts in order.
Nothing == UNCHANGED promise

Next ==
    \/ Nothing
    \/ \E r \in Rows :
          \/ Make(r) \/ Lapse(r) \/ Act(r)
          \/ \E d \in {"approved", "rejected", "expired"} : Decide(r, d)
    \/ Share

Spec == Init /\ [][Next]_promise

===============================================================================

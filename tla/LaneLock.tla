-------------------------------- MODULE LaneLock -------------------------------
(***************************************************************************)
(* What the lane of a conversation promises the requests that enter it: a  *)
(* lock that each of them is given once at most.  It spans the processes   *)
(* as long as it is sound; it always holds within each of them.            *)
(***************************************************************************)
CONSTANTS Requests, Processes, None

VARIABLES place,   \* the process of each request that has come
          at,      \* whether a request is "away", "waits", is "in" or "gone"
          sound    \* the lock spans the processes

lockVars == <<place, at, sound>>

In == {r \in Requests : at[r] = "in"}

Init ==
    /\ place = [r \in Requests |-> None]
    /\ at = [r \in Requests |-> "away"]
    /\ sound = TRUE

Arrive(r, p) ==
    /\ at[r] = "away"
    /\ at' = [at EXCEPT ![r] = "waits"]
    /\ place' = [place EXCEPT ![r] = p]
    /\ UNCHANGED sound

\* Nobody else is in, here or anywhere. Admitting may be what breaks the lock.
Admit(r) ==
    /\ at[r] = "waits"
    /\ \A s \in In : place[s] # place[r]
    /\ at' = [at EXCEPT ![r] = "in"]
    /\ sound' \in {sound, FALSE}
    /\ sound' => In = {}
    /\ UNCHANGED place

\* It gives up, or its execution is over.
Depart(r) ==
    /\ at[r] \in {"waits", "in"}
    /\ at' = [at EXCEPT ![r] = "gone"]
    /\ UNCHANGED <<place, sound>>

Die(p) ==
    /\ at' = [r \in Requests |-> IF place[r] = p THEN "gone" ELSE at[r]]
    /\ UNCHANGED <<place, sound>>

Break ==
    /\ sound' = FALSE
    /\ UNCHANGED <<place, at>>

Next ==
    \/ \E r \in Requests, p \in Processes : Arrive(r, p)
    \/ \E r \in Requests : Admit(r) \/ Depart(r)
    \/ \E p \in Processes : Die(p)
    \/ Break

Spec == Init /\ [][Next]_lockVars

===============================================================================

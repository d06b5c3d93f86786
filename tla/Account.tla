------------------------------- MODULE Account --------------------------------
(***************************************************************************)
(* What the credit ledger promises its callers: an account on which every  *)
(* operation takes effect at once.  It is never overdrawn, and a message   *)
(* is billed at most once, for exactly its cost.                           *)
(***************************************************************************)
EXTENDS Naturals

CONSTANTS Opening,   \* what an account may open with, if not with nothing
          Messages,  \* the messages that may be billed
          Cost,      \* the credits one message costs
          Grants,    \* the amounts a tenant may be given
          Prices     \* the amounts a tenant may pay for access to an agent

VARIABLES available,  \* what the tenant can spend
          used,       \* what has been spent since the last renewal
          billed      \* the messages that have been paid for

accountVars == <<available, used, billed>>

Init ==
    /\ available \in {0, Opening}
    /\ used = 0
    /\ billed = {}

Grant(n) ==
    /\ available' = available + n
    /\ UNCHANGED <<used, billed>>

Pay(n) ==
    /\ n <= available
    /\ available' = available - n
    /\ used' = used + n

Purchase(n) ==
    /\ Pay(n)
    /\ UNCHANGED billed

Bill(m) ==
    /\ m \notin billed
    /\ Pay(Cost)
    /\ billed' = billed \cup {m}

\* A renewal takes back what has been spent.
Renew ==
    /\ available' = available + used
    /\ used' = 0
    /\ UNCHANGED billed

Next ==
    \/ \E n \in Grants : Grant(n)
    \/ \E n \in Prices : Purchase(n)
    \/ \E m \in Messages : Bill(m)
    \/ Renew

Spec == Init /\ [][Next]_accountVars

===============================================================================

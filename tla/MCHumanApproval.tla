---------------------------- MODULE MCHumanApproval ----------------------------
(***************************************************************************)
(* Model checking of HumanApproval: rows, actions, flows and responders    *)
(* are interchangeable, no definition tells one from another.              *)
(***************************************************************************)
EXTENDS HumanApproval, TLC

Symmetry == UNION {Permutations(S) : S \in {Rows, Actions, Slots, Responders}}

\* Both invariants hold of every state after a decision was overturned, which stays so:
\* such a state, and the step to it, is checked and not explored further.
NotOverturned == ~ overturned

===============================================================================

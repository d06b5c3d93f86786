------------------------------- MODULE MCDebate -------------------------------
(***************************************************************************)
(* Instances of Debate for TLC.                                            *)
(***************************************************************************)
EXTENDS Debate

CONSTANTS a, b, e1, c1

\* Two agents of the owner, which is the least a debate can be created with.
MCInternal == <<a, b>>

===============================================================================

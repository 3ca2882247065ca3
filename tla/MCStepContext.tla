---------------------------- MODULE MCStepContext ----------------------------
(***************************************************************************)
(* Three steps in any order and one key, which is in the input of the      *)
(* flow.                                                                   *)
(***************************************************************************)
EXTENDS StepContext, TLC

CONSTANTS a, b, c, key, input

FlowInput == [k \in Key |-> input]

\* The steps are alike.
Alike == Permutations(Name)
===============================================================================

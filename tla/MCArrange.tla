------------------------------ MODULE MCArrange ------------------------------
(***************************************************************************)
(* A process of up to four steps, three of which may come from another     *)
(* process that has any acyclic arrangement.                               *)
(***************************************************************************)
EXTENDS Arrange, TLC

CONSTANTS a, b, c, d

\* The names of the merged steps are alike.
Alike == Permutations(MergedName)
===============================================================================

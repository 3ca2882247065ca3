---------------------------- MODULE MCCallbackChain ----------------------------
(***************************************************************************)
(* Chains of several lengths: a must callback that is not the first of its *)
(* chain, one in a later chain, and a non-must callback behind a must one. *)
(***************************************************************************)
EXTENDS CallbackChain

Lengths == <<2, 2, 1, 2, 2, 0>>
Musts == <<2, 1, 0, 2, 2, 0>>
===============================================================================

---------------------------- MODULE MCFlowRecovery ----------------------------
(***************************************************************************)
(* Instances of FlowRecovery for TLC.                                      *)
(***************************************************************************)
EXTENDS FlowRecovery

CONSTANTS a, b, c, d

\* a and b join in c, and d comes after c: two levels downstream of a root.
Stem == [s \in {a, b, c, d} |-> CASE s = c -> {a, b} [] s = d -> {c}
                                  [] OTHER -> {}]
\* a, then b.
Chain == [s \in {a, b} |-> IF s = b THEN {a} ELSE {}]

NoRetry == [s \in Step |-> 0]
NoExcludes == [s \in Step |-> {}]
NoFaults == [s \in Step |-> {}]
Nobody == {}
OnlyB == {b}
\* a may fail in its body and its callbacks, b may be passed over by its
\* condition, c may fail in its body.
Mixed == [s \in Step |->
            CASE s = a -> {"error", "before", "after"}
              [] s = b -> {"unmet"}
              [] s = c -> {"error"}
              [] OTHER -> {}]
===============================================================================

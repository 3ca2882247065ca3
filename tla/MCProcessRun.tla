----------------------------- MODULE MCProcessRun -----------------------------
(***************************************************************************)
(* Instances of ProcessRun for TLC.  Every graph has the shapes that make  *)
(* the countdown interesting: a step with two dependencies, a step with    *)
(* two dependents, and a step unrelated to a failing one.                  *)
(***************************************************************************)
EXTENDS ProcessRun

CONSTANTS a, b, c, d

\* a and b join in c; b also leads to d.
Join == [s \in {a, b, c, d} |-> CASE s = c -> {a, b} [] s = d -> {b}
                                  [] OTHER -> {}]
\* a and b join in c.
Vee == [s \in {a, b, c} |-> IF s = c THEN {a, b} ELSE {}]
\* a, then b.
Chain == [s \in {a, b} |-> IF s = b THEN {a} ELSE {}]

NoRetry == [s \in Step |-> 0]
RetryA == [s \in Step |-> IF s = a THEN 1 ELSE 0]
NoExcludes == [s \in Step |-> {}]
ExcludeC == [s \in Step |-> IF s = a THEN {c} ELSE {}]
AAndB == {a, b}
Nobody == {}

\* What the user code may do: nothing wrong; errors of a, panics and failing
\* callbacks of b, and conditions of a and b that may miss; a hangs until its timeout.
NoFaults == [s \in Step |-> {}]
FailUnmet == [s \in Step |-> CASE s = a -> {"error", "unmet"}
                               [] s = b -> {"before", "panic", "unmet"}
                               [] OTHER -> {}]
HangTimeout == [s \in Step |-> IF s = a THEN {"hang", "timeout"} ELSE {}]
===============================================================================

-------------------------------- MODULE UnitRun --------------------------------
(***************************************************************************)
(* What the callbacks promise to the execution of a unit -- a step, or a   *)
(* process or flow -- without chains and indices: its before callbacks,    *)
(* its body and its after callbacks are one move each, and the break point *)
(* is one of the values that ProcessRun and FlowRecovery compute with.     *)
(***************************************************************************)
VARIABLES kind,       \* "step", or "process" for a process or a flow
          place,      \* "before", "body", "after" or "end"
          recovering, \* the unit has Recovering
          fail,       \* the unit has CallbackFail
          body,       \* the body when it was last reached: "none", "ok" or "failed"
          point       \* the break point, see BreakPoint of ProcessRun

vars == <<kind, place, recovering, fail, body, point>>

NewPoint == {"newBefore", "newRun", "newAfter"}

Init == /\ kind \in {"step", "process"}
        /\ place = "before" /\ recovering = FALSE /\ fail = FALSE
        /\ body = "none" /\ point = "none"

\* The first failure of an execution is the one that is recorded.
Recorded(new) == IF point \in NewPoint THEN point ELSE new

Fails(new) == /\ fail' = TRUE
              /\ point' = Recorded(new)
              /\ place' = "end"
              /\ UNCHANGED <<kind, recovering, body>>

Passes(next) == /\ place' = next
                /\ UNCHANGED <<kind, recovering, fail, body, point>>

BeforePass == place = "before" /\ Passes("body")

\* A recovery calls before callbacks only where one had failed -- or for a step
\* of whose failure nothing is known.
BeforeFail == /\ place = "before"
              /\ recovering => \/ point = "oldBefore"
                               \/ kind = "step" /\ point = "none"
              /\ Fails("newBefore")

\* The body is passed over when the failure lies behind it.
Over == /\ recovering /\ point \in {"oldAfter", "newAfter"}
        /\ kind = "step" \/ body = "ok"

Body == /\ place = "body" /\ place' = "after"
        /\ \/ body' = "ok" /\ UNCHANGED point
           \/ /\ ~Over
              /\ body' = "failed"
              /\ point' = IF kind = "step" THEN "newRun" ELSE point
        /\ UNCHANGED <<kind, recovering, fail>>

AfterPass == place = "after" /\ Passes("end")

AfterFail == place = "after" /\ Fails("newAfter")

\* A checkpoint keeps what this execution has recorded; it is old when reloaded.
Reloaded == CASE point = "newBefore" -> "oldBefore"
              [] point = "newRun" -> "oldRun"
              [] point = "newAfter" -> "oldAfter"
              [] OTHER -> "none"

Recover == /\ place = "end" /\ (fail \/ body = "failed")
           /\ place' = "before"
           /\ recovering' = TRUE /\ fail' = FALSE
           /\ point' = Reloaded
           /\ UNCHANGED <<kind, body>>

Next == BeforePass \/ BeforeFail \/ Body \/ AfterPass \/ AfterFail \/ Recover

Spec == Init /\ [][Next]_vars
===============================================================================

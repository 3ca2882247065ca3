------------------------------- MODULE TaskGraph -------------------------------
(***************************************************************************)
(* What a process promises to the person who arranged its steps, without   *)
(* goroutines, counters or status words: every step is taken up once,      *)
(* after all the steps it depends on are finished, and the process is      *)
(* called a success only when nothing is left to do.                       *)
(***************************************************************************)
CONSTANTS Step,     \* the steps of one process
          Depends   \* Depends[s]: the steps s was arranged to come after

VARIABLES phase,    \* phase[s]: "waiting", "running" or "finished"
          result    \* what the process reports: "none", "success" or "failed"

vars == <<phase, result>>

TypeOK == /\ phase \in [Step -> {"waiting", "running", "finished"}]
          /\ result \in {"none", "success", "failed"}

Init == /\ phase = [s \in Step |-> "waiting"]
        /\ result = "none"

\* A step is taken up when everything it depends on is finished.
Start(s) == /\ phase[s] = "waiting"
            /\ \A d \in Depends[s] : phase[d] = "finished"
            /\ phase' = [phase EXCEPT ![s] = "running"]
            /\ UNCHANGED result

Finish(s) == /\ phase[s] = "running"
             /\ phase' = [phase EXCEPT ![s] = "finished"]
             /\ UNCHANGED result

\* Success is reported only when every step is finished.
Succeed == /\ result = "none"
           /\ \A s \in Step : phase[s] = "finished"
           /\ result' = "success"
           /\ UNCHANGED phase

\* A process may give up early: timeout or a failed callback.
Fail == /\ result = "none"
        /\ result' = "failed"
        /\ UNCHANGED phase

Next == \/ \E s \in Step : Start(s) \/ Finish(s)
        \/ Succeed
        \/ Fail

Spec == Init /\ [][Next]_vars

\* A recovery begins the graph anew; every execution keeps the promises.
Again == Init'

SpecAgain == Init /\ [][Next \/ Again]_vars

\* Order: nothing is taken up before what it depends on is finished.
InOrder == \A s \in Step : phase[s] # "waiting" =>
               \A d \in Depends[s] : phase[d] = "finished"
===============================================================================

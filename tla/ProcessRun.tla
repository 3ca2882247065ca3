------------------------------ MODULE ProcessRun ------------------------------
(***************************************************************************)
(* The execution of one process (flow/process_run.go): the goroutine of    *)
(* schedule(), one goroutine per running step, the goroutine that runs the *)
(* step's function, and the callers of Stop, Pause and Resume.             *)
(*                                                                         *)
(* A step of TLA+ is the code between two points where another goroutine   *)
(* can change or observe what it reads: a read of a status word, an atomic *)
(* decrement of the waiting counter, a call of user code.                  *)
(***************************************************************************)
EXTENDS Integers, FiniteSets, Status

CONSTANTS
    Step,           \* the steps of the process
    None,           \* "no step", the nil *runStep
    Depends,        \* Depends[s]: StepMeta.depends
    Retry,          \* Retry[s]: stepRetry, extra attempts after an error
    Faults,         \* Faults[s]: what the user code of s may do wrong
    SkipDeps,       \* the steps whose condition has skipWithDependents
    Excludes,       \* Excludes[s]: the exclude list of s's condition
    Recoverable,    \* isRecoverable() of the flow
    ProcFaults,     \* what may go wrong at the level of the process
    Controls,       \* the controller calls that may arrive
    MaxPauses       \* bound on the number of Pause calls

StepFault == {"error", "panic", "timeout", "before", "after", "unmet", "hang"}

ASSUME StepAssumption == IsFiniteSet(Step) /\ None \notin Step
ASSUME GraphAssumption == Depends \in [Step -> SUBSET Step]
ASSUME ConfigAssumption ==
    /\ Retry \in [Step -> Nat]
    /\ Faults \in [Step -> SUBSET StepFault]
    /\ SkipDeps \subseteq Step
    /\ Excludes \in [Step -> SUBSET Step]
    /\ Recoverable \in BOOLEAN
    /\ ProcFaults \subseteq {"before", "after", "timeout"}
    /\ Controls \subseteq {"Stop", "Pause"}
    /\ MaxPauses \in Nat

VARIABLES
    ppc,        \* where the goroutine of schedule() is
    pstat,      \* status word of the process
    pbp,        \* break point of the process, see BreakPoint
    managed,    \* the calls of manageResources made so far
    flowSuspend,\* the process has raised Suspend on its flow
    running,    \* the WaitGroup process.running
    pauses,     \* number of Pause calls so far
    pc,         \* pc[s]: where the goroutine that executes s is
    stat,       \* stat[s]: status word of s
    waiting,    \* waiting[s]: the counter in s.segments
    todo,       \* todo[s]: the waiters startNextSteps(s) has not reached
    cancel,     \* cancel[s], skip[s], to[s], left[s], bind[s]: the local
    skip,       \*   variables of startNextSteps(s) -- whether to cancel and
    to,         \*   to skip the waiters, the waiter in hand, the count that
    left,       \*   addWaiting returned for it, and the step that will
    bind,       \*   take over this goroutine
    worker,     \* worker[s]: the goroutine of runStep(s)
    tries,      \* tries[s]: failed attempts of the function of s
    excluded,   \* the steps named by an exclude mark in the context
    bp          \* bp[s]: break point of s

procVars == <<ppc, pstat, pbp, managed, flowSuspend, running, pauses>>
frame == <<cancel, skip, to, left, bind>>
stepVars == <<pc, stat, waiting, todo, frame, worker, tries, excluded, bp>>
vars == <<procVars, stepVars>>

(***************************************************************************)
(* A break point says where a recovery re-enters a unit.  "before", "run"  *)
(* and "after" name the callback chain or the body that failed; only       *)
(* "after" has SkipRun.  An "old" one was loaded from a checkpoint (Used), *)
(* a "new" one was recorded by this execution.                             *)
(***************************************************************************)
OldPoint == {"oldBefore", "oldRun", "oldAfter"}
NewPoint == {"newBefore", "newRun", "newAfter"}
BreakPoint == {"none"} \cup OldPoint \cup NewPoint

\* StepMeta.waiters, the steps that wait for d.
Waiters(d) == {s \in Step : d \in Depends[s]}

Suspended(status) == IF Recoverable THEN status \cup {"Suspend"} ELSE status

\* What funcChain.filter raises when a must callback fails.
BeforeFailed(status) == Suspended(status \cup {"CallbackFail", "Cancel"})
AfterFailed(status) == Suspended(status \cup {"CallbackFail"})

\* Mutant: a later failure overwrites the break point of an earlier one.
RecordedAlways(old, new) == IF ~Recoverable THEN old ELSE new

\* funcChain.filter keeps a break point this execution has already recorded.
Recorded(old, new) == IF ~Recoverable \/ old \in NewPoint THEN old ELSE new

(***************************************************************************)
(* The process as buildRunFlow leaves it.  A recovered process starts from *)
(* the states that module FlowRecovery derives from a checkpoint.          *)
(***************************************************************************)
Init == /\ pstat = {} /\ pbp = "none"
        /\ stat = [s \in Step |-> {}]
        /\ bp = [s \in Step |-> "none"]
        /\ ppc = "init" /\ managed = {} /\ flowSuspend = FALSE
        /\ running = Cardinality(Step) /\ pauses = 0
        /\ pc = [s \in Step |-> "wait"]
        /\ waiting = [s \in Step |-> Cardinality(Depends[s])]
        /\ todo = [s \in Step |-> Waiters(s)]
        /\ cancel = [s \in Step |-> FALSE] /\ skip = [s \in Step |-> FALSE]
        /\ to = [s \in Step |-> None] /\ left = [s \in Step |-> 0]
        /\ bind = [s \in Step |-> None]
        /\ worker = [s \in Step |-> "none"]
        /\ tries = [s \in Step |-> 0]
        /\ excluded = {}

-------------------------------------------------------------------------------
(***************************************************************************)
(* The goroutine of schedule().                                            *)
(***************************************************************************)
Begin == /\ ppc = "init"
         /\ IF "executed" \in pstat
            THEN ppc' = "final" /\ UNCHANGED managed
            ELSE /\ ppc' = "before"
                 /\ managed' = IF "Recovering" \in pstat
                               THEN managed \cup {"recover"} ELSE managed
         /\ UNCHANGED <<pstat, pbp, flowSuspend, running, pauses, stepVars>>

BeforeProcessPass == /\ ppc = "before"
                     /\ ppc' = "spawn"
                     /\ UNCHANGED <<pstat, pbp, managed, flowSuspend, running,
                                    pauses, stepVars>>

\* The chain is run again by a recovery only from a break point of its own.
BeforeProcessFail ==
    /\ ppc = "before" /\ "before" \in ProcFaults
    /\ "Recovering" \in pstat => pbp = "oldBefore"
    /\ pstat' = BeforeFailed(pstat)
    /\ pbp' = Recorded(pbp, "newBefore")
    /\ ppc' = "final"
    /\ UNCHANGED <<managed, flowSuspend, running, pauses, stepVars>>

\* Mutant: the counter is read instead of the layer.
SpawnAtZero(s) == /\ ppc = "spawn" /\ waiting[s] = 0 /\ pc[s] = "wait"
                  /\ pc' = [pc EXCEPT ![s] = "start"]
                  /\ UNCHANGED <<procVars, stat, waiting, todo, frame, worker,
                                 tries, excluded, bp>>

\* A goroutine for each step of the first layer.
Spawn(s) == /\ ppc = "spawn" /\ Depends[s] = {} /\ pc[s] = "wait"
            /\ pc' = [pc EXCEPT ![s] = "start"]
            /\ UNCHANGED <<procVars, stat, waiting, todo, frame, worker, tries,
                           excluded, bp>>

Spawned == /\ ppc = "spawn"
           /\ \A s \in Step : Depends[s] = {} => pc[s] # "wait"
           /\ ppc' = "wait"
           /\ UNCHANGED <<pstat, pbp, managed, flowSuspend, running, pauses,
                          stepVars>>

\* Mutant: only a step with an error fails the process.
VerdictError(status) ==
    IF Normal(status) /\ \A s \in Step : "Error" \notin stat[s]
    THEN status \cup {"Success"} ELSE status \cup {"Failed"}

\* Mutant: a flag that no status word has.
VerdictFlag(status) == status \cup {"Complete"}

\* The end of waitFinish: Failed for an abnormal step, else Success.
Verdict(status) ==
    LET judged == IF \A s \in Step : Normal(stat[s]) THEN status
                  ELSE status \cup {"Failed"}
    IN IF Normal(judged) THEN judged \cup {"Success"} ELSE judged

\* Mutant: a stopped process does not wait for its steps.
AllFinishedOrStopped == /\ ppc = "wait" /\ (running = 0 \/ "Stop" \in pstat)
                        /\ pstat' = Verdict(pstat)
                        /\ ppc' = "after"
                        /\ UNCHANGED <<pbp, managed, flowSuspend, running,
                                       pauses, stepVars>>

AllFinished == /\ ppc = "wait" /\ running = 0
               /\ pstat' = Verdict(pstat)
               /\ ppc' = "after"
               /\ UNCHANGED <<pbp, managed, flowSuspend, running, pauses,
                              stepVars>>

ProcessTimeout == /\ ppc = "wait" /\ "timeout" \in ProcFaults
                  /\ pstat' = Verdict(pstat \cup {"Timeout"})
                  /\ ppc' = "after"
                  /\ UNCHANGED <<pbp, managed, flowSuspend, running, pauses,
                                 stepVars>>

AfterProcess ==
    /\ ppc = "after"
    /\ \/ UNCHANGED <<pstat, pbp>>
       \/ /\ "after" \in ProcFaults
          /\ pstat' = AfterFailed(pstat)
          /\ pbp' = Recorded(pbp, "newAfter")
    /\ ppc' = "final"
    /\ UNCHANGED <<managed, flowSuspend, running, pauses, stepVars>>

Finalize ==
    /\ ppc = "final"
    /\ flowSuspend' = (flowSuspend \/ "Suspend" \in pstat)
    /\ managed' = managed \cup {"release"} \cup
                  (IF "Suspend" \in pstat THEN {"suspend"} ELSE {})
    /\ ppc' = "end"
    /\ UNCHANGED <<pstat, pbp, running, pauses, stepVars>>

(***************************************************************************)
(* The controller: any goroutine of the user, at any time.                 *)
(***************************************************************************)
Stop == /\ "Stop" \in Controls /\ "Stop" \notin pstat
        /\ pstat' = pstat \cup {"Stop"}
        /\ UNCHANGED <<ppc, pbp, managed, flowSuspend, running, pauses,
                       stepVars>>

Pause == /\ "Pause" \in Controls /\ "Pause" \notin pstat /\ pauses < MaxPauses
         /\ pstat' = pstat \cup {"Pause"}
         /\ pauses' = pauses + 1
         /\ UNCHANGED <<ppc, pbp, managed, flowSuspend, running, stepVars>>

Resume == /\ "Pause" \in pstat
          /\ pstat' = pstat \ {"Pause"}
          /\ UNCHANGED <<ppc, pbp, managed, flowSuspend, running, pauses,
                         stepVars>>
-------------------------------------------------------------------------------
(***************************************************************************)
(* The goroutine that executes step s: startStep.                          *)
(***************************************************************************)
\* An executed or a cancelled step is left at once.
Enter(s) == /\ pc[s] = "start"
            /\ pc' = [pc EXCEPT ![s] =
                  IF stat[s] \cap {"executed", "Cancel"} # {}
                  THEN "settle" ELSE "gate"]
            /\ UNCHANGED <<procVars, stat, waiting, todo, frame, worker, tries,
                           excluded, bp>>

\* Mutant: the gate asks for the timeout only.
GateTimeout(s) == /\ pc[s] = "gate"
                  /\ IF "Timeout" \notin pstat
                     THEN pc' = [pc EXCEPT ![s] = "cond"] /\ UNCHANGED stat
                     ELSE /\ pc' = [pc EXCEPT ![s] = "settle"]
                          /\ stat' = [stat EXCEPT ![s] = @ \cup {"Stop"}]
                  /\ UNCHANGED <<procVars, waiting, todo, frame, worker, tries,
                                 excluded, bp>>

\* No step is begun in a process that timed out or was stopped.
Gate(s) == /\ pc[s] = "gate"
           /\ IF Normal(pstat)
              THEN pc' = [pc EXCEPT ![s] = "cond"] /\ UNCHANGED stat
              ELSE /\ pc' = [pc EXCEPT ![s] = "settle"]
                   /\ stat' = [stat EXCEPT ![s] = @ \cup {"Stop"}]
           /\ UNCHANGED <<procVars, waiting, todo, frame, worker, tries,
                          excluded, bp>>

SkipStep(s) == /\ pc[s] = "cond" /\ "skip" \in stat[s] /\ s \notin excluded
               /\ pc' = [pc EXCEPT ![s] = "settle"]
               /\ UNCHANGED <<procVars, stat, waiting, todo, frame, worker,
                              tries, excluded, bp>>

\* A skipped step is looked at further only when an exclude mark names it.
Examined(s) == pc[s] = "cond" /\ ("skip" \in stat[s] => s \in excluded)

MeetCondition(s) == /\ Examined(s)
                    /\ pc' = [pc EXCEPT ![s] = "hold"]
                    /\ UNCHANGED <<procVars, stat, waiting, todo, frame, worker,
                                   tries, excluded, bp>>

\* A step that is recovering runs although its condition is not met now.
MissCondition(s) ==
    /\ Examined(s) /\ "unmet" \in Faults[s]
    /\ IF s \in SkipDeps
       THEN /\ stat' = [stat EXCEPT ![s] = @ \cup {"skip"}]
            /\ excluded' = excluded \cup Excludes[s]
       ELSE UNCHANGED <<stat, excluded>>
    /\ pc' = [pc EXCEPT ![s] =
          IF "Recovering" \in stat[s] THEN "hold" ELSE "settle"]
    /\ UNCHANGED <<procVars, waiting, todo, frame, worker, tries, bp>>

Unhold(s) == /\ pc[s] = "hold" /\ "Pause" \notin pstat
             /\ pc' = [pc EXCEPT ![s] = "before"]
             /\ UNCHANGED <<procVars, stat, waiting, todo, frame, worker, tries,
                            excluded, bp>>

BeforeStepPass(s) == /\ pc[s] = "before"
                     /\ pc' = [pc EXCEPT ![s] = "select"]
                     /\ worker' = [worker EXCEPT ![s] = "ready"]
                     /\ UNCHANGED <<procVars, stat, waiting, todo, frame, tries,
                                    excluded, bp>>

\* A recovery passes the before chains over unless one of them had failed
\* or nothing is known of the failure.
BeforeStepFail(s) ==
    /\ pc[s] = "before" /\ "before" \in Faults[s]
    /\ "Recovering" \in stat[s] => bp[s] \in {"none", "oldBefore"}
    /\ stat' = [stat EXCEPT ![s] = BeforeFailed(@)]
    /\ bp' = [bp EXCEPT ![s] = Recorded(@, "newBefore")]
    /\ pc' = [pc EXCEPT ![s] = "fin"]
    /\ UNCHANGED <<procVars, waiting, todo, frame, worker, tries, excluded>>

\* The select of startStep and the judgement after it.
Judge(s, status) ==
    /\ IF ~Normal(status) /\ Recoverable
       THEN /\ stat' = [stat EXCEPT ![s] = status \cup {"Suspend"}]
            /\ bp' = [bp EXCEPT ![s] = "newRun"]
       ELSE stat' = [stat EXCEPT ![s] = status] /\ UNCHANGED bp
    /\ pc' = [pc EXCEPT ![s] = "after"]

RunFinished(s) == /\ pc[s] = "select" /\ worker[s] = "done"
                  /\ Judge(s, stat[s])
                  /\ UNCHANGED <<procVars, waiting, todo, frame, worker, tries,
                                 excluded>>

StepTimeout(s) == /\ pc[s] = "select" /\ "timeout" \in Faults[s]
                  /\ Judge(s, stat[s] \cup {"Timeout"})
                  /\ UNCHANGED <<procVars, waiting, todo, frame, worker, tries,
                                 excluded>>

AfterStep(s) ==
    /\ pc[s] = "after"
    /\ \/ UNCHANGED <<stat, bp>>
       \/ /\ "after" \in Faults[s]
          /\ stat' = [stat EXCEPT ![s] = AfterFailed(@)]
          /\ bp' = [bp EXCEPT ![s] = Recorded(@, "newAfter")]
    /\ pc' = [pc EXCEPT ![s] = "fin"]
    /\ UNCHANGED <<procVars, waiting, todo, frame, worker, tries, excluded>>

\* Mutant: the flow is suspended, the process is not.
FinalizeStepFlow(s) ==
    /\ pc[s] = "fin"
    /\ flowSuspend' = (flowSuspend \/ "Suspend" \in stat[s])
    /\ pc' = [pc EXCEPT ![s] = "settle"]
    /\ UNCHANGED <<ppc, pstat, pbp, managed, running, pauses, stat, waiting,
                   todo, frame, worker, tries, excluded, bp>>

\* runStep.finalize: a suspended step suspends its process and its flow.
FinalizeStep(s) ==
    /\ pc[s] = "fin"
    /\ IF "Suspend" \in stat[s]
       THEN pstat' = pstat \cup {"Suspend"} /\ flowSuspend' = TRUE
       ELSE UNCHANGED <<pstat, flowSuspend>>
    /\ pc' = [pc EXCEPT ![s] = "settle"]
    /\ UNCHANGED <<ppc, pbp, managed, running, pauses, stat, waiting, todo,
                   frame, worker, tries, excluded, bp>>

(***************************************************************************)
(* startNextSteps: count every waiter down, mark it, and start the ones    *)
(* that reach zero -- the last of them in this goroutine, after Done.      *)
(***************************************************************************)
\* Mutant: only an error cancels.
SettleError(s) ==
    /\ pc[s] = "settle"
    /\ cancel' = [cancel EXCEPT ![s] = "Error" \in stat[s]]
    /\ skip' = [skip EXCEPT ![s] = "skip" \in stat[s]]
    /\ pc' = [pc EXCEPT ![s] = "next"]
    /\ UNCHANGED <<procVars, stat, waiting, todo, to, left, bind, worker, tries,
                   excluded, bp>>

\* Mutant: a suspended process cancels, too.
SettleSuspend(s) ==
    /\ pc[s] = "settle"
    /\ cancel' = [cancel EXCEPT ![s] = ~Normal(stat[s]) \/ "Suspend" \in pstat]
    /\ skip' = [skip EXCEPT ![s] = "skip" \in stat[s]]
    /\ pc' = [pc EXCEPT ![s] = "next"]
    /\ UNCHANGED <<procVars, stat, waiting, todo, to, left, bind, worker, tries,
                   excluded, bp>>

Settle(s) ==
    /\ pc[s] = "settle"
    /\ cancel' = [cancel EXCEPT ![s] = ~Normal(stat[s]) \/ ~Normal(pstat)]
    /\ skip' = [skip EXCEPT ![s] = "skip" \in stat[s]]
    /\ pc' = [pc EXCEPT ![s] = "next"]
    /\ UNCHANGED <<procVars, stat, waiting, todo, to, left, bind, worker, tries,
                   excluded, bp>>

\* Mutant: a waiter that is to be cancelled is not counted down.
CountdownHealthy(s, w) ==
    /\ pc[s] = "next" /\ w \in todo[s]
    /\ waiting' = IF cancel[s] THEN waiting ELSE [waiting EXCEPT ![w] = @ - 1]
    /\ todo' = [todo EXCEPT ![s] = @ \ {w}]
    /\ to' = [to EXCEPT ![s] = w]
    /\ left' = [left EXCEPT ![s] = waiting'[w]]
    /\ pc' = [pc EXCEPT ![s] = "mark"]
    /\ UNCHANGED <<procVars, stat, cancel, skip, bind, worker, tries, excluded,
                   bp>>

Countdown(s, w) ==
    /\ pc[s] = "next" /\ w \in todo[s]
    /\ waiting' = [waiting EXCEPT ![w] = @ - 1]
    /\ todo' = [todo EXCEPT ![s] = @ \ {w}]
    /\ to' = [to EXCEPT ![s] = w]
    /\ left' = [left EXCEPT ![s] = waiting[w] - 1]
    /\ pc' = [pc EXCEPT ![s] = "mark"]
    /\ UNCHANGED <<procVars, stat, cancel, skip, bind, worker, tries, excluded,
                   bp>>

\* The step that takes over the goroutine of s, if there is one.
HandOver(s) == IF bind[s] = None THEN pc
               ELSE [pc EXCEPT ![bind[s]] = "start"]

MarkWaiter(s) ==
    /\ stat' = [stat EXCEPT ![to[s]] =
           @ \cup (IF cancel[s] THEN {"Cancel"} ELSE {})
             \cup (IF skip[s] THEN {"skip"} ELSE {})]
    /\ to' = [to EXCEPT ![s] = None]
    /\ left' = [left EXCEPT ![s] = 0]

\* Mutant: the counter is read again instead of the result of the decrement.
MarkReread(s) ==
    /\ pc[s] = "mark"
    /\ MarkWaiter(s)
    /\ \/ /\ waiting[to[s]] # 0
          /\ pc' = [pc EXCEPT ![s] = "next"]
          /\ UNCHANGED bind
       \/ /\ waiting[to[s]] = 0
          /\ pc' = [HandOver(s) EXCEPT ![s] = "next"]
          /\ bind' = [bind EXCEPT ![s] = to[s]]
    /\ UNCHANGED <<procVars, waiting, todo, cancel, skip, worker, tries,
                   excluded, bp>>

\* Mutant: the last dependency is not waited for.
MarkEarly(s) ==
    /\ pc[s] = "mark"
    /\ MarkWaiter(s)
    /\ \/ /\ left[s] > 1
          /\ pc' = [pc EXCEPT ![s] = "next"]
          /\ UNCHANGED bind
       \/ /\ left[s] = 1
          /\ pc' = [HandOver(s) EXCEPT ![s] = "next"]
          /\ bind' = [bind EXCEPT ![s] = to[s]]
    /\ UNCHANGED <<procVars, waiting, todo, cancel, skip, worker, tries,
                   excluded, bp>>

Mark(s) ==
    /\ pc[s] = "mark"
    /\ MarkWaiter(s)
    /\ \/ /\ left[s] # 0
          /\ pc' = [pc EXCEPT ![s] = "next"]
          /\ UNCHANGED bind
       \/ /\ left[s] = 0
          /\ pc' = [HandOver(s) EXCEPT ![s] = "next"]
          /\ bind' = [bind EXCEPT ![s] = to[s]]
    /\ UNCHANGED <<procVars, waiting, todo, cancel, skip, worker, tries,
                   excluded, bp>>

\* Mutant: Done is left to the step that takes the goroutine over.
DepartLate(s) ==
    /\ pc[s] = "next" /\ todo[s] = {}
    /\ running' = IF bind[s] = None THEN running - 1 ELSE running
    /\ pc' = [HandOver(s) EXCEPT ![s] = "done"]
    /\ cancel' = [cancel EXCEPT ![s] = FALSE]
    /\ skip' = [skip EXCEPT ![s] = FALSE]
    /\ bind' = [bind EXCEPT ![s] = None]
    /\ UNCHANGED <<ppc, pstat, pbp, managed, flowSuspend, pauses, stat, waiting,
                   todo, to, left, worker, tries, excluded, bp>>

\* Mutant: nothing is handed over once the process is abnormal.
DepartAbnormal(s) ==
    /\ pc[s] = "next" /\ todo[s] = {}
    /\ running' = running - 1
    /\ pc' = [(IF Normal(pstat) THEN HandOver(s) ELSE pc)
                 EXCEPT ![s] = "done"]
    /\ cancel' = [cancel EXCEPT ![s] = FALSE]
    /\ skip' = [skip EXCEPT ![s] = FALSE]
    /\ bind' = [bind EXCEPT ![s] = None]
    /\ UNCHANGED <<ppc, pstat, pbp, managed, flowSuspend, pauses, stat, waiting,
                   todo, to, left, worker, tries, excluded, bp>>

Depart(s) ==
    /\ pc[s] = "next" /\ todo[s] = {}
    /\ running' = running - 1
    /\ pc' = [HandOver(s) EXCEPT ![s] = "done"]
    /\ cancel' = [cancel EXCEPT ![s] = FALSE]
    /\ skip' = [skip EXCEPT ![s] = FALSE]
    /\ bind' = [bind EXCEPT ![s] = None]
    /\ UNCHANGED <<ppc, pstat, pbp, managed, flowSuspend, pauses, stat, waiting,
                   todo, to, left, worker, tries, excluded, bp>>
-------------------------------------------------------------------------------
(***************************************************************************)
(* The goroutine of runStep(s).  It outlives the step when the step times  *)
(* out.                                                                    *)
(***************************************************************************)
\* A recovery whose break point lies after the body does not run the body.
RunStep(s) == /\ worker[s] = "ready"
              /\ worker' = [worker EXCEPT ![s] =
                    IF "Recovering" \in stat[s]
                       /\ bp[s] \in {"oldAfter", "newAfter"}
                    THEN "done" ELSE "run"]
              /\ UNCHANGED <<procVars, pc, stat, waiting, todo, frame, tries,
                             excluded, bp>>

WorkDone(s, flag) == /\ stat' = [stat EXCEPT ![s] = @ \cup {flag}]
                     /\ worker' = [worker EXCEPT ![s] = "done"]
                     /\ UNCHANGED tries

Attempt(s) ==
    /\ worker[s] = "run"
    /\ \/ WorkDone(s, "Success")
       \/ /\ "error" \in Faults[s] /\ tries[s] < Retry[s]
          /\ tries' = [tries EXCEPT ![s] = @ + 1]
          /\ UNCHANGED <<stat, worker>>
       \/ /\ "error" \in Faults[s] /\ tries[s] = Retry[s]
          /\ WorkDone(s, "Error")
       \/ "panic" \in Faults[s] /\ WorkDone(s, "Panic")
    /\ UNCHANGED <<procVars, pc, waiting, todo, frame, excluded, bp>>

-------------------------------------------------------------------------------
Proceed == \/ Begin \/ BeforeProcessPass \/ BeforeProcessFail
           \/ (\E s \in Step : Spawn(s)) \/ Spawned
           \/ AllFinished \/ AfterProcess \/ Finalize

Schedule == Proceed \/ ProcessTimeout

Execute(s) == \/ Enter(s) \/ Gate(s) \/ SkipStep(s) \/ MeetCondition(s)
              \/ MissCondition(s) \/ Unhold(s) \/ BeforeStepPass(s)
              \/ BeforeStepFail(s) \/ RunFinished(s) \/ StepTimeout(s)
              \/ AfterStep(s) \/ FinalizeStep(s)

Propagate(s) == \/ Settle(s) \/ (\E w \in Step : Countdown(s, w))
                \/ Mark(s) \/ Depart(s)

Work(s) == RunStep(s) \/ Attempt(s)

Control == Stop \/ Pause \/ Resume

\* Every goroutine that executes steps has come to its end.
AllDeparted == \A s \in Step : pc[s] = "done"
Quiet == \A s \in Step : pc[s] \in {"wait", "done"}

\* The end of the process; the model stutters there, the code has returned.
Terminated == ppc = "end" /\ Quiet /\ UNCHANGED vars

Next == \/ Schedule
        \/ \E s \in Step : Execute(s) \/ Propagate(s) \/ Work(s)
        \/ Control
        \/ Terminated

Spec == Init /\ [][Next]_vars

(***************************************************************************)
(* Fairness.  Go keeps every runnable goroutine running and fires the      *)
(* timer of a step, and callbacks and conditions are assumed to return.    *)
(* The function of a step is assumed to return only when "hang" is not     *)
(* among its faults; nothing makes the timer of the process fire or the    *)
(* user call Stop, Pause or Resume.                                        *)
(***************************************************************************)
Fairness == /\ WF_vars(Proceed)
            /\ \A s \in Step : WF_vars(Execute(s)) /\ WF_vars(Propagate(s))
            /\ \A s \in Step : "hang" \notin Faults[s] => WF_vars(Work(s))

FairSpec == Spec /\ Fairness
-------------------------------------------------------------------------------
(***************************************************************************)
(* Properties.                                                             *)
(***************************************************************************)
Location == {"wait", "start", "gate", "cond", "hold", "before", "select",
             "after", "fin", "settle", "next", "mark", "done"}

\* The type of every variable, the status words and the locals included.
TypeOK ==
    /\ ppc \in {"init", "before", "spawn", "wait", "after", "final", "end"}
    /\ pstat \in SUBSET Flag
    /\ pbp \in {"none", "oldBefore", "oldAfter", "newBefore", "newAfter"}
    /\ managed \in SUBSET {"recover", "suspend", "release"}
    /\ flowSuspend \in BOOLEAN
    /\ running \in Int
    /\ pauses \in Nat
    /\ pc \in [Step -> Location]
    /\ stat \in [Step -> SUBSET Flag]
    /\ waiting \in [Step -> Int]
    /\ todo \in [Step -> SUBSET Step]
    /\ cancel \in [Step -> BOOLEAN] /\ skip \in [Step -> BOOLEAN]
    /\ to \in [Step -> Step \cup {None}] /\ left \in [Step -> Int]
    /\ bind \in [Step -> Step \cup {None}]
    /\ worker \in [Step -> {"none", "ready", "run", "done"}]
    /\ tries \in [Step -> Nat]
    /\ excluded \in SUBSET Step
    /\ bp \in [Step -> BreakPoint]

\* The counter in a step's segments is the number of its dependencies that
\* have not counted it down, however their goroutines interleave
\* (segment.addWaiting in startNextSteps).
CountdownExact == \A s \in Step :
    waiting[s] = Cardinality({d \in Depends[s] : s \in todo[d]})

\* process.running is the number of steps that have not departed, so
\* waitFinish cannot return early, and Done never goes below zero.
RunningExact == running = Cardinality({s \in Step : pc[s] # "done"})

\* Both counters of the code, the one in each step and the WaitGroup.
CountersExact == CountdownExact /\ RunningExact

(***************************************************************************)
(* Why no step is started twice or too early.  A step is claimed by the    *)
(* one dependency that brought its counter to zero, from that moment until *)
(* it is started.                                                          *)
(***************************************************************************)
Claims(d) == {w \in Step : \/ w = bind[d]
                           \/ pc[d] = "mark" /\ left[d] = 0 /\ w = to[d]}

\* The locals of startNextSteps: nothing is done before the loop, the step in
\* hand and the step to hand over to have been counted down, and are distinct.
FramesExact == \A d \in Step :
    /\ todo[d] \subseteq Waiters(d)
    /\ pc[d] \notin {"next", "mark", "done"} =>
           todo[d] = Waiters(d) /\ bind[d] = None
    /\ pc[d] = "mark" => to[d] \in Waiters(d) \ todo[d] /\ to[d] # bind[d]
    /\ bind[d] # None => bind[d] \in Waiters(d) \ todo[d]
    /\ pc[d] = "done" => todo[d] = {} /\ bind[d] = None

\* A claimed step has counted down to zero, has not been started and is
\* claimed by no other.
ClaimsExact == \A d, w \in Step : w \in Claims(d) =>
    /\ pc[w] = "wait" /\ waiting[w] = 0 /\ w \in Waiters(d)
    /\ \A e \in Step : w \in Claims(e) => e = d

\* A step that is not in the first layer is held back until it is at zero.
HeldBack == \A s \in Step : pc[s] # "wait" => Depends[s] = {} \/ waiting[s] = 0

\* Who may start which step, in every interleaving of startNextSteps.
Ownership == FramesExact /\ ClaimsExact /\ HeldBack

\* A step is handed to a goroutine once: two dependencies that finish
\* together never both see the counter at zero (startNextSteps).
StartedOnce ==
    [][\A s \in Step : pc[s] # "wait" => (pc'[s] = "start" => pc[s] = "start")]_vars

\* Unless the process timed out, its resources are released only when no
\* goroutine of a step is left, and no function of a step either unless that
\* step timed out (schedule, waitFinish, finalize).
ReleasedWhenQuiet ==
    "release" \in managed /\ "Timeout" \notin pstat =>
        \A s \in Step : /\ pc[s] \in {"wait", "done"}
                        /\ "Timeout" \notin stat[s] =>
                               worker[s] \in {"none", "done"}

\* A step that failed itself -- for any reason but being cancelled -- has put
\* Cancel on each of its dependents by the time it departs (startNextSteps).
FailureReachesDependents == \A d \in Step :
    pc[d] = "done" /\ stat[d] \cap (Abnormal \ {"Cancel"}) # {} =>
        \A w \in Waiters(d) : "Cancel" \in stat[w]

\* A set that has, with a step, everything downstream of it.
Closed(C) == \A d \in C : Waiters(d) \subseteq C

\* Failures stay local: unless the process was stopped or timed out, a step is
\* cancelled only downstream of a step that failed itself (README: unrelated
\* tasks continue running).  And a step has the skip flag only downstream of
\* one whose condition was not met (startNextSteps).
MarksJustified == \A C \in SUBSET Step : Closed(C) =>
    /\ /\ pstat \cap {"Stop", "Timeout"} = {}
       /\ \A s \in Step : stat[s] \cap (Abnormal \ {"Cancel"}) # {} => s \in C
       => \A s \in Step : "Cancel" \in stat[s] => s \in C
    /\ (\A s \in SkipDeps : "unmet" \in Faults[s] /\ "skip" \in stat[s] => s \in C)
       => \A s \in Step : "skip" \in stat[s] => s \in C

\* Nobody waits for somebody who will not come: when nothing is under way any
\* more after the first layer was started, no step was begun or all are through.
NoneStranded ==
    Quiet /\ ppc \notin {"init", "before", "spawn"} =>
        AllDeparted \/ \A s \in Step : pc[s] = "wait"

\* A process is a Success only when every step has departed, none is abnormal
\* and every function that was begun has succeeded or was passed over by a
\* recovery (waitFinish).
SuccessIsComplete == "Success" \in pstat => \A s \in Step :
    /\ pc[s] = "done" /\ Normal(stat[s])
    /\ worker[s] # "none" => worker[s] = "done" /\
           ("Success" \in stat[s] \/ bp[s] = "oldAfter")

\* Unless the process timed out, a suspended step has suspended the flow, and
\* the resources before they were released (runStep.finalize, finalize).
SuspendReaches ==
    /\ "release" \in managed /\ "Timeout" \notin pstat
    /\ \E s \in Step : "Suspend" \in stat[s]
    => "suspend" \in managed /\ flowSuspend

\* A suspended step that has departed left a break point of this execution,
\* and one that passes the body over (SkipRun) only if the body has not failed
\* (startStep, funcChain.filter).
PointRecorded == \A s \in Step :
    /\ pc[s] = "done" /\ "Suspend" \in stat[s] => bp[s] \in NewPoint
    /\ bp[s] = "newAfter" =>
           /\ stat[s] \cap {"Error", "Panic", "Timeout"} = {}
           /\ stat[s] \cap {"Success", "Recovering"} # {}

\* Once a process is stopped, timed out or failed, no step that had not passed
\* the gate of startStep is ever run.
NoStartAfterStop == \A s \in Step :
    [](~Normal(pstat) /\ pc[s] \in {"wait", "start", "gate"}
       => [](worker[s] = "none"))

\* If the process does not stay paused it ends, even when the function of a
\* step with a timeout never returns.
Terminates == <>[]("Pause" \notin pstat) => <>(ppc = "end")

\* Once its first steps are spawned every step of the process departs,
\* whatever fails and also when the process ends early by its timeout: every
\* waiter is counted down and none is forgotten.
AllStepsSettle ==
    <>[]("Pause" \notin pstat) => (ppc = "spawn" ~> AllDeparted)

(***************************************************************************)
(* The process implements the task graph: a step is taken up when its pc   *)
(* leaves "wait" and is finished when startNextSteps has begun.            *)
(***************************************************************************)
phase == [s \in Step |-> CASE pc[s] = "wait" -> "waiting"
                           [] pc[s] \in {"next", "mark", "done"} -> "finished"
                           [] OTHER -> "running"]
result == CASE "Success" \in pstat -> "success"
            [] /\ ppc \in {"after", "final", "end"}
               /\ pstat \cap {"Success", "executed"} = {} -> "failed"
            [] OTHER -> "none"
TG == INSTANCE TaskGraph
          WITH Step <- Step, Depends <- Depends, phase <- phase, result <- result
RefinesTaskGraph == TG!Spec
===============================================================================

---------------------------- MODULE ProcessObject ----------------------------
(***************************************************************************)
(* A process as an object that goroutines share: controllers pause, resume *)
(* and stop it, its steps wait at the gate and attach a resource, its own  *)
(* goroutine suspends and releases the resource, and several callers of    *)
(* Done wait for the flow (flow/process_run.go, flow/workflow.go).         *)
(*                                                                         *)
(* Every change of the status word is a loop of module StatusWord.  The    *)
(* gate is a sync.WaitGroup of Go, external code: its counter, the steps   *)
(* registered in Wait, and the three panics with which it ends the program *)
(* (nobody recovers them, and what still runs until it has ended is left   *)
(* out).  The steps have no dependencies here, no function outlives its    *)
(* step, and the callbacks of steps and process pass: module ProcessRun    *)
(* has all of these.                                                       *)
(***************************************************************************)
EXTENDS StatusWord, Integers, FiniteSets

CONSTANTS Controller,  \* goroutines that call Pause, Resume and Stop
          Methods,     \* those of the three that each of them calls
          Step,        \* the steps of the process
          Faulty,      \* the steps that may fail
          Process,     \* the goroutine of schedule
          Waiter,      \* the callers of Done
          Faults,      \* what may go wrong: "timeout", "before" (the flow's callbacks)
          None,
          MaxMoves     \* bound on the calls of the controllers; the timer of the
                       \* process counts for two

ASSUME ObjectAssumption ==
    /\ Caller = Controller \cup Step \cup {Process}
    /\ Controller \cap Step = {} /\ Process \notin Controller \cup Step
    /\ IsFiniteSet(Controller)
    /\ {{"Pause"}, {"Stop", "Failed"}, {"Timeout", "Failed"}, {"Suspend"}, {"Failed"},
        {"Success"}} \subseteq Flag
    /\ Clearable = {{"Pause"}}
    /\ Methods \in [Controller -> SUBSET {"Pause", "Resume", "Stop"}]
    /\ Faulty \subseteq Step /\ None \notin Waiter /\ Faults \subseteq {"timeout", "before"}
    /\ MaxMoves \in Nat

VARIABLES
    gate,       \* counter of the WaitGroup pause
    call,       \* the call each controller is in
    moves,      \* how much of MaxMoves is used
    panic,      \* "none", or what the WaitGroup has ended the program with
    pos,        \* where each step is
    failed,     \* steps that have failed
    attached,   \* the instance in the table of resources, 0 if there is none
    instance,   \* the instance each step has made
    got,        \* the instance that Attach has given to each step
    inits,      \* instances made so far
    suspended,  \* whether the resources were suspended
    releases,   \* how often the instance in the table was released
    ppc,        \* "idle", "steps", "scan", "judge", "final", "release" or "done"
    dpc,        \* each caller of Done: "call", "begin", "wait", "after", "returned"
    holder,     \* who has the lock of the flow
    ended       \* whether the flow has an end time

resVars == <<attached, instance, got, inits, suspended, releases>>
stepVars == <<pos, failed>>
ctlVars == <<gate, call, moves, panic>>
flowVars == <<dpc, holder, ended>>
vars == <<wordVars, ctlVars, stepVars, resVars, ppc, flowVars>>

Init == /\ WordInit
        /\ gate = 0 /\ call = [c \in Controller |-> "none"] /\ moves = 0
        /\ panic = "none"
        /\ pos = [s \in Step |-> "new"] /\ failed = {}
        /\ attached = 0 /\ inits = 0 /\ suspended = FALSE /\ releases = 0
        /\ instance = [s \in Step |-> 0] /\ got = [s \in Step |-> 0]
        /\ ppc = "idle"
        /\ dpc = [d \in Waiter |-> "call"] /\ holder = None /\ ended = FALSE

\* A panic has not ended the program.
Runs == panic = "none"

(***************************************************************************)
(* The controllers.                                                        *)
(***************************************************************************)
Call(c, method) ==
    /\ Runs /\ call[c] = "none" /\ moves < MaxMoves
    /\ call' = [call EXCEPT ![c] = method]
    /\ moves' = moves + 1
    /\ CASE method = "Pause"  -> Invoke(c, "append", {"Pause"})
         [] method = "Resume" -> Invoke(c, "clear", {"Pause"})
         [] method = "Stop"   -> Invoke(c, "append", {"Stop", "Failed"})
    /\ UNCHANGED <<gate, panic, stepVars, resVars, ppc, flowVars>>

\* The answer to append or clear is there; Add and Done of the WaitGroup are
\* left to do.
Answered(c, method) == call[c] = method /\ at[c] = "idle" /\ answer[c]

\* Mutant: the gate is closed whatever append has answered.
MovedAlways(c) == CASE call[c] = "Pause" -> 1
                    [] Answered(c, "Resume") -> -1
                    [] OTHER -> 0

\* Mutant: Resume takes the flag off and leaves the gate closed.
MovedByPause(c) == IF Answered(c, "Pause") THEN 1 ELSE 0

\* What the controller adds to the counter of the gate.
Moved(c) == CASE Answered(c, "Pause") -> 1
              [] Answered(c, "Resume") -> -1
              [] OTHER -> 0

\* Stop, or a call that has changed nothing.
Return(c) == /\ Runs /\ call[c] \notin {"none", "Release"} /\ at[c] = "idle"
             /\ Moved(c) = 0
             /\ call' = [call EXCEPT ![c] = "none"]
             /\ UNCHANGED <<wordVars, gate, moves, panic, stepVars, resVars, ppc, flowVars>>

\* The steps that are registered in Wait.
Asleep == {s \in Step : pos[s] = "asleep"}

\* Add(1) panics when Done has just opened the gate for steps it has not yet
\* released.
Close(c) == /\ Runs /\ call[c] # "none" /\ at[c] = "idle" /\ Moved(c) = 1
            /\ \/ /\ gate = 0 /\ Asleep # {}
                  /\ panic' = "misuse"
                  /\ UNCHANGED <<gate, call>>
               \/ /\ gate # 0 \/ Asleep = {}
                  /\ gate' = gate + 1
                  /\ call' = [call EXCEPT ![c] = "none"]
                  /\ UNCHANGED panic
            /\ UNCHANGED <<wordVars, moves, stepVars, resVars, ppc, flowVars>>

\* Done panics when the counter would become negative.
Open(c) == /\ Runs /\ call[c] # "none" /\ at[c] = "idle" /\ Moved(c) = -1
           /\ \/ /\ gate = 0
                 /\ panic' = "negative"
                 /\ UNCHANGED <<gate, call>>
              \/ /\ gate # 0
                 /\ gate' = gate - 1
                 /\ call' = [call EXCEPT ![c] = IF gate' = 0 /\ Asleep # {} THEN "Release"
                                                                           ELSE "none"]
                 /\ UNCHANGED panic
           /\ UNCHANGED <<wordVars, moves, stepVars, resVars, ppc, flowVars>>

\* The second half of a Done that opens the gate: all registered steps are released.
Awaken(c) == /\ Runs /\ call[c] = "Release"
             /\ pos' = [s \in Step |-> IF s \in Asleep THEN "woken" ELSE pos[s]]
             /\ call' = [call EXCEPT ![c] = "none"]
             /\ UNCHANGED <<wordVars, gate, moves, panic, failed, resVars, ppc, flowVars>>

WordMoves(c) == /\ Runs /\ WordStep(c)
                /\ UNCHANGED <<ctlVars, stepVars, resVars, ppc, flowVars>>

(***************************************************************************)
(* The steps.                                                              *)
(***************************************************************************)
Goes(s, place) == pos' = [pos EXCEPT ![s] = place]

\* The tests at the beginning of startStep.
Enter(s) == /\ Runs /\ pos[s] = "start"
            /\ Goes(s, IF "Failed" \in word THEN "end" ELSE "gate")
            /\ UNCHANGED <<wordVars, ctlVars, failed, resVars, ppc, flowVars>>

CheckPause(s) == /\ Runs /\ pos[s] = "gate"
                 /\ Goes(s, IF "Pause" \in word THEN "held" ELSE "run")
                 /\ UNCHANGED <<wordVars, ctlVars, failed, resVars, ppc, flowVars>>

\* WaitGroup.Wait returns at once from an open gate; the flag is tested once more.
Wait(s) == /\ Runs /\ pos[s] = "held"
           /\ Goes(s, IF gate = 0 THEN "gate" ELSE "asleep")
           /\ UNCHANGED <<wordVars, ctlVars, failed, resVars, ppc, flowVars>>

\* A released step panics when the gate is in use again before it has left Wait.
Wake(s) == /\ Runs /\ pos[s] = "woken"
           /\ \/ /\ gate = 0 /\ Asleep = {}
                 /\ Goes(s, "gate")
                 /\ UNCHANGED panic
              \/ /\ gate # 0 \/ Asleep # {}
                 /\ panic' = "reused"
                 /\ UNCHANGED pos
           /\ UNCHANGED <<wordVars, gate, call, moves, failed, resVars, ppc, flowVars>>

\* Attach looks for the resource under the read lock.
Acquire(s) == /\ Runs /\ pos[s] = "run"
              /\ IF attached # 0
                 THEN /\ got' = [got EXCEPT ![s] = attached]
                      /\ Goes(s, "work")
                 ELSE Goes(s, "init") /\ UNCHANGED got
              /\ UNCHANGED <<wordVars, ctlVars, failed, attached, instance, inits,
                             suspended, releases, ppc, flowVars>>

\* The function of a step attaches nothing.
NoAttach(s) == /\ Runs /\ pos[s] = "run" /\ Goes(s, "work")
               /\ UNCHANGED <<wordVars, ctlVars, failed, resVars, ppc, flowVars>>

\* onInitialize, under no lock, makes an instance or returns an error.
Initialize(s) == /\ Runs /\ pos[s] = "init"
                 /\ \/ /\ inits' = inits + 1
                       /\ instance' = [instance EXCEPT ![s] = inits']
                       /\ Goes(s, "store")
                    \/ Goes(s, "work") /\ UNCHANGED <<inits, instance>>
                 /\ UNCHANGED <<wordVars, ctlVars, failed, attached, got, suspended,
                                releases, ppc, flowVars>>

\* Mutant: no second look under the lock.
ChosenOwn(s) == instance[s]

\* The second look of Attach: an instance that is in the table already wins.
Chosen(s) == IF attached # 0 THEN attached ELSE instance[s]

Store(s) == /\ Runs /\ pos[s] = "store"
            /\ attached' = Chosen(s)
            /\ got' = [got EXCEPT ![s] = Chosen(s)]
            /\ Goes(s, "work")
            /\ UNCHANGED <<wordVars, ctlVars, failed, instance, inits, suspended,
                           releases, ppc, flowVars>>

Succeed(s) == /\ Runs /\ pos[s] = "work" /\ Goes(s, "end")
              /\ UNCHANGED <<wordVars, ctlVars, failed, resVars, ppc, flowVars>>

\* A failed step that can be recovered puts Suspend on its process when it
\* ends, in finalize.
Fail(s) == /\ Runs /\ pos[s] = "work" /\ s \in Faulty
           /\ failed' = failed \cup {s}
           /\ Invoke(s, "append", {"Suspend"})
           /\ Goes(s, "finalize")
           /\ UNCHANGED <<ctlVars, resVars, ppc, flowVars>>

\* Mutant: the step does not wait for its append.
FinalizedAsked(s) == TRUE

Finalized(s) == at[s] = "idle"

FinalizeStep(s) == /\ Runs /\ pos[s] = "finalize" /\ Finalized(s)
                   /\ Goes(s, "end")
                   /\ UNCHANGED <<wordVars, ctlVars, failed, resVars, ppc, flowVars>>

(***************************************************************************)
(* The goroutine of the process, from waitFinish on.                       *)
(***************************************************************************)
\* The first of the two that waitFinish selects: all steps are over.
WaitFinish == /\ Runs /\ ppc = "steps" /\ \A s \in Step : pos[s] = "end"
              /\ ppc' = "scan"
              /\ UNCHANGED <<wordVars, ctlVars, stepVars, resVars, flowVars>>

\* The second: the timer of the process.  The steps go on running.
Expire == /\ Runs /\ ppc = "steps" /\ "timeout" \in Faults
          /\ moves + 2 <= MaxMoves /\ moves' = moves + 2
          /\ Invoke(Process, "append", {"Timeout", "Failed"})
          /\ ppc' = "scan"
          /\ UNCHANGED <<gate, call, panic, stepVars, resVars, flowVars>>

Scan == /\ Runs /\ ppc = "scan" /\ at[Process] = "idle"
        /\ IF failed # {} THEN Invoke(Process, "append", {"Failed"})
                          ELSE UNCHANGED wordVars
        /\ ppc' = "judge"
        /\ UNCHANGED <<ctlVars, stepVars, resVars, flowVars>>

Judge == /\ Runs /\ ppc = "judge" /\ at[Process] = "idle"
         /\ IF "Failed" \notin word THEN Invoke(Process, "append", {"Success"})
                                    ELSE UNCHANGED wordVars
         /\ ppc' = "final"
         /\ UNCHANGED <<ctlVars, stepVars, resVars, flowVars>>

\* finalize of the process.
Suspend == /\ Runs /\ ppc = "final" /\ at[Process] = "idle"
           /\ suspended' = ("Suspend" \in word)
           /\ ppc' = "release"
           /\ UNCHANGED <<wordVars, ctlVars, stepVars, attached, instance, got, inits,
                          releases, flowVars>>

Release == /\ Runs /\ ppc = "release"
           /\ releases' = releases + (IF attached # 0 THEN 1 ELSE 0)
           /\ ppc' = "done"
           /\ UNCHANGED <<wordVars, ctlVars, stepVars, attached, instance, got, inits,
                          suspended, flowVars>>

(***************************************************************************)
(* The callers of Done.                                                    *)
(***************************************************************************)
Moves(d, place) == dpc' = [dpc EXCEPT ![d] = place]

\* The first look at the end time.  Who finds none waits for the lock at "call".
AskDone(d) == /\ Runs /\ dpc[d] = "call" /\ ended
              /\ Moves(d, "returned")
              /\ UNCHANGED <<wordVars, ctlVars, stepVars, resVars, ppc, holder, ended>>

\* Mutant: the end time is not looked at again under the lock.
EndedAlready == FALSE

Ended == ended

\* The first who gets the lock executes the flow.
Lock(d) == /\ Runs /\ dpc[d] = "call" /\ holder = None
           /\ IF Ended
              THEN Moves(d, "returned") /\ UNCHANGED holder
              ELSE Moves(d, "begin") /\ holder' = d
           /\ UNCHANGED <<wordVars, ctlVars, stepVars, resVars, ppc, ended>>

\* The before callbacks of the flow have passed: the process is started.
Start(d) == /\ Runs /\ dpc[d] = "begin"
            /\ Moves(d, "wait")
            /\ ppc' = "steps"
            /\ pos' = [s \in Step |-> "start"]
            /\ UNCHANGED <<wordVars, ctlVars, failed, resVars, holder, ended>>

\* One of them has failed: the flow ends and no process is started.
FailBefore(d) == /\ Runs /\ dpc[d] = "begin" /\ "before" \in Faults
                 /\ ended' = TRUE
                 /\ Moves(d, "after")
                 /\ UNCHANGED <<wordVars, ctlVars, stepVars, resVars, ppc, holder>>

\* running.Wait returns and the end time is set.
Join(d) == /\ Runs /\ dpc[d] = "wait" /\ ppc = "done"
           /\ ended' = TRUE
           /\ Moves(d, "after")
           /\ UNCHANGED <<wordVars, ctlVars, stepVars, resVars, ppc, holder>>

\* The after callbacks and the checkpoint, then the lock is given back.
Finalize(d) == /\ Runs /\ dpc[d] = "after"
               /\ Moves(d, "returned")
               /\ holder' = None
               /\ UNCHANGED <<wordVars, ctlVars, stepVars, resVars, ppc, ended>>

CallMoves(c) == Return(c) \/ Close(c) \/ Open(c) \/ Awaken(c)

StepMoves(s) == \/ Enter(s) \/ CheckPause(s) \/ Wait(s) \/ Wake(s)
                \/ Acquire(s) \/ NoAttach(s) \/ Initialize(s) \/ Store(s)
                \/ Succeed(s) \/ Fail(s) \/ FinalizeStep(s)

ProcessMoves == WaitFinish \/ Scan \/ Judge \/ Suspend \/ Release

WaiterMoves(d) == AskDone(d) \/ Lock(d) \/ Start(d) \/ FailBefore(d) \/ Join(d)
                  \/ Finalize(d)

Next == \/ \E c \in Controller : \E method \in Methods[c] : Call(c, method)
        \/ \E c \in Controller : CallMoves(c)
        \/ \E c \in Caller : WordMoves(c)
        \/ \E s \in Step : StepMoves(s)
        \/ Expire
        \/ ProcessMoves
        \/ \E d \in Waiter : WaiterMoves(d)

Spec == Init /\ [][Next]_vars

\* Go runs every goroutine that can run; nobody has to call a controller, and the
\* timer of the process need not expire.
Fairness == /\ \A c \in Caller : WF_vars(WordMoves(c))
            /\ \A c \in Controller : WF_vars(CallMoves(c))
            /\ \A s \in Step : WF_vars(StepMoves(s))
            /\ WF_vars(ProcessMoves)
            /\ \A d \in Waiter : WF_vars(WaiterMoves(d))

FairSpec == Spec /\ Fairness
-------------------------------------------------------------------------------
(***************************************************************************)
(* Properties.                                                             *)
(***************************************************************************)
\* The controllers that have put Pause on the word and not yet added to the
\* gate, or taken it off and not yet subtracted.
Owing(method) == {c \in Controller : Answered(c, method)}

\* The gate is closed exactly while the flag is set, up to the calls in between.
GateFollows == gate = (IF "Pause" \in word THEN 1 ELSE 0)
                      - Cardinality(Owing("Pause")) + Cardinality(Owing("Resume"))

\* A Resume is at its Done, or in it, while a Pause has not yet added.
Overlap == \E c, d \in Controller :
              call[c] \in {"Resume", "Release"} /\ Answered(d, "Pause")

\* Pause and Resume change the flag and the counter in two steps; still the
\* counter follows the flag.  Calls that do not overlap drive it neither below
\* zero nor into a Done: they can only close the gate on a step that has not yet
\* left it.
GateCounted == GateFollows /\ (panic \in {"negative", "misuse"} => Overlap)

\* All steps that Attach has given a resource have the one instance in the table,
\* and none of those made is forgotten while the table is empty.  Unless the
\* process has timed out it is released once, after the last step, and the
\* resources are suspended before exactly if a step has failed: a process that
\* was only stopped is not suspended.
ResourcesRight ==
    /\ \A s \in Step : got[s] # 0 => got[s] = attached
    /\ inits > 0 /\ attached = 0 => \E s \in Step : pos[s] = "store"
    /\ releases \in {0, 1}
    /\ suspended => failed # {}
    /\ "Timeout" \notin word =>
          /\ releases > 0 => \A s \in Step : pos[s] = "end"
          /\ ppc = "done" => releases = (IF attached # 0 THEN 1 ELSE 0)
          /\ ppc \in {"release", "done"} => (suspended <=> failed # {})

\* workflow.go:253: "Done function will block util all process done", for every
\* caller; and no process is started once one of them is back.
DoneBlocks == \A d \in Waiter : dpc[d] = "returned" => ended /\ ppc \in {"idle", "done"}

\* When the process does not stay paused and no panic ends the program, every
\* caller of Done returns: no step is left behind at the gate, also when calls of
\* Pause and Resume have overlapped, and without the timer of the process.
DoneReturns ==
    <>[]("Pause" \notin word /\ Runs) => <>(\A d \in Waiter : dpc[d] = "returned")

\* context.go:332: clear "removes the state bit, and returns true", or else
\* "returns false": Resume comes back to its caller.
ResumeReturns == \A c \in Controller : call[c] = "Resume" ~> call[c] = "none"
===============================================================================

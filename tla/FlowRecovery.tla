----------------------------- MODULE FlowRecovery -----------------------------
(***************************************************************************)
(* A flow of one process, executed, saved and recovered again and again    *)
(* (runFlow.Done in flow/workflow.go; RecoverFlow, loadCheckpoints,        *)
(* loadStatus and saveCheckpoints in flow/recover.go).                     *)
(*                                                                         *)
(* The process is module ProcessRun; this module adds the goroutine of     *)
(* Done, the record and the checkpoints in the user's store, and the       *)
(* caller of RecoverFlow.  The store answers GetLatestRecord with the last *)
(* record saved, if no recovery has taken it yet (status RecoverIdle).     *)
(***************************************************************************)
EXTENDS ProcessRun

CONSTANTS FlowFaults,   \* what may go wrong at the level of the flow
          MaxRecovers   \* bound on the number of recoveries

ASSUME FlowAssumption == /\ FlowFaults \subseteq {"before", "after", "persist"}
                         /\ MaxRecovers \in Nat

VARIABLES
    fpc,        \* where the goroutine of Done is
    fstat,      \* status word of the flow
    fbp,        \* break point of the flow
    record,     \* the latest record in the store, with its checkpoints
    recovers,   \* recoveries begun so far
    complete    \* history: steps whose work was done in some execution

flowVars == <<fpc, fstat, fbp, record, recovers, complete>>
allVars == <<vars, flowVars>>

NoRecord == [status |-> "none"]

\* buildSnapshot leaves out the break points that were loaded from the
\* checkpoint before this one.
Kept(point) == IF point \in OldPoint THEN "none" ELSE point

\* Mutant: SkipRun is not loaded.
UsedBody(point) == CASE point \in {"newBefore", "newAfter"} -> "oldBefore"
                     [] point = "newRun" -> "oldRun"
                     [] OTHER -> point

\* loadCheckpoint marks the break points it reads as Used.
Used(point) == CASE point = "newBefore" -> "oldBefore"
                 [] point = "newRun" -> "oldRun"
                 [] point = "newAfter" -> "oldAfter"
                 [] OTHER -> point

\* Mutant: the waiters of the roots only, not those further down.
DownstreamNear(roots) == roots \cup UNION {Waiters(d) : d \in roots}

\* clearExecutedFromRoot: the roots and everything downstream of them.
Downstream(roots) ==
    {s \in Step : \A C \in SUBSET Step :
        roots \subseteq C /\ (\A d \in C : Waiters(d) \subseteq C) => s \in C}

(***************************************************************************)
(* saveCheckpoints: a checkpoint of the flow, one of the process if it is  *)
(* abnormal, and one of each of its steps that needs recovery.  Break      *)
(* points and exclude marks are part of the process's snapshot.            *)
(***************************************************************************)
Snapshot ==
    LET failed == ~Normal(pstat)
    IN [status |-> "idle",
        fbp |-> Kept(fbp),
        process |-> failed,
        roots |-> IF failed THEN {s \in Step : NeedRecover(stat[s])} ELSE {},
        pbp |-> IF failed THEN Kept(pbp) ELSE "none",
        bp |-> [s \in Step |-> IF failed THEN Kept(bp[s]) ELSE "none"],
        excluded |-> IF failed THEN excluded ELSE {}]

FlowInit == /\ Init
            /\ fpc = "before" /\ fstat = {} /\ fbp = "none"
            /\ record = NoRecord /\ recovers = 0 /\ complete = {}

\* The chain is run again by a recovery only from a break point of its own.
FlowBefore ==
    /\ fpc = "before"
    /\ \/ fpc' = "procs" /\ UNCHANGED <<fstat, fbp>>
       \/ /\ "before" \in FlowFaults
          /\ "Recovering" \in fstat => fbp = "oldBefore"
          /\ fstat' = BeforeFailed(fstat)
          /\ fbp' = Recorded(fbp, "newBefore")
          /\ fpc' = "save"
    /\ UNCHANGED <<vars, record, recovers, complete>>

\* The work of a step is done when its function has succeeded, or when it was
\* passed over by its condition or by the skip of a dependency.
CompletedNow == {s \in Step :
    \/ "Success" \in stat'[s]
    \/ /\ pc'[s] \in {"next", "mark", "done"} /\ worker'[s] = "none"
       /\ Normal(stat'[s]) /\ "executed" \notin stat'[s]}

\* The goroutines of the process, from the moment Done has started them.
RunProcess == /\ ppc = "init" => fpc = "procs"
              /\ Next
              /\ complete' = complete \cup CompletedNow
              /\ UNCHANGED <<fpc, fstat, fbp, record, recovers>>

FlowJudge == /\ fpc = "procs" /\ ppc = "end"
             /\ fstat' = fstat \cup
                    (IF Normal(pstat) THEN {"Success"} ELSE {"Failed"})
             /\ fpc' = "after"
             /\ UNCHANGED <<vars, fbp, record, recovers, complete>>

FlowAfter ==
    /\ fpc = "after"
    /\ \/ UNCHANGED <<fstat, fbp>>
       \/ /\ "after" \in FlowFaults
          /\ fstat' = AfterFailed(fstat)
          /\ fbp' = Recorded(fbp, "newAfter")
    /\ fpc' = "save"
    /\ UNCHANGED <<vars, record, recovers, complete>>

\* The end of Done, and of RecoverFlow when this was a recovery.
Concluded == IF record.status = "running"
             THEN [record EXCEPT !.status =
                     IF Normal(fstat) THEN "success" ELSE "failed"]
             ELSE record

Save == /\ fpc = "save"
        /\ record' = IF Normal(fstat) \/ ~Recoverable THEN Concluded
                     ELSE Snapshot
        /\ fpc' = "end"
        /\ UNCHANGED <<vars, fstat, fbp, recovers, complete>>

\* The store may refuse SaveCheckpointAndRecord: the code reports an event.
SaveFails == /\ fpc = "save" /\ "persist" \in FlowFaults
             /\ ~Normal(fstat) /\ Recoverable
             /\ record' = Concluded
             /\ fpc' = "end"
             /\ UNCHANGED <<vars, fstat, fbp, recovers, complete>>

(***************************************************************************)
(* loadStatus: what is executed again.                                     *)
(***************************************************************************)
\* The before callback of the flow had failed: everything runs.
LoadAll == /\ fbp' = "oldBefore"
           /\ pstat' = {}
           /\ stat' = [s \in Step |-> {}]

\* The process had not failed: nothing of it runs.
LoadNothing == /\ fbp' # "oldBefore" /\ ~record.process
               /\ pstat' = {"executed"}
               /\ stat' = [s \in Step |-> {"executed"}]

\* The roots are recovering and what is downstream of them runs again; after a
\* failure of the process's before callback all the steps run.
LoadProcess ==
    /\ fbp' # "oldBefore" /\ record.process
    /\ pstat' = {"Recovering"}
    /\ stat' = [s \in Step |->
          IF s \in record.roots THEN {"Recovering"}
          ELSE IF pbp' = "oldBefore" \/ s \in Downstream(record.roots)
               THEN {} ELSE {"executed"}]

\* loadCheckpoints: the contexts of the flow, the process and the steps.
LoadCheckpoints == /\ fbp' = Used(record.fbp)
                   /\ pbp' = Used(record.pbp)
                   /\ bp' = [s \in Step |-> Used(record.bp[s])]
                   /\ excluded' = record.excluded

\* Mutant: the WaitGroup of a recovered process does not count its steps again.
BuildRunFlowUncounted ==
    /\ ppc' = "init" /\ managed' = {} /\ flowSuspend' = FALSE
    /\ running' = running /\ pauses' = 0
    /\ pc' = [s \in Step |-> "wait"]
    /\ waiting' = [s \in Step |-> Cardinality(Depends[s])]
    /\ todo' = [s \in Step |-> Waiters(s)]
    /\ cancel' = [s \in Step |-> FALSE] /\ skip' = [s \in Step |-> FALSE]
    /\ to' = [s \in Step |-> None] /\ left' = [s \in Step |-> 0]
    /\ bind' = [s \in Step |-> None]
    /\ worker' = [s \in Step |-> "none"]
    /\ tries' = [s \in Step |-> 0]

\* buildRunFlow: what a new execution begins with apart from its status and
\* its context.
BuildRunFlow ==
    /\ ppc' = "init" /\ managed' = {} /\ flowSuspend' = FALSE
    /\ running' = Cardinality(Step) /\ pauses' = 0
    /\ pc' = [s \in Step |-> "wait"]
    /\ waiting' = [s \in Step |-> Cardinality(Depends[s])]
    /\ todo' = [s \in Step |-> Waiters(s)]
    /\ cancel' = [s \in Step |-> FALSE] /\ skip' = [s \in Step |-> FALSE]
    /\ to' = [s \in Step |-> None] /\ left' = [s \in Step |-> 0]
    /\ bind' = [s \in Step |-> None]
    /\ worker' = [s \in Step |-> "none"]
    /\ tries' = [s \in Step |-> 0]

\* RecoverFlow up to flow.Done(): a new execution from the latest record.  It
\* is taken once the goroutines of the last execution are gone.
RecoverFlow ==
    /\ fpc = "end" /\ record.status = "idle" /\ recovers < MaxRecovers
    /\ Quiet /\ \A s \in Step : worker[s] \in {"none", "done"}
    /\ BuildRunFlow
    /\ LoadCheckpoints
    /\ LoadAll \/ LoadNothing \/ LoadProcess
    /\ record' = [record EXCEPT !.status = "running"]
    /\ recovers' = recovers + 1
    /\ fpc' = "before" /\ fstat' = {"Recovering"}
    /\ UNCHANGED complete

\* Done has returned and nobody recovers the flow.
FlowTerminated == fpc = "end" /\ ppc \in {"init", "end"} /\ Quiet
                  /\ UNCHANGED allVars

FlowNext == FlowBefore \/ RunProcess \/ FlowJudge \/ FlowAfter \/ Save
            \/ SaveFails \/ RecoverFlow \/ FlowTerminated

FlowSpec == FlowInit /\ [][FlowNext]_allVars
-------------------------------------------------------------------------------
(***************************************************************************)
(* Properties.                                                             *)
(***************************************************************************)
\* A flow that reports Success has done the work of every step, in this
\* execution or in an earlier one: a recovery loses no step (loadStatus,
\* needRecover, clearExecutedFromRoot).
NothingLost == fpc = "end" /\ "Success" \in fstat /\ Normal(fstat)
               => complete = Step

\* A step is begun only when the work of the steps it depends on was done in
\* this execution or an earlier one, or failed in this one (loadStatus): a
\* recovery never begins below the point of failure.
BeginsAtFailure ==
    [][\A s \in Step : worker[s] = "none" /\ worker'[s] = "ready" =>
          \A d \in Depends[s] : d \in complete \/ ~Normal(stat[d])]_allVars

\* A body that has failed is never passed over by a recovery: when the break
\* point that is reloaded has SkipRun, the body has succeeded before.
SkippedBodyHasRun ==
    [][\A s \in Step : worker[s] = "ready" /\ worker'[s] = "done"
          => s \in complete]_allVars

\* A recovery goes on "from the failed Step or preceding Callback"
\* (Recover.en.md): the body of a step of the first layer is not run again
\* once it has succeeded, also when its after callback has failed since.
BodyRunsOnce ==
    [][\A s \in Step : worker[s] = "ready" /\ worker'[s] = "run" =>
          s \notin complete \/ Depends[s] # {}]_allVars

\* Every execution of a flow, the first and each recovery, takes up its steps once
\* and in the order of their dependencies, and reports Success only when all of
\* them are finished (buildRunFlow, startNextSteps, waitFinish).
RefinesTaskGraphAgain == TG!SpecAgain
===============================================================================

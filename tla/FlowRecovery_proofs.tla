-------------------------- MODULE FlowRecovery_proofs --------------------------
(***************************************************************************)
(* What holds of a process and of its flow in every execution, the first   *)
(* one and any recovery, for every finite set of steps and every           *)
(* dependency relation: how failures spread, what is recorded of them, and *)
(* that a recovery which is not cut short by Stop or by the timeout of the *)
(* process loses nothing.                                                  *)
(***************************************************************************)
EXTENDS FlowRecovery, ProcessRun_proofs

(***************************************************************************)
(* One step: its goroutine, its worker, its status and its break point.    *)
(***************************************************************************)
Early == {"wait", "start", "gate", "cond", "hold", "before"}
Late == {"fin", "settle", "next", "mark", "done"}
Ended == {"settle", "next", "mark", "done"}
BodyFault == {"Error", "Panic", "Timeout"}

\* The function of a step runs while the step waits for it, or after a timeout.
WorkerFits(s) ==
    /\ pc[s] \in Early => worker[s] = "none"
    /\ pc[s] \in {"select", "after"} => worker[s] # "none"
    /\ worker[s] \in {"ready", "run"} => pc[s] = "select" \/ "Timeout" \in stat[s]
    /\ worker[s] = "done" =>
           \/ stat[s] \cap {"Success", "Error", "Panic"} # {}
           \/ "Recovering" \in stat[s] /\ (Normal(stat[s]) => bp[s] = "oldAfter")

\* A break point of this execution stands for a failure, and for the first one.
PointFits(s) ==
    /\ bp[s] \in NewPoint => ~Normal(stat[s])
    /\ "Suspend" \in stat[s] => bp[s] \in NewPoint
    /\ pc[s] \in Early \cup {"select"} => "Suspend" \notin stat[s] /\ bp[s] \notin NewPoint
    /\ pc[s] = "after" /\ Recoverable /\ stat[s] \cap BodyFault # {} => bp[s] = "newRun"
    /\ bp[s] = "newAfter" => /\ pc[s] \in Late /\ stat[s] \cap BodyFault = {}
                             /\ stat[s] \cap {"Success", "Recovering"} # {}

StepFits(s) == WorkerFits(s) /\ PointFits(s)

\* What the goroutines of other steps, and its own on the way to its end, do.
LEMMA DriftFits ==
  ASSUME NEW s \in Step, StepFits(s), bp'[s] = bp[s], worker'[s] = worker[s],
         \E M \in SUBSET {"Cancel", "skip"} : stat'[s] = stat[s] \cup M,
         \/ pc'[s] = pc[s]
         \/ pc[s] \in Late /\ pc'[s] \in Late
         \/ pc[s] = "wait" /\ pc'[s] = "start"
  PROVE  StepFits(s)'
<1>1. PICK M \in SUBSET {"Cancel", "skip"} : stat'[s] = stat[s] \cup M
  OBVIOUS
<1>2. /\ Normal(stat'[s]) => Normal(stat[s])
      /\ \A f \in Flag \ {"Cancel", "skip"} : f \in stat'[s] <=> f \in stat[s]
  BY <1>1 DEF Normal
<1>3. /\ stat'[s] \cap BodyFault = stat[s] \cap BodyFault
      /\ stat'[s] \cap {"Success", "Error", "Panic"} = stat[s] \cap {"Success", "Error", "Panic"}
      /\ stat'[s] \cap {"Success", "Recovering"} = stat[s] \cap {"Success", "Recovering"}
  BY <1>1 DEF BodyFault
<1>4. {"Suspend", "Timeout", "Recovering"} \subseteq Flag \ {"Cancel", "skip"}
  BY DEF Flag, Abnormal
<1>5. /\ pc'[s] \in Early => pc[s] \in Early
      /\ pc'[s] \in Early \cup {"select"} => pc[s] \in Early \cup {"select"}
      /\ pc'[s] \in {"select", "after"} => pc'[s] = pc[s]
      /\ pc[s] = "select" => pc'[s] = "select"
      /\ pc[s] \in Late => pc'[s] \in Late
  BY DEF Early, Late
<1>6. WorkerFits(s)'
  BY <1>2, <1>3, <1>4, <1>5 DEF StepFits, WorkerFits
<1>7. PointFits(s)'
  BY <1>2, <1>3, <1>4, <1>5 DEF StepFits, PointFits
<1>8. QED
  BY <1>6, <1>7 DEF StepFits

\* startStep, up to the call of the function.
LEMMA ApproachFits ==
  ASSUME TypeOK, NEW s \in Step, StepFits(s),
         Enter(s) \/ Gate(s) \/ SkipStep(s) \/ MeetCondition(s) \/ MissCondition(s)
         \/ Unhold(s) \/ FinalizeStep(s)
  PROVE  StepFits(s)'
<1>1. bp'[s] = bp[s] /\ worker'[s] = worker[s]
  BY DEF Enter, Gate, SkipStep, MeetCondition, MissCondition, Unhold, FinalizeStep
<1>2. \E M \in SUBSET {"Stop", "skip"} : stat'[s] = stat[s] \cup M
  <2>1. \/ stat'[s] = stat[s] \/ stat'[s] = stat[s] \cup {"Stop"}
        \/ stat'[s] = stat[s] \cup {"skip"}
    BY DEF TypeOK, Enter, Gate, SkipStep, MeetCondition, MissCondition, Unhold, FinalizeStep
  <2>2. stat[s] = stat[s] \cup {}
    OBVIOUS
  <2>3. QED
    BY <2>1, <2>2
<1>3. \/ pc[s] \in Early /\ pc'[s] \in Early \cup {"settle"}
      \/ pc[s] = "fin" /\ pc'[s] = "settle" /\ stat'[s] = stat[s]
  BY DEF TypeOK, Enter, Gate, SkipStep, MeetCondition, MissCondition, Examined, Unhold,
     FinalizeStep, Early
<1>4. CASE pc[s] = "fin" /\ pc'[s] = "settle" /\ stat'[s] = stat[s]
  <2>1. stat'[s] = stat[s] \cup {} /\ {} \in SUBSET {"Cancel", "skip"}
    BY <1>4
  <2>2. QED
    BY <1>1, <1>4, <2>1, DriftFits DEF Late
<1>5. CASE pc[s] \in Early /\ pc'[s] \in Early \cup {"settle"}
  <2>1. worker[s] = "none" /\ "Suspend" \notin stat[s] /\ bp[s] \notin NewPoint
    BY <1>5 DEF StepFits, WorkerFits, PointFits
  <2>2. "Suspend" \notin stat'[s]
    BY <1>2, <2>1
  <2>3. QED
    BY <1>1, <1>5, <2>1, <2>2 DEF StepFits, WorkerFits, PointFits, Early, NewPoint
<1>6. QED
  BY <1>3, <1>4, <1>5

\* The callbacks, the call of the function and the judgement after it.
LEMMA CallFits ==
  ASSUME TypeOK, NEW s \in Step, StepFits(s),
         BeforeStepPass(s) \/ BeforeStepFail(s) \/ RunFinished(s) \/ StepTimeout(s)
         \/ AfterStep(s)
  PROVE  StepFits(s)'
<1> USE DEF StepFits, WorkerFits, PointFits, TypeOK
<1>1. CASE BeforeStepPass(s)
  BY <1>1 DEF BeforeStepPass, Early, NewPoint
<1>2. CASE BeforeStepFail(s)
  BY <1>2 DEF BeforeStepFail, BeforeFailed, Suspended, Recorded, Normal, Abnormal, Early,
     Late, NewPoint, BodyFault
<1>3. CASE RunFinished(s)
  BY <1>3 DEF RunFinished, Judge, Normal, Abnormal, Early, Late, NewPoint, BodyFault
<1>4. CASE StepTimeout(s)
  BY <1>4 DEF StepTimeout, Judge, Normal, Abnormal, Early, Late, NewPoint, BodyFault
<1>5. CASE AfterStep(s)
  <2>1. pc[s] = "after" /\ pc'[s] = "fin" /\ worker'[s] = worker[s]
    BY <1>5 DEF AfterStep
  <2>2. "fin" \notin Early \cup {"select", "after"} /\ "fin" \in Late /\ "after" \notin Late
    BY DEF Early, Late
  <2>3. CASE UNCHANGED <<stat, bp>>
    BY <2>1, <2>2, <2>3
  <2>4. CASE stat' = [stat EXCEPT ![s] = AfterFailed(stat[s])]
             /\ bp' = [bp EXCEPT ![s] = Recorded(bp[s], "newAfter")]
    <3>1. stat'[s] = AfterFailed(stat[s]) /\ bp'[s] = Recorded(bp[s], "newAfter")
      BY <2>4
    <3>2. /\ ~Normal(stat'[s])
          /\ \A f \in Flag \ {"CallbackFail", "Suspend"} : f \in stat'[s] <=> f \in stat[s]
          /\ "Suspend" \in stat'[s] => "Suspend" \in stat[s] \/ Recoverable
      BY <3>1 DEF AfterFailed, Suspended, Normal, Abnormal
    <3>3. /\ stat'[s] \cap {"Success", "Error", "Panic"} = stat[s] \cap {"Success", "Error", "Panic"}
          /\ stat'[s] \cap {"Success", "Recovering"} = stat[s] \cap {"Success", "Recovering"}
          /\ stat'[s] \cap BodyFault = stat[s] \cap BodyFault
          /\ "Timeout" \in stat'[s] <=> "Timeout" \in stat[s]
          /\ "Recovering" \in stat'[s] <=> "Recovering" \in stat[s]
      BY <3>2 DEF BodyFault, Flag, Abnormal
    <3>4. /\ bp'[s] \in NewPoint \/ (~Recoverable /\ bp'[s] = bp[s])
          /\ bp'[s] = "newAfter" =>
                bp[s] = "newAfter" \/ (bp[s] \notin NewPoint /\ Recoverable)
      BY <3>1 DEF Recorded, NewPoint
    <3>5. WorkerFits(s)'
      BY <2>1, <2>2, <3>2, <3>3
    <3>6. bp'[s] = "newAfter" =>
             stat[s] \cap BodyFault = {} /\ stat[s] \cap {"Success", "Recovering"} # {}
      <4>1. SUFFICES ASSUME bp'[s] = "newAfter"
                     PROVE  stat[s] \cap BodyFault = {} /\ stat[s] \cap {"Success", "Recovering"} # {}
        OBVIOUS
      <4>2. bp[s] \notin NewPoint /\ Recoverable
        BY <2>1, <2>2, <3>4, <4>1 DEF NewPoint
      <4>3. stat[s] \cap BodyFault = {}
        BY <2>1, <4>2 DEF NewPoint
      <4>4. "Timeout" \notin stat[s] /\ stat[s] \cap {"Error", "Panic"} = {}
        BY <4>3 DEF BodyFault
      <4>5. worker[s] = "done"
        BY <2>1, <4>4
      <4>6. QED
        BY <4>3, <4>4, <4>5
    <3>7. PointFits(s)'
      BY <2>1, <2>2, <3>2, <3>3, <3>4, <3>6
    <3>8. QED
      BY <3>5, <3>7
  <2>5. QED
    BY <1>5, <2>3, <2>4 DEF AfterStep
<1>6. QED
  BY <1>1, <1>2, <1>3, <1>4, <1>5

\* The goroutine of the function.
LEMMA WorkFits ==
  ASSUME TypeOK, NEW s \in Step, StepFits(s), Work(s)
  PROVE  StepFits(s)'
<1> USE DEF StepFits, WorkerFits, PointFits, TypeOK
<1>1. CASE RunStep(s)
  BY <1>1 DEF RunStep, Normal, Abnormal, Early, Late, NewPoint, BodyFault
<1>2. CASE Attempt(s)
  BY <1>2 DEF Attempt, WorkDone, Normal, Abnormal, Early, Late, NewPoint, BodyFault
<1>3. QED
  BY <1>1, <1>2 DEF Work

\* What a step of Propagate does to any step: marks, hand-overs and its own way on.
LEMMA PropagateDrifts ==
  ASSUME OrderInv, NEW s \in Step, Propagate(s), NEW x \in Step
  PROVE  /\ bp'[x] = bp[x] /\ worker'[x] = worker[x]
         /\ \E M \in SUBSET {"Cancel", "skip"} : stat'[x] = stat[x] \cup M
         /\ \/ pc'[x] = pc[x]
            \/ pc[x] \in Ended /\ pc'[x] \in Ended
            \/ pc[x] = "wait" /\ pc'[x] = "start"
<1>1. /\ pc \in [Step -> Location] /\ stat \in [Step -> SUBSET Flag]
      /\ to \in [Step -> Step \cup {None}]
  BY DEF OrderInv, TypeOK
<1>2. UNCHANGED <<bp, worker>>
  BY DEF Propagate, Settle, Countdown, Mark, Depart
<1>3. \E M \in SUBSET {"Cancel", "skip"} : stat'[x] = stat[x] \cup M
  <2>1. CASE UNCHANGED stat
    <3>1. stat'[x] = stat[x] \cup {} /\ {} \in SUBSET {"Cancel", "skip"}
      BY <2>1
    <3>2. QED
      BY <3>1
  <2>2. CASE Mark(s)
    <3>1. stat' = [stat EXCEPT ![to[s]] = @ \cup (IF cancel[s] THEN {"Cancel"} ELSE {})
                                           \cup (IF skip[s] THEN {"skip"} ELSE {})]
      BY <2>2 DEF Mark, MarkWaiter
    <3>2. \/ stat'[x] = stat[x] \cup {} \/ stat'[x] = stat[x] \cup {"Cancel"}
          \/ stat'[x] = stat[x] \cup {"skip"} \/ stat'[x] = stat[x] \cup {"Cancel", "skip"}
      BY <1>1, <3>1
    <3>3. QED
      BY <3>2
  <2>3. UNCHANGED stat \/ Mark(s)
    BY DEF Propagate, Settle, Countdown, Depart
  <2>4. QED
    BY <2>1, <2>2, <2>3
<1>4. \/ pc'[x] = pc[x]
      \/ pc[x] \in Ended /\ pc'[x] \in Ended
      \/ pc[x] = "wait" /\ pc'[x] = "start"
  <2>1. pc[s] \in Ended /\ pc'[s] \in Ended
    BY <1>1, HandOverType DEF OrderInv, Propagate, Settle, Countdown, Mark, Depart, Ended
  <2>2. x # bind[s] => HandOver(s)[x] = pc[x]
    BY HandOverOrder
  <2>3. x = bind[s] => pc[x] = "wait" /\ HandOver(s)[x] = "start"
    BY HandOverOrder, StepAssumption
  <2>4. x # s => pc'[x] = pc[x] \/ pc'[x] = HandOver(s)[x]
    BY <1>1, HandOverType DEF OrderInv, Propagate, Settle, Countdown, Mark, Depart
  <2>5. QED
    BY <2>1, <2>2, <2>3, <2>4
<1>5. QED
  BY <1>2, <1>3, <1>4

\* What the goroutines of a step do to the other steps: nothing.
LEMMA OthersRest ==
  ASSUME TypeOK, NEW s \in Step, Execute(s) \/ Work(s), NEW x \in Step \ {s}
  PROVE  /\ pc'[x] = pc[x] /\ stat'[x] = stat[x] /\ bp'[x] = bp[x] /\ worker'[x] = worker[x]
         /\ UNCHANGED <<cancel, to, todo>>
<1> USE DEF TypeOK, frame
<1>1. CASE Work(s)
  BY <1>1 DEF Work, RunStep, Attempt, WorkDone
<1>2. CASE Enter(s) \/ Gate(s) \/ SkipStep(s) \/ MeetCondition(s)
  BY <1>2 DEF Enter, Gate, SkipStep, MeetCondition
<1>3. CASE MissCondition(s) \/ Unhold(s) \/ BeforeStepPass(s) \/ BeforeStepFail(s)
  BY <1>3 DEF MissCondition, Unhold, BeforeStepPass, BeforeStepFail
<1>4. CASE RunFinished(s) \/ StepTimeout(s)
  BY <1>4 DEF RunFinished, StepTimeout, Judge
<1>5. CASE AfterStep(s) \/ FinalizeStep(s)
  BY <1>5 DEF AfterStep, FinalizeStep
<1>6. QED
  BY <1>1, <1>2, <1>3, <1>4, <1>5 DEF Execute

\* What the goroutine of schedule and the controllers do to a step.
LEMMA ScheduleDrifts ==
  ASSUME TypeOK, Schedule \/ Control \/ UNCHANGED vars, NEW x \in Step
  PROVE  /\ stat'[x] = stat[x] /\ bp'[x] = bp[x] /\ worker'[x] = worker[x]
         /\ UNCHANGED <<cancel, to, todo>>
         /\ pc'[x] = pc[x] \/ (pc[x] = "wait" /\ pc'[x] = "start" /\ ppc = "spawn")
<1> USE DEF TypeOK, stepVars, frame
<1>1. CASE \E s \in Step : Spawn(s)
  BY <1>1 DEF Spawn
<1>2. CASE Control \/ UNCHANGED vars
  BY <1>2 DEF Control, Stop, Pause, Resume, vars
<1>3. CASE Schedule /\ ~\E s \in Step : Spawn(s)
  BY <1>3 DEF Schedule, Proceed, Begin, BeforeProcessPass, BeforeProcessFail, Spawned,
     AllFinished, ProcessTimeout, AfterProcess, Finalize
<1>4. QED
  BY <1>1, <1>2, <1>3

LEMMA NextFits ==
  ASSUME OrderInv, [Next]_vars, NEW x \in Step, StepFits(x)
  PROVE  StepFits(x)'
<1>1. TypeOK
  BY DEF OrderInv
<1>2. {} \in SUBSET {"Cancel", "skip"} /\ stat[x] = stat[x] \cup {}
  OBVIOUS
<1>3. CASE Schedule \/ Control \/ UNCHANGED vars
  BY <1>1, <1>2, <1>3, ScheduleDrifts, DriftFits
<1>4. ASSUME NEW s \in Step, Propagate(s) PROVE StepFits(x)'
  BY <1>4, PropagateDrifts, DriftFits DEF Ended, Late
<1>5. ASSUME NEW s \in Step, Execute(s) \/ Work(s) PROVE StepFits(x)'
  <2>1. CASE x = s
    BY <1>1, <1>5, <2>1, ApproachFits, CallFits, WorkFits DEF Execute
  <2>2. CASE x # s
    BY <1>1, <1>2, <1>5, <2>2, OthersRest, DriftFits
  <2>3. QED
    BY <2>1, <2>2
<1>6. QED
  BY <1>3, <1>4, <1>5 DEF Next, Terminated

-------------------------------------------------------------------------------
(***************************************************************************)
(* The process: when its steps are at rest, and what it knows of them.     *)
(***************************************************************************)
AllWait == \A s \in Step : pc[s] = "wait"
Resting == AllWait \/ AllDeparted

RestFits ==
    /\ ppc \in {"init", "before"} => AllWait
    /\ ppc \in {"after", "final", "end"} /\ "Timeout" \notin pstat => Resting
    /\ "release" \in managed => ppc = "end"

SuspendFits ==
    /\ \A s \in Step : pc[s] \in Ended /\ "Suspend" \in stat[s]
                       => "Suspend" \in pstat /\ flowSuspend
    /\ "release" \in managed /\ "Timeout" \notin pstat /\ "Suspend" \in pstat
           => "suspend" \in managed

SuccessFits == "Success" \in pstat => AllDeparted /\ \A s \in Step : Normal(stat[s])

AllFit == \A s \in Step : StepFits(s)

ProcessInv == OrderInv /\ AllFit /\ RestFits /\ SuspendFits /\ SuccessFits

LEMMA RestingStays ==
  ASSUME OrderInv, [Next]_vars, Resting, ppc # "spawn" \/ AllDeparted
  PROVE  /\ \A x \in Step : /\ pc'[x] = pc[x]
                            /\ stat'[x] = stat[x] \/ worker[x] \in {"ready", "run"}
         /\ ppc = "end" /\ "Suspend" \in pstat' => "Suspend" \in pstat
<1>1. TypeOK /\ \A s \in Step : pc[s] \in {"wait", "done"}
  BY DEF OrderInv, Resting, AllWait, AllDeparted
<1>2. CASE Schedule \/ Control \/ UNCHANGED vars
  <2>1. ppc = "end" /\ "Suspend" \in pstat' => "Suspend" \in pstat
    BY <1>2 DEF Schedule, Proceed, Begin, BeforeProcessPass, BeforeProcessFail, Spawn, Spawned,
       AllFinished, ProcessTimeout, AfterProcess, Finalize, Control, Stop, Pause, Resume, vars,
       procVars
  <2>2. QED
    BY <1>1, <1>2, <2>1, ScheduleDrifts DEF AllDeparted
<1>3. ASSUME NEW s \in Step, Work(s), NEW x \in Step
      PROVE  /\ pc'[x] = pc[x] /\ pstat' = pstat
             /\ stat'[x] = stat[x] \/ worker[x] \in {"ready", "run"}
  BY <1>1, <1>3 DEF Work, RunStep, Attempt, WorkDone, procVars, TypeOK
<1>4. ASSUME NEW s \in Step PROVE ~Execute(s) /\ ~Propagate(s)
  <2>1. pc[s] \in {"wait", "done"}
    BY <1>1
  <2>2. ~Execute(s)
    BY <2>1 DEF Execute, Enter, Gate, SkipStep, MeetCondition, MissCondition, Examined, Unhold,
       BeforeStepPass, BeforeStepFail, RunFinished, StepTimeout, AfterStep, FinalizeStep
  <2>3. ~Propagate(s)
    BY <2>1 DEF Propagate, Settle, Countdown, Mark, Depart
  <2>4. QED
    BY <2>2, <2>3
<1>5. ASSUME NEW s \in Step, Work(s) PROVE pstat' = pstat
  BY <1>5 DEF Work, RunStep, Attempt, procVars
<1>6. QED
  BY <1>2, <1>3, <1>4, <1>5 DEF Next, Terminated

\* waitFinish is back when every step has departed.
LEMMA ZeroRuns == ASSUME OrderInv, running = 0 PROVE AllDeparted
<1> DEFINE P == {s \in Step : pc[s] # "done"}
<1>1. IsFiniteSet(P) /\ Cardinality(P) = 0
  BY StepAssumption, FS_Subset DEF OrderInv, RunningExact
<1>2. P = {}
  <2> HIDE DEF P
  <2> QED
    BY <1>1, FS_EmptySet
<1>3. QED
  BY <1>2 DEF AllDeparted

\* What happens to the status of the process and to its goroutine.
LEMMA ProcessSteps ==
  ASSUME [Next]_vars
  PROVE  \/ /\ UNCHANGED <<ppc, pbp, managed>>
            /\ pstat' \in {pstat, pstat \cup {"Stop"}, pstat \cup {"Pause"},
                          pstat \cup {"Suspend"}, pstat \ {"Pause"}}
            /\ pstat' = pstat \cup {"Stop"} => "Stop" \in Controls \/ pstat' = pstat
         \/ Schedule
<1>1. CASE Control
  <2>1. UNCHANGED <<ppc, pbp, managed>>
    BY <1>1 DEF Control, Stop, Pause, Resume
  <2>2. \/ pstat' = pstat \cup {"Stop"} /\ "Stop" \in Controls
        \/ pstat' = pstat \cup {"Pause"} \/ pstat' = pstat \ {"Pause"}
    BY <1>1 DEF Control, Stop, Pause, Resume
  <2>3. pstat' = pstat \cup {"Stop"} => "Stop" \in Controls \/ pstat' = pstat
    BY <2>2
  <2>4. QED
    BY <2>1, <2>2, <2>3
<1>2. ASSUME NEW s \in Step, Execute(s) \/ Propagate(s) \/ Work(s)
      PROVE  /\ UNCHANGED <<ppc, pbp, managed>>
             /\ pstat' = pstat \/ pstat' = pstat \cup {"Suspend"}
  BY <1>2 DEF Execute, Enter, Gate, SkipStep, MeetCondition, MissCondition,
     Unhold, BeforeStepPass, BeforeStepFail, RunFinished, StepTimeout,
     AfterStep, FinalizeStep, Propagate, Settle, Countdown, Mark, Depart, Work,
     RunStep, Attempt, procVars
<1>3. CASE UNCHANGED vars
  BY <1>3 DEF vars, procVars
<1>4. QED
  BY <1>1, <1>2, <1>3 DEF Next, Terminated

\* The flags of the process are never taken away, except Pause.
LEMMA FlagsStay ==
  ASSUME [Next]_vars, NEW f \in Flag \ {"Pause"}, f \in pstat PROVE f \in pstat'
<1>1. \A status : /\ status \subseteq Verdict(status)
                 /\ status \subseteq BeforeFailed(status)
                 /\ status \subseteq AfterFailed(status)
  BY DEF Verdict, BeforeFailed, AfterFailed, Suspended
<1>2. CASE Schedule
  <2>1. \/ pstat' = pstat \/ pstat' = BeforeFailed(pstat) \/ pstat' = AfterFailed(pstat)
        \/ pstat' = Verdict(pstat) \/ pstat' = Verdict(pstat \cup {"Timeout"})
    BY <1>2 DEF Schedule, Proceed, Begin, BeforeProcessPass, BeforeProcessFail, Spawn, Spawned,
       AllFinished, ProcessTimeout, AfterProcess, Finalize, procVars
  <2>2. QED
    BY <1>1, <2>1
<1>3. QED
  BY <1>2, ProcessSteps

LEMMA NextRests == ASSUME ProcessInv, [Next]_vars PROVE RestFits'
<1>1. OrderInv /\ RestFits
  BY DEF ProcessInv
<1>2. ASSUME Resting, ppc # "spawn" PROVE Resting' /\ (AllWait => AllWait')
  BY <1>1, <1>2, RestingStays DEF Resting, AllWait, AllDeparted
<1>3. "Timeout" \in pstat => "Timeout" \in pstat'
  BY FlagsStay DEF Flag, Abnormal
<1>4. CASE UNCHANGED <<ppc, managed>>
  BY <1>1, <1>2, <1>3, <1>4 DEF RestFits, Resting
<1>5. CASE Schedule /\ ~UNCHANGED <<ppc, managed>>
  <2>1. \/ ppc = "init" /\ ppc' \in {"final", "before"}
        \/ ppc = "before" /\ ppc' \in {"spawn", "final"}
        \/ ppc = "spawn" /\ ppc' = "wait"
        \/ ppc = "wait" /\ ppc' = "after" /\ (running = 0 \/ "Timeout" \in pstat')
        \/ ppc = "after" /\ ppc' = "final"
        \/ ppc = "final" /\ ppc' = "end"
    BY <1>5 DEF Schedule, Proceed, Begin, BeforeProcessPass, BeforeProcessFail, Spawn, Spawned,
       AllFinished, ProcessTimeout, AfterProcess, Finalize, Verdict, procVars
  <2>2. "release" \in managed' => "release" \in managed \/ ppc' = "end"
    BY <1>5 DEF Schedule, Proceed, Begin, BeforeProcessPass, BeforeProcessFail, Spawn, Spawned,
       AllFinished, ProcessTimeout, AfterProcess, Finalize, procVars
  <2>3. CASE ppc = "wait" /\ running = 0 /\ ppc' = "after"
    <3>1. Resting
      BY <1>1, <2>3, ZeroRuns DEF Resting
    <3>2. QED
      BY <1>1, <1>2, <2>2, <2>3, <3>1 DEF RestFits
  <2>4. CASE ppc = "wait" /\ "Timeout" \in pstat' /\ ppc' = "after"
    BY <1>1, <2>2, <2>4 DEF RestFits
  <2>5. CASE ppc \in {"init", "before", "spawn", "after", "final"}
    BY <1>1, <1>2, <1>3, <2>1, <2>2, <2>5 DEF RestFits, Resting
  <2>6. QED
    BY <2>1, <2>3, <2>4, <2>5
<1>6. QED
  BY <1>4, <1>5, ProcessSteps

LEMMA SuspendGrows ==
  ASSUME [Next]_vars PROVE (flowSuspend => flowSuspend') /\ managed \subseteq managed'
<1>1. CASE Schedule
  <2>1. \/ UNCHANGED <<flowSuspend, managed>>
        \/ flowSuspend' = flowSuspend /\ managed' = managed \cup {"recover"}
        \/ Finalize
    BY <1>1 DEF Schedule, Proceed, Begin, BeforeProcessPass, BeforeProcessFail, Spawn, Spawned,
       AllFinished, ProcessTimeout, AfterProcess, procVars
  <2>2. CASE Finalize
    <3>1. \E M : managed' = managed \cup {"release"} \cup M
      BY <2>2 DEF Finalize
    <3>2. QED
      BY <2>2, <3>1 DEF Finalize
  <2>3. QED
    BY <2>1, <2>2
<1>2. CASE Control \/ UNCHANGED vars
  BY <1>2 DEF Control, Stop, Pause, Resume, vars, procVars
<1>3. ASSUME NEW s \in Step, Execute(s) \/ Propagate(s) \/ Work(s)
      PROVE  (flowSuspend => flowSuspend') /\ managed \subseteq managed'
  BY <1>3 DEF Execute, Enter, Gate, SkipStep, MeetCondition, MissCondition,
     Unhold, BeforeStepPass, BeforeStepFail, RunFinished, StepTimeout,
     AfterStep, FinalizeStep, Propagate, Settle, Countdown, Mark, Depart, Work,
     RunStep, Attempt, procVars
<1>4. QED
  BY <1>1, <1>2, <1>3 DEF Next, Terminated

\* A suspended step comes to its end through its finalize only.
LEMMA SuspendedEnds ==
  ASSUME OrderInv, AllFit, [Next]_vars, NEW x \in Step,
         pc'[x] \in Ended, "Suspend" \in stat'[x]
  PROVE  "Suspend" \in stat[x] /\ (pc[x] \in Ended \/ FinalizeStep(x))
<1>1. TypeOK /\ StepFits(x)
  BY DEF OrderInv, AllFit
<1>2. CASE Schedule \/ Control \/ UNCHANGED vars
  BY <1>1, <1>2, ScheduleDrifts DEF Ended
<1>3. ASSUME NEW s \in Step, Propagate(s)
      PROVE  "Suspend" \in stat[x] /\ pc[x] \in Ended
  <2>1. PICK M \in SUBSET {"Cancel", "skip"} : stat'[x] = stat[x] \cup M
    BY <1>3, PropagateDrifts
  <2>2. QED
    BY <1>3, <2>1, PropagateDrifts DEF Ended
<1>4. ASSUME Work(x) PROVE "Suspend" \in stat[x] /\ pc[x] \in Ended
  BY <1>1, <1>4 DEF Work, RunStep, Attempt, WorkDone, TypeOK
<1>5. ASSUME Execute(x), ~FinalizeStep(x) PROVE FALSE
  <2>1. pc[x] \in Early \/ pc'[x] \notin Ended
    BY <1>1, <1>5 DEF TypeOK, Execute, Enter, Gate, SkipStep, MeetCondition, MissCondition,
       Examined, Unhold, BeforeStepPass, BeforeStepFail, RunFinished, StepTimeout, Judge,
       AfterStep, Early, Ended
  <2>2. pc[x] \in Early /\ "Suspend" \notin stat[x]
    BY <1>1, <2>1 DEF StepFits, PointFits
  <2>3. CASE Enter(x) \/ Gate(x) \/ SkipStep(x) \/ MeetCondition(x) \/ MissCondition(x)
    BY <1>1, <2>2, <2>3 DEF TypeOK, Enter, Gate, SkipStep, MeetCondition, MissCondition
  <2>4. CASE Unhold(x) \/ BeforeStepPass(x) \/ BeforeStepFail(x)
    BY <1>1, <2>4 DEF TypeOK, Unhold, BeforeStepPass, BeforeStepFail, Ended
  <2>5. CASE RunFinished(x) \/ StepTimeout(x) \/ AfterStep(x)
    BY <2>2, <2>5 DEF RunFinished, StepTimeout, AfterStep, Early
  <2>6. QED
    BY <1>5, <2>3, <2>4, <2>5 DEF Execute
<1>6. ASSUME NEW s \in Step \ {x}, Execute(s) \/ Work(s)
      PROVE  "Suspend" \in stat[x] /\ pc[x] \in Ended
  BY <1>1, <1>6, OthersRest
<1>7. FinalizeStep(x) => "Suspend" \in stat[x]
  BY DEF FinalizeStep
<1>8. QED
  BY <1>2, <1>3, <1>4, <1>5, <1>6, <1>7 DEF Next, Terminated

LEMMA NextSuspends == ASSUME ProcessInv, [Next]_vars PROVE SuspendFits'
<1>1. OrderInv /\ AllFit /\ RestFits /\ SuspendFits
  BY DEF ProcessInv
<1>2. "Suspend" \in pstat => "Suspend" \in pstat'
  BY FlagsStay DEF Flag
<1>3. ASSUME NEW x \in Step, pc'[x] \in Ended, "Suspend" \in stat'[x]
      PROVE  "Suspend" \in pstat' /\ flowSuspend'
  <2>1. "Suspend" \in stat[x] /\ (pc[x] \in Ended \/ FinalizeStep(x))
    BY <1>1, <1>3, SuspendedEnds
  <2>2. CASE pc[x] \in Ended
    BY <1>1, <1>2, <2>1, <2>2, SuspendGrows DEF SuspendFits
  <2>3. CASE FinalizeStep(x)
    BY <2>1, <2>3 DEF FinalizeStep
  <2>4. QED
    BY <2>1, <2>2, <2>3
<1>4. ASSUME "release" \in managed', "Timeout" \notin pstat', "Suspend" \in pstat'
      PROVE  "suspend" \in managed'
  <2>1. CASE "release" \in managed
    <3>1. "Timeout" \notin pstat
      BY <1>4, FlagsStay DEF Flag, Abnormal
    <3>2. ppc = "end" /\ Resting
      BY <1>1, <2>1, <3>1 DEF RestFits
    <3>3. "Suspend" \in pstat
      BY <1>1, <1>4, <3>2, RestingStays
    <3>4. QED
      BY <1>1, <2>1, <3>1, <3>3, SuspendGrows DEF SuspendFits
  <2>2. CASE "release" \notin managed
    <3>1. Schedule
      BY <1>4, <2>2, ProcessSteps
    <3>2. Finalize
      BY <1>4, <2>2, <3>1 DEF Schedule, Proceed, Begin, BeforeProcessPass,
           BeforeProcessFail, Spawn, Spawned, AllFinished, ProcessTimeout, AfterProcess,
           procVars
    <3>3. QED
      BY <1>4, <3>2 DEF Finalize
  <2>3. QED
    BY <2>1, <2>2
<1>5. QED
  BY <1>3, <1>4 DEF SuspendFits

LEMMA NextSucceeds == ASSUME ProcessInv, [Next]_vars PROVE SuccessFits'
<1>1. OrderInv /\ AllFit /\ RestFits /\ SuccessFits
  BY DEF ProcessInv
<1>2. SUFFICES ASSUME "Success" \in pstat'
               PROVE  AllDeparted' /\ \A s \in Step : Normal(stat'[s])
  BY DEF SuccessFits, AllDeparted
<1>3. CASE "Success" \in pstat
  <2>1. AllDeparted /\ \A s \in Step : Normal(stat[s])
    BY <1>1, <1>3 DEF SuccessFits
  <2>2. ASSUME NEW s \in Step PROVE worker[s] \notin {"ready", "run"}
    <3>1. pc[s] # "select" /\ "Timeout" \notin stat[s] /\ StepFits(s)
      BY <1>1, <2>1 DEF AllDeparted, Normal, Abnormal, AllFit
    <3>2. QED
      BY <3>1 DEF StepFits, WorkerFits
  <2>3. ASSUME NEW s \in Step PROVE pc'[s] = "done" /\ stat'[s] = stat[s]
    BY <1>1, <2>1, <2>2, RestingStays DEF Resting, AllDeparted
  <2>4. QED
    BY <2>1, <2>3 DEF AllDeparted
<1>4. CASE "Success" \notin pstat
  <2>1. Schedule
    BY <1>2, <1>4, ProcessSteps
  <2>2. AllFinished
    BY <1>2, <1>4, <2>1 DEF Schedule, Proceed, Begin, BeforeProcessPass, BeforeProcessFail, Spawn,
       Spawned, ProcessTimeout, AfterProcess, Finalize, procVars, BeforeFailed, AfterFailed,
       Suspended, Verdict, Normal, Abnormal
  <2>3. AllDeparted /\ UNCHANGED <<pc, stat>>
    BY <1>1, <2>2, ZeroRuns DEF AllFinished, stepVars
  <2>4. \A s \in Step : Normal(stat[s])
    BY <1>2, <1>4, <2>2 DEF AllFinished, Verdict, Normal, Abnormal
  <2>5. QED
    BY <2>3, <2>4 DEF AllDeparted
<1>5. QED
  BY <1>3, <1>4

-------------------------------------------------------------------------------
(***************************************************************************)
(* How failures spread (startNextSteps).                                   *)
(***************************************************************************)
OwnFault == Abnormal \ {"Cancel"}
Spreads == {"next", "mark", "done"}

HandsFree == \A d \in Step : pc[d] # "mark" => to[d] = None

\* A failure that is being spread has reached the waiters that were looked at.
FaultSpreads == \A d \in Step : pc[d] \in Spreads /\ stat[d] \cap OwnFault # {} =>
    /\ pc[d] # "done" => cancel[d]
    /\ \A w \in Waiters(d) : w \in todo[d] \/ w = to[d] \/ "Cancel" \in stat[w]

CancelInv == HandsFree /\ FaultSpreads

\* A step that leaves the locals of startNextSteps alone.
LEMMA QuietCancels ==
  ASSUME OrderInv, CancelInv, UNCHANGED <<cancel, to, todo>>,
         \A x \in Step :
            /\ stat[x] \subseteq stat'[x]
            /\ pc[x] = "mark" <=> pc'[x] = "mark"
            /\ pc'[x] \in Spreads => /\ pc'[x] = pc[x]
                                     /\ stat'[x] \cap OwnFault # {} => stat[x] \cap OwnFault # {}
  PROVE  CancelInv'
<1>1. HandsFree'
  BY DEF CancelInv, HandsFree
<1>2. FaultSpreads'
  BY DEF CancelInv, FaultSpreads, Waiters
<1>3. QED
  BY <1>1, <1>2 DEF CancelInv

LEMMA ExecuteCancels ==
  ASSUME OrderInv, AllFit, CancelInv, NEW s \in Step, Execute(s) \/ Work(s)
  PROVE  CancelInv'
<1>1. TypeOK /\ StepFits(s)
  BY DEF OrderInv, AllFit
<1>2. UNCHANGED <<cancel, to, todo>>
  BY DEF Execute, Enter, Gate, SkipStep, MeetCondition, MissCondition, Unhold, BeforeStepPass,
     BeforeStepFail, RunFinished, StepTimeout, AfterStep, FinalizeStep, Work, RunStep, Attempt,
     frame
<1>3. CASE Execute(s)
  <2>1. pc[s] \notin Spreads /\ pc'[s] \notin Spreads
    BY <1>1, <1>3 DEF TypeOK, Execute, Enter, Gate, SkipStep, MeetCondition, MissCondition,
       Examined, Unhold, BeforeStepPass, BeforeStepFail, RunFinished, StepTimeout, Judge,
       AfterStep, FinalizeStep, Spreads
  <2>2. stat[s] \subseteq stat'[s]
    BY <1>1, <1>3 DEF TypeOK, Execute, Enter, Gate, SkipStep, MeetCondition, MissCondition,
       Unhold, BeforeStepPass, BeforeStepFail, BeforeFailed, RunFinished, StepTimeout, Judge,
       AfterStep, FinalizeStep, AfterFailed, Suspended
  <2>3. QED
    BY <1>1, <1>2, <1>3, <2>1, <2>2, OthersRest, QuietCancels DEF Spreads
<1>4. CASE Work(s)
  <2>1. /\ stat[s] \subseteq stat'[s] /\ pc' = pc
        /\ stat' = stat \/ worker[s] = "run"
    BY <1>1, <1>4 DEF TypeOK, Work, RunStep, Attempt, WorkDone
  <2>2. pc[s] \in Spreads /\ worker[s] = "run" => stat[s] \cap OwnFault # {}
    BY <1>1 DEF StepFits, WorkerFits, Spreads, OwnFault, Abnormal
  <2>3. QED
    BY <1>1, <1>2, <1>4, <2>1, <2>2, OthersRest, QuietCancels
<1>5. QED
  BY <1>3, <1>4

LEMMA SettleCancels ==
  ASSUME OrderInv, CancelInv, NEW s \in Step, Settle(s)
  PROVE  CancelInv'
<1> USE DEF OrderInv, Ownership, TypeOK, CancelInv
<1>1. /\ cancel' = [cancel EXCEPT ![s] = ~Normal(stat[s]) \/ ~Normal(pstat)]
      /\ pc[s] = "settle" /\ pc' = [pc EXCEPT ![s] = "next"]
      /\ UNCHANGED <<stat, pstat, to, todo>>
  BY DEF Settle, procVars
<1>2. todo[s] = Waiters(s)
  BY <1>1 DEF FramesExact
<1>3. HandsFree'
  BY <1>1 DEF HandsFree
<1>4. FaultSpreads'
  <2>1. stat[s] \cap OwnFault # {} => ~Normal(stat[s])
    BY DEF OwnFault, Normal
  <2>2. QED
    <3>1. ASSUME NEW d \in Step, pc'[d] \in Spreads, stat'[d] \cap OwnFault # {}
          PROVE  /\ pc'[d] # "done" => cancel'[d]
                 /\ \A w \in Waiters(d) : w \in todo'[d] \/ w = to'[d] \/ "Cancel" \in stat'[w]
      <4>1. CASE d = s
        BY <1>1, <1>2, <2>1, <3>1, <4>1
      <4>2. CASE d # s
        BY <1>1, <3>1, <4>2 DEF FaultSpreads
      <4>3. QED
        BY <4>1, <4>2
    <3>2. QED
      BY <3>1 DEF FaultSpreads, Waiters
<1>5. QED
  BY <1>3, <1>4

LEMMA CountdownCancels ==
  ASSUME OrderInv, CancelInv, NEW s \in Step, NEW v \in Step, Countdown(s, v)
  PROVE  CancelInv'
<1> USE DEF OrderInv, Ownership, TypeOK, CancelInv
<1>1. /\ pc[s] = "next" /\ pc' = [pc EXCEPT ![s] = "mark"]
      /\ todo' = [todo EXCEPT ![s] = todo[s] \ {v}] /\ to' = [to EXCEPT ![s] = v]
      /\ UNCHANGED <<stat, pstat, cancel>>
  BY DEF Countdown, procVars
<1>2. HandsFree'
  BY <1>1 DEF HandsFree
<1>3. to[s] = None /\ \A w \in Waiters(s) : w # None
  BY <1>1, StepAssumption DEF HandsFree, Waiters
<1>4. FaultSpreads'
  BY <1>1, <1>3 DEF FaultSpreads, Spreads, Waiters
<1>5. QED
  BY <1>2, <1>4

LEMMA MarkCancels ==
  ASSUME OrderInv, CancelInv, NEW s \in Step, Mark(s)
  PROVE  CancelInv'
<1> USE DEF OrderInv, Ownership, TypeOK, CancelInv
<1> DEFINE v == to[s]
<1>1. /\ pc[s] = "mark" /\ v \in Waiters(s) /\ v \in Step /\ s \in Depends[v]
      /\ UNCHANGED <<pstat, cancel, todo>> /\ to' = [to EXCEPT ![s] = None]
  BY WaitersMember DEF Mark, MarkWaiter, FramesExact, Waiters, procVars
<1>2. \A x \in Step : /\ stat[x] \subseteq stat'[x]
                      /\ stat'[x] \cap OwnFault = stat[x] \cap OwnFault
                      /\ "Cancel" \in stat'[x] <=> "Cancel" \in stat[x] \/ (x = v /\ cancel[s])
                      /\ Normal(stat'[x]) => Normal(stat[x])
  <2>1. \A x \in Step : stat'[x] = IF x = v THEN stat[v] \cup (IF cancel[s] THEN {"Cancel"} ELSE {})
                                                        \cup (IF skip[s] THEN {"skip"} ELSE {})
                                            ELSE stat[x]
    BY <1>1 DEF Mark, MarkWaiter
  <2>2. QED
    BY <2>1 DEF OwnFault, Abnormal, Normal
<1>3. pc'[s] = "next" /\ \A x \in Step \ {s} :
          pc'[x] = pc[x] \/ (pc[x] = "wait" /\ pc'[x] = "start")
  <2>1. HandOver(s)[s] \in Location
    BY HandOverOrder
  <2>2. QED
    BY <1>1, HandOverOrder, StepAssumption DEF Mark
<1>4. HandsFree'
  BY <1>1, <1>3 DEF HandsFree
<1>5. FaultSpreads'
  <2>1. ASSUME NEW d \in Step, pc'[d] \in Spreads, stat'[d] \cap OwnFault # {}
        PROVE  /\ pc'[d] # "done" => cancel'[d]
               /\ \A w \in Waiters(d) : w \in todo'[d] \/ w = to'[d] \/ "Cancel" \in stat'[w]
    <3>1. pc[d] \in Spreads /\ stat[d] \cap OwnFault # {}
      BY <1>1, <1>2, <1>3, <2>1 DEF Spreads
    <3>2. /\ pc[d] # "done" => cancel[d]
          /\ \A w \in Waiters(d) : /\ w \in Step
                                   /\ w \in todo[d] \/ w = to[d] \/ "Cancel" \in stat[w]
      BY <3>1 DEF FaultSpreads, Waiters
    <3>3. CASE d = s
      BY <1>1, <1>2, <3>1, <3>2, <3>3
    <3>4. CASE d # s
      <4>1. pc'[d] = pc[d] /\ to'[d] = to[d]
        BY <1>1, <1>3, <3>1, <3>4 DEF Spreads
      <4>2. QED
        BY <1>1, <1>2, <3>1, <3>2, <4>1
    <3>5. QED
      BY <3>3, <3>4
  <2>2. QED
    BY <2>1 DEF FaultSpreads, Waiters
<1>6. QED
  BY <1>4, <1>5

LEMMA DepartCancels ==
  ASSUME OrderInv, CancelInv, NEW s \in Step, Depart(s)
  PROVE  CancelInv'
<1> USE DEF OrderInv, Ownership, TypeOK, CancelInv
<1>1. /\ pc[s] = "next" /\ todo[s] = {} /\ UNCHANGED <<pstat, stat, todo, to>>
      /\ cancel' = [cancel EXCEPT ![s] = FALSE]
  BY DEF Depart
<1>2. pc'[s] = "done" /\ \A x \in Step \ {s} :
          pc'[x] = pc[x] \/ (pc[x] = "wait" /\ pc'[x] = "start")
  BY <1>1, HandOverOrder, StepAssumption DEF Depart
<1>3. HandsFree'
  BY <1>1, <1>2 DEF HandsFree
<1>4. FaultSpreads'
  BY <1>1, <1>2 DEF FaultSpreads, Spreads, Waiters
<1>5. QED
  BY <1>3, <1>4

LEMMA NextCancels == ASSUME OrderInv, AllFit, CancelInv, [Next]_vars PROVE CancelInv'
<1>1. CASE Schedule \/ Control \/ UNCHANGED vars
  <2>1. \A x \in Step : /\ stat'[x] = stat[x]
                        /\ pc'[x] = pc[x] \/ (pc[x] = "wait" /\ pc'[x] = "start")
    BY <1>1, ScheduleDrifts DEF OrderInv
  <2>2. UNCHANGED <<cancel, to, todo>>
    BY <1>1 DEF Schedule, Proceed, Begin, BeforeProcessPass, BeforeProcessFail, Spawn, Spawned,
       AllFinished, ProcessTimeout, AfterProcess, Finalize, Control, Stop, Pause, Resume, vars,
       stepVars, frame
  <2>3. QED
    BY <2>1, <2>2, QuietCancels DEF Spreads
<1>2. ASSUME NEW s \in Step, Execute(s) \/ Propagate(s) \/ Work(s) PROVE CancelInv'
  BY <1>2, ExecuteCancels, SettleCancels, CountdownCancels, MarkCancels, DepartCancels
     DEF Propagate
<1>3. QED
  BY <1>1, <1>2 DEF Next, Terminated

\* Flags stay with a step, and a step that waits has no failure of its own.
LEMMA StatusGrows ==
  ASSUME OrderInv, AllFit, [Next]_vars, NEW x \in Step
  PROVE  /\ stat[x] \subseteq stat'[x]
         /\ "executed" \in stat'[x] => "executed" \in stat[x]
         /\ pc'[x] = "wait" => pc[x] = "wait" /\ stat'[x] \cap OwnFault = stat[x] \cap OwnFault
<1>1. TypeOK /\ StepFits(x)
  BY DEF OrderInv, AllFit
<1>2. CASE Schedule \/ Control \/ UNCHANGED vars
  BY <1>1, <1>2, ScheduleDrifts
<1>3. ASSUME NEW s \in Step, Propagate(s)
      PROVE  /\ stat[x] \subseteq stat'[x]
             /\ "executed" \in stat'[x] => "executed" \in stat[x]
             /\ pc'[x] = "wait" => pc[x] = "wait" /\ stat'[x] \cap OwnFault = stat[x] \cap OwnFault
  <2>1. PICK M \in SUBSET {"Cancel", "skip"} : stat'[x] = stat[x] \cup M
    BY <1>3, PropagateDrifts
  <2>2. stat'[x] \cap OwnFault = stat[x] \cap OwnFault
    BY <2>1 DEF OwnFault, Abnormal
  <2>3. pc'[x] = "wait" => pc[x] = "wait"
    BY <1>3, PropagateDrifts DEF Ended
  <2>4. QED
    BY <2>1, <2>2, <2>3
<1>4. ASSUME NEW s \in Step \ {x}, Execute(s) \/ Work(s)
      PROVE  pc'[x] = pc[x] /\ stat'[x] = stat[x]
  BY <1>1, <1>4, OthersRest
<1>5. CASE Execute(x)
  <2>1. pc'[x] # "wait"
    BY <1>1, <1>5 DEF TypeOK, Execute, Enter, Gate, SkipStep, MeetCondition, MissCondition,
       Unhold, BeforeStepPass, BeforeStepFail, RunFinished, StepTimeout, Judge, AfterStep,
       FinalizeStep
  <2>2. CASE BeforeStepFail(x) \/ AfterStep(x)
    BY <1>1, <2>1, <2>2 DEF TypeOK, BeforeStepFail, AfterStep, BeforeFailed, AfterFailed,
       Suspended
  <2>3. CASE RunFinished(x) \/ StepTimeout(x)
    BY <1>1, <2>1, <2>3 DEF TypeOK, RunFinished, StepTimeout, Judge
  <2>4. CASE ~(BeforeStepFail(x) \/ AfterStep(x) \/ RunFinished(x) \/ StepTimeout(x))
    BY <1>1, <1>5, <2>1, <2>4 DEF TypeOK, Execute, Enter, Gate, SkipStep, MeetCondition,
       MissCondition, Unhold, BeforeStepPass, FinalizeStep
  <2>5. QED
    BY <2>2, <2>3, <2>4
<1>6. CASE Work(x)
  <2>1. pc'[x] = pc[x] /\ pc[x] # "wait"
    BY <1>1, <1>6 DEF Work, RunStep, Attempt, StepFits, WorkerFits, Early
  <2>2. QED
    BY <1>1, <1>6, <2>1 DEF TypeOK, Work, RunStep, Attempt, WorkDone
<1>7. QED
  BY <1>2, <1>3, <1>4, <1>5, <1>6 DEF Next, Terminated

-------------------------------------------------------------------------------
(***************************************************************************)
(* Where a mark can have come from: whoever holds it is in every closed    *)
(* set that has the steps it started from.                                 *)
(***************************************************************************)
Cut == {"Stop", "Timeout"}

\* Until the verdict only Stop and the timeout have made a process abnormal.
VerdictLast == ppc \in {"init", "before", "spawn", "wait"} => pstat \cap Abnormal \subseteq Cut

CancelMeant == \A d \in Step : cancel[d] => pstat \cap Cut # {} \/ ~Normal(stat[d])
SkipMeant == \A d \in Step : skip[d] => "skip" \in stat[d]

MarkInv == VerdictLast /\ CancelMeant /\ SkipMeant /\ MarksJustified

\* The steps that spread Cancel and skip of their own.
Faulty == {s \in Step : stat[s] \cap OwnFault # {}}
Missed == {s \in SkipDeps : "unmet" \in Faults[s] /\ "skip" \in stat[s]}

\* A new mark is put on a root, or on a step downstream of one that has it.
MarkMade(x) ==
    /\ "Cancel" \in stat'[x] =>
           \/ "Cancel" \in stat[x] \/ x \in Faulty' \/ pstat \cap Cut # {}
           \/ \E d \in Step : x \in Waiters(d) /\ ~Normal(stat[d])
    /\ "skip" \in stat'[x] =>
           \/ "skip" \in stat[x] \/ x \in Missed'
           \/ \E d \in Step : x \in Waiters(d) /\ "skip" \in stat[d]

\* The marks stay justified when each new one is put on a root, or on a step
\* downstream of one that is marked.
LEMMA JustifiedStays ==
  ASSUME MarkInv, pstat \cap Cut # {} => pstat' \cap Cut # {},
         \A x \in Step : stat[x] \subseteq stat'[x],
         \A x \in Step : MarkMade(x)
  PROVE  MarksJustified'
<1> SUFFICES ASSUME NEW C \in SUBSET Step, Closed(C)
             PROVE  /\ pstat' \cap Cut = {} /\ Faulty' \subseteq C
                       => \A s \in Step : "Cancel" \in stat'[s] => s \in C
                    /\ Missed' \subseteq C
                       => \A s \in Step : "skip" \in stat'[s] => s \in C
  BY DEF MarksJustified, Closed, Waiters, Cut, Faulty, Missed, OwnFault
<1>1. /\ pstat \cap Cut = {} /\ Faulty \subseteq C
         => \A s \in Step : "Cancel" \in stat[s] => s \in C
      /\ Missed \subseteq C => \A s \in Step : "skip" \in stat[s] => s \in C
  BY DEF MarkInv, MarksJustified, Cut, Faulty, Missed, OwnFault
<1>2. Faulty \subseteq Faulty' /\ Missed \subseteq Missed'
  BY ConfigAssumption DEF Faulty, Missed
<1>3. \A d \in Step : ~Normal(stat[d]) => "Cancel" \in stat[d] \/ d \in Faulty
  BY DEF Normal, Faulty, OwnFault
<1>4. ASSUME pstat' \cap Cut = {}, Faulty' \subseteq C, NEW s \in Step, "Cancel" \in stat'[s]
      PROVE  s \in C
  <2>1. \A d \in Step : ~Normal(stat[d]) => d \in C
    BY <1>1, <1>2, <1>3, <1>4
  <2>2. \A d \in Step : "Cancel" \in stat[d] => d \in C
    BY <1>1, <1>2, <1>4
  <2>3. QED
    BY <1>4, <2>1, <2>2 DEF Closed, MarkMade
<1>5. ASSUME Missed' \subseteq C, NEW s \in Step, "skip" \in stat'[s]
      PROVE  s \in C
  <2>1. \A d \in Step : "skip" \in stat[d] => d \in C
    BY <1>1, <1>2, <1>5
  <2>2. QED
    BY <1>5, <2>1 DEF Closed, MarkMade
<1>6. QED
  BY <1>4, <1>5

\* Who puts which mark on a step.
LEMMA MarksMade ==
  ASSUME OrderInv, [Next]_vars, MarkInv, NEW x \in Step
  PROVE  MarkMade(x)
<1>1. TypeOK /\ FramesExact
  BY DEF OrderInv, Ownership
<1>2. CASE stat'[x] = stat[x]
  BY <1>2 DEF MarkMade
<1>3. ASSUME NEW s \in Step, Mark(s) PROVE MarkMade(x)
  <2>1. to[s] \in Waiters(s) /\ to[s] \in Step
    BY <1>1, <1>3 DEF Mark, FramesExact, Waiters
  <2>2. stat' = [stat EXCEPT ![to[s]] = @ \cup (IF cancel[s] THEN {"Cancel"} ELSE {})
                                         \cup (IF skip[s] THEN {"skip"} ELSE {})]
    BY <1>3 DEF Mark, MarkWaiter
  <2>3. CASE x = to[s]
    <3>1. stat'[x] = stat[x] \cup (IF cancel[s] THEN {"Cancel"} ELSE {})
                             \cup (IF skip[s] THEN {"skip"} ELSE {})
      BY <1>1, <2>2, <2>3 DEF TypeOK
    <3>2. cancel[s] => pstat \cap Cut # {} \/ ~Normal(stat[s])
      BY DEF MarkInv, CancelMeant
    <3>3. skip[s] => "skip" \in stat[s]
      BY DEF MarkInv, SkipMeant
    <3>4. "Cancel" \in stat'[x] => "Cancel" \in stat[x] \/ cancel[s]
      BY <3>1
    <3>5. "skip" \in stat'[x] => "skip" \in stat[x] \/ skip[s]
      BY <3>1
    <3>6. QED
      BY <2>1, <2>3, <3>2, <3>3, <3>4, <3>5 DEF MarkMade
  <2>4. CASE x # to[s]
    BY <1>1, <1>2, <2>2, <2>4 DEF TypeOK
  <2>5. QED
    BY <2>3, <2>4
<1>4. CASE MissCondition(x)
  BY <1>1, <1>4 DEF TypeOK, MissCondition, Missed, MarkMade
<1>5. CASE BeforeStepFail(x)
  <2>1. "CallbackFail" \in stat'[x] /\ ("skip" \in stat'[x] => "skip" \in stat[x])
    BY <1>1, <1>5 DEF TypeOK, BeforeStepFail, BeforeFailed, Suspended
  <2>2. x \in Faulty'
    BY <2>1 DEF Faulty, OwnFault, Abnormal
  <2>3. QED
    BY <2>1, <2>2 DEF MarkMade
<1>6. CASE (Execute(x) \/ Work(x)) /\ ~MissCondition(x) /\ ~BeforeStepFail(x)
  <2>1. /\ "Cancel" \in stat'[x] => "Cancel" \in stat[x]
        /\ "skip" \in stat'[x] => "skip" \in stat[x]
    BY <1>1, <1>6 DEF TypeOK, Execute, Enter, Gate, SkipStep, MeetCondition, Unhold,
       BeforeStepPass, RunFinished, StepTimeout, Judge, AfterStep, AfterFailed, Suspended,
       FinalizeStep, Work, RunStep, Attempt, WorkDone
  <2>2. QED
    BY <2>1 DEF MarkMade
<1>7. ASSUME NEW s \in Step, Propagate(s), ~Mark(s) PROVE stat'[x] = stat[x]
  BY <1>7 DEF Propagate, Settle, Countdown, Depart
<1>8. ASSUME NEW s \in Step \ {x}, Execute(s) \/ Work(s) PROVE stat'[x] = stat[x]
  BY <1>1, <1>8, OthersRest
<1>9. Schedule \/ Control \/ UNCHANGED vars => stat'[x] = stat[x]
  BY <1>1, ScheduleDrifts
<1>10. ASSUME NEW s \in Step, Execute(s) \/ Propagate(s) \/ Work(s) PROVE MarkMade(x)
  BY <1>2, <1>3, <1>4, <1>5, <1>6, <1>7, <1>8, <1>10
<1>11. QED
  BY <1>2, <1>9, <1>10 DEF Next, Terminated

\* What a step hands on is what it has: a healthy step cancels its waiters only in
\* a process that was cut short, because the verdict comes after the last step.
LEMMA MarksMeant ==
  ASSUME ProcessInv, MarkInv, [Next]_vars, \A x \in Step : stat[x] \subseteq stat'[x]
  PROVE  CancelMeant' /\ SkipMeant'
<1>1. TypeOK /\ RestFits /\ VerdictLast /\ CancelMeant /\ SkipMeant
  BY DEF ProcessInv, OrderInv, MarkInv
<1>2. pstat \cap Cut # {} => pstat' \cap Cut # {}
  BY FlagsStay DEF Cut, Flag, Abnormal
<1>3. \A x \in Step : ~Normal(stat[x]) => ~Normal(stat'[x])
  BY DEF Normal
<1>4. ASSUME NEW d \in Step
      PROVE  /\ cancel'[d] => cancel[d] \/ pstat \cap Cut # {} \/ ~Normal(stat[d])
             /\ skip'[d] => skip[d] \/ "skip" \in stat[d]
  <2>1. CASE Settle(d)
    <3>1. pc[d] = "settle"
      BY <2>1 DEF Settle
    <3>2. ~Resting
      BY <3>1 DEF Resting, AllWait, AllDeparted
    <3>3. ppc \in {"spawn", "wait"} \/ "Timeout" \in pstat
      BY <1>1, <3>2 DEF RestFits, Resting, TypeOK
    <3>4. ~Normal(pstat) => pstat \cap Cut # {}
      BY <1>1, <3>3 DEF VerdictLast, Normal, Cut
    <3>5. QED
      BY <1>1, <2>1, <3>4 DEF Settle, TypeOK
  <2>2. ASSUME NEW s \in Step, Depart(s)
        PROVE  (cancel'[d] => cancel[d]) /\ (skip'[d] => skip[d])
    BY <1>1, <2>2 DEF Depart, TypeOK
  <2>3. ASSUME NEW s \in Step \ {d}, Settle(s)
        PROVE  cancel'[d] = cancel[d] /\ skip'[d] = skip[d]
    BY <1>1, <2>3 DEF Settle, TypeOK
  <2>4. ASSUME NEW s \in Step, Execute(s) \/ Work(s) \/ Mark(s) \/ \E w \in Step : Countdown(s, w)
        PROVE  UNCHANGED <<cancel, skip>>
    BY <2>4 DEF Execute, Enter, Gate, SkipStep, MeetCondition, MissCondition, Unhold,
       BeforeStepPass, BeforeStepFail, RunFinished, StepTimeout, AfterStep, FinalizeStep, Work,
       RunStep, Attempt, Mark, Countdown, frame
  <2>5. Schedule \/ Control \/ UNCHANGED vars => UNCHANGED <<cancel, skip>>
    BY DEF Schedule, Proceed, Begin, BeforeProcessPass, BeforeProcessFail, Spawn, Spawned,
       AllFinished, ProcessTimeout, AfterProcess, Finalize, Control, Stop, Pause, Resume, vars,
       stepVars, frame
  <2>6. QED
    BY <2>1, <2>2, <2>3, <2>4, <2>5 DEF Next, Terminated, Propagate
<1>5. QED
  BY <1>1, <1>2, <1>3, <1>4 DEF CancelMeant, SkipMeant

LEMMA NextVerdict ==
  ASSUME TypeOK, VerdictLast, [Next]_vars
  PROVE  VerdictLast'
<1>1. CASE UNCHANGED ppc /\ pstat' \in {pstat, pstat \cup {"Stop"}, pstat \cup {"Pause"},
                                        pstat \cup {"Suspend"}, pstat \ {"Pause"}}
  <2>1. pstat' \cap Abnormal \subseteq (pstat \cap Abnormal) \cup Cut
    BY <1>1 DEF Abnormal, Cut
  <2>2. QED
    BY <1>1, <2>1 DEF VerdictLast
<1>2. CASE Schedule
  <2>1. \/ pstat' = pstat /\ (ppc' \in {"init", "before", "spawn", "wait"}
                               => ppc \in {"init", "before", "spawn", "wait"})
        \/ ppc' \in {"after", "final", "end"}
    BY <1>2 DEF Schedule, Proceed, Begin, BeforeProcessPass, BeforeProcessFail, Spawn,
       Spawned, AllFinished, ProcessTimeout, AfterProcess, Finalize, procVars
  <2>2. QED
    BY <2>1 DEF VerdictLast
<1>3. QED
  BY <1>1, <1>2, ProcessSteps

LEMMA NextMarks == ASSUME ProcessInv, MarkInv, [Next]_vars PROVE MarkInv'
<1>1. OrderInv /\ AllFit /\ TypeOK /\ VerdictLast
  BY DEF ProcessInv, OrderInv, MarkInv
<1>2. \A x \in Step : stat[x] \subseteq stat'[x]
  BY <1>1, StatusGrows
<1>3. pstat \cap Cut # {} => pstat' \cap Cut # {}
  BY FlagsStay DEF Cut, Flag, Abnormal
<1>4. MarksJustified'
  BY <1>1, <1>2, <1>3, MarksMade, JustifiedStays
<1>5. QED
  BY <1>1, <1>2, <1>4, MarksMeant, NextVerdict DEF MarkInv

-------------------------------------------------------------------------------
(***************************************************************************)
(* Nobody is forgotten: a step that has been counted down to zero has a    *)
(* goroutine on its way to it, and the first layer is begun before the     *)
(* process waits for its steps.                                            *)
(***************************************************************************)
Awaited == \A s \in Step : pc[s] = "wait" /\ waiting[s] = 0 /\ Depends[s] # {} =>
    \E d \in Depends[s] : s \in Claims(d)

FirstBegun == \A s \in Step : Depends[s] = {} => pc[s] # "wait"

LayerBegun == /\ ppc \in {"wait", "after"} => FirstBegun
              /\ ppc \in {"final", "end"} => FirstBegun \/ AllWait

StrandInv == Awaited /\ LayerBegun

\* A claim is given up only by starting the step that was claimed.
LEMMA ClaimStays ==
  ASSUME OrderInv, [Next]_vars, NEW d \in Step, NEW x \in Step, x \in Claims(d),
         pc'[x] = "wait"
  PROVE  x \in Claims(d)'
<1>1. /\ pc \in [Step -> Location] /\ to \in [Step -> Step \cup {None}]
      /\ left \in [Step -> Int] /\ bind \in [Step -> Step \cup {None}]
  BY DEF OrderInv, TypeOK
<1>2. x = bind[d] \/ (pc[d] = "mark" /\ left[d] = 0 /\ x = to[d])
  BY DEF Claims
<1>3. CASE /\ bind'[d] = bind[d] /\ left'[d] = left[d] /\ to'[d] = to[d]
           /\ pc[d] = "mark" => pc'[d] = "mark"
  BY <1>2, <1>3 DEF Claims
<1>4. CASE Schedule \/ Control \/ UNCHANGED vars
  <2>1. UNCHANGED <<bind, left, to>>
    BY <1>4 DEF Schedule, Proceed, Begin, BeforeProcessPass, BeforeProcessFail, Spawn, Spawned,
       AllFinished, ProcessTimeout, AfterProcess, Finalize, Control, Stop, Pause, Resume, vars,
       stepVars, frame
  <2>2. pc[d] = "mark" => pc'[d] = "mark"
    BY <1>4, ScheduleDrifts DEF OrderInv
  <2>3. QED
    BY <1>3, <2>1, <2>2
<1>5. ASSUME NEW s \in Step, Execute(s) \/ Work(s) PROVE x \in Claims(d)'
  <2>1. UNCHANGED <<bind, left, to>>
    BY <1>5 DEF Execute, Enter, Gate, SkipStep, MeetCondition, MissCondition, Unhold,
       BeforeStepPass, BeforeStepFail, RunFinished, StepTimeout, AfterStep, FinalizeStep, Work,
       RunStep, Attempt, frame
  <2>2. pc'[s] = pc[s] \/ pc[s] # "mark"
    BY <1>5 DEF Execute, Enter, Gate, SkipStep, MeetCondition, MissCondition, Examined, Unhold,
       BeforeStepPass, BeforeStepFail, RunFinished, StepTimeout, AfterStep, FinalizeStep, Work,
       RunStep, Attempt
  <2>3. d # s => pc'[d] = pc[d]
    BY <1>5, OthersRest DEF OrderInv
  <2>4. QED
    BY <1>3, <2>1, <2>2, <2>3
<1>6. ASSUME NEW s \in Step, Propagate(s) PROVE x \in Claims(d)'
  <2>1. CASE d # s
    <3>1. bind'[d] = bind[d] /\ left'[d] = left[d] /\ to'[d] = to[d]
      BY <1>1, <1>6, <2>1 DEF Propagate, Settle, Countdown, Mark, MarkWaiter, Depart
    <3>2. pc[d] = "mark" => HandOver(s)[d] = "mark"
      BY HandOverOrder, StepAssumption
    <3>3. pc[d] = "mark" => pc'[d] = "mark"
      BY <1>1, <1>6, <2>1, <3>2, HandOverType
         DEF OrderInv, Propagate, Settle, Countdown, Mark, Depart
    <3>4. QED
      BY <1>3, <3>1, <3>3
  <2>2. ASSUME pc' = [HandOver(s) EXCEPT ![s] = "next"] \/ pc' = [HandOver(s) EXCEPT ![s] = "done"],
               pc[s] # "wait"
        PROVE  x # bind[s]
    <3>1. x # s
      BY <2>2, HandOverOrder, HandOverType DEF OrderInv, ClaimsExact, Ownership
    <3>2. x = bind[s] => pc'[x] = "start"
      BY <2>2, <3>1, HandOverOrder
    <3>3. QED
      BY <3>2
  <2>3. CASE d = s /\ Mark(s)
    <3>1. CASE left[s] = 0
      <4>1. x # bind[s] /\ bind'[s] = to[s]
        BY <1>1, <2>2, <2>3, <3>1 DEF Mark
      <4>2. QED
        BY <1>2, <2>3, <4>1 DEF Claims
    <3>2. CASE left[s] # 0
      BY <1>2, <2>3, <3>2 DEF Mark, Claims
    <3>3. QED
      BY <3>1, <3>2
  <2>4. CASE d = s /\ Depart(s)
    BY <1>2, <2>2, <2>4 DEF Depart
  <2>5. CASE d = s /\ (Settle(s) \/ \E w \in Step : Countdown(s, w))
    BY <1>2, <2>5 DEF Settle, Countdown, Claims
  <2>6. QED
    BY <1>6, <2>1, <2>3, <2>4, <2>5 DEF Propagate
<1>7. QED
  BY <1>4, <1>5, <1>6 DEF Next, Terminated

\* Whoever brings a counter to zero claims the step.
LEMMA CountdownClaims ==
  ASSUME OrderInv, [Next]_vars, NEW x \in Step, waiting'[x] # waiting[x], waiting'[x] = 0
  PROVE  \E d \in Depends[x] : x \in Claims(d)'
<1>1. /\ waiting \in [Step -> Int] /\ to \in [Step -> Step \cup {None}]
      /\ left \in [Step -> Int] /\ pc \in [Step -> Location] /\ FramesExact
  BY DEF OrderInv, TypeOK, Ownership
<1>2. ~(Schedule \/ Control \/ UNCHANGED vars)
  BY DEF Schedule, Proceed, Begin, BeforeProcessPass, BeforeProcessFail, Spawn, Spawned,
     AllFinished, ProcessTimeout, AfterProcess, Finalize, Control, Stop, Pause, Resume, vars,
     stepVars, frame
<1>3. ASSUME NEW s \in Step PROVE ~Execute(s) /\ ~Work(s) /\ ~Settle(s) /\ ~Mark(s) /\ ~Depart(s)
  BY DEF Execute, Enter, Gate, SkipStep, MeetCondition, MissCondition, Unhold,
     BeforeStepPass, BeforeStepFail, RunFinished, StepTimeout, AfterStep, FinalizeStep, Work,
     RunStep, Attempt, Settle, Mark, Depart
<1>4. PICK s \in Step, w \in Step : Countdown(s, w)
  BY <1>2, <1>3 DEF Next, Terminated, Propagate
<1>5. w = x
  BY <1>1, <1>4 DEF Countdown
<1>6. s \in Depends[x]
  BY <1>1, <1>4, <1>5, WaitersMember DEF Countdown, FramesExact
<1>7. pc'[s] = "mark" /\ left'[s] = waiting'[x] /\ to'[s] = x
  BY <1>1, <1>4, <1>5 DEF Countdown
<1>8. QED
  BY <1>6, <1>7 DEF Claims

LEMMA NextStrands == ASSUME ProcessInv, StrandInv, [Next]_vars PROVE StrandInv'
<1>1. OrderInv /\ AllFit /\ RestFits /\ TypeOK
  BY DEF ProcessInv, OrderInv
<1>2. \A x \in Step : pc'[x] = "wait" => pc[x] = "wait"
  BY <1>1, StatusGrows
<1>3. Awaited'
  <2> SUFFICES ASSUME NEW x \in Step, pc'[x] = "wait", waiting'[x] = 0, Depends[x] # {}
               PROVE  \E d \in Depends[x] : x \in Claims(d)'
    BY DEF Awaited
  <2>1. CASE waiting[x] = 0
    <3>1. PICK d \in Depends[x] : x \in Claims(d)
      BY <1>2, <2>1 DEF StrandInv, Awaited
    <3>2. d \in Step
      BY GraphAssumption
    <3>3. QED
      BY <1>1, <3>1, <3>2, ClaimStays
  <2>2. CASE waiting[x] # 0
    BY <1>1, <2>2, CountdownClaims
  <2>3. QED
    BY <2>1, <2>2
<1>4. LayerBegun'
  <2>1. FirstBegun => FirstBegun'
    BY <1>2 DEF FirstBegun
  <2>2. AllWait /\ ppc # "spawn" => AllWait'
    BY <1>1, RestingStays DEF Resting, AllWait
  <2>3. CASE UNCHANGED ppc
    BY <2>1, <2>2, <2>3 DEF StrandInv, LayerBegun
  <2>4. CASE Schedule /\ ppc' # ppc
    <3>1. \/ ppc' \in {"before", "spawn"}
          \/ ppc' = "wait" /\ Spawned
          \/ ppc' = "after" /\ ppc = "wait"
          \/ ppc' = "final" /\ ppc \in {"init", "before", "after"}
          \/ ppc' = "end" /\ ppc = "final"
      BY <2>4 DEF Schedule, Proceed, Begin, BeforeProcessPass, BeforeProcessFail, Spawn,
         Spawned, AllFinished, ProcessTimeout, AfterProcess, Finalize, procVars
    <3>2. Spawned => FirstBegun
      BY DEF Spawned, FirstBegun
    <3>3. QED
      BY <1>1, <2>1, <2>2, <3>1, <3>2 DEF StrandInv, LayerBegun, RestFits
  <2>5. QED
    BY <2>3, <2>4, ProcessSteps
<1>5. QED
  BY <1>3, <1>4 DEF StrandInv

-------------------------------------------------------------------------------
(***************************************************************************)
(* Every execution: the first one of Init, and those that RecoverFlow      *)
(* begins from a checkpoint.                                               *)
(***************************************************************************)
RunInv == ProcessInv /\ CancelInv /\ MarkInv /\ StrandInv

LoadedStatus == {{}, {"executed"}, {"Recovering"}}

Fresh == /\ Begun /\ pbp \notin NewPoint
         /\ ppc = "init" /\ managed = {} /\ pstat \in LoadedStatus
         /\ cancel = [s \in Step |-> FALSE] /\ skip = [s \in Step |-> FALSE]
         /\ to = [s \in Step |-> None]
         /\ worker = [s \in Step |-> "none"]
         /\ \A s \in Step : stat[s] \in LoadedStatus /\ bp[s] \notin NewPoint

LEMMA FreshRun == TypeOK /\ Fresh => RunInv
<1> SUFFICES ASSUME TypeOK, Fresh PROVE RunInv
  OBVIOUS
<1>1. \A status \in LoadedStatus : /\ Normal(status) /\ "Suspend" \notin status
                                   /\ "Success" \notin status /\ "Cancel" \notin status
                                   /\ "skip" \notin status /\ status \cap Abnormal = {}
  BY DEF LoadedStatus, Normal, Abnormal
<1>2. \A s \in Step : pc[s] = "wait" /\ worker[s] = "none" /\ to[s] = None
                     /\ ~cancel[s] /\ ~skip[s]
  BY DEF Fresh, Begun
<1>3. AllFit
  BY <1>1, <1>2 DEF AllFit, StepFits, WorkerFits, PointFits, Fresh, Early, NewPoint
<1>4. RestFits /\ SuspendFits /\ SuccessFits
  BY <1>1, <1>2 DEF Fresh, RestFits, SuspendFits, SuccessFits, AllWait, Ended
<1>5. CancelInv
  BY <1>1, <1>2 DEF Fresh, CancelInv, HandsFree, FaultSpreads, Spreads
<1>6. OrderInv
  BY BegunOrder DEF Fresh
<1>7. MarkInv
  BY <1>1, <1>2 DEF Fresh, MarkInv, VerdictLast, CancelMeant, SkipMeant, MarksJustified
<1>8. Awaited
  <2>1. \A s \in Step : Cardinality(Depends[s]) = 0 => Depends[s] = {}
    <3>1. \A s \in Step : IsFiniteSet(Depends[s])
      BY StepAssumption, GraphAssumption, FS_Subset
    <3>2. QED
      BY <3>1, FS_EmptySet
  <2>2. QED
    BY <2>1 DEF Fresh, Begun, Awaited
<1>9. StrandInv
  BY <1>8 DEF Fresh, StrandInv, LayerBegun
<1>10. QED
  BY <1>3, <1>4, <1>5, <1>6, <1>7, <1>9 DEF RunInv, ProcessInv

LEMMA FreshRunNext == TypeOK' /\ Fresh' => RunInv'
  BY FreshRun, PTL

LEMMA InitRun == Init => RunInv
<1>1. Init => Fresh
  BY DEF Init, Fresh, Begun, LoadedStatus, NewPoint
<1>2. QED
  BY <1>1, FreshRun, InitType

LEMMA NextRun == RunInv /\ [Next]_vars => RunInv'
<1> SUFFICES ASSUME RunInv, [Next]_vars PROVE RunInv'
  OBVIOUS
<1>1. OrderInv' /\ AllFit'
  BY NextOrder, NextFits DEF RunInv, ProcessInv, AllFit
<1>2. QED
  BY <1>1, NextRests, NextSuspends, NextSucceeds, NextCancels, NextMarks, NextStrands
     DEF RunInv, ProcessInv

\* The record in the store, as far as a recovery reads it.
StoreFits ==
    /\ "status" \in DOMAIN record
    /\ record.status = "idle" =>
           /\ record.pbp \in {"none", "newBefore", "newAfter"}
           /\ record.bp \in [Step -> {"none"} \cup NewPoint]
           /\ record.excluded \in SUBSET Step

LEMMA ConcludedKeeps ==
  ASSUME "status" \in DOMAIN record
  PROVE  /\ "status" \in DOMAIN Concluded
         /\ Concluded.status = "idle" => Concluded = record
  BY DEF Concluded

LEMMA SaveStores ==
  ASSUME TypeOK, StoreFits, Save \/ SaveFails
  PROVE  StoreFits'
<1>1. CASE record' = Concluded
  BY <1>1, ConcludedKeeps DEF StoreFits
<1>2. CASE record' = Snapshot
  <2>1. \A point \in BreakPoint : Kept(point) \in {"none"} \cup NewPoint
    BY DEF Kept, BreakPoint
  <2>2. Kept(pbp) \in {"none", "newBefore", "newAfter"}
    BY DEF Kept, TypeOK, OldPoint
  <2>3. QED
    BY <1>2, <2>1, <2>2 DEF Snapshot, StoreFits, TypeOK
<1>3. QED
  BY <1>1, <1>2 DEF Save, SaveFails

\* What a recovery begins with.
LEMMA RecoverFresh ==
  ASSUME StoreFits, RecoverFlow
  PROVE  TypeOK' /\ Fresh' /\ StoreFits'
<1>1. /\ record.status = "idle" /\ record' = [record EXCEPT !.status = "running"]
      /\ BuildRunFlow /\ LoadCheckpoints /\ (LoadAll \/ LoadNothing \/ LoadProcess)
  BY DEF RecoverFlow
<1>2. StoreFits'
  BY <1>1 DEF StoreFits
<1>3. /\ pbp' \in {"none", "oldBefore", "oldAfter"} /\ excluded' \in SUBSET Step
      /\ bp' \in [Step -> {"none"} \cup OldPoint]
  <2>1. \A point \in {"none"} \cup NewPoint : Used(point) \in {"none"} \cup OldPoint
    BY DEF Used, NewPoint, OldPoint
  <2>2. QED
    BY <1>1, <2>1 DEF StoreFits, LoadCheckpoints, Used
<1>4. pstat' \in LoadedStatus /\ stat' \in [Step -> LoadedStatus]
  BY <1>1 DEF LoadAll, LoadNothing, LoadProcess, LoadedStatus
<1>5. LoadedStatus \subseteq SUBSET Flag
  BY DEF LoadedStatus, Flag
<1>6. Begun'
  BY <1>1 DEF BuildRunFlow, Begun, Waiters
<1>7. Fresh'
  BY <1>1, <1>3, <1>4, <1>6 DEF BuildRunFlow, Fresh, NewPoint, OldPoint
<1>8. TypeOK'
  <2>1. running' \in Int /\ waiting' \in [Step -> Int]
    <3>1. Cardinality(Step) \in Int /\ \A s \in Step : Cardinality(Depends[s]) \in Int
      BY StepAssumption, GraphAssumption, FS_Subset, FS_CardinalityType
    <3>2. QED
      BY <1>6, <3>1 DEF Begun
  <2>2. pc' \in [Step -> Location] /\ todo' \in [Step -> SUBSET Step]
    BY <1>6, WaitersType DEF Begun, Location, Waiters
  <2>3. bp' \in [Step -> BreakPoint]
    BY <1>3 DEF BreakPoint
  <2>4. stat' \in [Step -> SUBSET Flag] /\ pstat' \in SUBSET Flag
    BY <1>4, <1>5
  <2>5. /\ ppc' = "init" /\ managed' = {} /\ flowSuspend' = FALSE /\ pauses' = 0
        /\ cancel' = [s \in Step |-> FALSE] /\ skip' = [s \in Step |-> FALSE]
        /\ to' = [s \in Step |-> None] /\ left' = [s \in Step |-> 0]
        /\ bind' = [s \in Step |-> None]
        /\ worker' = [s \in Step |-> "none"] /\ tries' = [s \in Step |-> 0]
    BY <1>1 DEF BuildRunFlow
  <2>6. /\ ppc' \in {"init", "before", "spawn", "wait", "after", "final", "end"}
        /\ managed' \in SUBSET {"recover", "suspend", "release"}
        /\ flowSuspend' \in BOOLEAN /\ pauses' \in Nat
        /\ cancel' \in [Step -> BOOLEAN] /\ skip' \in [Step -> BOOLEAN]
    BY <2>5
  <2>7. /\ to' \in [Step -> Step \cup {None}] /\ bind' \in [Step -> Step \cup {None}]
        /\ left' \in [Step -> Int] /\ tries' \in [Step -> Nat]
        /\ worker' \in [Step -> {"none", "ready", "run", "done"}]
    BY <2>5
  <2>8. pbp' \in {"none", "oldBefore", "oldAfter", "newBefore", "newAfter"}
    BY <1>3
  <2>9. QED
    BY <1>3, <2>1, <2>2, <2>3, <2>4, <2>6, <2>7, <2>8 DEF TypeOK
<1>9. QED
  BY <1>2, <1>7, <1>8

FlowRunInv == RunInv /\ StoreFits

LEMMA FlowInitRun == FlowInit => FlowRunInv
  BY InitRun DEF FlowInit, FlowRunInv, StoreFits, NoRecord

LEMMA FlowNextRun == FlowRunInv /\ [FlowNext]_allVars => FlowRunInv'
<1> SUFFICES ASSUME FlowRunInv, [FlowNext]_allVars PROVE FlowRunInv'
  OBVIOUS
<1>1. CASE RecoverFlow
  BY <1>1, RecoverFresh, FreshRunNext DEF FlowRunInv
<1>2. CASE RunProcess
  <2>1. [Next]_vars /\ record' = record
    BY <1>2 DEF RunProcess
  <2>2. RunInv'
    BY <2>1, NextRun DEF FlowRunInv
  <2>3. QED
    BY <2>1, <2>2 DEF FlowRunInv, StoreFits
<1>3. CASE FlowBefore \/ FlowJudge \/ FlowAfter \/ Save \/ SaveFails \/ FlowTerminated
           \/ UNCHANGED allVars
  <2>1. UNCHANGED vars
    BY <1>3 DEF FlowBefore, FlowJudge, FlowAfter, Save, SaveFails, FlowTerminated, allVars
  <2>2. RunInv'
    BY <2>1, NextRun DEF FlowRunInv
  <2>3. TypeOK
    BY DEF FlowRunInv, RunInv, ProcessInv, OrderInv
  <2>4. StoreFits'
    <3>1. CASE Save \/ SaveFails
      BY <2>3, <3>1, SaveStores DEF FlowRunInv
    <3>2. CASE record' = record
      BY <3>2 DEF FlowRunInv, StoreFits
    <3>3. QED
      BY <1>3, <3>1, <3>2 DEF FlowBefore, FlowJudge, FlowAfter, FlowTerminated, allVars, flowVars
  <2>5. QED
    BY <2>2, <2>4 DEF FlowRunInv
<1>4. QED
  BY <1>1, <1>2, <1>3 DEF FlowNext

\* The inductive invariant holds of a process on its own and of every execution of
\* a flow.
THEOREM RunCorrect == (Spec => []RunInv) /\ (FlowSpec => []RunInv)
<1>1. FlowRunInv => RunInv
  BY DEF FlowRunInv
<1>2. Spec => []RunInv
  BY InitRun, NextRun, PTL DEF Spec
<1>3. FlowSpec => []RunInv
  BY <1>1, FlowInitRun, FlowNextRun, PTL DEF FlowSpec
<1>4. QED
  BY <1>2, <1>3

\* A step that failed itself has put Cancel on each of its dependents by the time
\* it departs (startNextSteps).
THEOREM SpreadCorrect == /\ Spec => []FailureReachesDependents
                         /\ FlowSpec => []FailureReachesDependents
<1>1. RunInv => FailureReachesDependents
  <2> SUFFICES ASSUME RunInv, NEW d \in Step, pc[d] = "done", stat[d] \cap OwnFault # {},
                      NEW w \in Waiters(d)
               PROVE  "Cancel" \in stat[w]
    BY DEF FailureReachesDependents, OwnFault
  <2>1. todo[d] = {} /\ to[d] = None /\ w # None
    BY StepAssumption DEF RunInv, ProcessInv, OrderInv, Ownership, FramesExact, CancelInv,
       HandsFree, Waiters
  <2>2. QED
    BY <2>1 DEF RunInv, CancelInv, FaultSpreads, Spreads
<1>2. QED
  BY <1>1, RunCorrect, PTL

\* Failures stay local: unless the process was stopped or timed out, the steps that
\* are cancelled lie downstream of steps that failed themselves, and those with the
\* skip flag downstream of steps whose condition was not met (startNextSteps).
THEOREM MarksCorrect == (Spec => []MarksJustified) /\ (FlowSpec => []MarksJustified)
<1>1. RunInv => MarksJustified
  BY DEF RunInv, MarkInv
<1>2. QED
  BY <1>1, RunCorrect, PTL

\* The graph of the steps has no cycle, as module Arrange establishes of every
\* process that CustomStep accepts (theorem GraphCorrect of Arrange_proofs).
AcyclicGraph == \A S \in SUBSET Step : S # {} => \E s \in S : Depends[s] \cap S = {}

\* In a graph without cycles nobody waits for somebody who will not come: a state
\* in which no goroutine of a step is under way, once the first layer was begun,
\* is one in which all steps have departed or none was begun (startNextSteps,
\* waitFinish).
THEOREM StrandedCorrect == AcyclicGraph => (Spec => []NoneStranded) /\ (FlowSpec => []NoneStranded)
<1> SUFFICES ASSUME AcyclicGraph PROVE (Spec => []NoneStranded) /\ (FlowSpec => []NoneStranded)
  OBVIOUS
<1>1. RunInv => NoneStranded
  <2> SUFFICES ASSUME RunInv, Quiet, ppc \notin {"init", "before", "spawn"}, ~AllDeparted, ~AllWait
               PROVE  FALSE
    BY DEF NoneStranded, AllWait
  <2>1. OrderInv /\ TypeOK /\ FramesExact /\ Awaited /\ LayerBegun
    BY DEF RunInv, ProcessInv, OrderInv, Ownership, StrandInv
  <2>2. FirstBegun
    BY <2>1 DEF LayerBegun, TypeOK
  <2> DEFINE W == {s \in Step : pc[s] = "wait"}
  <2>3. W # {} /\ W \in SUBSET Step
    BY DEF Quiet, AllDeparted
  <2>4. PICK s \in W : Depends[s] \cap W = {}
    BY <2>3 DEF AcyclicGraph
  <2>5. ASSUME NEW d \in Depends[s] PROVE d \in Step /\ pc[d] = "done" /\ s \notin todo[d] /\ bind[d] = None
    BY <2>1, <2>4, GraphAssumption DEF Quiet, FramesExact
  <2>6. waiting[s] = 0
    <3>1. {d \in Depends[s] : s \in todo[d]} = {}
      BY <2>5
    <3>2. QED
      BY <2>1, <3>1, FS_EmptySet DEF OrderInv, CountdownExact
  <2>7. PICK d \in Depends[s] : s \in Claims(d)
    BY <2>1, <2>2, <2>6 DEF Awaited, FirstBegun
  <2>8. QED
    BY <2>5, <2>7, StepAssumption DEF Claims
<1>2. QED
  BY <1>1, RunCorrect, PTL

\* A process that reports Success has nothing left to do and nothing failed
\* (waitFinish).
THEOREM SuccessCorrect == (Spec => []SuccessIsComplete) /\ (FlowSpec => []SuccessIsComplete)
<1>1. RunInv => SuccessIsComplete
  <2> SUFFICES ASSUME RunInv, "Success" \in pstat, NEW s \in Step
               PROVE  /\ pc[s] = "done" /\ Normal(stat[s])
                      /\ worker[s] # "none" => worker[s] = "done" /\
                             ("Success" \in stat[s] \/ bp[s] = "oldAfter")
    BY DEF SuccessIsComplete
  <2>1. pc[s] = "done" /\ Normal(stat[s]) /\ StepFits(s)
    BY DEF RunInv, ProcessInv, SuccessFits, AllDeparted, AllFit
  <2>2. "Timeout" \notin stat[s] /\ "Error" \notin stat[s] /\ "Panic" \notin stat[s]
    BY <2>1 DEF Normal, Abnormal
  <2>3. worker[s] \in {"none", "ready", "run", "done"}
    BY DEF RunInv, ProcessInv, OrderInv, TypeOK
  <2>4. QED
    BY <2>1, <2>2, <2>3 DEF StepFits, WorkerFits
<1>2. QED
  BY <1>1, RunCorrect, PTL

\* The resources of a process that did not time out are released when no goroutine
\* of a step is left (schedule, finalize).
THEOREM QuietCorrect == (Spec => []ReleasedWhenQuiet) /\ (FlowSpec => []ReleasedWhenQuiet)
<1>1. RunInv => ReleasedWhenQuiet
  <2> SUFFICES ASSUME RunInv, "release" \in managed, "Timeout" \notin pstat, NEW s \in Step
               PROVE  /\ pc[s] \in {"wait", "done"}
                      /\ "Timeout" \notin stat[s] => worker[s] \in {"none", "done"}
    BY DEF ReleasedWhenQuiet
  <2>1. pc[s] \in {"wait", "done"}
    BY DEF RunInv, ProcessInv, RestFits, Resting, AllWait, AllDeparted
  <2>2. worker[s] \in {"none", "ready", "run", "done"} /\ StepFits(s)
    BY DEF RunInv, ProcessInv, OrderInv, TypeOK, AllFit
  <2>3. QED
    BY <2>1, <2>2 DEF StepFits, WorkerFits
<1>2. QED
  BY <1>1, RunCorrect, PTL

\* A suspended step has suspended the flow, and the resources before they were
\* released, unless the process timed out (finalize).
THEOREM SuspendCorrect == (Spec => []SuspendReaches) /\ (FlowSpec => []SuspendReaches)
<1>1. RunInv => SuspendReaches
  <2> SUFFICES ASSUME RunInv, "release" \in managed, "Timeout" \notin pstat,
                      NEW s \in Step, "Suspend" \in stat[s]
               PROVE  "suspend" \in managed /\ flowSuspend
    BY DEF SuspendReaches
  <2>1. pc[s] \in {"wait", "done"} /\ StepFits(s)
    BY DEF RunInv, ProcessInv, RestFits, Resting, AllWait, AllDeparted, AllFit
  <2>2. pc[s] \in Ended
    BY <2>1 DEF StepFits, PointFits, Early, Ended
  <2>3. QED
    BY <2>2 DEF RunInv, ProcessInv, SuspendFits
<1>2. QED
  BY <1>1, RunCorrect, PTL

\* A suspended step that has departed left a break point of this execution, which
\* passes the body over only if the body has not failed (startStep, filter).
THEOREM PointRecordCorrect == (Spec => []PointRecorded) /\ (FlowSpec => []PointRecorded)
<1>1. RunInv => PointRecorded
  BY DEF RunInv, ProcessInv, AllFit, StepFits, PointFits, PointRecorded, BodyFault
<1>2. QED
  BY <1>1, RunCorrect, PTL

-------------------------------------------------------------------------------
(***************************************************************************)
(* Who moves a break point and the goroutine of a function, and what is    *)
(* not begun any more once a process is abnormal.                          *)
(***************************************************************************)
\* Only a failed after callback records a break point behind the body.
LEMMA PointMoves ==
  ASSUME OrderInv, [Next]_vars, NEW x \in Step, bp'[x] \in {"oldAfter", "newAfter"}
  PROVE  bp'[x] = bp[x] \/ (AfterStep(x) /\ bp'[x] = "newAfter")
<1>1. TypeOK
  BY DEF OrderInv
<1>2. CASE Schedule \/ Control \/ UNCHANGED vars
  BY <1>1, <1>2, ScheduleDrifts
<1>3. ASSUME NEW s \in Step, Propagate(s) PROVE bp'[x] = bp[x]
  BY <1>3, PropagateDrifts
<1>4. ASSUME NEW s \in Step \ {x}, Execute(s) \/ Work(s) PROVE bp'[x] = bp[x]
  BY <1>1, <1>4, OthersRest
<1>5. CASE AfterStep(x)
  BY <1>1, <1>5 DEF TypeOK, AfterStep, Recorded
<1>6. CASE (Execute(x) \/ Work(x)) /\ ~AfterStep(x)
  BY <1>1, <1>6 DEF TypeOK, Execute, Enter, Gate, SkipStep, MeetCondition, MissCondition,
     Unhold, BeforeStepPass, BeforeStepFail, Recorded, RunFinished, StepTimeout, Judge,
     FinalizeStep, Work, RunStep, Attempt
<1>7. QED
  BY <1>2, <1>3, <1>4, <1>5, <1>6 DEF Next, Terminated

\* Who moves the goroutine of a function.
LEMMA WorkerMoves ==
  ASSUME OrderInv, [Next]_vars, NEW x \in Step, worker'[x] # worker[x]
  PROVE  Work(x) \/ (BeforeStepPass(x) /\ worker'[x] = "ready")
<1>1. TypeOK
  BY DEF OrderInv
<1>2. ~(Schedule \/ Control \/ UNCHANGED vars)
  BY <1>1, ScheduleDrifts
<1>3. ASSUME NEW s \in Step PROVE ~Propagate(s)
  BY <1>3, PropagateDrifts
<1>4. ASSUME NEW s \in Step \ {x} PROVE ~(Execute(s) \/ Work(s))
  BY <1>1, <1>4, OthersRest
<1>5. Execute(x) \/ Work(x)
  BY <1>2, <1>3, <1>4 DEF Next, Terminated
<1>6. Execute(x) => BeforeStepPass(x)
  BY DEF Execute, Enter, Gate, SkipStep, MeetCondition, MissCondition, Unhold,
     BeforeStepFail, RunFinished, StepTimeout, AfterStep, FinalizeStep
<1>7. BeforeStepPass(x) => worker'[x] = "ready"
  BY <1>1 DEF TypeOK, BeforeStepPass
<1>8. QED
  BY <1>5, <1>6, <1>7

\* A step that has not passed the gate of an abnormal process, or has left it.
CutOff(s) == /\ ~Normal(pstat) /\ worker[s] = "none"
             /\ pc[s] \in {"wait", "start", "gate"} \cup Late

LEMMA CutOffStays == ASSUME OrderInv, [Next]_vars, NEW s \in Step, CutOff(s) PROVE CutOff(s)'
<1>1. ~Normal(pstat')
  <2>1. PICK f \in Flag \ {"Pause"} : f \in pstat /\ f \in Abnormal
    BY DEF CutOff, Normal, Flag, Abnormal
  <2>2. QED
    BY <2>1, FlagsStay DEF Normal
<1>2. worker'[s] = "none"
  BY WorkerMoves DEF CutOff, Late, Work, RunStep, Attempt, BeforeStepPass
<1>3. TypeOK
  BY DEF OrderInv
<1>4. pc'[s] \in {"wait", "start", "gate"} \cup Late
  <2>1. CASE Schedule \/ Control \/ UNCHANGED vars
    BY <1>3, <2>1, ScheduleDrifts DEF CutOff
  <2>2. ASSUME NEW d \in Step, Propagate(d) PROVE pc'[s] \in {"wait", "start", "gate"} \cup Late
    BY <2>2, PropagateDrifts DEF CutOff, Ended, Late
  <2>3. ASSUME NEW d \in Step \ {s}, Execute(d) \/ Work(d)
        PROVE  pc'[s] \in {"wait", "start", "gate"} \cup Late
    BY <1>3, <2>3, OthersRest DEF CutOff
  <2>4. CASE Work(s)
    BY <2>4 DEF Work, RunStep, Attempt, CutOff
  <2>5. CASE Execute(s)
    <3>1. Enter(s) \/ Gate(s) \/ FinalizeStep(s)
      BY <2>5 DEF Execute, CutOff, Late, SkipStep, MeetCondition, MissCondition, Examined,
         Unhold, BeforeStepPass, BeforeStepFail, RunFinished, StepTimeout, AfterStep
    <3>2. QED
      BY <1>3, <3>1 DEF TypeOK, CutOff, Late, Enter, Gate, FinalizeStep
  <2>6. QED
    BY <2>1, <2>2, <2>3, <2>4, <2>5 DEF Next, Terminated
<1>5. QED
  BY <1>1, <1>2, <1>4 DEF CutOff

\* Once a process is abnormal, a step that has not passed the gate of startStep
\* never runs its function.
THEOREM StopCorrect == Spec => NoStartAfterStop
<1> SUFFICES ASSUME NEW s \in Step
             PROVE  Spec => [](~Normal(pstat) /\ pc[s] \in {"wait", "start", "gate"}
                                => [](worker[s] = "none"))
  BY DEF NoStartAfterStop
<1>1. RunInv => (~Normal(pstat) /\ pc[s] \in {"wait", "start", "gate"} => CutOff(s))
  BY DEF RunInv, ProcessInv, AllFit, StepFits, WorkerFits, Early, CutOff
<1>2. RunInv /\ CutOff(s) /\ [Next]_vars => CutOff(s)'
  BY CutOffStays DEF RunInv, ProcessInv
<1>3. CutOff(s) => worker[s] = "none"
  BY DEF CutOff
<1>4. Spec => []RunInv
  BY RunCorrect
<1>5. QED
  BY <1>1, <1>2, <1>3, <1>4, PTL DEF Spec

-------------------------------------------------------------------------------
(***************************************************************************)
(* Each execution of a flow keeps the promises of the first one: a         *)
(* recovery leaves the process as it was built, so what is proved of the   *)
(* steps of ProcessRun holds until the next recovery.                      *)
(***************************************************************************)
\* What a step of the flow is for the process.
LEMMA FlowSteps ==
  ASSUME [FlowNext]_allVars
  PROVE  [Next]_vars \/ RecoverFlow
BY DEF FlowNext, RunProcess, FlowBefore, FlowJudge, FlowAfter, Save, SaveFails,
   FlowTerminated, allVars

\* A recovery begins where an execution begins.
LEMMA RecoverAgain == ASSUME StoreFits, RecoverFlow PROVE TG!Again /\ ResultInv'
<1>1. Fresh'
  BY RecoverFresh
<1>2. ppc' = "init" /\ pstat' \in LoadedStatus /\ pc' = [s \in Step |-> "wait"]
  BY <1>1 DEF Fresh, Begun
<1>3. "Success" \notin pstat'
  BY <1>2 DEF LoadedStatus
<1>4. phase' = [s \in Step |-> "waiting"]
  BY <1>2 DEF phase
<1>5. result' = "none"
  BY <1>2, <1>3 DEF result
<1>6. ResultInv'
  BY <1>2, <1>3 DEF ResultInv
<1>7. QED
  BY <1>4, <1>5, <1>6 DEF TG!Again, TG!Init

\* Every execution of a flow implements the task graph.
THEOREM RefinementAgainCorrect == FlowSpec => RefinesTaskGraphAgain
<1> DEFINE I == FlowRunInv /\ ResultInv
<1>1. FlowInit => I /\ TG!Init
  BY FlowInitRun, InitResult, InitSimulates DEF FlowInit
<1>2. I /\ [FlowNext]_allVars => I' /\ [TG!Next \/ TG!Again]_TG!vars
  <2> SUFFICES ASSUME I, [FlowNext]_allVars PROVE I' /\ [TG!Next \/ TG!Again]_TG!vars
    OBVIOUS
  <2>1. FlowRunInv'
    BY FlowNextRun
  <2>2. CASE RecoverFlow
    BY <2>1, <2>2, RecoverAgain DEF FlowRunInv
  <2>3. CASE [Next]_vars
    <3>1. OrderInv /\ ResultInv
      BY DEF FlowRunInv, RunInv, ProcessInv
    <3>2. ResultInv'
      BY <2>3, <3>1, NextResult
    <3>3. [TG!Next]_<<phase, result>>
      BY <2>3, <3>1, NextSimulates
    <3>4. QED
      BY <2>1, <3>2, <3>3 DEF TG!vars
  <2>4. QED
    BY <2>2, <2>3, FlowSteps
<1>3. QED
  BY <1>1, <1>2, PTL DEF FlowSpec, RefinesTaskGraphAgain, TG!SpecAgain

\* The counters are exact, every step has at most one claimant, and no step is
\* started twice, in every execution.
THEOREM OrderAgainCorrect ==
    FlowSpec => [](TypeOK /\ CountersExact /\ Ownership) /\ StartedOnce
<1> DEFINE Once == \A s \in Step :
        pc[s] # "wait" => (pc'[s] = "start" => pc[s] = "start")
<1>1. RunInv => TypeOK /\ CountersExact /\ Ownership
  BY DEF RunInv, ProcessInv, OrderInv, CountersExact
<1>2. FlowRunInv /\ [FlowNext]_allVars => [Once]_vars
  <2> SUFFICES ASSUME FlowRunInv, [FlowNext]_allVars PROVE [Once]_vars
    OBVIOUS
  <2>1. CASE RecoverFlow
    BY <2>1 DEF RecoverFlow, BuildRunFlow
  <2>2. CASE [Next]_vars
    BY <2>2, StartsWaiting DEF FlowRunInv, RunInv, ProcessInv
  <2>3. QED
    BY <2>1, <2>2, FlowSteps
<1>3. FlowSpec => []FlowRunInv
  BY FlowInitRun, FlowNextRun, PTL DEF FlowSpec
<1>4. QED
  BY <1>1, <1>2, <1>3, RunCorrect, PTL DEF FlowSpec, StartedOnce

\* Once a process is abnormal, a step that has not passed the gate does nothing
\* until the flow is recovered.
StaysCutOff == \A s \in Step : CutOff(s) => CutOff(s)' \/ RecoverFlow

\* In the first execution and in every recovery, what a stop, a timeout or a failure
\* of the process has cut off stays cut off (Stop, startStep).
THEOREM StopAgainCorrect == FlowSpec => [][StaysCutOff]_allVars
<1>1. FlowRunInv /\ [FlowNext]_allVars => [StaysCutOff]_allVars
  <2> SUFFICES ASSUME FlowRunInv, [FlowNext]_allVars, NEW s \in Step,
                      CutOff(s), ~RecoverFlow
               PROVE  CutOff(s)'
    BY DEF StaysCutOff
  <2>1. [Next]_vars
    BY FlowSteps
  <2>2. QED
    BY <2>1, CutOffStays DEF FlowRunInv, RunInv, ProcessInv
<1>2. FlowSpec => []FlowRunInv
  BY FlowInitRun, FlowNextRun, PTL DEF FlowSpec
<1>3. QED
  BY <1>1, <1>2, PTL DEF FlowSpec
-------------------------------------------------------------------------------
(***************************************************************************)
(* What is known of the work that was done, in whatever way an execution   *)
(* ended.                                                                  *)
(***************************************************************************)
BodyDone == \A s \in Step :
    /\ bp[s] \in {"oldAfter", "newAfter"} => s \in complete
    /\ "Success" \in stat[s] => s \in complete
    /\ worker[s] = "done" =>
           stat[s] \cap {"Success", "Error", "Panic"} # {} \/ s \in complete

PassedDone == \A s \in Step :
    pc[s] \in Spreads /\ worker[s] = "none" /\ Normal(stat[s]) /\ "executed" \notin stat[s]
    => s \in complete

StoredDone == record.status = "idle" =>
    \A s \in Step : record.bp[s] = "newAfter" => s \in complete

WorkInv == BodyDone /\ PassedDone /\ StoredDone

LEMMA RunWork ==
  ASSUME FlowRunInv, WorkInv, RunProcess
  PROVE  WorkInv'
<1>1. /\ [Next]_vars /\ record' = record /\ complete \subseteq complete'
      /\ CompletedNow \subseteq complete'
  BY DEF RunProcess
<1>2. OrderInv /\ AllFit /\ RunInv' /\ BodyDone
  BY <1>1, NextRun DEF FlowRunInv, RunInv, ProcessInv, WorkInv
<1>3. \A s \in Step : "Success" \in stat'[s] => s \in complete'
  BY <1>1 DEF CompletedNow
<1>4. ASSUME NEW s \in Step, bp'[s] \in {"oldAfter", "newAfter"} PROVE s \in complete'
  <2>1. CASE bp'[s] = bp[s]
    BY <1>1, <1>2, <1>4, <2>1 DEF BodyDone
  <2>2. CASE AfterStep(s) /\ bp'[s] = "newAfter"
    <3>1. stat'[s] \cap BodyFault = {} /\ stat[s] \subseteq stat'[s]
      BY <1>1, <1>2, <2>2, StatusGrows
         DEF RunInv, ProcessInv, AllFit, StepFits, PointFits
    <3>2. pc[s] = "after" /\ stat[s] \cap BodyFault = {}
      BY <2>2, <3>1 DEF AfterStep
    <3>3. worker[s] \in {"none", "ready", "run", "done"} /\ StepFits(s)
      BY <1>2 DEF OrderInv, TypeOK, AllFit
    <3>4. worker[s] = "done"
      BY <3>2, <3>3 DEF StepFits, WorkerFits, BodyFault
    <3>5. QED
      BY <1>1, <1>2, <3>2, <3>4 DEF BodyDone, BodyFault
  <2>3. QED
    BY <1>1, <1>2, <1>4, <2>1, <2>2, PointMoves
<1>5. ASSUME NEW s \in Step, worker'[s] = "done"
      PROVE  stat'[s] \cap {"Success", "Error", "Panic"} # {} \/ s \in complete'
  <2>1. stat[s] \subseteq stat'[s]
    BY <1>1, <1>2, StatusGrows
  <2>2. CASE worker[s] = "done"
    BY <1>1, <1>2, <2>1, <2>2 DEF BodyDone
  <2>3. CASE RunStep(s) /\ worker[s] # "done"
    <3>1. bp[s] \in {"oldAfter", "newAfter"}
      BY <1>2, <1>5, <2>3 DEF RunStep, OrderInv, TypeOK
    <3>2. QED
      BY <1>1, <1>2, <3>1 DEF BodyDone
  <2>4. CASE Attempt(s) /\ worker[s] # "done"
    BY <1>2, <1>5, <2>4 DEF Attempt, WorkDone, OrderInv, TypeOK
  <2>5. QED
    BY <1>1, <1>2, <1>5, <2>2, <2>3, <2>4, WorkerMoves DEF Work
<1>6. BodyDone'
  BY <1>3, <1>4, <1>5 DEF BodyDone
<1>7. PassedDone'
  BY <1>1 DEF PassedDone, CompletedNow, Spreads
<1>8. StoredDone'
  BY <1>1 DEF WorkInv, StoredDone
<1>9. QED
  BY <1>6, <1>7, <1>8 DEF WorkInv

LEMMA RecoverWork ==
  ASSUME FlowRunInv, WorkInv, RecoverFlow
  PROVE  WorkInv'
<1>1. Fresh' /\ StoreFits /\ StoredDone
  BY RecoverFresh DEF FlowRunInv, WorkInv
<1>2. /\ record.status = "idle" /\ record'.status = "running"
      /\ bp' = [s \in Step |-> Used(record.bp[s])] /\ complete' = complete
  BY <1>1 DEF RecoverFlow, LoadCheckpoints, StoreFits
<1>3. ASSUME NEW s \in Step
      PROVE  /\ pc'[s] = "wait" /\ worker'[s] = "none"
             /\ "Success" \notin stat'[s]
             /\ bp'[s] \in {"oldAfter", "newAfter"} => s \in complete'
  <2>1. pc'[s] = "wait" /\ worker'[s] = "none" /\ stat'[s] \in LoadedStatus
    BY <1>1 DEF Fresh, Begun
  <2>2. record.bp[s] \in {"none"} \cup NewPoint
    BY <1>1, <1>2 DEF StoreFits
  <2>3. bp'[s] \in {"oldAfter", "newAfter"} => record.bp[s] = "newAfter"
    BY <1>2, <2>2 DEF Used, NewPoint
  <2>4. QED
    BY <1>1, <1>2, <2>1, <2>3 DEF StoredDone, LoadedStatus
<1>4. BodyDone' /\ PassedDone' /\ StoredDone'
  BY <1>2, <1>3 DEF BodyDone, PassedDone, StoredDone, Spreads
<1>5. QED
  BY <1>4 DEF WorkInv

LEMMA FlowInitWork == FlowInit => WorkInv
  BY DEF FlowInit, Init, WorkInv, BodyDone, PassedDone, StoredDone, NoRecord, Spreads

LEMMA FlowNextWork ==
  ASSUME FlowRunInv, WorkInv, [FlowNext]_allVars
  PROVE  WorkInv'
<1>1. CASE FlowBefore \/ FlowJudge \/ FlowAfter \/ Save \/ SaveFails \/ FlowTerminated
           \/ UNCHANGED allVars
  <2>1. UNCHANGED vars /\ complete' = complete
    BY <1>1 DEF FlowBefore, FlowJudge, FlowAfter, Save, SaveFails, FlowTerminated, allVars,
       flowVars
  <2>2. BodyDone' /\ PassedDone'
    BY <2>1 DEF WorkInv, BodyDone, PassedDone, vars, stepVars
  <2>3. record' \in {record, Concluded, Snapshot}
    BY <1>1 DEF FlowBefore, FlowJudge, FlowAfter, Save, SaveFails, FlowTerminated, allVars,
       flowVars
  <2>4. StoredDone'
    <3>1. CASE record' = Snapshot
      <4>1. \A s \in Step : record'.bp[s] = "newAfter" => bp[s] = "newAfter"
        BY <3>1 DEF Snapshot, Kept
      <4>2. QED
        BY <2>1, <4>1 DEF WorkInv, BodyDone, StoredDone
    <3>2. CASE record' \in {record, Concluded}
      BY <2>1, <3>2, ConcludedKeeps DEF FlowRunInv, StoreFits, WorkInv, StoredDone
    <3>3. QED
      BY <2>3, <3>1, <3>2
  <2>5. QED
    BY <2>2, <2>4 DEF WorkInv
<1>2. QED
  BY <1>1, RunWork, RecoverWork DEF FlowNext

LEMMA WorkKnown == FlowSpec => [](FlowRunInv /\ WorkInv)
<1>1. FlowRunInv /\ WorkInv /\ [FlowNext]_allVars => (FlowRunInv /\ WorkInv)'
  BY FlowNextRun, FlowNextWork
<1>2. QED
  BY <1>1, FlowInitRun, FlowInitWork, PTL DEF FlowSpec

\* A recovery passes the body of a step over only if the body has succeeded, in
\* this execution or an earlier one (loadCheckpoint, runStep).
THEOREM SkippedCorrect == FlowSpec => SkippedBodyHasRun
<1>1. ASSUME FlowRunInv, WorkInv, [FlowNext]_allVars
      PROVE  [\A s \in Step : worker[s] = "ready" /\ worker'[s] = "done"
                 => s \in complete]_allVars
  <2> SUFFICES ASSUME NEW s \in Step, worker[s] = "ready", worker'[s] = "done"
               PROVE  s \in complete
    OBVIOUS
  <2>1. OrderInv
    BY <1>1 DEF FlowRunInv, RunInv, ProcessInv
  <2>2. CASE RunProcess
    <3>1. RunStep(s) \/ Attempt(s)
      BY <2>1, <2>2, WorkerMoves DEF RunProcess, Work
    <3>2. RunStep(s) /\ bp[s] \in {"oldAfter", "newAfter"}
      BY <2>1, <3>1 DEF RunStep, Attempt, OrderInv, TypeOK
    <3>3. QED
      BY <1>1, <3>2 DEF WorkInv, BodyDone
  <2>3. CASE RecoverFlow
    BY <2>3 DEF RecoverFlow, BuildRunFlow
  <2>4. CASE UNCHANGED vars
    BY <2>4 DEF vars, stepVars
  <2>5. QED
    BY <1>1, <2>2, <2>3, <2>4 DEF FlowNext, FlowBefore, FlowJudge, FlowAfter, Save, SaveFails,
       FlowTerminated, allVars
<1>2. FlowRunInv /\ WorkInv /\ [FlowNext]_allVars =>
        [\A s \in Step : worker[s] = "ready" /\ worker'[s] = "done" => s \in complete]_allVars
  BY <1>1
<1>3. QED
  BY <1>2, WorkKnown, PTL DEF FlowSpec, SkippedBodyHasRun

-------------------------------------------------------------------------------
(***************************************************************************)
(* Executions that are not cut short: nobody calls Stop and the process    *)
(* has time enough.  (Module MCFlowRecovery, run stop_loses_steps, shows   *)
(* that a stopped process does lose steps.)                                *)
(***************************************************************************)
NoCut == "Stop" \notin Controls /\ "timeout" \notin ProcFaults

\* An abnormal process has come to its end: all steps have departed, or its before
\* callback has failed and none has begun.
ProcessDone ==
    /\ "Stop" \notin pstat /\ "Timeout" \notin pstat
    /\ ~Normal(pstat) => ppc \in {"after", "final", "end"}
    /\ ppc = "after" => AllDeparted
    /\ pbp \in NewPoint => ppc \in {"final", "end"}
    /\ ~Normal(pstat) /\ ~AllDeparted => pbp = "newBefore" \/ ~Recoverable
    /\ ppc \in {"after", "final", "end"} /\ Normal(pstat)
           => "Success" \in pstat \/ "executed" \in pstat

LEMMA DepartedStays == ASSUME OrderInv, [Next]_vars, AllDeparted PROVE AllDeparted'
  BY RestingStays DEF Resting, AllDeparted

LEMMA NextProcessDone ==
  ASSUME NoCut, OrderInv, ProcessDone, [Next]_vars
  PROVE  ProcessDone'
<1>1. \A f \in Flag \ {"Pause"} : f \in pstat => f \in pstat'
  BY FlagsStay
<1>2. "Success" \in pstat \/ "executed" \in pstat => "Success" \in pstat' \/ "executed" \in pstat'
  BY <1>1 DEF Flag
<1>3. Normal(pstat') => Normal(pstat)
  BY <1>1 DEF Normal, Abnormal, Flag
<1>4. CASE ~Schedule
  <2>1. /\ UNCHANGED <<ppc, pbp>>
        /\ pstat' \in {pstat, pstat \cup {"Pause"}, pstat \cup {"Suspend"}, pstat \ {"Pause"}}
    BY <1>4, ProcessSteps DEF NoCut
  <2>2. /\ "Stop" \notin pstat' /\ "Timeout" \notin pstat'
        /\ Normal(pstat) => Normal(pstat')
    BY <2>1 DEF ProcessDone, Normal, Abnormal
  <2>3. QED
    BY <1>2, <1>3, <2>1, <2>2, DepartedStays DEF ProcessDone
<1>5. CASE Begin \/ BeforeProcessPass \/ (\E s \in Step : Spawn(s)) \/ Spawned \/ Finalize
  <2>1. UNCHANGED <<pstat, pbp>>
    BY <1>5 DEF Begin, BeforeProcessPass, Spawn, Spawned, Finalize, procVars
  <2>2. \/ ppc' \in {"before", "spawn", "wait"} /\ ppc \notin {"after", "final", "end"}
        \/ ppc' = "final" /\ ppc = "init" /\ "executed" \in pstat
        \/ ppc' = "end" /\ ppc = "final"
    BY <1>5 DEF Begin, BeforeProcessPass, Spawn, Spawned, Finalize, procVars
  <2>3. QED
    BY <2>1, <2>2, DepartedStays DEF ProcessDone
<1>6. CASE BeforeProcessFail
  <2>1. ppc = "before" /\ ppc' = "final" /\ pbp \notin NewPoint
    BY <1>6 DEF BeforeProcessFail, ProcessDone
  <2>2. pbp' = "newBefore" \/ (~Recoverable /\ pbp' = pbp)
    BY <1>6, <2>1 DEF BeforeProcessFail, Recorded
  <2>3. ~Normal(pstat') /\ "Stop" \notin pstat' /\ "Timeout" \notin pstat'
    BY <1>6 DEF BeforeProcessFail, BeforeFailed, Suspended, Normal, Abnormal, ProcessDone
  <2>4. QED
    BY <2>1, <2>2, <2>3 DEF ProcessDone
<1>7. CASE AllFinished
  <2>1. ppc = "wait" /\ ppc' = "after" /\ AllDeparted /\ pbp' = pbp
    BY <1>7, ZeroRuns DEF AllFinished
  <2>2. /\ "Stop" \notin pstat' /\ "Timeout" \notin pstat'
        /\ Normal(pstat') => "Success" \in pstat'
    BY <1>7 DEF AllFinished, Verdict, Normal, Abnormal, ProcessDone
  <2>3. QED
    BY <2>1, <2>2, DepartedStays DEF ProcessDone
<1>8. CASE AfterProcess
  <2>1. ppc = "after" /\ ppc' = "final" /\ AllDeparted'
    BY <1>8, DepartedStays DEF AfterProcess, ProcessDone
  <2>2. "Stop" \notin pstat' /\ "Timeout" \notin pstat'
    BY <1>8 DEF AfterProcess, AfterFailed, Suspended, ProcessDone
  <2>3. QED
    BY <1>2, <1>3, <2>1, <2>2 DEF ProcessDone
<1>9. QED
  BY <1>4, <1>5, <1>6, <1>7, <1>8 DEF Schedule, Proceed, ProcessTimeout, NoCut

(***************************************************************************)
(* Where an abnormal step comes from: the steps that a checkpoint is       *)
(* written for, as far as they are known while marks are under way, and    *)
(* what is downstream of them.                                             *)
(***************************************************************************)
\* Cancel is on s, or on its way from a step that has counted s down.
Marked(s) == \/ "Cancel" \in stat[s]
             \/ \E d \in Step : pc[d] = "mark" /\ to[d] = s /\ cancel[d]

Roots == {s \in Step : \/ "CallbackFail" \in stat[s]
                       \/ ~Normal(stat[s]) /\ ~Marked(s)}

WaitClean == \A s \in Step : pc[s] = "wait" => stat[s] \cap OwnFault = {}
CancelOwn == \A d \in Step : cancel[d] => ~Normal(stat[d])
Traced == \A s \in Step : ~Normal(stat[s]) \/ Marked(s) => s \in Downstream(Roots)

LEMMA DownstreamHolds ==
  ASSUME NEW R \in SUBSET Step, NEW Q \in SUBSET Step, R \subseteq Q
  PROVE  /\ R \subseteq Downstream(R) /\ Downstream(R) \subseteq Downstream(Q)
         /\ \A d \in Downstream(R) : Waiters(d) \subseteq Downstream(R)
<1>1. R \subseteq Downstream(R) /\ Downstream(R) \subseteq Downstream(Q)
  BY DEF Downstream
<1>2. ASSUME NEW d \in Downstream(R), NEW w \in Waiters(d) PROVE w \in Downstream(R)
  BY <1>2 DEF Downstream, Waiters
<1>3. QED
  BY <1>1, <1>2

\* A step of the program that puts no mark on its way.
LEMMA TracedStays ==
  ASSUME Traced,
         \A s \in Step : /\ stat[s] \subseteq stat'[s]
                         /\ Marked(s)' => Marked(s) \/ "CallbackFail" \in stat'[s]
  PROVE  Traced'
<1>1. \A s \in Step : ~Normal(stat[s]) => ~Normal(stat'[s])
  BY DEF Normal
<1>2. Roots \subseteq Roots'
  BY <1>1 DEF Roots
<1>3. Roots \in SUBSET Step /\ Roots' \in SUBSET Step
  BY DEF Roots
<1>4. Roots' \subseteq Downstream(Roots') /\ Downstream(Roots) \subseteq Downstream(Roots')
  BY <1>2, <1>3, DownstreamHolds
<1>5. Downstream(Roots)' = Downstream(Roots')
  BY DEF Downstream, Waiters
<1>6. ASSUME NEW s \in Step, ~Normal(stat'[s]) \/ Marked(s)' PROVE s \in Downstream(Roots')
  <2>1. s \in Roots' \/ Marked(s)
    BY <1>6 DEF Roots
  <2>2. QED
    BY <1>4, <2>1 DEF Traced
<1>7. QED
  BY <1>5, <1>6 DEF Traced

\* The step that is counted down waits, so that it is no root yet.
LEMMA CountdownTraces ==
  ASSUME OrderInv, HandsFree, WaitClean, CancelOwn, Traced,
         NEW d \in Step, NEW w \in Step, Countdown(d, w)
  PROVE  Traced'
<1>1. /\ pc[d] = "next" /\ pc' = [pc EXCEPT ![d] = "mark"] /\ to' = [to EXCEPT ![d] = w]
      /\ UNCHANGED <<stat, cancel>> /\ w \in todo[d]
  BY DEF Countdown
<1>2. pc \in [Step -> Location] /\ to \in [Step -> Step \cup {None}]
  BY DEF OrderInv, TypeOK
<1>3. w \in Waiters(d) /\ d \in Depends[w]
  BY <1>1, WaitersMember DEF OrderInv, Ownership, FramesExact
<1>4. pc[w] = "wait"
  <2>1. SUFFICES ASSUME pc[w] # "wait" PROVE FALSE
    OBVIOUS
  <2>2. waiting[w] = 0
    BY <1>3, <2>1 DEF OrderInv, Ownership, HeldBack
  <2> DEFINE P == {e \in Depends[w] : w \in todo[e]}
  <2>3. Cardinality(P) = 0 /\ IsFiniteSet(P)
    BY <2>2, PendingFinite DEF OrderInv, CountdownExact
  <2>4. d \in P
    BY <1>1, <1>3
  <2>5. QED
    <3> HIDE DEF P
    <3> QED
      BY <2>3, <2>4, FS_EmptySet
<1>5. "CallbackFail" \notin stat[w] /\ (~Normal(stat[w]) => Marked(w))
  BY <1>4 DEF WaitClean, OwnFault, Normal, Abnormal, Marked
<1>6. \A x \in Step \ {w} : Marked(x)' => Marked(x)
  BY <1>1, <1>2 DEF Marked
<1>7. \A x \in Step : Marked(x) => Marked(x)'
  <2>1. \A e \in Step : pc[e] = "mark" => pc'[e] = "mark" /\ to'[e] = to[e] /\ cancel'[e] = cancel[e]
    BY <1>1, <1>2
  <2>2. QED
    BY <1>1, <2>1 DEF Marked
<1>8. Roots' = Roots
  BY <1>1, <1>5, <1>6, <1>7 DEF Roots
<1>9. Downstream(Roots)' = Downstream(Roots)
  BY <1>8 DEF Downstream, Waiters
<1>10. Marked(w)' /\ ~Marked(w) => w \in Downstream(Roots)
  <2>1. SUFFICES ASSUME Marked(w)', ~Marked(w) PROVE w \in Downstream(Roots)
    OBVIOUS
  <2>2. PICK e \in Step : pc'[e] = "mark" /\ to'[e] = w /\ cancel'[e]
    BY <1>1, <2>1 DEF Marked
  <2>3. e = d /\ cancel[d]
    BY <1>1, <1>2, <2>1, <2>2 DEF Marked
  <2>4. d \in Downstream(Roots)
    BY <2>3 DEF CancelOwn, Traced
  <2>5. QED
    BY <1>3, <2>4, DownstreamHolds DEF Roots
<1>11. QED
  BY <1>1, <1>6, <1>9, <1>10 DEF Traced

TraceInv == WaitClean /\ CancelOwn /\ Traced

\* Who raises Cancel: a failed before callback, or a step that marks its waiter.
LEMMA CancelMoves ==
  ASSUME OrderInv, [Next]_vars, NEW x \in Step, "Cancel" \in stat'[x], "Cancel" \notin stat[x]
  PROVE  "CallbackFail" \in stat'[x] \/ \E d \in Step : Mark(d) /\ to[d] = x /\ cancel[d]
<1>1. TypeOK
  BY DEF OrderInv
<1>2. ~(Schedule \/ Control \/ UNCHANGED vars)
  BY <1>1, ScheduleDrifts
<1>3. \A s \in Step \ {x} : ~(Execute(s) \/ Work(s))
  BY <1>1, OthersRest
<1>4. ASSUME NEW s \in Step, Propagate(s)
      PROVE  Mark(s) /\ to[s] = x /\ cancel[s]
  <2>1. Mark(s)
    BY <1>4 DEF Propagate, Settle, Countdown, Depart
  <2>2. QED
    BY <1>1, <2>1 DEF TypeOK, Mark, MarkWaiter
<1>5. CASE BeforeStepFail(x)
  BY <1>1, <1>5 DEF TypeOK, BeforeStepFail, BeforeFailed, Suspended
<1>6. CASE Execute(x) /\ ~BeforeStepFail(x)
  BY <1>1, <1>6 DEF TypeOK, Execute, Enter, Gate, SkipStep, MeetCondition, MissCondition,
     Unhold, BeforeStepPass, RunFinished, StepTimeout, Judge, AfterStep, FinalizeStep,
     AfterFailed, Suspended
<1>7. CASE Work(x)
  BY <1>1, <1>7 DEF TypeOK, Work, RunStep, Attempt, WorkDone
<1>8. QED
  BY <1>2, <1>3, <1>4, <1>5, <1>6, <1>7 DEF Next, Terminated

\* The locals of a step that has counted a waiter down but not marked it yet.
LEMMA HandMoves ==
  ASSUME OrderInv, [Next]_vars, NEW d \in Step, pc'[d] = "mark", cancel'[d]
  PROVE  \/ pc[d] = "mark" /\ to'[d] = to[d] /\ cancel[d]
         \/ \E w \in Step : Countdown(d, w)
<1>1. TypeOK
  BY DEF OrderInv
<1>2. CASE Schedule \/ Control \/ UNCHANGED vars
  BY <1>1, <1>2, ScheduleDrifts
<1>3. ASSUME NEW s \in Step, Execute(s) \/ Work(s)
      PROVE  pc[d] = "mark" /\ to'[d] = to[d] /\ cancel[d]
  <2>1. UNCHANGED <<cancel, to>>
    BY <1>3 DEF Execute, Enter, Gate, SkipStep, MeetCondition, MissCondition, Unhold,
       BeforeStepPass, BeforeStepFail, RunFinished, StepTimeout, AfterStep, FinalizeStep, Work,
       RunStep, Attempt, frame
  <2>2. pc'[d] = pc[d]
    BY <1>1, <1>3 DEF TypeOK, Execute, Enter, Gate, SkipStep, MeetCondition, MissCondition,
       Unhold, BeforeStepPass, BeforeStepFail, RunFinished, StepTimeout, Judge, AfterStep,
       FinalizeStep, Work, RunStep, Attempt
  <2>3. QED
    BY <2>1, <2>2
<1>4. ASSUME NEW s \in Step, Settle(s)
      PROVE  pc[d] = "mark" /\ to'[d] = to[d] /\ cancel[d]
  BY <1>1, <1>4 DEF TypeOK, Settle
<1>5. ASSUME NEW s \in Step \ {d}, NEW w \in Step, Countdown(s, w)
      PROVE  pc[d] = "mark" /\ to'[d] = to[d] /\ cancel[d]
  BY <1>1, <1>5 DEF TypeOK, Countdown
<1>6. ASSUME NEW s \in Step, Mark(s) \/ Depart(s)
      PROVE  pc[d] = "mark" /\ to'[d] = to[d] /\ cancel[d]
  <2>1. d # s
    BY <1>1, <1>6, HandOverType DEF TypeOK, Mark, Depart
  <2>2. pc'[d] = pc[d] \/ pc'[d] = "start"
    BY <1>1, <1>6, <2>1, HandOverOrder, StepAssumption DEF Mark, Depart, TypeOK
  <2>3. to'[d] = to[d] /\ cancel'[d] = cancel[d]
    BY <1>1, <1>6, <2>1 DEF TypeOK, Mark, MarkWaiter, Depart
  <2>4. QED
    BY <2>2, <2>3
<1>7. QED
  BY <1>2, <1>3, <1>4, <1>5, <1>6 DEF Next, Terminated, Propagate

LEMMA NextCancelOwn ==
  ASSUME OrderInv, AllFit, RestFits, ProcessDone, CancelOwn, [Next]_vars
  PROVE  CancelOwn'
<1>1. \A d \in Step : ~Normal(stat[d]) => ~Normal(stat'[d])
  BY StatusGrows DEF Normal
<1>2. TypeOK
  BY DEF OrderInv
<1>3. ASSUME NEW d \in Step, NEW s \in Step, Settle(s), cancel'[d] PROVE ~Normal(stat[d])
  <2>1. CASE d = s
    <3>1. ~Resting
      BY <1>3 DEF Settle, Resting, AllWait, AllDeparted
    <3>2. Normal(pstat)
      BY <3>1 DEF RestFits, ProcessDone
    <3>3. QED
      BY <1>2, <1>3, <2>1, <3>2 DEF Settle, TypeOK
  <2>2. CASE d # s
    BY <1>2, <1>3, <2>2 DEF Settle, TypeOK, CancelOwn
  <2>3. QED
    BY <2>1, <2>2
<1>4. ASSUME NEW d \in Step, NEW s \in Step, Depart(s), cancel'[d] PROVE cancel[d]
  BY <1>2, <1>4 DEF Depart, TypeOK
<1>5. CASE UNCHANGED cancel
  BY <1>1, <1>5 DEF CancelOwn
<1>6. ASSUME ~UNCHANGED cancel PROVE \E s \in Step : Settle(s) \/ Depart(s)
  <2>1. ~(Schedule \/ Control \/ UNCHANGED vars)
    BY <1>6 DEF Schedule, Proceed, Begin, BeforeProcessPass, BeforeProcessFail, Spawn, Spawned,
       AllFinished, ProcessTimeout, AfterProcess, Finalize, Control, Stop, Pause, Resume, vars,
       stepVars, frame
  <2>2. \A s \in Step : ~(Execute(s) \/ Work(s))
    BY <1>6 DEF Execute, Enter, Gate, SkipStep, MeetCondition, MissCondition, Unhold,
       BeforeStepPass, BeforeStepFail, RunFinished, StepTimeout, AfterStep, FinalizeStep, Work,
       RunStep, Attempt, frame
  <2>3. PICK s \in Step : Propagate(s)
    BY <2>1, <2>2 DEF Next, Terminated
  <2>4. QED
    BY <1>6, <2>3 DEF Propagate, Countdown, Mark
<1>7. QED
  BY <1>1, <1>3, <1>4, <1>5, <1>6 DEF CancelOwn

LEMMA NextTraces ==
  ASSUME RunInv, ProcessDone, TraceInv, [Next]_vars
  PROVE  TraceInv'
<1>1. OrderInv /\ AllFit /\ RestFits /\ HandsFree /\ WaitClean /\ CancelOwn /\ Traced
  BY DEF RunInv, ProcessInv, CancelInv, TraceInv
<1>2. WaitClean'
  BY <1>1, StatusGrows DEF WaitClean
<1>3. CancelOwn'
  BY <1>1, NextCancelOwn
<1>4. Traced'
  <2>1. CASE \E d, w \in Step : Countdown(d, w)
    BY <1>1, <2>1, CountdownTraces
  <2>2. CASE ~\E d, w \in Step : Countdown(d, w)
    <3>1. ASSUME NEW x \in Step, Marked(x)', "CallbackFail" \notin stat'[x] PROVE Marked(x)
      <4>1. CASE "Cancel" \in stat'[x] /\ "Cancel" \notin stat[x]
        <5>1. PICK d \in Step : Mark(d) /\ to[d] = x /\ cancel[d]
          BY <1>1, <3>1, <4>1, CancelMoves
        <5>2. QED
          BY <5>1 DEF Mark, Marked
      <4>2. CASE "Cancel" \notin stat'[x]
        <5>1. PICK d \in Step : pc'[d] = "mark" /\ to'[d] = x /\ cancel'[d]
          BY <3>1, <4>2 DEF Marked
        <5>2. QED
          BY <1>1, <2>2, <5>1, HandMoves DEF Marked
      <4>3. QED
        BY <4>1, <4>2 DEF Marked
    <3>2. \A x \in Step : stat[x] \subseteq stat'[x]
      BY <1>1, StatusGrows
    <3>3. QED
      BY <1>1, <3>1, <3>2, TracedStays
  <2>3. QED
    BY <2>1, <2>2
<1>5. QED
  BY <1>2, <1>3, <1>4 DEF TraceInv

(***************************************************************************)
(* What is executed again, and what is not.                                *)
(***************************************************************************)
\* A step is marked executed only if its work was done before.
ExecutedDone == /\ \A s \in Step : "executed" \in stat[s] => s \in complete
                /\ "executed" \in pstat => \A s \in Step : "executed" \in stat[s]

\* A flow that calls itself a Success, and one that is going to be saved.
VerdictDone ==
    /\ "Success" \in fstat => complete = Step
    /\ fpc = "before" => fbp \notin NewPoint
    /\ fpc = "after" => "Success" \in fstat \/ ~Normal(pstat)
    /\ fpc = "save" => \/ "Success" \in fstat \/ ~Normal(pstat)
                       \/ fbp = "newBefore" \/ ~Recoverable

\* What a recovery is not going to execute was done.
RecordDone == record.status = "idle" =>
    /\ ~record.process /\ record.fbp # "newBefore" => complete = Step
    /\ record.process /\ record.pbp # "newBefore" =>
           \A s \in Step : s \in Downstream(record.roots) \/ s \in complete

NoLossInv == /\ ProcessDone /\ TraceInv /\ ExecutedDone /\ VerdictDone /\ RecordDone
             /\ complete \subseteq Step

\* Startup of an execution.
LEMMA FreshDone == TypeOK /\ Fresh => ProcessDone /\ TraceInv
<1> SUFFICES ASSUME TypeOK, Fresh PROVE ProcessDone /\ TraceInv
  OBVIOUS
<1>1. \A status \in LoadedStatus : /\ Normal(status) /\ "Stop" \notin status
                                   /\ "Timeout" \notin status /\ "Cancel" \notin status
                                   /\ status \cap OwnFault = {}
  BY DEF LoadedStatus, Normal, Abnormal, OwnFault
<1>2. ppc = "init" /\ pstat \in LoadedStatus /\ \A s \in Step :
         pc[s] = "wait" /\ ~cancel[s] /\ stat[s] \in LoadedStatus
  BY DEF Fresh, Begun
<1>3. ProcessDone
  BY <1>1, <1>2 DEF ProcessDone, Fresh, NewPoint
<1>4. TraceInv
  BY <1>1, <1>2 DEF TraceInv, WaitClean, CancelOwn, Traced, Marked
<1>5. QED
  BY <1>3, <1>4

LEMMA FreshDoneNext == TypeOK' /\ Fresh' => ProcessDone' /\ TraceInv'
  BY FreshDone, PTL

\* A step that is finished and healthy has done its work.
LEMMA FinishedDone ==
  ASSUME OrderInv, AllFit, BodyDone, PassedDone, ExecutedDone,
         NEW s \in Step, pc[s] \in Spreads, Normal(stat[s])
  PROVE  s \in complete
<1>1. StepFits(s) /\ worker[s] \in {"none", "ready", "run", "done"}
  BY DEF OrderInv, AllFit, TypeOK
<1>2. worker[s] \in {"none", "done"}
  BY <1>1 DEF StepFits, WorkerFits, Spreads, Normal, Abnormal
<1>3. CASE worker[s] = "none"
  BY <1>3 DEF PassedDone, ExecutedDone
<1>4. CASE worker[s] = "done"
  BY <1>4 DEF BodyDone, Normal, Abnormal
<1>5. QED
  BY <1>2, <1>3, <1>4

\* A process that is over and healthy has done everything.
LEMMA HealthyDone ==
  ASSUME FlowRunInv, WorkInv, NoLossInv, ppc = "end", Normal(pstat)
  PROVE  complete = Step
<1>1. OrderInv /\ AllFit /\ SuccessFits /\ BodyDone /\ PassedDone /\ ExecutedDone
  BY DEF FlowRunInv, RunInv, ProcessInv, WorkInv, NoLossInv
<1>2. "Success" \in pstat \/ "executed" \in pstat
  BY DEF NoLossInv, ProcessDone
<1>3. CASE "Success" \in pstat
  <2>1. \A s \in Step : pc[s] \in Spreads /\ Normal(stat[s])
    BY <1>1, <1>3 DEF SuccessFits, AllDeparted, Spreads
  <2>2. QED
    BY <1>1, <2>1, FinishedDone DEF NoLossInv
<1>4. CASE "executed" \in pstat
  BY <1>1, <1>4 DEF ExecutedDone, NoLossInv
<1>5. QED
  BY <1>2, <1>3, <1>4

\* The steps that a checkpoint is written for are the roots of all that is missing.
LEMMA RootsDone ==
  ASSUME FlowRunInv, WorkInv, NoLossInv, AllDeparted, NEW s \in Step
  PROVE  s \in Downstream({x \in Step : NeedRecover(stat[x])}) \/ s \in complete
<1>1. OrderInv /\ AllFit /\ BodyDone /\ PassedDone /\ ExecutedDone
  BY DEF FlowRunInv, RunInv, ProcessInv, WorkInv, NoLossInv
<1>2. \A x \in Step : Marked(x) <=> "Cancel" \in stat[x]
  BY DEF AllDeparted, Marked
<1>3. Roots = {x \in Step : NeedRecover(stat[x])}
  BY <1>2 DEF Roots, NeedRecover
<1>4. CASE Normal(stat[s])
  BY <1>1, <1>4, FinishedDone DEF AllDeparted, Spreads
<1>5. CASE ~Normal(stat[s])
  BY <1>3, <1>5 DEF NoLossInv, TraceInv, Traced
<1>6. QED
  BY <1>4, <1>5

LEMMA SaveDone ==
  ASSUME FlowRunInv, WorkInv, NoLossInv, Save \/ SaveFails
  PROVE  RecordDone'
<1>1. complete' = complete
  BY DEF Save, SaveFails
<1>2. CASE record' = Concluded
  BY <1>1, <1>2, ConcludedKeeps DEF FlowRunInv, StoreFits, NoLossInv, RecordDone, Downstream,
     Waiters
<1>3. CASE record' = Snapshot /\ fpc = "save" /\ Recoverable
  <2>1. /\ record'.fbp = Kept(fbp) /\ record'.process = ~Normal(pstat)
        /\ record'.process => record'.pbp = Kept(pbp)
        /\ record'.process => record'.roots = {x \in Step : NeedRecover(stat[x])}
    BY <1>3 DEF Snapshot
  <2>2. Kept(fbp) # "newBefore" => fbp # "newBefore"
    BY DEF Kept, OldPoint
  <2>3. Kept(pbp) # "newBefore" => pbp # "newBefore"
    BY DEF Kept, OldPoint
  <2>4. ~record'.process /\ record'.fbp # "newBefore" => complete = Step
    BY <1>3, <2>1, <2>2 DEF NoLossInv, VerdictDone
  <2>5. ASSUME record'.process, record'.pbp # "newBefore", NEW s \in Step
        PROVE  s \in Downstream(record'.roots) \/ s \in complete
    <3>1. AllDeparted
      BY <1>3, <2>1, <2>3, <2>5 DEF NoLossInv, ProcessDone
    <3>2. QED
      BY <2>1, <2>5, <3>1, RootsDone
  <2>6. QED
    BY <1>1, <2>4, <2>5 DEF RecordDone, Downstream, Waiters
<1>4. QED
  BY <1>2, <1>3 DEF Save, SaveFails

LEMMA ExecutedStays ==
  ASSUME [Next]_vars, "executed" \in pstat' PROVE "executed" \in pstat
<1>1. CASE Schedule
  BY <1>1 DEF Schedule, Proceed, Begin, BeforeProcessPass, BeforeProcessFail, Spawn, Spawned,
     AllFinished, ProcessTimeout, AfterProcess, Finalize, Verdict, BeforeFailed, AfterFailed,
     Suspended, procVars
<1>2. QED
  BY <1>1, ProcessSteps

LEMMA RunNoLoss ==
  ASSUME NoCut, FlowRunInv, WorkInv, NoLossInv, RunProcess
  PROVE  NoLossInv'
<1>1. /\ [Next]_vars /\ UNCHANGED <<fpc, fstat, fbp, record>>
      /\ complete' = complete \cup CompletedNow
  BY DEF RunProcess
<1>2. OrderInv /\ AllFit
  BY DEF FlowRunInv, RunInv, ProcessInv
<1>3. complete \subseteq complete' /\ complete' \subseteq Step
  BY <1>1 DEF NoLossInv, CompletedNow
<1>4. ProcessDone' /\ TraceInv'
  BY <1>1, <1>2, NextProcessDone, NextTraces DEF FlowRunInv, NoLossInv
<1>5. ExecutedDone'
  BY <1>1, <1>2, <1>3, StatusGrows, ExecutedStays DEF NoLossInv, ExecutedDone
<1>6. ~Normal(pstat) => ~Normal(pstat')
  BY <1>1, FlagsStay DEF Normal, Abnormal, Flag
<1>7. VerdictDone'
  BY <1>1, <1>3, <1>6 DEF NoLossInv, VerdictDone
<1>8. RecordDone'
  BY <1>1, <1>3 DEF NoLossInv, RecordDone, Downstream, Waiters
<1>9. QED
  BY <1>3, <1>4, <1>5, <1>7, <1>8 DEF NoLossInv

LEMMA RecoverNoLoss ==
  ASSUME FlowRunInv, NoLossInv, RecoverFlow
  PROVE  NoLossInv'
<1>1. TypeOK' /\ Fresh' /\ StoreFits
  BY RecoverFresh DEF FlowRunInv
<1>2. /\ record.status = "idle" /\ record'.status = "running" /\ complete' = complete
      /\ fpc' = "before" /\ fstat' = {"Recovering"} /\ LoadCheckpoints
      /\ LoadAll \/ LoadNothing \/ LoadProcess
  BY <1>1 DEF RecoverFlow, StoreFits
<1>3. ProcessDone' /\ TraceInv'
  BY <1>1, FreshDoneNext
<1>4. fbp' \notin NewPoint
  BY <1>2 DEF LoadCheckpoints, Used, NewPoint
<1>5. VerdictDone' /\ RecordDone'
  BY <1>2, <1>4 DEF VerdictDone, RecordDone
<1>6. /\ fbp' # "oldBefore" => record.fbp # "newBefore"
      /\ pbp' # "oldBefore" => record.pbp # "newBefore"
  BY <1>2 DEF LoadCheckpoints, Used
<1>7. ExecutedDone'
  <2>1. CASE LoadAll
    BY <2>1 DEF LoadAll, ExecutedDone
  <2>2. CASE LoadNothing
    BY <1>2, <1>6, <2>2 DEF LoadNothing, ExecutedDone, NoLossInv, RecordDone
  <2>3. CASE LoadProcess
    <3>1. ASSUME NEW s \in Step, "executed" \in stat'[s] PROVE s \in complete'
      <4>1. pbp' # "oldBefore" /\ s \notin Downstream(record.roots)
        BY <2>3, <3>1 DEF LoadProcess
      <4>2. QED
        BY <1>2, <1>6, <2>3, <3>1, <4>1 DEF LoadProcess, NoLossInv, RecordDone
    <3>2. "executed" \notin pstat'
      BY <2>3 DEF LoadProcess
    <3>3. QED
      BY <3>1, <3>2 DEF ExecutedDone
  <2>4. QED
    BY <1>2, <2>1, <2>2, <2>3
<1>8. QED
  BY <1>2, <1>3, <1>5, <1>7 DEF NoLossInv

LEMMA FlowInitNoLoss == FlowInit => NoLossInv
<1> SUFFICES ASSUME FlowInit PROVE NoLossInv
  OBVIOUS
<1>1. TypeOK /\ Fresh
  BY InitType DEF FlowInit, Init, Fresh, Begun, LoadedStatus, NewPoint
<1>2. ProcessDone /\ TraceInv
  BY <1>1, FreshDone
<1>3. ExecutedDone /\ VerdictDone /\ RecordDone /\ complete \subseteq Step
  BY DEF FlowInit, Init, ExecutedDone, VerdictDone, RecordDone, NoRecord, NewPoint
<1>4. QED
  BY <1>2, <1>3 DEF NoLossInv

LEMMA FlowNextNoLoss ==
  ASSUME NoCut, FlowRunInv, WorkInv, NoLossInv, [FlowNext]_allVars
  PROVE  NoLossInv'
<1>1. CASE FlowBefore \/ FlowJudge \/ FlowAfter \/ Save \/ SaveFails \/ FlowTerminated
           \/ UNCHANGED allVars
  <2>1. UNCHANGED vars /\ complete' = complete
    BY <1>1 DEF FlowBefore, FlowJudge, FlowAfter, Save, SaveFails, FlowTerminated, allVars,
       flowVars
  <2>2. ProcessDone'
    BY <2>1 DEF NoLossInv, ProcessDone, AllDeparted, vars, procVars, stepVars
  <2>3. TraceInv'
    BY <2>1 DEF NoLossInv, TraceInv, WaitClean, CancelOwn, Traced, Roots, Marked, Downstream,
       Waiters, vars, stepVars, frame
  <2>4. ExecutedDone' /\ complete' \subseteq Step
    BY <2>1 DEF NoLossInv, ExecutedDone, vars, procVars, stepVars
  <2>5. VerdictDone /\ pstat' = pstat
    BY <2>1 DEF NoLossInv, vars, procVars
  <2>6. CASE FlowBefore
    <3>1. \/ fbp' = fbp /\ fpc' = "procs" /\ fstat' = fstat
          \/ /\ fpc' = "save" /\ fstat' = BeforeFailed(fstat)
             /\ (fbp' = "newBefore" \/ ~Recoverable)
      BY <2>5, <2>6 DEF FlowBefore, Recorded, VerdictDone
    <3>2. "Success" \in fstat' => "Success" \in fstat
      BY <3>1 DEF BeforeFailed, Suspended
    <3>3. record' = record
      BY <2>6 DEF FlowBefore
    <3>4. VerdictDone' /\ RecordDone'
      BY <2>1, <2>5, <3>1, <3>2, <3>3 DEF VerdictDone, NoLossInv, RecordDone, Downstream, Waiters
    <3>5. QED
      BY <2>2, <2>3, <2>4, <3>4 DEF NoLossInv
  <2>7. CASE FlowJudge
    <3>1. /\ ppc = "end" /\ fpc' = "after" /\ record' = record
          /\ fstat' = fstat \cup (IF Normal(pstat) THEN {"Success"} ELSE {"Failed"})
      BY <2>7 DEF FlowJudge
    <3>2. Normal(pstat) => complete = Step
      BY <3>1, HealthyDone
    <3>3. VerdictDone' /\ RecordDone'
      BY <2>1, <2>5, <3>1, <3>2 DEF VerdictDone, NoLossInv, RecordDone, Downstream, Waiters
    <3>4. QED
      BY <2>2, <2>3, <2>4, <3>3 DEF NoLossInv
  <2>8. CASE FlowAfter
    <3>1. /\ fpc = "after" /\ fpc' = "save" /\ record' = record
          /\ fstat' = fstat \/ fstat' = AfterFailed(fstat)
      BY <2>8 DEF FlowAfter
    <3>2. "Success" \in fstat' <=> "Success" \in fstat
      BY <3>1 DEF AfterFailed, Suspended
    <3>3. VerdictDone' /\ RecordDone'
      BY <2>1, <2>5, <3>1, <3>2 DEF VerdictDone, NoLossInv, RecordDone, Downstream, Waiters
    <3>4. QED
      BY <2>2, <2>3, <2>4, <3>3 DEF NoLossInv
  <2>9. CASE Save \/ SaveFails
    <3>1. fpc' = "end" /\ fstat' = fstat
      BY <2>9 DEF Save, SaveFails
    <3>2. VerdictDone'
      BY <2>1, <2>5, <3>1 DEF VerdictDone
    <3>3. QED
      BY <2>2, <2>3, <2>4, <2>9, <3>2, SaveDone DEF NoLossInv
  <2>10. CASE FlowTerminated \/ UNCHANGED allVars
    <3>1. UNCHANGED <<fpc, fstat, fbp, record>>
      BY <2>10 DEF FlowTerminated, allVars, flowVars
    <3>2. VerdictDone' /\ RecordDone'
      BY <2>1, <2>5, <3>1 DEF VerdictDone, NoLossInv, RecordDone, Downstream, Waiters
    <3>3. QED
      BY <2>2, <2>3, <2>4, <3>2 DEF NoLossInv
  <2>11. QED
    BY <1>1, <2>6, <2>7, <2>8, <2>9, <2>10
<1>2. QED
  BY <1>1, RunNoLoss, RecoverNoLoss DEF FlowNext

FlowInv == FlowRunInv /\ WorkInv /\ NoLossInv

LEMMA FlowKnown == ASSUME NoCut PROVE FlowSpec => []FlowInv
<1>1. FlowInit => FlowInv
  BY FlowInitRun, FlowInitWork, FlowInitNoLoss DEF FlowInv
<1>2. FlowInv /\ [FlowNext]_allVars => FlowInv'
  BY FlowNextRun, FlowNextWork, FlowNextNoLoss DEF FlowInv
<1>3. QED
  BY <1>1, <1>2, PTL DEF FlowSpec

\* A flow that is not cut short and reports Success has done the work of every
\* step, after any number of failures and recoveries (loadStatus, needRecover,
\* clearExecutedFromRoot).
THEOREM NothingLostCorrect == NoCut => (FlowSpec => []NothingLost)
<1> SUFFICES ASSUME NoCut PROVE FlowSpec => []NothingLost
  OBVIOUS
<1>1. FlowInv => NothingLost
  BY DEF FlowInv, NoLossInv, VerdictDone, NothingLost
<1>2. QED
  BY <1>1, FlowKnown, PTL

\* A recovery of a flow that was not cut short never begins below the point of
\* failure: what a step depends on was done, or has failed in this execution
\* (loadStatus, startNextSteps).
THEOREM BeginsCorrect == NoCut => (FlowSpec => BeginsAtFailure)
<1> SUFFICES ASSUME NoCut PROVE FlowSpec => BeginsAtFailure
  OBVIOUS
<1>1. ASSUME FlowInv, [FlowNext]_allVars
      PROVE  [\A s \in Step : worker[s] = "none" /\ worker'[s] = "ready" =>
                \A d \in Depends[s] : d \in complete \/ ~Normal(stat[d])]_allVars
  <2> SUFFICES ASSUME NEW s \in Step, worker[s] = "none", worker'[s] = "ready",
                      NEW d \in Depends[s], Normal(stat[d])
               PROVE  d \in complete
    OBVIOUS
  <2>1. OrderInv /\ AllFit /\ BodyDone /\ PassedDone /\ ExecutedDone
    BY <1>1 DEF FlowInv, FlowRunInv, RunInv, ProcessInv, WorkInv, NoLossInv
  <2>2. CASE RunProcess
    <3>1. BeforeStepPass(s) \/ RunStep(s) \/ Attempt(s)
      BY <2>1, <2>2, WorkerMoves DEF RunProcess, Work
    <3>2. pc[s] = "before"
      BY <3>1 DEF BeforeStepPass, RunStep, Attempt
    <3>3. waiting[s] = 0 /\ d \in Step
      BY <2>1, <3>2, GraphAssumption DEF OrderInv, Ownership, HeldBack
    <3>4. pc[d] \in Spreads
      BY <2>1, <3>3, ReadyWhenFinished DEF phase, Spreads
    <3>5. QED
      BY <2>1, <3>3, <3>4, FinishedDone
  <2>3. CASE RecoverFlow
    BY <2>3 DEF RecoverFlow, BuildRunFlow
  <2>4. CASE UNCHANGED vars
    BY <2>4 DEF vars, stepVars
  <2>5. QED
    BY <1>1, <2>2, <2>3, <2>4 DEF FlowNext, FlowBefore, FlowJudge, FlowAfter, Save, SaveFails,
       FlowTerminated, allVars
<1>2. FlowInv /\ [FlowNext]_allVars =>
        [\A s \in Step : worker[s] = "none" /\ worker'[s] = "ready" =>
            \A d \in Depends[s] : d \in complete \/ ~Normal(stat[d])]_allVars
  BY <1>1
<1>3. QED
  BY <1>2, FlowKnown, PTL DEF FlowSpec, BeginsAtFailure

-------------------------------------------------------------------------------
(***************************************************************************)
(* The body of a step that depends on nothing is not run again once it has *)
(* succeeded.  Why: as long as such a step is not through, its work was    *)
(* done only if a failed after callback has led to the recovery, and that  *)
(* break point is still there.  It needs executions that are not cut short *)
(* and steps of the first layer that have time enough: at the gate of a    *)
(* stopped process a recovering step is given up, and its break point,     *)
(* which is Used, is left out of the next checkpoint.                      *)
(***************************************************************************)
First == {s \in Step : Depends[s] = {}}

NoLate == \A s \in First : "timeout" \notin Faults[s]

\* A step succeeds in its function; an executed one is passed through.
Rested(s) == /\ "Success" \in stat[s] => worker[s] = "done"
             /\ "executed" \in stat[s] => pc[s] \in {"wait", "start"} \cup Ended

\* A step of the first layer and the work done before.
OnceAt(s) ==
    /\ "Timeout" \notin stat[s]
    /\ pc[s] \in Early \/ worker[s] \in {"ready", "run"} => Normal(stat[s])
    /\ worker[s] = "run" => s \notin complete
    /\ /\ s \in complete /\ worker[s] \in {"none", "ready"}
       /\ pc[s] \notin Ended /\ "executed" \notin stat[s]
       => "Recovering" \in stat[s] /\ bp[s] = "oldAfter"
    /\ s \in complete /\ ~Normal(stat[s]) /\ Recoverable => bp[s] = "newAfter"

OnceSteps == (\A s \in Step : Rested(s)) /\ (\A s \in First : OnceAt(s))

\* Until the before callback of the process has passed once, nothing was done.
OnceProcess ==
    /\ ppc = "before" => "executed" \notin pstat
    /\ /\ ppc \in {"init", "before"} /\ "executed" \notin pstat
       /\ "Recovering" \in pstat => pbp = "oldBefore"
       => complete = {}
    /\ pbp = "newBefore" => complete = {} /\ AllWait /\ ppc \in {"final", "end"}

\* Nor until that of the flow has.
OnceFlow ==
    /\ fpc = "before" => ppc = "init"
    /\ fpc = "before" /\ ("Recovering" \in fstat => fbp = "oldBefore") => complete = {}
    /\ fbp = "newBefore" => complete = {} /\ ppc = "init" /\ fpc \in {"save", "end"}

\* The checkpoint has what is still true of the execution it was taken of.
OnceRecord == record.status = "idle" =>
    /\ fpc = "end" /\ record.fbp \notin OldPoint
    /\ record.fbp = "newBefore" => fbp = "newBefore"
    /\ record.process =>
           /\ Recoverable /\ ~Normal(pstat) /\ record.roots \subseteq Step
           /\ record.pbp = "newBefore" => pbp = "newBefore"
           /\ \A s \in First : /\ s \in record.roots => ~Normal(stat[s])
                               /\ bp[s] = "newAfter" => record.bp[s] = "newAfter"

OnceInv == OnceSteps /\ OnceProcess /\ OnceFlow /\ OnceRecord

\* What others do to a step of the first layer: nobody marks it.
LEMMA FirstDrifts ==
  ASSUME OrderInv, [Next]_vars, NEW x \in First, ~Execute(x), ~Work(x)
  PROVE  /\ stat'[x] = stat[x] /\ bp'[x] = bp[x] /\ worker'[x] = worker[x]
         /\ \/ pc'[x] = pc[x]
            \/ pc[x] \in Ended /\ pc'[x] \in Ended
            \/ pc[x] = "wait" /\ pc'[x] = "start"
<1>1. TypeOK /\ FramesExact /\ x \in Step /\ Depends[x] = {}
  BY DEF OrderInv, Ownership, First
<1>2. CASE Schedule \/ Control \/ UNCHANGED vars
  BY <1>1, <1>2, ScheduleDrifts
<1>3. ASSUME NEW s \in Step, Propagate(s)
      PROVE  /\ stat'[x] = stat[x] /\ bp'[x] = bp[x] /\ worker'[x] = worker[x]
             /\ \/ pc'[x] = pc[x]
                \/ pc[x] \in Ended /\ pc'[x] \in Ended
                \/ pc[x] = "wait" /\ pc'[x] = "start"
  <2>1. CASE Mark(s)
    <3>1. to[s] \in Waiters(s)
      BY <1>1, <2>1 DEF Mark, FramesExact
    <3>2. to[s] # x
      BY <1>1, <3>1 DEF Waiters
    <3>3. stat'[x] = stat[x]
      BY <1>1, <2>1, <3>2 DEF Mark, MarkWaiter, TypeOK
    <3>4. QED
      BY <1>1, <1>3, <3>3, PropagateDrifts
  <2>2. CASE UNCHANGED stat
    BY <1>1, <1>3, <2>2, PropagateDrifts
  <2>3. QED
    BY <1>3, <2>1, <2>2 DEF Propagate, Settle, Countdown, Depart
<1>4. ASSUME NEW s \in Step \ {x}, Execute(s) \/ Work(s)
      PROVE  /\ pc'[x] = pc[x] /\ stat'[x] = stat[x] /\ bp'[x] = bp[x] /\ worker'[x] = worker[x]
  BY <1>1, <1>4, OthersRest
<1>5. QED
  BY <1>2, <1>3, <1>4 DEF Next, Terminated

LEMMA NextRested ==
  ASSUME OrderInv, AllFit, [Next]_vars, NEW x \in Step, Rested(x)
  PROVE  Rested(x)'
<1>1. TypeOK /\ StepFits(x)
  BY DEF OrderInv, AllFit
<1>2. "executed" \in stat'[x] => "executed" \in stat[x]
  BY StatusGrows
<1>3. CASE Schedule \/ Control \/ UNCHANGED vars
  BY <1>1, <1>3, ScheduleDrifts DEF Rested
<1>4. ASSUME NEW s \in Step, Propagate(s) PROVE Rested(x)'
  <2>1. PICK M \in SUBSET {"Cancel", "skip"} : stat'[x] = stat[x] \cup M
    BY <1>4, PropagateDrifts
  <2>2. "Success" \in stat'[x] => "Success" \in stat[x]
    BY <2>1
  <2>3. QED
    BY <1>2, <1>4, <2>2, PropagateDrifts DEF Rested, Ended
<1>5. ASSUME NEW s \in Step \ {x}, Execute(s) \/ Work(s) PROVE Rested(x)'
  BY <1>1, <1>5, OthersRest DEF Rested
<1>6. CASE Work(x)
  <2>1. pc'[x] = pc[x] /\ ("Success" \in stat'[x] => worker'[x] = "done")
    BY <1>1, <1>6 DEF TypeOK, Rested, Work, RunStep, Attempt, WorkDone
  <2>2. QED
    BY <1>2, <2>1 DEF Rested
<1>7. CASE Execute(x)
  <2>1. "executed" \in stat[x] => pc[x] = "start"
    BY <1>7 DEF Rested, Ended, Execute, Enter, Gate, SkipStep, MeetCondition, MissCondition,
       Examined, Unhold, BeforeStepPass, BeforeStepFail, RunFinished, StepTimeout, AfterStep,
       FinalizeStep
  <2>2. "executed" \in stat[x] => pc'[x] = "settle"
    BY <1>1, <1>7, <2>1 DEF TypeOK, Execute, Enter, Gate, SkipStep, MeetCondition, MissCondition,
       Examined, Unhold, BeforeStepPass, BeforeStepFail, RunFinished, StepTimeout, AfterStep,
       FinalizeStep
  <2>3. "Success" \in stat'[x] => "Success" \in stat[x]
    BY <1>1, <1>7 DEF TypeOK, Execute, Enter, Gate, SkipStep, MeetCondition, MissCondition,
       Unhold, BeforeStepPass, BeforeStepFail, RunFinished, StepTimeout, Judge, AfterStep,
       FinalizeStep, BeforeFailed, AfterFailed, Suspended
  <2>4. "Success" \in stat[x] => worker'[x] = "done"
    BY <1>1, <1>7, WorkerMoves DEF Rested, Work, RunStep, Attempt, BeforeStepPass,
       StepFits, WorkerFits, Early
  <2>5. QED
    BY <1>2, <2>2, <2>3, <2>4 DEF Rested, Ended
<1>8. QED
  BY <1>3, <1>4, <1>5, <1>6, <1>7 DEF Next, Terminated

\* A process that is over has steps that all wait or have all departed; before
\* that it is normal.
LEMMA NormalUntilRest ==
  ASSUME ProcessInv, ProcessDone, ~Normal(pstat)
  PROVE  Resting /\ ppc \in {"after", "final", "end"}
  BY DEF ProcessInv, ProcessDone, RestFits

\* What startStep does to a step of the first layer whose work was done before.
LEMMA ExecuteOnce ==
  ASSUME NoLate, ProcessInv, ProcessDone, NEW x \in First, Execute(x), Rested(x), OnceAt(x),
         x \in complete' => x \in complete
  PROVE  OnceAt(x)'
<1>1. TypeOK /\ StepFits(x) /\ x \in Step /\ "timeout" \notin Faults[x]
  BY DEF ProcessInv, OrderInv, AllFit, First, NoLate
<1>2. stat \in [Step -> SUBSET Flag] /\ bp \in [Step -> BreakPoint]
      /\ pc \in [Step -> Location] /\ worker \in [Step -> {"none", "ready", "run", "done"}]
  BY <1>1 DEF TypeOK
<1>3. worker[x] \in {"ready", "run"} => pc[x] = "select"
  BY <1>1 DEF StepFits, WorkerFits, OnceAt
<1>4. pc[x] \notin {"wait", "done", "next", "mark", "settle"}
  BY DEF Execute, Enter, Gate, SkipStep, MeetCondition, MissCondition, Examined, Unhold,
     BeforeStepPass, BeforeStepFail, RunFinished, StepTimeout, AfterStep, FinalizeStep
<1>5. Normal(pstat)
  <2>1. SUFFICES ASSUME ~Normal(pstat) PROVE FALSE
    OBVIOUS
  <2>2. QED
    BY <1>1, <1>4, <2>1, NormalUntilRest DEF Resting, AllWait, AllDeparted
<1>6. CASE Enter(x) \/ Gate(x) \/ SkipStep(x) \/ MeetCondition(x) \/ Unhold(x) \/ FinalizeStep(x)
  <2>1. UNCHANGED <<stat, bp, worker>> /\ (pc'[x] \in Early => pc[x] \in Early)
    BY <1>1, <1>2, <1>5, <1>6 DEF Enter, Gate, SkipStep, MeetCondition, Examined, Unhold,
       FinalizeStep, Early
  <2>2. QED
    BY <1>4, <2>1 DEF OnceAt, Ended
<1>7. CASE MissCondition(x)
  <2>1. /\ UNCHANGED <<bp, worker>>
        /\ stat'[x] = stat[x] \/ stat'[x] = stat[x] \cup {"skip"}
        /\ worker[x] = "none" /\ pc[x] \in Early
    BY <1>1, <1>2, <1>7 DEF MissCondition, Examined, StepFits, WorkerFits, Early
  <2>2. /\ Normal(stat'[x]) <=> Normal(stat[x])
        /\ "Timeout" \in stat'[x] <=> "Timeout" \in stat[x]
        /\ "executed" \in stat'[x] <=> "executed" \in stat[x]
        /\ "Recovering" \in stat'[x] <=> "Recovering" \in stat[x]
    BY <2>1 DEF Normal, Abnormal
  <2>3. QED
    BY <1>4, <2>1, <2>2 DEF OnceAt, Ended
<1>8. CASE BeforeStepPass(x)
  <2>1. UNCHANGED <<stat, bp>> /\ worker'[x] = "ready" /\ worker[x] = "none" /\ pc[x] = "before"
    BY <1>1, <1>2, <1>8 DEF BeforeStepPass, StepFits, WorkerFits, Early
  <2>2. QED
    BY <2>1 DEF OnceAt, Ended, Early
<1>9. CASE BeforeStepFail(x)
  <2>1. /\ pc[x] = "before" /\ worker[x] = "none" /\ worker' = worker /\ pc'[x] = "fin"
        /\ stat'[x] = BeforeFailed(stat[x])
        /\ "Recovering" \in stat[x] => bp[x] \in {"none", "oldBefore"}
    BY <1>1, <1>2, <1>9 DEF BeforeStepFail, StepFits, WorkerFits, Early
  <2>2. "executed" \notin stat[x]
    BY <2>1 DEF Rested, Ended
  <2>3. x \notin complete
    BY <2>1, <2>2 DEF OnceAt, Ended
  <2>4. "Timeout" \notin stat'[x]
    BY <2>1 DEF OnceAt, BeforeFailed, Suspended
  <2>5. QED
    BY <2>1, <2>3, <2>4 DEF OnceAt, Early
<1>10. CASE RunFinished(x)
  <2>1. /\ pc[x] = "select" /\ worker[x] = "done" /\ worker' = worker /\ pc'[x] = "after"
        /\ \/ stat'[x] = stat[x] /\ bp'[x] = bp[x]
           \/ ~Normal(stat[x]) /\ Recoverable /\ stat'[x] = stat[x] \cup {"Suspend"}
    BY <1>1, <1>2, <1>10 DEF RunFinished, Judge
  <2>2. bp[x] # "newAfter"
    BY <1>1, <2>1 DEF StepFits, PointFits, Late
  <2>3. CASE stat'[x] = stat[x] /\ bp'[x] = bp[x]
    BY <2>1, <2>3 DEF OnceAt, Early
  <2>4. CASE ~Normal(stat[x]) /\ Recoverable /\ stat'[x] = stat[x] \cup {"Suspend"}
    <3>1. x \notin complete
      BY <2>2, <2>4 DEF OnceAt
    <3>2. QED
      BY <2>1, <2>4, <3>1 DEF OnceAt, Early
  <2>5. QED
    BY <2>1, <2>3, <2>4
<1>11. CASE AfterStep(x)
  <2>1. /\ pc[x] = "after" /\ worker' = worker /\ pc'[x] = "fin"
        /\ \/ stat'[x] = stat[x] /\ bp'[x] = bp[x]
           \/ /\ stat'[x] = AfterFailed(stat[x])
              /\ bp'[x] = Recorded(bp[x], "newAfter")
    BY <1>1, <1>2, <1>11 DEF AfterStep
  <2>2. worker[x] = "done" /\ bp[x] # "newAfter"
    BY <1>1, <1>2, <1>3, <2>1 DEF StepFits, WorkerFits, PointFits, Late
  <2>3. CASE stat'[x] = stat[x] /\ bp'[x] = bp[x]
    BY <2>1, <2>2, <2>3 DEF OnceAt, Early
  <2>4. CASE stat'[x] = AfterFailed(stat[x]) /\ bp'[x] = Recorded(bp[x], "newAfter")
    <3>1. "Timeout" \notin stat'[x]
      BY <2>4 DEF OnceAt, AfterFailed, Suspended
    <3>2. x \in complete /\ Recoverable => Normal(stat[x])
      BY <2>2 DEF OnceAt
    <3>3. x \in complete /\ Recoverable => bp'[x] = "newAfter"
      BY <1>1, <2>4, <3>2 DEF StepFits, PointFits, Recorded
    <3>4. QED
      BY <2>1, <2>2, <3>1, <3>3 DEF OnceAt, Early
  <2>5. QED
    BY <2>1, <2>3, <2>4
<1>12. QED
  BY <1>1, <1>6, <1>7, <1>8, <1>9, <1>10, <1>11 DEF Execute, StepTimeout

\* The goroutine of its function.
LEMMA WorkOnce ==
  ASSUME ProcessInv, NEW x \in First, Work(x), Rested(x), OnceAt(x),
         x \in complete' => x \in complete \/ "Success" \in stat'[x]
  PROVE  OnceAt(x)'
<1>1. TypeOK /\ StepFits(x) /\ x \in Step
  BY DEF ProcessInv, OrderInv, AllFit, First
<1>2. stat \in [Step -> SUBSET Flag] /\ worker \in [Step -> {"none", "ready", "run", "done"}]
  BY <1>1 DEF TypeOK
<1>3. pc' = pc /\ bp' = bp
  BY DEF Work, RunStep, Attempt
<1>4. worker[x] \in {"ready", "run"} /\ pc[x] = "select" /\ Normal(stat[x])
      /\ "Success" \notin stat[x] /\ "executed" \notin stat[x]
  BY <1>1 DEF Work, RunStep, Attempt, StepFits, WorkerFits, OnceAt, Rested, Ended
<1>5. CASE RunStep(x)
  <2>1. /\ worker[x] = "ready" /\ stat' = stat
        /\ \/ worker'[x] = "done"
           \/ worker'[x] = "run" /\ ~("Recovering" \in stat[x] /\ bp[x] = "oldAfter")
    BY <1>1, <1>2, <1>5 DEF RunStep
  <2>2. worker'[x] = "run" => x \notin complete
    BY <1>4, <2>1 DEF OnceAt, Ended
  <2>3. QED
    BY <1>3, <1>4, <2>1, <2>2 DEF OnceAt, Early
<1>6. CASE Attempt(x)
  <2>1. worker[x] = "run" /\ x \notin complete
    BY <1>6 DEF Attempt, OnceAt
  <2>2. \/ stat' = stat /\ worker' = worker
        \/ /\ worker'[x] = "done"
           /\ \E f \in {"Success", "Error", "Panic"} : stat'[x] = stat[x] \cup {f}
    BY <1>1, <1>2, <1>6 DEF Attempt, WorkDone
  <2>3. CASE stat' = stat /\ worker' = worker
    BY <1>3, <1>4, <2>1, <2>3 DEF OnceAt, Early
  <2>4. CASE worker'[x] = "done" /\ stat'[x] = stat[x] \cup {"Success"}
    <3>1. Normal(stat'[x]) /\ "Timeout" \notin stat'[x]
      BY <1>4, <2>4 DEF Normal, Abnormal
    <3>2. QED
      BY <2>4, <3>1 DEF OnceAt
  <2>5. CASE /\ worker'[x] = "done"
             /\ \E f \in {"Error", "Panic"} : stat'[x] = stat[x] \cup {f}
    <3>1. "Timeout" \notin stat'[x] /\ "Success" \notin stat'[x]
      BY <1>4, <2>5 DEF OnceAt
    <3>2. QED
      BY <1>3, <1>4, <2>1, <2>5, <3>1 DEF OnceAt, Early
  <2>6. QED
    BY <2>2, <2>3, <2>4, <2>5
<1>7. QED
  BY <1>5, <1>6 DEF Work

LEMMA RunOnceSteps ==
  ASSUME NoCut, NoLate, FlowInv, OnceSteps, RunProcess
  PROVE  OnceSteps'
<1>1. /\ [Next]_vars /\ complete' = complete \cup CompletedNow
      /\ ProcessInv /\ OrderInv /\ AllFit /\ ProcessDone /\ BodyDone
  BY DEF RunProcess, FlowInv, FlowRunInv, RunInv, ProcessInv, WorkInv, NoLossInv
<1>2. \A x \in Step : Rested(x)'
  BY <1>1, NextRested DEF OnceSteps
<1>3. ASSUME NEW x \in First PROVE OnceAt(x)'
  <2>1. /\ x \in Step /\ Rested(x) /\ OnceAt(x) /\ StepFits(x)
        /\ "Success" \in stat[x] => x \in complete
    BY <1>1 DEF OnceSteps, First, AllFit, BodyDone
  <2>2. /\ x \in complete => x \in complete'
        /\ x \in complete' =>
              \/ x \in complete \/ "Success" \in stat'[x]
              \/ pc'[x] \in Spreads /\ worker'[x] = "none" /\ Normal(stat'[x])
    BY <1>1 DEF CompletedNow, Spreads
  <2>3. CASE Execute(x)
    <3>1. pc'[x] \notin Spreads
      BY <1>1, <2>1, <2>3 DEF OrderInv, TypeOK, Spreads, Execute, Enter, Gate, SkipStep, MeetCondition,
         MissCondition, Unhold, BeforeStepPass, BeforeStepFail, RunFinished, StepTimeout, Judge,
         AfterStep, FinalizeStep
    <3>2. "Success" \in stat'[x] => "Success" \in stat[x]
      BY <1>1, <2>1, <2>3 DEF OrderInv, TypeOK, Execute, Enter, Gate, SkipStep, MeetCondition,
         MissCondition, Unhold, BeforeStepPass, BeforeStepFail, RunFinished, StepTimeout, Judge,
         AfterStep, FinalizeStep, BeforeFailed, AfterFailed, Suspended
    <3>3. QED
      BY <1>1, <2>1, <2>2, <2>3, <3>1, <3>2, ExecuteOnce
  <2>4. CASE Work(x)
    <3>1. worker'[x] # "none"
      BY <1>1, <2>1, <2>4 DEF OrderInv, TypeOK, Work, RunStep, Attempt, WorkDone
    <3>2. QED
      BY <1>1, <2>1, <2>2, <2>4, <3>1, WorkOnce
  <2>5. CASE ~Execute(x) /\ ~Work(x)
    <3>1. /\ stat'[x] = stat[x] /\ bp'[x] = bp[x] /\ worker'[x] = worker[x]
          /\ \/ pc'[x] = pc[x]
             \/ pc[x] \in Ended /\ pc'[x] \in Ended
             \/ pc[x] = "wait" /\ pc'[x] = "start"
      BY <1>1, <2>5, FirstDrifts
    <3>2. x \in complete' =>
              x \in complete \/ (pc'[x] \in Ended /\ Normal(stat'[x]))
      BY <2>1, <2>2, <3>1 DEF Spreads, Ended
    <3>3. QED
      BY <2>1, <2>2, <3>1, <3>2 DEF OnceAt, Early, Ended
  <2>6. QED
    BY <2>3, <2>4, <2>5
<1>4. QED
  BY <1>2, <1>3 DEF OnceSteps, First

\* How the goroutine of schedule and the break point of the process move.
LEMMA ProcessMoves ==
  ASSUME [Next]_vars
  PROVE  /\ ppc' = "init" => ppc = "init"
         /\ ppc' = "before" => ppc = "before" \/ (ppc = "init" /\ "executed" \notin pstat)
         /\ ppc \in {"final", "end"} => ppc' \in {"final", "end"}
         /\ pbp' # pbp => ppc' = "final"
         /\ pbp' = "newBefore" => pbp = "newBefore" \/ BeforeProcessFail
         /\ pbp = "newBefore" => pbp' = "newBefore"
<1>1. CASE UNCHANGED <<ppc, pbp, managed>>
  BY <1>1
<1>2. CASE Schedule
  BY <1>2 DEF Schedule, Proceed, Begin, BeforeProcessPass, BeforeProcessFail, Spawn, Spawned,
     AllFinished, ProcessTimeout, AfterProcess, Finalize, Recorded, NewPoint, procVars
<1>3. QED
  BY <1>1, <1>2, ProcessSteps

\* While all steps wait, nothing is done.
LEMMA WaitingDoesNothing ==
  ASSUME RunInv', \A s \in Step : Rested(s)', AllWait'
  PROVE  CompletedNow = {}
<1> SUFFICES ASSUME NEW s \in CompletedNow PROVE FALSE
  OBVIOUS
<1>1. s \in Step /\ pc'[s] = "wait" /\ "Success" \in stat'[s]
  BY DEF CompletedNow, AllWait
<1>2. worker'[s] = "done"
  BY <1>1 DEF Rested
<1>3. worker'[s] = "none"
  BY <1>1 DEF RunInv, ProcessInv, AllFit, StepFits, WorkerFits, Early
<1>4. QED
  BY <1>2, <1>3

LEMMA RunOnceProcess ==
  ASSUME FlowInv, OnceInv, RunProcess, \A s \in Step : Rested(s)'
  PROVE  OnceProcess'
<1>1. [Next]_vars /\ complete' = complete \cup CompletedNow /\ ProcessInv /\ RestFits
      /\ OrderInv /\ RunInv' /\ OnceProcess
  BY NextRun DEF RunProcess, FlowInv, FlowRunInv, RunInv, ProcessInv, OnceInv
<1>2. AllWait' => complete' = complete
  BY <1>1, WaitingDoesNothing
<1>3. ppc' = "before" => "executed" \notin pstat'
  BY <1>1, ProcessMoves, ExecutedStays DEF OnceProcess
<1>4. ASSUME ppc' \in {"init", "before"}, "executed" \notin pstat',
             "Recovering" \in pstat' => pbp' = "oldBefore"
      PROVE  complete' = {}
  <2>1. AllWait' /\ ppc \in {"init", "before"} /\ pbp' = pbp
    BY <1>1, <1>4, ProcessMoves DEF RunInv, ProcessInv, RestFits
  <2>2. /\ "executed" \in pstat => "executed" \in pstat'
        /\ "Recovering" \in pstat => "Recovering" \in pstat'
    BY <1>1, FlagsStay DEF Flag
  <2>3. complete = {}
    BY <1>1, <1>4, <2>1, <2>2 DEF OnceProcess
  <2>4. QED
    BY <1>2, <2>1, <2>3
<1>5. ASSUME pbp' = "newBefore" PROVE complete' = {} /\ AllWait' /\ ppc' \in {"final", "end"}
  <2>1. CASE pbp = "newBefore"
    <3>1. complete = {} /\ AllWait /\ ppc \in {"final", "end"}
      BY <1>1, <2>1 DEF OnceProcess
    <3>2. AllWait'
      BY <1>1, <3>1, RestingStays DEF Resting, AllWait
    <3>3. QED
      BY <1>1, <1>2, <3>1, <3>2, ProcessMoves
  <2>2. CASE BeforeProcessFail
    <3>1. /\ ppc = "before" /\ ppc' = "final" /\ UNCHANGED stepVars
          /\ "Recovering" \in pstat => pbp = "oldBefore"
      BY <2>2 DEF BeforeProcessFail
    <3>2. complete = {} /\ AllWait
      BY <1>1, <3>1 DEF OnceProcess, RestFits
    <3>3. AllWait'
      BY <3>1, <3>2 DEF AllWait, stepVars
    <3>4. QED
      BY <1>2, <3>1, <3>2, <3>3
  <2>3. QED
    BY <1>1, <1>5, <2>1, <2>2, ProcessMoves
<1>6. QED
  BY <1>3, <1>4, <1>5 DEF OnceProcess

LEMMA RunOnce ==
  ASSUME NoCut, NoLate, FlowInv, OnceInv, RunProcess
  PROVE  OnceInv'
<1>1. /\ [Next]_vars /\ UNCHANGED <<fpc, fstat, fbp, record>> /\ (ppc = "init" => fpc = "procs")
      /\ ProcessInv /\ OrderInv /\ AllFit /\ ProcessDone
  BY DEF RunProcess, FlowInv, FlowRunInv, RunInv, ProcessInv, NoLossInv
<1>2. OnceSteps'
  BY RunOnceSteps DEF OnceInv
<1>3. OnceProcess'
  BY <1>2, RunOnceProcess DEF OnceSteps
<1>4. OnceFlow'
  BY <1>1 DEF OnceInv, OnceFlow
<1>5. OnceRecord'
  <2>1. SUFFICES ASSUME record.status = "idle" PROVE OnceRecord'
    BY <1>1 DEF OnceRecord
  <2>2. OnceRecord
    BY DEF OnceInv
  <2>3. ASSUME record.process
        PROVE  /\ Recoverable /\ ~Normal(pstat') /\ record.roots \subseteq Step
               /\ record.pbp = "newBefore" => pbp' = "newBefore"
               /\ \A s \in First : /\ s \in record.roots => ~Normal(stat'[s])
                                   /\ bp'[s] = "newAfter" => record.bp[s] = "newAfter"
    <3>1. Recoverable /\ ~Normal(pstat) /\ record.roots \subseteq Step
      BY <2>1, <2>2, <2>3 DEF OnceRecord
    <3>2. ~Normal(pstat')
      BY <1>1, <3>1, FlagsStay DEF Normal, Abnormal, Flag
    <3>3. record.pbp = "newBefore" => pbp' = "newBefore"
      BY <1>1, <2>1, <2>2, <2>3, ProcessMoves DEF OnceRecord
    <3>4. ASSUME NEW s \in First
          PROVE  /\ s \in record.roots => ~Normal(stat'[s])
                 /\ bp'[s] = "newAfter" => record.bp[s] = "newAfter"
      <4>1. s \in Step /\ pc[s] # "after"
        BY <1>1, <3>1, NormalUntilRest DEF First, Resting, AllWait, AllDeparted
      <4>2. bp'[s] = "newAfter" => bp[s] = "newAfter"
        BY <1>1, <4>1, PointMoves DEF AfterStep
      <4>3. ~Normal(stat[s]) => ~Normal(stat'[s])
        BY <1>1, <4>1, StatusGrows DEF Normal
      <4>4. QED
        BY <2>1, <2>2, <2>3, <4>2, <4>3 DEF OnceRecord
    <3>5. QED
      BY <3>1, <3>2, <3>3, <3>4
  <2>4. QED
    BY <1>1, <2>1, <2>2, <2>3 DEF OnceRecord
<1>6. QED
  BY <1>2, <1>3, <1>4, <1>5 DEF OnceInv

\* A step that depends on nothing is executed again only as a root.
LEMMA FirstIsRoot ==
  ASSUME NEW R \in SUBSET Step, NEW s \in First, s \in Downstream(R)
  PROVE  s \in R
<1>1. SUFFICES ASSUME s \notin R PROVE FALSE
  OBVIOUS
<1> DEFINE C == Step \ {s}
<1>2. C \in SUBSET Step /\ R \subseteq C /\ \A d \in C : Waiters(d) \subseteq C
  BY <1>1 DEF First, Waiters
<1> HIDE DEF C
<1>3. s \in C
  BY <1>2 DEF Downstream
<1>4. QED
  BY <1>3 DEF C

LEMMA RecoverOnce ==
  ASSUME FlowRunInv, OnceInv, RecoverFlow
  PROVE  OnceInv'
<1>1. Fresh' /\ StoreFits /\ OnceRecord /\ OnceProcess /\ OnceFlow /\ OnceSteps
  BY RecoverFresh DEF FlowRunInv, OnceInv
<1>2. /\ record.status = "idle" /\ record'.status = "running" /\ complete' = complete
      /\ fpc' = "before" /\ fstat' = {"Recovering"} /\ LoadCheckpoints
      /\ LoadAll \/ LoadNothing \/ LoadProcess
  BY <1>1 DEF RecoverFlow, StoreFits
<1>3. /\ ppc' = "init" /\ pbp' \notin NewPoint
      /\ \A s \in Step : pc'[s] = "wait" /\ worker'[s] = "none" /\ stat'[s] \in LoadedStatus
  BY <1>1 DEF Fresh, Begun
<1>4. \A status \in LoadedStatus :
          Normal(status) /\ "Timeout" \notin status /\ "Success" \notin status
  BY DEF LoadedStatus, Normal, Abnormal
<1>5. fbp' = "oldBefore" => complete = {}
  BY <1>1, <1>2 DEF OnceRecord, OnceFlow, LoadCheckpoints, Used, OldPoint
<1>6. record.process /\ pbp' = "oldBefore" => complete = {}
  BY <1>1, <1>2 DEF OnceRecord, OnceProcess, StoreFits, LoadCheckpoints, Used
<1>7. \A s \in Step : Rested(s)'
  BY <1>3, <1>4 DEF Rested
<1>8. ASSUME NEW s \in First PROVE OnceAt(s)'
  <2>1. s \in Step
    BY DEF First
  <2>2. ASSUME s \in complete, "executed" \notin stat'[s]
        PROVE  "Recovering" \in stat'[s] /\ bp'[s] = "oldAfter"
    <3>1. LoadProcess
      BY <1>2, <1>5, <2>1, <2>2 DEF LoadAll, LoadNothing
    <3>2. record.process /\ record.roots \subseteq Step /\ Recoverable
      BY <1>1, <1>2, <3>1 DEF LoadProcess, OnceRecord
    <3>3. s \in record.roots
      BY <1>6, <2>1, <2>2, <3>1, <3>2, FirstIsRoot DEF LoadProcess
    <3>4. "Recovering" \in stat'[s]
      BY <2>1, <3>1, <3>3 DEF LoadProcess
    <3>5. ~Normal(stat[s]) /\ (bp[s] = "newAfter" => record.bp[s] = "newAfter")
      BY <1>1, <1>2, <3>2, <3>3 DEF OnceRecord
    <3>6. record.bp[s] = "newAfter"
      BY <1>1, <2>2, <3>2, <3>5 DEF OnceSteps, OnceAt
    <3>7. QED
      BY <1>2, <2>1, <3>4, <3>6 DEF LoadCheckpoints, Used
  <2>3. QED
    BY <1>2, <1>3, <1>4, <2>1, <2>2 DEF OnceAt
<1>9. OnceProcess'
  BY <1>2, <1>3, <1>5, <1>6 DEF OnceProcess, LoadAll, LoadNothing, LoadProcess, NewPoint
<1>10. OnceFlow'
  <2>1. fbp' # "newBefore"
    BY <1>2 DEF LoadCheckpoints, Used
  <2>2. QED
    BY <1>2, <1>3, <1>5, <2>1 DEF OnceFlow
<1>11. OnceRecord'
  BY <1>2 DEF OnceRecord
<1>12. QED
  BY <1>7, <1>8, <1>9, <1>10, <1>11 DEF OnceInv, OnceSteps, First

LEMMA FlowInitOnce == FlowInit => OnceInv
<1> SUFFICES ASSUME FlowInit PROVE OnceInv
  OBVIOUS
<1>1. OnceSteps
  BY DEF FlowInit, Init, OnceSteps, First, Rested, OnceAt, Normal
<1>2. OnceProcess /\ OnceFlow /\ OnceRecord
  BY DEF FlowInit, Init, OnceProcess, OnceFlow, OnceRecord, NoRecord
<1>3. QED
  BY <1>1, <1>2 DEF OnceInv

\* Done, around the process.
LEMMA DoneOnce ==
  ASSUME FlowRunInv, OnceInv,
         FlowBefore \/ FlowJudge \/ FlowAfter \/ Save \/ SaveFails \/ FlowTerminated
         \/ UNCHANGED allVars
  PROVE  OnceInv'
<1>1. UNCHANGED vars /\ complete' = complete
  BY DEF FlowBefore, FlowJudge, FlowAfter, Save, SaveFails, FlowTerminated, allVars, flowVars
<1>2. /\ UNCHANGED <<ppc, pstat, pbp, pc, stat, worker, bp>>
      /\ OnceFlow /\ OnceRecord
  BY <1>1 DEF vars, procVars, stepVars, OnceInv
<1>3. OnceSteps'
  BY <1>1, <1>2 DEF OnceInv, OnceSteps, Rested, OnceAt
<1>4. OnceProcess'
  BY <1>1, <1>2 DEF OnceInv, OnceProcess, AllWait
<1>5. CASE FlowBefore
  <2>1. /\ fpc = "before" /\ record' = record
        /\ \/ fpc' = "procs" /\ fbp' = fbp
           \/ fpc' = "save" /\ ("Recovering" \in fstat => fbp = "oldBefore")
    BY <1>5 DEF FlowBefore
  <2>2. OnceFlow'
    BY <1>1, <1>2, <2>1 DEF OnceFlow
  <2>3. OnceRecord'
    BY <1>2, <2>1 DEF OnceRecord
  <2>4. QED
    BY <1>3, <1>4, <2>2, <2>3 DEF OnceInv
<1>6. CASE FlowJudge \/ FlowAfter
  <2>1. /\ fpc \in {"procs", "after"} /\ fpc' \in {"after", "save"} /\ record' = record
        /\ fbp' = "newBefore" => fbp = "newBefore"
    BY <1>6 DEF FlowJudge, FlowAfter, Recorded, NewPoint
  <2>2. OnceFlow' /\ OnceRecord'
    BY <1>1, <1>2, <2>1 DEF OnceFlow, OnceRecord
  <2>3. QED
    BY <1>3, <1>4, <2>2 DEF OnceInv
<1>7. CASE Save \/ SaveFails
  <2>1. fpc = "save" /\ fpc' = "end" /\ UNCHANGED <<fstat, fbp>>
    BY <1>7 DEF Save, SaveFails
  <2>2. OnceFlow'
    BY <1>1, <1>2, <2>1 DEF OnceFlow
  <2>3. CASE record' = Concluded
    <3>1. record'.status # "idle"
      BY <1>2, <2>1, <2>3, ConcludedKeeps DEF FlowRunInv, StoreFits, OnceRecord
    <3>2. QED
      BY <1>3, <1>4, <2>2, <3>1 DEF OnceInv, OnceRecord
  <2>4. CASE record' = Snapshot /\ Recoverable
    <3>1. /\ record'.fbp = Kept(fbp) /\ record'.process = ~Normal(pstat)
          /\ record'.process =>
                /\ record'.pbp = Kept(pbp)
                /\ record'.roots = {s \in Step : NeedRecover(stat[s])}
                /\ \A s \in Step : record'.bp[s] = Kept(bp[s])
      BY <2>4 DEF Snapshot
    <3>2. \A point : /\ Kept(point) \notin OldPoint
                     /\ Kept(point) = "newBefore" => point = "newBefore"
      BY DEF Kept, OldPoint
    <3>3. Kept("newAfter") = "newAfter"
      BY DEF Kept, OldPoint
    <3>4. \A s \in Step : NeedRecover(stat[s]) => ~Normal(stat[s])
      BY DEF NeedRecover, Normal, Abnormal
    <3>5. OnceRecord'
      BY <1>2, <2>1, <2>4, <3>1, <3>2, <3>3, <3>4 DEF OnceRecord, First
    <3>6. QED
      BY <1>3, <1>4, <2>2, <3>5 DEF OnceInv
  <2>5. QED
    BY <1>7, <2>3, <2>4 DEF Save, SaveFails
<1>8. CASE FlowTerminated \/ UNCHANGED allVars
  <2>1. UNCHANGED <<fpc, fstat, fbp, record>>
    BY <1>8 DEF FlowTerminated, allVars, flowVars
  <2>2. OnceFlow' /\ OnceRecord'
    BY <1>1, <1>2, <2>1 DEF OnceFlow, OnceRecord
  <2>3. QED
    BY <1>3, <1>4, <2>2 DEF OnceInv
<1>9. QED
  BY <1>5, <1>6, <1>7, <1>8

\* In executions that are not cut short, the function of a step of the first layer
\* that has enough time runs only until it has succeeded: a recovery enters behind
\* it (loadCheckpoint, buildSnapshot, runStep).
THEOREM BodyOnceCorrect == NoCut /\ NoLate => (FlowSpec => BodyRunsOnce)
<1> SUFFICES ASSUME NoCut, NoLate PROVE FlowSpec => BodyRunsOnce
  OBVIOUS
<1>1. FlowInv /\ OnceInv /\ [FlowNext]_allVars => (FlowInv /\ OnceInv)'
  BY FlowNextRun, FlowNextWork, FlowNextNoLoss, RunOnce, RecoverOnce, DoneOnce
     DEF FlowInv, FlowNext
<1>2. FlowInit => FlowInv /\ OnceInv
  BY FlowInitRun, FlowInitWork, FlowInitNoLoss, FlowInitOnce DEF FlowInv
<1>3. ASSUME FlowInv, OnceInv, [FlowNext]_allVars
      PROVE  [\A s \in Step : worker[s] = "ready" /\ worker'[s] = "run" =>
                 s \notin complete \/ Depends[s] # {}]_allVars
  <2> SUFFICES ASSUME NEW s \in Step, worker[s] = "ready", worker'[s] = "run",
                      s \in complete, Depends[s] = {}
               PROVE  FALSE
    OBVIOUS
  <2>1. OrderInv /\ StepFits(s) /\ Rested(s) /\ OnceAt(s)
    BY <1>3 DEF FlowInv, FlowRunInv, RunInv, ProcessInv, AllFit, OnceInv, OnceSteps, First
  <2>2. CASE RunProcess
    <3>1. pc[s] = "select" /\ "executed" \notin stat[s]
      BY <2>1 DEF StepFits, WorkerFits, OnceAt, Rested, Ended
    <3>2. "Recovering" \in stat[s] /\ bp[s] = "oldAfter"
      BY <2>1, <3>1 DEF OnceAt, Ended
    <3>3. RunStep(s)
      BY <2>1, <2>2, WorkerMoves DEF RunProcess, Work, Attempt
    <3>4. QED
      BY <2>1, <3>2, <3>3 DEF RunStep, OrderInv, TypeOK
  <2>3. CASE RecoverFlow
    BY <2>3 DEF RecoverFlow, BuildRunFlow
  <2>4. CASE UNCHANGED vars
    BY <2>4 DEF vars, stepVars
  <2>5. QED
    BY <1>3, <2>2, <2>3, <2>4 DEF FlowNext, FlowBefore, FlowJudge, FlowAfter, Save, SaveFails,
       FlowTerminated, allVars
<1>4. FlowInv /\ OnceInv /\ [FlowNext]_allVars =>
        [\A s \in Step : worker[s] = "ready" /\ worker'[s] = "run" =>
            s \notin complete \/ Depends[s] # {}]_allVars
  BY <1>3
<1>5. QED
  BY <1>1, <1>2, <1>4, PTL DEF FlowSpec, BodyRunsOnce
-------------------------------------------------------------------------------
(***************************************************************************)
(* Why an execution ends: every step of it uses something up that is not   *)
(* renewed before the next recovery, and where nothing more can be used up *)
(* the process is at its end.                                              *)
(***************************************************************************)
\* How far schedule(), the goroutine of a step and that of its function are from
\* their ends.
PhaseAhead == CASE ppc = "init" -> 6 [] ppc = "before" -> 5 [] ppc = "spawn" -> 4
                [] ppc = "wait" -> 3 [] ppc = "after" -> 2 [] ppc = "final" -> 1
                [] OTHER -> 0

PlaceAhead(s) ==
    CASE pc[s] = "wait" -> 11 [] pc[s] = "start" -> 10 [] pc[s] = "gate" -> 9
      [] pc[s] = "cond" -> 8 [] pc[s] = "hold" -> 7 [] pc[s] = "before" -> 6
      [] pc[s] = "select" -> 5 [] pc[s] = "after" -> 4 [] pc[s] = "fin" -> 3
      [] pc[s] = "settle" -> 2 [] pc[s] \in {"next", "mark"} -> 1 [] OTHER -> 0

CallAhead(s) == CASE worker[s] = "none" -> 3 [] worker[s] = "ready" -> 2
                  [] worker[s] = "run" -> 1 [] OTHER -> 0

\* What is still to come, as finite sets: places to pass, attempts to make,
\* waiters to count down and to mark, and one call of Stop.
PhaseDue == {k \in 1..6 : k <= PhaseAhead}
PlaceDue == {due \in Step \X (1..11) : due[2] <= PlaceAhead(due[1])}
CallDue == {due \in Step \X (1..3) : due[2] <= CallAhead(due[1])}
TriesOf(s) == {s} \X (1..Retry[s])
TryDue == {due \in UNION {TriesOf(s) : s \in Step} : tries[due[1]] < due[2]}
CountDue == {due \in Step \X Step : due[2] \in todo[due[1]]}
MarkDue == {due \in Step \X Step : due[2] \in todo[due[1]] \cup {to[due[1]]}}
StopDue == {"Stop"} \ pstat

Measure == Cardinality(PhaseDue) + Cardinality(PlaceDue) + Cardinality(CallDue)
           + Cardinality(TryDue) + Cardinality(CountDue) + Cardinality(MarkDue)
           + Cardinality(StopDue)

\* Only Pause and Resume leave the measure as it is.
Decreases == /\ Measure \in Nat /\ Measure' \in Nat
             /\ Measure' < Measure \/ (Measure' = Measure /\ (Pause \/ Resume))

AllFinite ==
    /\ IsFiniteSet(PhaseDue) /\ IsFiniteSet(PlaceDue) /\ IsFiniteSet(CallDue)
    /\ IsFiniteSet(TryDue) /\ IsFiniteSet(CountDue) /\ IsFiniteSet(MarkDue)
    /\ IsFiniteSet(StopDue)

LEMMA DueFinite == AllFinite
<1> DEFINE UpTo(n) == 1..n
<1>1. \A n \in Nat : IsFiniteSet(UpTo(n))
  BY FS_Interval
<1> HIDE DEF UpTo
<1>2. /\ IsFiniteSet(Step \X UpTo(11)) /\ IsFiniteSet(Step \X UpTo(3))
      /\ IsFiniteSet(Step \X Step)
  BY <1>1, StepAssumption, FS_Product
<1>3. IsFiniteSet(UNION {TriesOf(s) : s \in Step})
  <2> DEFINE F == {TriesOf(s) : s \in Step}
             f == [s \in Step |-> TriesOf(s)]
  <2>1. f \in Surjection(Step, F)
    BY DEF Surjection
  <2>2. IsFiniteSet(F)
    BY <2>1, StepAssumption, FS_Surjection
  <2>3. ASSUME NEW s \in Step PROVE IsFiniteSet(TriesOf(s))
    <3>1. IsFiniteSet({s}) /\ IsFiniteSet(UpTo(Retry[s]))
      BY <1>1, ConfigAssumption, FS_Singleton
    <3>2. IsFiniteSet({s} \X UpTo(Retry[s]))
      BY <3>1, FS_Product
    <3>3. QED
      BY <3>2 DEF TriesOf, UpTo
  <2>4. QED
    BY <2>2, <2>3, FS_UNION
<1>4. IsFiniteSet({"Stop"})
  BY FS_Singleton
<1>5. /\ PhaseDue \subseteq UpTo(6) /\ PlaceDue \subseteq Step \X UpTo(11)
      /\ CallDue \subseteq Step \X UpTo(3) /\ TryDue \subseteq UNION {TriesOf(s) : s \in Step}
      /\ CountDue \subseteq Step \X Step /\ MarkDue \subseteq Step \X Step
      /\ StopDue \subseteq {"Stop"}
  BY DEF PhaseDue, PlaceDue, CallDue, TryDue, CountDue, MarkDue, StopDue, UpTo
<1>6. QED
  BY <1>1, <1>2, <1>3, <1>4, <1>5, FS_Subset DEF AllFinite

LEMMA DueFiniteNext == AllFinite'
  BY DueFinite, PTL

\* No set grows, and the measure falls when one of them shrinks.
NoneGrows == /\ PhaseDue' \subseteq PhaseDue /\ PlaceDue' \subseteq PlaceDue
             /\ CallDue' \subseteq CallDue /\ TryDue' \subseteq TryDue
             /\ CountDue' \subseteq CountDue /\ MarkDue' \subseteq MarkDue
             /\ StopDue' \subseteq StopDue

Unchanging == /\ PhaseDue' = PhaseDue /\ PlaceDue' = PlaceDue /\ CallDue' = CallDue
              /\ TryDue' = TryDue /\ CountDue' = CountDue /\ MarkDue' = MarkDue
              /\ StopDue' = StopDue

LEMMA MeasureFalls ==
  ASSUME NoneGrows
  PROVE  /\ Measure \in Nat /\ Measure' \in Nat
         /\ Measure' = Measure \/ Measure' < Measure
         /\ ~Unchanging => Measure' < Measure
<1> DEFINE Fewer(T, S) == /\ Cardinality(T) \in Nat /\ Cardinality(S) \in Nat
                          /\ Cardinality(T) <= Cardinality(S)
                          /\ Cardinality(T) = Cardinality(S) => T = S
<1>1. ASSUME NEW S, IsFiniteSet(S), NEW T \in SUBSET S PROVE Fewer(T, S)
  BY <1>1, FS_Subset, FS_CardinalityType
<1>2. /\ Fewer(PhaseDue', PhaseDue) /\ Fewer(PlaceDue', PlaceDue) /\ Fewer(CallDue', CallDue)
      /\ Fewer(TryDue', TryDue) /\ Fewer(CountDue', CountDue) /\ Fewer(MarkDue', MarkDue)
      /\ Fewer(StopDue', StopDue)
  <2> HIDE DEF Fewer
  <2> QED
    BY <1>1, DueFinite DEF NoneGrows, AllFinite
<1>3. QED
  BY <1>2 DEF Measure, Unchanging

LEMMA PlaceRange ==
  \A s \in Step : /\ PlaceAhead(s) \in 0..11 /\ CallAhead(s) \in 0..3
                  /\ PlaceAhead(s)' \in 0..11 /\ CallAhead(s)' \in 0..3
  BY DEF PlaceAhead, CallAhead

LEMMA PlaceFalls ==
  ASSUME \A x \in Step : PlaceAhead(x)' <= PlaceAhead(x)
  PROVE  /\ PlaceDue' \subseteq PlaceDue
         /\ \A s \in Step : PlaceAhead(s)' < PlaceAhead(s) => PlaceDue' # PlaceDue
<1>1. \A s \in Step : PlaceAhead(s) \in 0..11 /\ PlaceAhead(s)' \in 0..11
  BY PlaceRange
<1>2. PlaceDue' \subseteq PlaceDue
  BY <1>1 DEF PlaceDue
<1>3. ASSUME NEW s \in Step, PlaceAhead(s)' < PlaceAhead(s) PROVE PlaceDue' # PlaceDue
  <2>1. PlaceAhead(s) \in 1..11
    BY <1>1, <1>3
  <2>2. <<s, PlaceAhead(s)>> \in PlaceDue
    BY <2>1 DEF PlaceDue
  <2>3. <<s, PlaceAhead(s)>> \notin PlaceDue'
    BY <1>1, <1>3, <2>1 DEF PlaceDue
  <2>4. QED
    BY <2>2, <2>3
<1>4. QED
  BY <1>2, <1>3

LEMMA CallFalls ==
  ASSUME \A x \in Step : CallAhead(x)' <= CallAhead(x)
  PROVE  /\ CallDue' \subseteq CallDue
         /\ \A s \in Step : CallAhead(s)' < CallAhead(s) => CallDue' # CallDue
<1>1. \A s \in Step : CallAhead(s) \in 0..3 /\ CallAhead(s)' \in 0..3
  BY PlaceRange
<1>2. CallDue' \subseteq CallDue
  BY <1>1 DEF CallDue
<1>3. ASSUME NEW s \in Step, CallAhead(s)' < CallAhead(s) PROVE CallDue' # CallDue
  <2>1. CallAhead(s) \in 1..3
    BY <1>1, <1>3
  <2>2. <<s, CallAhead(s)>> \in CallDue
    BY <2>1 DEF CallDue
  <2>3. <<s, CallAhead(s)>> \notin CallDue'
    BY <1>1, <1>3, <2>1 DEF CallDue
  <2>4. QED
    BY <2>2, <2>3
<1>4. QED
  BY <1>2, <1>3

\* startStep: one place further.
LEMMA ExecuteFalls ==
  ASSUME RunInv, NEW s \in Step, Execute(s) PROVE NoneGrows /\ ~Unchanging
<1>1. pc \in [Step -> Location] /\ worker \in [Step -> {"none", "ready", "run", "done"}]
  BY DEF RunInv, ProcessInv, OrderInv, TypeOK
<1>2. /\ UNCHANGED <<ppc, todo, to, tries>> /\ (pstat' = pstat \/ pstat' = pstat \cup {"Suspend"})
      /\ worker' = worker \/ BeforeStepPass(s)
  BY DEF Execute, Enter, Gate, SkipStep, MeetCondition, MissCondition, Unhold, BeforeStepPass,
     BeforeStepFail, RunFinished, StepTimeout, AfterStep, FinalizeStep, procVars, frame
<1>3. /\ \A x \in Step : x # s => pc'[x] = pc[x]
      /\ PlaceAhead(s)' < PlaceAhead(s)
  BY <1>1 DEF Execute, Enter, Gate, SkipStep, MeetCondition, MissCondition, Examined, Unhold,
     BeforeStepPass, BeforeStepFail, RunFinished, StepTimeout, Judge, AfterStep, FinalizeStep,
     PlaceAhead
<1>4. \A x \in Step : PlaceAhead(x)' <= PlaceAhead(x)
  <2>1. ASSUME NEW x \in Step, x # s PROVE PlaceAhead(x)' = PlaceAhead(x)
    BY <1>3, <2>1 DEF PlaceAhead
  <2>2. \A x \in Step : PlaceAhead(x) \in 0..11 /\ PlaceAhead(x)' \in 0..11
    BY PlaceRange
  <2>3. QED
    BY <1>3, <2>1, <2>2
<1>5. \A x \in Step : CallAhead(x)' <= CallAhead(x)
  <2>1. CASE worker' = worker
    BY <2>1 DEF CallAhead
  <2>2. CASE BeforeStepPass(s)
    <3>1. worker[s] = "none" /\ worker' = [worker EXCEPT ![s] = "ready"]
      BY <2>2 DEF BeforeStepPass, RunInv, ProcessInv, AllFit, StepFits, WorkerFits, Early
    <3>2. QED
      BY <1>1, <3>1 DEF CallAhead
  <2>3. QED
    BY <1>2, <2>1, <2>2
<1>6. /\ PhaseDue' = PhaseDue /\ TryDue' = TryDue /\ CountDue' = CountDue /\ MarkDue' = MarkDue
      /\ StopDue' \subseteq StopDue
  BY <1>2 DEF PhaseDue, PhaseAhead, TryDue, CountDue, MarkDue, StopDue
<1>7. QED
  BY <1>3, <1>4, <1>5, <1>6, PlaceFalls, CallFalls DEF NoneGrows, Unchanging

\* The step that takes a goroutine over is started.
LEMMA HandOverPlace ==
  ASSUME OrderInv, NEW s \in Step, NEW l \in {"next", "done"}, pc[s] \in {"next", "mark"},
         pc' = [HandOver(s) EXCEPT ![s] = l]
  PROVE  /\ \A x \in Step : PlaceAhead(x)' <= PlaceAhead(x)
         /\ l = "done" => PlaceAhead(s)' < PlaceAhead(s)
<1>1. pc'[s] = l /\ \A x \in Step : x # s /\ x # bind[s] => pc'[x] = pc[x]
  BY HandOverOrder
<1>2. PlaceAhead(s) = 1 /\ PlaceAhead(s)' \in {0, 1} /\ (l = "done" => PlaceAhead(s)' = 0)
  <2>1. PlaceAhead(s) = 1
    BY DEF PlaceAhead
  <2>2. CASE l = "next"
    BY <1>1, <2>1, <2>2 DEF PlaceAhead
  <2>3. CASE l = "done"
    BY <1>1, <2>1, <2>3 DEF PlaceAhead
  <2>4. QED
    BY <2>1, <2>2, <2>3
<1>3. ASSUME NEW x \in Step, x # s, x # bind[s] PROVE PlaceAhead(x)' = PlaceAhead(x)
  BY <1>1, <1>3 DEF PlaceAhead
<1>4. ASSUME NEW x \in Step, x = bind[s] PROVE PlaceAhead(x)' <= PlaceAhead(x)
  <2>1. pc[x] = "wait" /\ pc'[x] = "start"
    BY <1>4, HandOverOrder, StepAssumption
  <2>2. QED
    BY <2>1 DEF PlaceAhead
<1>5. \A x \in Step : PlaceAhead(x) \in 0..11 /\ PlaceAhead(x)' \in 0..11
  BY PlaceRange
<1>6. QED
  BY <1>2, <1>3, <1>4, <1>5

\* startNextSteps: a waiter counted down, a waiter marked, or the step departs.
LEMMA PropagateFalls ==
  ASSUME RunInv, NEW s \in Step, Propagate(s) PROVE NoneGrows /\ ~Unchanging
<1>1. /\ OrderInv /\ TypeOK /\ FramesExact /\ HandsFree
  BY DEF RunInv, ProcessInv, OrderInv, Ownership, CancelInv
<1>2. UNCHANGED <<ppc, pstat, tries, worker>>
  BY DEF Propagate, Settle, Countdown, Mark, Depart, procVars
<1>3. PhaseDue' = PhaseDue /\ StopDue' = StopDue /\ TryDue' = TryDue /\ CallDue' = CallDue
  BY <1>2 DEF PhaseDue, PhaseAhead, StopDue, TryDue, CallDue, CallAhead
<1>4. CASE Settle(s)
  <2>1. /\ UNCHANGED <<todo, to>> /\ PlaceAhead(s)' < PlaceAhead(s)
        /\ \A x \in Step : x # s => PlaceAhead(x)' = PlaceAhead(x)
    BY <1>1, <1>4 DEF Settle, PlaceAhead, TypeOK
  <2>2. \A x \in Step : PlaceAhead(x)' <= PlaceAhead(x)
    <3>1. \A x \in Step : PlaceAhead(x) \in 0..11 /\ PlaceAhead(x)' \in 0..11
      BY PlaceRange
    <3>2. QED
      BY <2>1, <3>1
  <2>3. CountDue' = CountDue /\ MarkDue' = MarkDue
    BY <2>1 DEF CountDue, MarkDue
  <2>4. QED
    BY <1>3, <2>1, <2>2, <2>3, PlaceFalls DEF NoneGrows, Unchanging
<1>5. ASSUME NEW w \in Step, Countdown(s, w) PROVE NoneGrows /\ ~Unchanging
  <2>1. /\ w \in todo[s] /\ todo' = [todo EXCEPT ![s] = @ \ {w}] /\ to' = [to EXCEPT ![s] = w]
        /\ pc[s] = "next" /\ pc' = [pc EXCEPT ![s] = "mark"]
    BY <1>5 DEF Countdown
  <2>2. PlaceDue' = PlaceDue
    <3>1. \A x \in Step : PlaceAhead(x)' = PlaceAhead(x)
      BY <1>1, <2>1 DEF PlaceAhead, TypeOK
    <3>2. QED
      BY <3>1 DEF PlaceDue
  <2>3. CountDue' \subseteq CountDue /\ <<s, w>> \in CountDue /\ <<s, w>> \notin CountDue'
    BY <1>1, <2>1 DEF CountDue, TypeOK
  <2>4. MarkDue' \subseteq MarkDue
    BY <1>1, <2>1 DEF MarkDue, TypeOK
  <2>5. QED
    BY <1>3, <2>2, <2>3, <2>4 DEF NoneGrows, Unchanging
<1>6. CASE Mark(s)
  <2>1. /\ pc[s] = "mark" /\ to' = [to EXCEPT ![s] = None] /\ UNCHANGED todo
        /\ \/ pc' = [pc EXCEPT ![s] = "next"]
           \/ pc' = [HandOver(s) EXCEPT ![s] = "next"]
    BY <1>6 DEF Mark, MarkWaiter
  <2>2. to[s] \in Step /\ to[s] \notin todo[s]
    BY <1>1, <2>1, WaitersType DEF FramesExact
  <2>3. CountDue' = CountDue
    BY <2>1 DEF CountDue
  <2>4. /\ MarkDue' \subseteq MarkDue /\ <<s, to[s]>> \in MarkDue
        /\ <<s, to[s]>> \notin MarkDue'
    BY <1>1, <2>1, <2>2, StepAssumption DEF MarkDue, TypeOK
  <2>5. \A x \in Step : PlaceAhead(x)' <= PlaceAhead(x)
    <3>1. CASE pc' = [pc EXCEPT ![s] = "next"]
      BY <1>1, <2>1, <3>1 DEF PlaceAhead, TypeOK
    <3>2. CASE pc' = [HandOver(s) EXCEPT ![s] = "next"]
      BY <1>1, <2>1, <3>2, HandOverPlace
    <3>3. QED
      BY <2>1, <3>1, <3>2
  <2>6. QED
    BY <1>3, <2>3, <2>4, <2>5, PlaceFalls DEF NoneGrows, Unchanging
<1>7. CASE Depart(s)
  <2>1. pc[s] = "next" /\ pc' = [HandOver(s) EXCEPT ![s] = "done"] /\ UNCHANGED <<todo, to>>
    BY <1>7 DEF Depart
  <2>2. PlaceAhead(s)' < PlaceAhead(s) /\ \A x \in Step : PlaceAhead(x)' <= PlaceAhead(x)
    BY <1>1, <2>1, HandOverPlace
  <2>3. CountDue' = CountDue /\ MarkDue' = MarkDue
    BY <2>1 DEF CountDue, MarkDue
  <2>4. QED
    BY <1>3, <2>2, <2>3, PlaceFalls DEF NoneGrows, Unchanging
<1>8. QED
  BY <1>4, <1>5, <1>6, <1>7 DEF Propagate

\* runStep: the function is called, fails an attempt, or is through.
LEMMA WorkFalls ==
  ASSUME RunInv, NEW s \in Step, Work(s) PROVE NoneGrows /\ ~Unchanging
<1>1. /\ worker \in [Step -> {"none", "ready", "run", "done"}]
      /\ tries \in [Step -> Nat]
  BY DEF RunInv, ProcessInv, OrderInv, TypeOK
<1>2. UNCHANGED <<ppc, pstat, pc, todo, to>>
  BY DEF Work, RunStep, Attempt, procVars, frame
<1>3. /\ PhaseDue' = PhaseDue /\ StopDue' = StopDue /\ PlaceDue' = PlaceDue
      /\ CountDue' = CountDue /\ MarkDue' = MarkDue
  BY <1>2 DEF PhaseDue, PhaseAhead, StopDue, PlaceDue, PlaceAhead, CountDue, MarkDue
<1>4. CASE tries' = tries /\ worker' # worker
  <2>1. /\ CallAhead(s)' < CallAhead(s)
        /\ \A x \in Step : x # s => worker'[x] = worker[x]
    BY <1>1, <1>4 DEF Work, RunStep, Attempt, WorkDone, CallAhead
  <2>2. ASSUME NEW x \in Step, x # s PROVE CallAhead(x)' = CallAhead(x)
    BY <2>1, <2>2 DEF CallAhead
  <2>3. \A x \in Step : CallAhead(x) \in 0..3 /\ CallAhead(x)' \in 0..3
    BY PlaceRange
  <2>4. \A x \in Step : CallAhead(x)' <= CallAhead(x)
    BY <2>1, <2>2, <2>3
  <2>5. TryDue' = TryDue
    BY <1>4 DEF TryDue
  <2>6. QED
    BY <1>3, <2>1, <2>4, <2>5, CallFalls DEF NoneGrows, Unchanging
<1>5. CASE tries' = [tries EXCEPT ![s] = @ + 1] /\ worker' = worker /\ tries[s] < Retry[s]
  <2>1. CallDue' = CallDue
    BY <1>5 DEF CallDue, CallAhead
  <2>2. Retry[s] \in Nat /\ tries[s] \in Nat /\ tries'[s] = tries[s] + 1
    BY <1>1, <1>5, ConfigAssumption
  <2>3. TryDue' \subseteq TryDue
    <3>1. \A x \in Step : tries[x] \in Nat /\ tries'[x] \in Nat /\ tries[x] <= tries'[x]
      BY <1>1, <1>5
    <3>2. ASSUME NEW x \in Step, NEW k \in Nat, tries'[x] < k PROVE tries[x] < k
      BY <3>1, <3>2
    <3>3. ASSUME NEW x \in Step, NEW due \in TriesOf(x)
          PROVE  due[1] = x /\ due[2] \in Nat /\ due = <<due[1], due[2]>>
      BY ConfigAssumption DEF TriesOf
    <3>4. QED
      BY <3>2, <3>3 DEF TryDue
  <2>4. <<s, tries[s] + 1>> \in TriesOf(s)
    BY <1>5, <2>2 DEF TriesOf
  <2>5. <<s, tries[s] + 1>> \in TryDue
    BY <2>2, <2>4 DEF TryDue
  <2>6. <<s, tries[s] + 1>> \notin TryDue'
    BY <2>2 DEF TryDue
  <2>7. QED
    BY <1>3, <2>1, <2>3, <2>5, <2>6 DEF NoneGrows, Unchanging
<1>6. QED
  BY <1>1, <1>4, <1>5 DEF Work, RunStep, Attempt, WorkDone

\* schedule: one phase further, or a step of the first layer begun.
LEMMA ScheduleFalls ==
  ASSUME RunInv, Schedule PROVE NoneGrows /\ ~Unchanging
<1>1. pc \in [Step -> Location]
  BY DEF RunInv, ProcessInv, OrderInv, TypeOK
<1>2. /\ UNCHANGED <<todo, to, tries, worker>> /\ ("Stop" \in pstat => "Stop" \in pstat')
  BY DEF Schedule, Proceed, Begin, BeforeProcessPass, BeforeProcessFail, Spawn, Spawned,
     AllFinished, ProcessTimeout, AfterProcess, Finalize, Verdict, BeforeFailed, AfterFailed,
     Suspended, procVars, stepVars, frame
<1>3. /\ CallDue' = CallDue /\ TryDue' = TryDue /\ CountDue' = CountDue /\ MarkDue' = MarkDue
      /\ StopDue' \subseteq StopDue
  BY <1>2 DEF CallDue, CallAhead, TryDue, CountDue, MarkDue, StopDue
<1>4. ASSUME NEW s \in Step, Spawn(s) PROVE NoneGrows /\ ~Unchanging
  <2>1. /\ ppc' = ppc /\ PlaceAhead(s)' < PlaceAhead(s)
        /\ \A x \in Step : x # s => PlaceAhead(x)' = PlaceAhead(x)
    BY <1>1, <1>4 DEF Spawn, PlaceAhead, procVars
  <2>2. \A x \in Step : PlaceAhead(x)' <= PlaceAhead(x)
    BY <2>1, PlaceRange
  <2>3. PhaseDue' = PhaseDue
    BY <2>1 DEF PhaseDue, PhaseAhead
  <2>4. QED
    BY <1>3, <2>1, <2>2, <2>3, PlaceFalls DEF NoneGrows, Unchanging
<1>5. CASE ~\E s \in Step : Spawn(s)
  <2>1. pc' = pc /\ PhaseAhead' < PhaseAhead
    BY <1>5 DEF Schedule, Proceed, Begin, BeforeProcessPass, BeforeProcessFail, Spawned,
       AllFinished, ProcessTimeout, AfterProcess, Finalize, stepVars, PhaseAhead
  <2>2. PlaceDue' = PlaceDue
    BY <2>1 DEF PlaceDue, PlaceAhead
  <2>3. PhaseAhead \in 0..6 /\ PhaseAhead' \in 0..6
    BY DEF PhaseAhead
  <2>4. /\ PhaseDue' \subseteq PhaseDue /\ PhaseAhead \in PhaseDue /\ PhaseAhead \notin PhaseDue'
    BY <2>1, <2>3 DEF PhaseDue
  <2>5. QED
    BY <1>3, <2>2, <2>4 DEF NoneGrows, Unchanging
<1>6. QED
  BY <1>4, <1>5

LEMMA NextFalls == ASSUME RunInv, [Next]_vars PROVE [Decreases]_vars
<1>1. ASSUME Schedule PROVE Decreases
  BY <1>1, ScheduleFalls, MeasureFalls DEF Decreases
<1>2. ASSUME NEW s \in Step, Execute(s) \/ Propagate(s) \/ Work(s) PROVE Decreases
  BY <1>2, ExecuteFalls, PropagateFalls, WorkFalls, MeasureFalls DEF Decreases
<1>3. ASSUME Control PROVE Decreases
  <2>1. UNCHANGED <<ppc, pc, todo, to, tries, worker>>
    BY <1>3 DEF Control, Stop, Pause, Resume, stepVars, frame
  <2>2. /\ PhaseDue' = PhaseDue /\ PlaceDue' = PlaceDue /\ CallDue' = CallDue
        /\ TryDue' = TryDue /\ CountDue' = CountDue /\ MarkDue' = MarkDue
    BY <2>1 DEF PhaseDue, PhaseAhead, PlaceDue, PlaceAhead, CallDue, CallAhead, TryDue, CountDue,
       MarkDue
  <2>3. CASE Stop
    <3>1. StopDue = {"Stop"} /\ StopDue' = {}
      BY <2>3 DEF Stop, StopDue
    <3>2. NoneGrows /\ ~Unchanging
      BY <2>2, <3>1 DEF NoneGrows, Unchanging
    <3>3. QED
      BY <3>2, MeasureFalls DEF Decreases
  <2>4. CASE Pause \/ Resume
    <3>1. StopDue' = StopDue
      BY <2>4 DEF Pause, Resume, StopDue
    <3>2. Measure' = Measure /\ NoneGrows
      BY <2>2, <3>1 DEF Measure, NoneGrows
    <3>3. QED
      BY <2>4, <3>2, MeasureFalls DEF Decreases
  <2>5. QED
    BY <1>3, <2>3, <2>4 DEF Control
<1>4. QED
  BY <1>1, <1>2, <1>3 DEF Next, Terminated

\* An execution has a number of steps left, which every step of it reduces but Pause
\* and Resume: no goroutine of a process goes round in a loop (schedule, startStep,
\* startNextSteps, runStep).
THEOREM MeasureCorrect ==
    (Spec => [][Decreases]_vars) /\ (FlowSpec => [][Decreases \/ RecoverFlow]_vars)
<1>1. Spec => [][Decreases]_vars
  BY RunCorrect, NextFalls, PTL DEF Spec
<1>2. RunInv /\ [FlowNext]_allVars => [Decreases \/ RecoverFlow]_vars
  BY FlowSteps, NextFalls
<1>3. FlowSpec => [][Decreases \/ RecoverFlow]_vars
  BY <1>2, RunCorrect, PTL DEF FlowSpec
<1>4. QED
  BY <1>1, <1>3

\* Nothing that Go keeps running can go on: the guards of the actions of Fairness.
Halted ==
    /\ ppc = "end" \/ (ppc = "wait" /\ running # 0)
    /\ \A s \in Step :
          /\ \/ pc[s] \in {"wait", "done"}
             \/ pc[s] = "hold" /\ "Pause" \in pstat
             \/ pc[s] = "select" /\ worker[s] # "done" /\ "timeout" \notin Faults[s]
          /\ worker[s] \in {"ready", "run"} => "hang" \in Faults[s]

\* A function that may never return has a timeout.
HangsTimeOut == \A s \in Step : "hang" \in Faults[s] => "timeout" \in Faults[s]

\* A process that can go no further, in a graph without cycles and not paused, is
\* at its end, and every step has departed unless none was begun: nobody waits for
\* a goroutine that waits for him (waitFinish, startNextSteps).
Concludes == Halted /\ "Pause" \notin pstat => ppc = "end" /\ (AllDeparted \/ AllWait)

\* No execution comes to a halt before its end (schedule, waitFinish, startNextSteps):
\* with MeasureCorrect, all of Terminates that does not rest on fairness.
THEOREM ConcludesCorrect ==
    AcyclicGraph /\ HangsTimeOut => (Spec => []Concludes) /\ (FlowSpec => []Concludes)
<1> SUFFICES ASSUME AcyclicGraph, HangsTimeOut
             PROVE  (Spec => []Concludes) /\ (FlowSpec => []Concludes)
  OBVIOUS
<1>1. RunInv /\ NoneStranded => Concludes
  <2> SUFFICES ASSUME RunInv, NoneStranded, Halted, "Pause" \notin pstat
               PROVE  ppc = "end" /\ (AllDeparted \/ AllWait)
    BY DEF Concludes
  <2>1. \A s \in Step : pc[s] \in {"wait", "done"}
    <3> SUFFICES ASSUME NEW s \in Step, pc[s] = "select", worker[s] # "done",
                        "timeout" \notin Faults[s]
                 PROVE  FALSE
      BY DEF Halted
    <3>1. worker[s] \in {"ready", "run"}
      BY DEF RunInv, ProcessInv, OrderInv, TypeOK, AllFit, StepFits, WorkerFits
    <3>2. QED
      BY <3>1 DEF Halted, HangsTimeOut
  <2>2. AllDeparted \/ AllWait
    BY <2>1 DEF NoneStranded, Quiet, AllWait, Halted
  <2>3. ASSUME ppc = "wait", running # 0 PROVE FALSE
    <3>1. {s \in Step : pc[s] # "done"} # {}
      BY <2>3, FS_EmptySet DEF RunInv, ProcessInv, OrderInv, RunningExact
    <3>2. AllWait /\ Step # {}
      BY <2>2, <3>1 DEF AllDeparted
    <3>3. PICK s \in Step : Depends[s] \cap Step = {}
      BY <3>2 DEF AcyclicGraph
    <3>4. Depends[s] = {}
      BY <3>3, GraphAssumption
    <3>5. pc[s] # "wait"
      BY <2>3, <3>4 DEF RunInv, StrandInv, LayerBegun, FirstBegun
    <3>6. QED
      BY <3>2, <3>5 DEF AllWait
  <2>4. QED
    BY <2>2, <2>3 DEF Halted
<1>2. QED
  BY <1>1, RunCorrect, StrandedCorrect, PTL
===============================================================================

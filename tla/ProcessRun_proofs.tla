--------------------------- MODULE ProcessRun_proofs ---------------------------
(***************************************************************************)
(* What holds of the execution of a process for every finite set of steps, *)
(* every dependency relation and every choice of faults.                   *)
(***************************************************************************)
EXTENDS ProcessRun, FiniteSetTheorems, TLAPS

(***************************************************************************)
(* Type correctness.                                                       *)
(***************************************************************************)
LEMMA WaitersType == \A d \in Step : Waiters(d) \subseteq Step
  BY DEF Waiters

LEMMA InitType == Init => TypeOK
<1> SUFFICES ASSUME Init PROVE TypeOK
  OBVIOUS
<1>1. running \in Int
  BY StepAssumption, FS_CardinalityType DEF Init
<1>2. waiting \in [Step -> Int]
  <2>1. \A s \in Step : Cardinality(Depends[s]) \in Int
    BY StepAssumption, GraphAssumption, FS_Subset, FS_CardinalityType
  <2> QED BY <2>1 DEF Init
<1>3. to \in [Step -> Step \cup {None}] /\ bind \in [Step -> Step \cup {None}]
  BY DEF Init
<1>4. todo \in [Step -> SUBSET Step]
  BY WaitersType DEF Init
<1>5. /\ pstat \in SUBSET Flag
      /\ stat \in [Step -> SUBSET Flag]
      /\ bp \in [Step -> BreakPoint]
      /\ pc \in [Step -> Location]
  BY DEF Init, BreakPoint, Location
<1>6. /\ cancel \in [Step -> BOOLEAN]
      /\ skip \in [Step -> BOOLEAN]
      /\ left \in [Step -> Int]
      /\ tries \in [Step -> Nat]
  BY DEF Init
<1> QED
  BY <1>1, <1>2, <1>3, <1>4, <1>5, <1>6 DEF Init, TypeOK

LEMMA StatusTypes ==
  ASSUME NEW status \in SUBSET Flag
  PROVE  /\ BeforeFailed(status) \in SUBSET Flag
         /\ AfterFailed(status) \in SUBSET Flag
         /\ Verdict(status) \in SUBSET Flag
         /\ status \cup {"Timeout"} \in SUBSET Flag
  BY DEF BeforeFailed, AfterFailed, Suspended, Verdict, Flag, Abnormal

LEMMA PointTypes ==
  ASSUME NEW old \in BreakPoint, NEW new \in NewPoint
  PROVE  Recorded(old, new) \in BreakPoint
  BY DEF Recorded, BreakPoint

LEMMA ScheduleType == TypeOK /\ Schedule => TypeOK'
<1> SUFFICES ASSUME TypeOK, Schedule PROVE TypeOK'
  OBVIOUS
<1> USE DEF TypeOK, procVars, stepVars, frame, Location
<1>1. CASE Begin
  BY <1>1 DEF Begin
<1>2. CASE BeforeProcessPass
  BY <1>2 DEF BeforeProcessPass
<1>3. CASE BeforeProcessFail
  BY <1>3, StatusTypes DEF BeforeProcessFail, Recorded
<1>4. CASE \E s \in Step : Spawn(s)
  BY <1>4 DEF Spawn
<1>5. CASE Spawned
  BY <1>5 DEF Spawned
<1>6. CASE AllFinished
  BY <1>6, StatusTypes DEF AllFinished
<1>7. CASE ProcessTimeout
  BY <1>7, StatusTypes DEF ProcessTimeout
<1>8. CASE AfterProcess
  BY <1>8, StatusTypes DEF AfterProcess, Recorded
<1>9. CASE Finalize
  BY <1>9 DEF Finalize
<1> QED
  BY <1>1, <1>2, <1>3, <1>4, <1>5, <1>6, <1>7, <1>8, <1>9 DEF Schedule, Proceed

LEMMA ControlType == TypeOK /\ Control => TypeOK'
<1> SUFFICES ASSUME TypeOK, Control PROVE TypeOK'
  OBVIOUS
<1> USE DEF TypeOK, procVars, stepVars, frame, Location
<1>1. CASE Stop
  BY <1>1 DEF Stop, Flag, Abnormal
<1>2. CASE Pause
  BY <1>2 DEF Pause, Flag
<1>3. CASE Resume
  BY <1>3 DEF Resume
<1> QED
  BY <1>1, <1>2, <1>3 DEF Control

LEMMA JudgeType ==
  ASSUME TypeOK, NEW s \in Step, NEW status \in SUBSET Flag, Judge(s, status)
  PROVE  /\ stat' \in [Step -> SUBSET Flag]
         /\ bp' \in [Step -> BreakPoint]
         /\ pc' = [pc EXCEPT ![s] = "after"]
  BY DEF TypeOK, Judge, Flag, BreakPoint, NewPoint

LEMMA ExecuteType ==
  ASSUME TypeOK, NEW s \in Step, Execute(s)
  PROVE  TypeOK'
<1> USE DEF TypeOK, procVars, stepVars, frame, Location
<1>1. CASE Enter(s)
  BY <1>1 DEF Enter
<1>2. CASE Gate(s)
  BY <1>2 DEF Gate, Flag, Abnormal
<1>3. CASE SkipStep(s)
  BY <1>3 DEF SkipStep
<1>4. CASE MeetCondition(s)
  BY <1>4 DEF MeetCondition
<1>5. CASE MissCondition(s)
  <2>1. stat' \in [Step -> SUBSET Flag]
    BY <1>5 DEF MissCondition, Flag
  <2>2. excluded' \in SUBSET Step
    BY <1>5, ConfigAssumption DEF MissCondition
  <2> QED BY <1>5, <2>1, <2>2 DEF MissCondition
<1>6. CASE Unhold(s)
  BY <1>6 DEF Unhold
<1>7. CASE BeforeStepPass(s)
  BY <1>7 DEF BeforeStepPass
<1>8. CASE BeforeStepFail(s)
  <2>1. BeforeFailed(stat[s]) \in SUBSET Flag
    BY StatusTypes
  <2>2. Recorded(bp[s], "newBefore") \in BreakPoint
    BY PointTypes DEF NewPoint
  <2> QED BY <1>8, <2>1, <2>2 DEF BeforeStepFail
<1>9. CASE RunFinished(s)
  BY <1>9, JudgeType DEF RunFinished
<1>10. CASE StepTimeout(s)
  BY <1>10, JudgeType, StatusTypes DEF StepTimeout
<1>11. CASE AfterStep(s)
  <2>1. AfterFailed(stat[s]) \in SUBSET Flag
    BY StatusTypes
  <2>2. Recorded(bp[s], "newAfter") \in BreakPoint
    BY PointTypes DEF NewPoint
  <2> QED BY <1>11, <2>1, <2>2 DEF AfterStep
<1>12. CASE FinalizeStep(s)
  BY <1>12 DEF FinalizeStep, Flag
<1> QED
  BY <1>1, <1>2, <1>3, <1>4, <1>5, <1>6, <1>7, <1>8, <1>9, <1>10, <1>11,
     <1>12 DEF Execute

LEMMA HandOverType ==
  ASSUME TypeOK, NEW s \in Step
  PROVE  HandOver(s) \in [Step -> Location]
  BY DEF TypeOK, HandOver, Location

LEMMA PropagateType ==
  ASSUME TypeOK, NEW s \in Step, Propagate(s)
  PROVE  TypeOK'
<1> USE DEF TypeOK, procVars, stepVars, frame, Location
<1>1. CASE Settle(s)
  BY <1>1 DEF Settle
<1>2. ASSUME NEW w \in Step, Countdown(s, w) PROVE TypeOK'
  BY <1>2 DEF Countdown
<1>3. CASE Mark(s)
  <2>1. pc' \in [Step -> Location]
    BY <1>3, HandOverType DEF Mark, Location
  <2>2. stat' \in [Step -> SUBSET Flag]
    BY <1>3 DEF Mark, MarkWaiter, Flag, Abnormal
  <2>3. bind' \in [Step -> Step \cup {None}]
    BY <1>3 DEF Mark
  <2>4. /\ to' \in [Step -> Step \cup {None}]
        /\ left' \in [Step -> Int]
    BY <1>3 DEF Mark, MarkWaiter
  <2> QED BY <1>3, <2>1, <2>2, <2>3, <2>4 DEF Mark
<1>4. CASE Depart(s)
  BY <1>4, HandOverType DEF Depart
<1> QED
  BY <1>1, <1>2, <1>3, <1>4 DEF Propagate

LEMMA WorkType ==
  ASSUME TypeOK, NEW s \in Step, Work(s)
  PROVE  TypeOK'
<1> USE DEF TypeOK, procVars, frame
<1>1. CASE RunStep(s)
  BY <1>1 DEF RunStep
<1>2. CASE Attempt(s)
  BY <1>2 DEF Attempt, WorkDone, Flag, Abnormal
<1> QED
  BY <1>1, <1>2 DEF Work

LEMMA NextType == TypeOK /\ [Next]_vars => TypeOK'
<1> SUFFICES ASSUME TypeOK, [Next]_vars PROVE TypeOK'
  OBVIOUS
<1>1. CASE Schedule
  BY <1>1, ScheduleType
<1>2. ASSUME NEW s \in Step, Execute(s) \/ Propagate(s) \/ Work(s)
      PROVE  TypeOK'
  BY <1>2, ExecuteType, PropagateType, WorkType
<1>3. CASE Control
  BY <1>3, ControlType
<1>4. CASE UNCHANGED vars
  BY <1>4 DEF TypeOK, vars, procVars, stepVars, frame
<1> QED
  BY <1>1, <1>2, <1>3, <1>4 DEF Next, Terminated

\* Every variable keeps its type, for all constants.
THEOREM TypeCorrect == Spec => []TypeOK
  BY InitType, NextType, PTL DEF Spec
-------------------------------------------------------------------------------
(***************************************************************************)
(* The countdown of startNextSteps starts every step at most once and      *)
(* never before the steps it depends on, for every finite set of steps and *)
(* every dependency relation, whatever fails and in every interleaving.    *)
(***************************************************************************)

\* The inductive invariant: what a counter says, who may start which step.
OrderInv == TypeOK /\ CountdownExact /\ RunningExact /\ Ownership

USE DEF Ownership

LEMMA WaitersMember == \A d, w \in Step : w \in Waiters(d) <=> d \in Depends[w]
  BY DEF Waiters

\* The dependencies that still have to count a step down are finitely many.
LEMMA PendingFinite ==
  ASSUME NEW s \in Step, NEW todos
  PROVE  LET P == {d \in Depends[s] : s \in todos[d]}
         IN  IsFiniteSet(P) /\ Cardinality(P) \in Nat
<1> DEFINE P == {d \in Depends[s] : s \in todos[d]}
<1>1. P \subseteq Step
  BY GraphAssumption
<1> QED
  BY <1>1, StepAssumption, FS_Subset, FS_CardinalityType

\* The goroutines and counters of an execution that has not begun, the first one
\* or a recovery.
Begun == /\ running = Cardinality(Step)
         /\ pc = [s \in Step |-> "wait"]
         /\ waiting = [s \in Step |-> Cardinality(Depends[s])]
         /\ todo = [s \in Step |-> Waiters(s)]
         /\ bind = [s \in Step |-> None]

LEMMA BegunOrder == TypeOK /\ Begun => OrderInv
<1> SUFFICES ASSUME TypeOK, Begun PROVE OrderInv
  OBVIOUS
<1>1. CountdownExact
  <2> SUFFICES ASSUME NEW s \in Step
               PROVE  waiting[s] = Cardinality({d \in Depends[s] : s \in todo[d]})
    BY DEF CountdownExact
  <2>1. {d \in Depends[s] : s \in todo[d]} = Depends[s]
    BY GraphAssumption DEF Begun, Waiters
  <2> QED
    BY <2>1 DEF Begun
<1>2. RunningExact
  <2>1. {s \in Step : pc[s] # "done"} = Step
    BY DEF Begun
  <2> QED
    BY <2>1 DEF Begun, RunningExact
<1>3. FramesExact
  BY DEF Begun, FramesExact
<1>4. ClaimsExact
  <2>1. \A d \in Step : Claims(d) = {}
    BY StepAssumption DEF Begun, Claims
  <2> QED
    BY <2>1 DEF ClaimsExact
<1>5. HeldBack
  BY DEF Begun, HeldBack
<1> QED
  BY <1>1, <1>2, <1>3, <1>4, <1>5 DEF OrderInv

LEMMA InitOrder == Init => OrderInv
  BY BegunOrder, InitType DEF Init, Begun

countVars == <<running, waiting, todo, to, left, bind>>

\* A step of TLA+ that leaves the countdown alone keeps the invariant.
LEMMA KeepOrder ==
  ASSUME OrderInv, TypeOK', UNCHANGED <<pc, countVars>>
  PROVE  OrderInv'
<1>1. CountdownExact'
  BY DEF OrderInv, CountdownExact, countVars
<1>2. RunningExact'
  BY DEF OrderInv, RunningExact, countVars
<1>3. FramesExact'
  BY DEF OrderInv, FramesExact, countVars, Waiters
<1>4. ClaimsExact'
  <2>1. \A d \in Step : Claims(d)' = Claims(d)
    BY DEF Claims, countVars
  <2> QED
    BY <2>1 DEF OrderInv, ClaimsExact, countVars, Waiters
<1>5. HeldBack'
  BY DEF OrderInv, HeldBack, countVars
<1> QED
  BY <1>1, <1>2, <1>3, <1>4, <1>5 DEF OrderInv

\* ... and so does one that moves a started step on before its countdown.
LEMMA MoveOrder ==
  ASSUME OrderInv, TypeOK', NEW s \in Step, UNCHANGED countVars,
         pc[s] \notin {"wait", "next", "mark", "done"},
         NEW l \in {"gate", "cond", "hold", "before", "select", "after", "fin",
                    "settle", "next"},
         pc' = [pc EXCEPT ![s] = l]
  PROVE  OrderInv'
<1> USE DEF OrderInv, TypeOK
<1>1. CountdownExact'
  BY DEF CountdownExact, countVars
<1>2. RunningExact'
  <2>1. {x \in Step : pc'[x] # "done"} = {x \in Step : pc[x] # "done"}
    OBVIOUS
  <2> QED
    BY <2>1 DEF RunningExact, countVars
<1>3. FramesExact'
  BY DEF FramesExact, countVars, Waiters
<1>4. ClaimsExact'
  <2>1. \A d \in Step : Claims(d)' = Claims(d)
    BY DEF Claims, countVars
  <2> QED
    BY <2>1 DEF ClaimsExact, countVars, Waiters
<1>5. HeldBack'
  BY DEF HeldBack, countVars
<1> QED
  BY <1>1, <1>2, <1>3, <1>4, <1>5 DEF OrderInv

LEMMA SpawnOrder ==
  ASSUME OrderInv, TypeOK', NEW s \in Step, Spawn(s)
  PROVE  OrderInv'
<1> USE DEF OrderInv, TypeOK, Spawn, procVars, frame
<1>1. CountdownExact'
  BY DEF CountdownExact
<1>2. RunningExact'
  <2>1. {x \in Step : pc'[x] # "done"} = {x \in Step : pc[x] # "done"}
    OBVIOUS
  <2> QED
    BY <2>1 DEF RunningExact
<1>3. FramesExact'
  BY DEF FramesExact, Waiters
<1>4. ClaimsExact'
  <2>1. \A d \in Step : Claims(d)' = Claims(d)
    BY DEF Claims
  <2>2. \A d \in Step : s \notin Claims(d)
    BY WaitersMember DEF ClaimsExact
  <2> QED
    BY <2>1, <2>2 DEF ClaimsExact, Waiters
<1>5. HeldBack'
  BY DEF HeldBack
<1> QED
  BY <1>1, <1>2, <1>3, <1>4, <1>5 DEF OrderInv

LEMMA SettleOrder ==
  ASSUME OrderInv, TypeOK', NEW s \in Step, Settle(s)
  PROVE  OrderInv'
  BY MoveOrder DEF Settle, countVars, procVars

LEMMA CountdownOrder ==
  ASSUME OrderInv, TypeOK', NEW s \in Step, NEW w \in Step, Countdown(s, w)
  PROVE  OrderInv'
<1> DEFINE P(x) == {d \in Depends[x] : x \in todo[d]}
<1> USE DEF OrderInv
<1>1. s \in Depends[w] /\ w \in Waiters(s) /\ w \in todo[s]
  BY WaitersMember DEF FramesExact, Countdown
<1>2. ASSUME NEW x \in Step
      PROVE  waiting[x] = Cardinality(P(x)) /\ IsFiniteSet(P(x))
             /\ Cardinality(P(x)) \in Nat
  <2>1. waiting[x] = Cardinality(P(x))
    BY DEF CountdownExact
  <2> QED
    BY <2>1, PendingFinite
<1>3. s \in P(w)
  BY <1>1
<1>4. Cardinality(P(w) \ {s}) = Cardinality(P(w)) - 1
  <2> HIDE DEF P
  <2> QED
    BY <1>2, <1>3, FS_RemoveElement
<1>5. waiting[w] > 0 /\ waiting[w] \in Nat
  <2> HIDE DEF P
  <2>1. P(w) # {}
    BY <1>3
  <2>2. Cardinality(P(w)) # 0
    BY <1>2, <2>1, FS_EmptySet
  <2> QED
    BY <1>2, <2>2
<1>6. /\ waiting' = [waiting EXCEPT ![w] = @ - 1]
      /\ todo' = [todo EXCEPT ![s] = @ \ {w}]
      /\ to' = [to EXCEPT ![s] = w]
      /\ left' = [left EXCEPT ![s] = waiting[w] - 1]
      /\ pc' = [pc EXCEPT ![s] = "mark"]
      /\ bind' = bind /\ running' = running /\ pc[s] = "next"
  BY DEF Countdown, procVars
<1>7. /\ waiting \in [Step -> Int] /\ todo \in [Step -> SUBSET Step]
      /\ to \in [Step -> Step \cup {None}] /\ left \in [Step -> Int]
      /\ pc \in [Step -> Location]
  BY DEF TypeOK
<1>8. pc[w] = "wait" /\ w # s
  BY <1>1, <1>5, <1>6 DEF HeldBack
<1>9. \A d \in Step : w \notin Claims(d)
  BY <1>5 DEF ClaimsExact
<1> HIDE DEF P
<1>10. CountdownExact'
  <2> SUFFICES ASSUME NEW x \in Step
               PROVE  waiting'[x] = Cardinality({d \in Depends[x] : x \in todo'[d]})
    BY DEF CountdownExact
  <2>1. CASE x = w
    <3>1. {d \in Depends[w] : w \in todo'[d]} = P(w) \ {s}
      BY <1>6, <1>7, GraphAssumption DEF P
    <3>2. waiting'[w] = waiting[w] - 1
      BY <1>6, <1>7
    <3> QED
      BY <1>2, <1>4, <2>1, <3>1, <3>2
  <2>2. CASE x # w
    <3>1. {d \in Depends[x] : x \in todo'[d]} = P(x)
      BY <1>6, <1>7, <2>2, GraphAssumption DEF P
    <3>2. waiting'[x] = waiting[x]
      BY <1>6, <1>7, <2>2
    <3> QED
      BY <1>2, <3>1, <3>2
  <2> QED
    BY <2>1, <2>2
<1>11. RunningExact'
  <2>1. {x \in Step : pc'[x] # "done"} = {x \in Step : pc[x] # "done"}
    BY <1>6, <1>7
  <2> QED
    BY <1>6, <2>1 DEF RunningExact
<1>12. FramesExact'
  <2>1. \A d \in Step : Waiters(d)' = Waiters(d)
    BY DEF Waiters
  <2>2. w # bind[s]
    BY <1>1, StepAssumption DEF FramesExact
  <2> QED
    BY <1>1, <1>6, <1>7, <2>1, <2>2 DEF FramesExact
<1>13. ClaimsExact'
  <2>1. \A d \in Step : d # s => Claims(d)' = Claims(d)
    BY <1>6, <1>7 DEF Claims
  <2>2. Claims(s)' \subseteq Claims(s) \cup {w}
    BY <1>6, <1>7 DEF Claims
  <2>3. w \in Claims(s)' => waiting'[w] = 0
    <3>1. w # bind[s]
      BY <1>9 DEF Claims
    <3> QED
      BY <1>6, <1>7, <3>1 DEF Claims
  <2>4. \A x \in Step : x # w => waiting'[x] = waiting[x]
    BY <1>6, <1>7
  <2>5. \A x \in Step : pc[x] = "wait" => pc'[x] = "wait"
    BY <1>6, <1>7
  <2>6. ASSUME NEW d \in Step, NEW x \in Step, x \in Claims(d)'
        PROVE  /\ pc'[x] = "wait" /\ waiting'[x] = 0 /\ x \in Waiters(d)'
               /\ \A e \in Step : x \in Claims(e)' => e = d
    <3>1. CASE x = w
      <4>1. d = s
        BY <1>9, <2>1, <2>6, <3>1
      <4> QED
        BY <1>1, <1>8, <1>9, <2>1, <2>3, <2>5, <2>6, <3>1, <4>1 DEF Waiters
    <3>2. CASE x # w
      <4>1. \A e \in Step : x \in Claims(e)' => x \in Claims(e)
        BY <2>1, <2>2, <3>2
      <4> QED
        BY <2>4, <2>5, <2>6, <3>2, <4>1 DEF ClaimsExact, Waiters
    <3> QED
      BY <3>1, <3>2
  <2> QED
    BY <2>6 DEF ClaimsExact
<1>14. HeldBack'
  BY <1>6, <1>7, <1>8 DEF HeldBack
<1> QED
  BY <1>10, <1>11, <1>12, <1>13, <1>14 DEF OrderInv

\* Handing the goroutine over starts the bound step and nothing else.
LEMMA HandOverOrder ==
  ASSUME OrderInv, NEW s \in Step
  PROVE  /\ HandOver(s) \in [Step -> Location]
         /\ \A x \in Step : HandOver(s)[x] =
                IF x = bind[s] THEN "start" ELSE pc[x]
         /\ bind[s] # None => /\ bind[s] \in Step /\ pc[bind[s]] = "wait"
                              /\ waiting[bind[s]] = 0
                              /\ bind[s] \in Claims(s)
<1>1. pc \in [Step -> Location] /\ bind[s] \in Step \cup {None}
  BY DEF OrderInv, TypeOK
<1>2. bind[s] # None => bind[s] \in Step /\ bind[s] \in Claims(s)
  BY <1>1 DEF Claims
<1>3. bind[s] # None => pc[bind[s]] = "wait" /\ waiting[bind[s]] = 0
  BY <1>2 DEF ClaimsExact, OrderInv
<1>4. \A x \in Step : HandOver(s)[x] = IF x = bind[s] THEN "start" ELSE pc[x]
  BY <1>1, StepAssumption DEF HandOver
<1>5. HandOver(s) \in [Step -> Location]
  BY HandOverType DEF OrderInv
<1> QED
  BY <1>2, <1>3, <1>4, <1>5

LEMMA DepartOrder ==
  ASSUME OrderInv, TypeOK', NEW s \in Step, Depart(s)
  PROVE  OrderInv'
<1> USE DEF OrderInv
<1> DEFINE b == bind[s]
<1>1. /\ pc[s] = "next" /\ todo[s] = {}
      /\ running' = running - 1
      /\ pc' = [HandOver(s) EXCEPT ![s] = "done"]
      /\ bind' = [bind EXCEPT ![s] = None]
      /\ UNCHANGED <<waiting, todo, to, left>>
  BY DEF Depart
<1>2. pc \in [Step -> Location] /\ bind \in [Step -> Step \cup {None}]
  BY DEF TypeOK
<1>3. b # None => /\ b \in Step /\ pc[b] = "wait" /\ waiting[b] = 0
                  /\ b \in Claims(s) /\ b # s
  BY <1>1, HandOverOrder
<1>4. \A x \in Step : pc'[x] = IF x = s THEN "done"
                               ELSE IF x = b THEN "start" ELSE pc[x]
  BY <1>1, HandOverOrder
<1>5. CountdownExact'
  BY <1>1 DEF CountdownExact
<1>6. RunningExact'
  <2> DEFINE R == {x \in Step : pc[x] # "done"}
  <2>1. {x \in Step : pc'[x] # "done"} = R \ {s}
    BY <1>3, <1>4, StepAssumption
  <2>2. s \in R /\ R \subseteq Step
    BY <1>1
  <2>3. running = Cardinality(R)
    BY DEF RunningExact
  <2> HIDE DEF R
  <2>4. IsFiniteSet(R)
    BY <2>2, StepAssumption, FS_Subset
  <2>5. Cardinality(R \ {s}) = Cardinality(R) - 1
    BY <2>2, <2>4, FS_RemoveElement
  <2> QED
    BY <1>1, <2>1, <2>3, <2>5 DEF RunningExact
<1>7. FramesExact'
  <2>1. \A d \in Step : Waiters(d)' = Waiters(d)
    BY DEF Waiters
  <2>2. \A x \in Step : pc'[x] = "mark" => pc[x] = "mark" /\ x # s
    BY <1>4
  <2>3. bind'[s] = None /\ \A x \in Step : x # s => bind'[x] = bind[x]
    BY <1>1, <1>2
  <2>4. \A x \in Step : pc'[x] \notin {"next", "mark", "done"}
            => x # s /\ pc[x] \notin {"next", "mark", "done"}
    BY <1>3, <1>4, StepAssumption
  <2>5. \A x \in Step : pc'[x] = "done" => x = s \/ pc[x] = "done"
    BY <1>4
  <2> QED
    BY <1>1, <2>1, <2>2, <2>3, <2>4, <2>5 DEF FramesExact
<1>8. ClaimsExact'
  <2>1. \A d \in Step : d # s => Claims(d)' = Claims(d)
    BY <1>1, <1>2, <1>3, <1>4, StepAssumption DEF Claims
  <2>2. Claims(s)' = {}
    BY <1>1, <1>2, <1>4, StepAssumption DEF Claims
  <2>3. \A x \in Step : pc[x] = "wait" /\ x # b => pc'[x] = "wait"
    BY <1>1, <1>4
  <2>4. b # None => \A d \in Step : d # s => b \notin Claims(d)
    BY <1>3 DEF ClaimsExact
  <2>5. \A d, x \in Step : x \in Claims(d)' => x \in Claims(d) /\ x # b
    BY <2>1, <2>2, <2>4, StepAssumption
  <2> QED
    BY <1>1, <2>1, <2>2, <2>3, <2>5 DEF ClaimsExact, Waiters
<1>9. HeldBack'
  <2>1. ASSUME NEW x \in Step, pc'[x] # "wait"
        PROVE  x = b \/ pc[x] # "wait"
    BY <1>1, <1>4, <2>1
  <2>2. b \in Step => waiting[b] = 0
    BY <1>3, StepAssumption
  <2> QED
    BY <1>1, <2>1, <2>2 DEF HeldBack
<1> QED
  BY <1>5, <1>6, <1>7, <1>8, <1>9 DEF OrderInv

\* The waiter in hand has not reached zero: the next one is looked at.
LEMMA MarkOrder ==
  ASSUME OrderInv, TypeOK', NEW s \in Step, Mark(s), left[s] # 0
  PROVE  OrderInv'
<1> USE DEF OrderInv
<1>1. /\ pc[s] = "mark" /\ pc' = [pc EXCEPT ![s] = "next"]
      /\ to' = [to EXCEPT ![s] = None] /\ left' = [left EXCEPT ![s] = 0]
      /\ UNCHANGED <<running, waiting, todo, bind>>
  BY DEF Mark, MarkWaiter, procVars
<1>2. /\ pc \in [Step -> Location] /\ to \in [Step -> Step \cup {None}]
      /\ left \in [Step -> Int]
  BY DEF TypeOK
<1>3. CountdownExact'
  BY <1>1 DEF CountdownExact
<1>4. RunningExact'
  <2>1. {x \in Step : pc'[x] # "done"} = {x \in Step : pc[x] # "done"}
    BY <1>1, <1>2
  <2> QED
    BY <1>1, <2>1 DEF RunningExact
<1>5. FramesExact'
  <2>1. \A d \in Step : Waiters(d)' = Waiters(d)
    BY DEF Waiters
  <2> QED
    BY <1>1, <1>2, <2>1 DEF FramesExact
<1>6. ClaimsExact'
  <2>1. \A d \in Step : Claims(d)' = Claims(d)
    BY <1>1, <1>2 DEF Claims
  <2>2. \A x \in Step : pc[x] = "wait" => pc'[x] = "wait"
    BY <1>1, <1>2
  <2> QED
    BY <1>1, <2>1, <2>2 DEF ClaimsExact, Waiters
<1>7. HeldBack'
  BY <1>1, <1>2 DEF HeldBack
<1> QED
  BY <1>3, <1>4, <1>5, <1>6, <1>7 DEF OrderInv

\* The waiter in hand has reached zero: it is bound to this goroutine and the
\* one that was bound before gets a goroutine of its own.
LEMMA BindOrder ==
  ASSUME OrderInv, TypeOK', NEW s \in Step, Mark(s), left[s] = 0
  PROVE  OrderInv'
<1> USE DEF OrderInv
<1> DEFINE b == bind[s]
<1> DEFINE t == to[s]
<1>1. /\ pc[s] = "mark" /\ pc' = [HandOver(s) EXCEPT ![s] = "next"]
      /\ to' = [to EXCEPT ![s] = None] /\ left' = [left EXCEPT ![s] = 0]
      /\ bind' = [bind EXCEPT ![s] = t]
      /\ UNCHANGED <<running, waiting, todo>>
  BY DEF Mark, MarkWaiter, procVars
<1>2. /\ pc \in [Step -> Location] /\ to \in [Step -> Step \cup {None}]
      /\ left \in [Step -> Int] /\ bind \in [Step -> Step \cup {None}]
  BY DEF TypeOK
<1>3. b # None => /\ b \in Step /\ pc[b] = "wait" /\ waiting[b] = 0
                  /\ b \in Claims(s) /\ b # s
  BY <1>1, HandOverOrder
<1>4. \A x \in Step : pc'[x] = IF x = s THEN "next"
                               ELSE IF x = b THEN "start" ELSE pc[x]
  BY <1>1, HandOverOrder
<1>5. t \in Waiters(s) \ todo[s] /\ t # b /\ t \in Step
  BY <1>1 DEF FramesExact, Waiters
<1>6. t \in Claims(s) /\ pc[t] = "wait" /\ t # s
  BY <1>1, <1>5 DEF Claims, ClaimsExact
<1>7. CountdownExact'
  BY <1>1 DEF CountdownExact
<1>8. RunningExact'
  <2>1. {x \in Step : pc'[x] # "done"} = {x \in Step : pc[x] # "done"}
    BY <1>1, <1>3, <1>4, StepAssumption
  <2> QED
    BY <1>1, <2>1 DEF RunningExact
<1>9. FramesExact'
  <2>1. \A d \in Step : Waiters(d)' = Waiters(d)
    BY DEF Waiters
  <2>2. \A x \in Step : pc'[x] = "mark" => pc[x] = "mark" /\ x # s
    BY <1>4
  <2>3. bind'[s] = t /\ \A x \in Step : x # s =>
            bind'[x] = bind[x] /\ to'[x] = to[x]
    BY <1>1, <1>2
  <2>4. \A x \in Step : pc'[x] \notin {"next", "mark", "done"}
            => x # s /\ pc[x] \notin {"next", "mark", "done"}
    BY <1>3, <1>4, StepAssumption
  <2>5. \A x \in Step : pc'[x] = "done" => x # s /\ pc[x] = "done"
    BY <1>4
  <2> QED
    BY <1>1, <1>5, <2>1, <2>2, <2>3, <2>4, <2>5 DEF FramesExact
<1>10. ClaimsExact'
  <2>1. \A d \in Step : d # s => Claims(d)' = Claims(d)
    BY <1>1, <1>2, <1>3, <1>4, StepAssumption DEF Claims
  <2>2. Claims(s)' = {t}
    BY <1>1, <1>2, <1>4, <1>5, StepAssumption DEF Claims
  <2>3. \A x \in Step : pc[x] = "wait" /\ x # b => pc'[x] = "wait"
    BY <1>1, <1>4
  <2>4. b # None => \A d \in Step : d # s => b \notin Claims(d)
    BY <1>3 DEF ClaimsExact
  <2>5. \A d, x \in Step : x \in Claims(d)' => x \in Claims(d) /\ x # b
    BY <1>5, <1>6, <2>1, <2>2, <2>4, StepAssumption
  <2> QED
    BY <1>1, <2>1, <2>2, <2>3, <2>5 DEF ClaimsExact, Waiters
<1>11. HeldBack'
  <2>1. ASSUME NEW x \in Step, pc'[x] # "wait"
        PROVE  x = b \/ pc[x] # "wait"
    BY <1>1, <1>4, <2>1
  <2>2. b \in Step => waiting[b] = 0
    BY <1>3, StepAssumption
  <2> QED
    BY <1>1, <2>1, <2>2 DEF HeldBack
<1> QED
  BY <1>7, <1>8, <1>9, <1>10, <1>11 DEF OrderInv

LEMMA ExecuteOrder ==
  ASSUME OrderInv, TypeOK', NEW s \in Step, Execute(s)
  PROVE  OrderInv'
<1> USE DEF countVars, procVars, frame
<1>1. CASE Enter(s)
  BY <1>1, MoveOrder DEF Enter
<1>2. CASE Gate(s)
  BY <1>2, MoveOrder DEF Gate
<1>3. CASE SkipStep(s)
  BY <1>3, MoveOrder DEF SkipStep
<1>4. CASE MeetCondition(s)
  BY <1>4, MoveOrder DEF MeetCondition, Examined
<1>5. CASE MissCondition(s)
  BY <1>5, MoveOrder DEF MissCondition, Examined
<1>6. CASE Unhold(s)
  BY <1>6, MoveOrder DEF Unhold
<1>7. CASE BeforeStepPass(s)
  BY <1>7, MoveOrder DEF BeforeStepPass
<1>8. CASE BeforeStepFail(s)
  BY <1>8, MoveOrder DEF BeforeStepFail
<1>9. CASE RunFinished(s)
  BY <1>9, MoveOrder DEF RunFinished, Judge
<1>10. CASE StepTimeout(s)
  BY <1>10, MoveOrder DEF StepTimeout, Judge
<1>11. CASE AfterStep(s)
  BY <1>11, MoveOrder DEF AfterStep
<1>12. CASE FinalizeStep(s)
  BY <1>12, MoveOrder DEF FinalizeStep
<1> QED
  BY <1>1, <1>2, <1>3, <1>4, <1>5, <1>6, <1>7, <1>8, <1>9, <1>10, <1>11,
     <1>12 DEF Execute

LEMMA NextOrder == OrderInv /\ [Next]_vars => OrderInv'
<1> SUFFICES ASSUME OrderInv, [Next]_vars PROVE OrderInv'
  OBVIOUS
<1>1. TypeOK'
  BY NextType DEF OrderInv
<1>2. ASSUME NEW s \in Step, Spawn(s) PROVE OrderInv'
  BY <1>1, <1>2, SpawnOrder
<1>3. ASSUME Schedule, ~\E s \in Step : Spawn(s) PROVE UNCHANGED <<pc, countVars>>
  BY <1>3 DEF Schedule, Proceed, Begin, BeforeProcessPass, BeforeProcessFail, Spawned,
     AllFinished, ProcessTimeout, AfterProcess, Finalize, stepVars, frame,
     countVars
<1>4. ASSUME NEW s \in Step, Propagate(s) PROVE OrderInv'
  BY <1>1, <1>4, SettleOrder, CountdownOrder, MarkOrder, BindOrder, DepartOrder
     DEF Propagate
<1>5. ASSUME NEW s \in Step, Work(s) PROVE UNCHANGED <<pc, countVars>>
  BY <1>5 DEF Work, RunStep, Attempt, procVars, frame, countVars
<1>6. ASSUME Control PROVE UNCHANGED <<pc, countVars>>
  BY <1>6 DEF Control, Stop, Pause, Resume, stepVars, frame, countVars
<1>7. ASSUME UNCHANGED vars PROVE UNCHANGED <<pc, countVars>>
  BY <1>7 DEF vars, procVars, stepVars, frame, countVars
<1> QED
  BY <1>1, <1>2, <1>3, <1>4, <1>5, <1>6, <1>7, KeepOrder, ExecuteOrder
     DEF Next, Terminated

\* The counters are exact, process.running is exact and a step is claimed by
\* at most one of its dependencies, in every state of every process.
THEOREM OrderCorrect == Spec => []OrderInv
  BY InitOrder, NextOrder, PTL DEF Spec

\* The counter of a step counts the dependencies that have not counted it down
\* (segment.addWaiting), and process.running the steps that have not departed:
\* waitFinish does not return early and Done never takes the WaitGroup below zero.
THEOREM CountersCorrect == Spec => []CountersExact
  BY OrderCorrect, PTL DEF OrderInv, CountersExact

\* A step may be started by one of its dependencies at most, once it is at zero.
THEOREM OwnershipCorrect == Spec => []Ownership
  BY OrderCorrect, PTL DEF OrderInv

LEMMA StartsWaiting ==
  ASSUME OrderInv, [Next]_vars, NEW x \in Step, pc[x] # "wait", pc'[x] = "start"
  PROVE  pc[x] = "start"
<1> USE DEF procVars, frame
<1>1. pc \in [Step -> Location]
  BY DEF OrderInv, TypeOK
<1>2. ASSUME NEW s \in Step, Execute(s) PROVE pc[x] = "start"
  <2>1. \E l \in Location \ {"start"} : pc' = [pc EXCEPT ![s] = l]
    BY <1>2 DEF Execute, Enter, Gate, SkipStep, MeetCondition, MissCondition,
       Unhold, BeforeStepPass, BeforeStepFail, RunFinished, StepTimeout, Judge,
       AfterStep, FinalizeStep, Location
  <2> QED
    BY <1>1, <2>1
<1>3. ASSUME NEW s \in Step, Propagate(s) PROVE pc[x] = "start"
  <2>1. x # bind[s] => HandOver(s)[x] = pc[x]
    BY HandOverOrder
  <2>2. x # bind[s]
    BY HandOverOrder, StepAssumption
  <2> QED
    BY <1>1, <1>3, <2>1, <2>2, HandOverType
       DEF OrderInv, Propagate, Settle, Countdown, Mark, Depart
<1>4. CASE Schedule
  BY <1>1, <1>4 DEF Schedule, Proceed, Begin, BeforeProcessPass, BeforeProcessFail,
     Spawn, Spawned, AllFinished, ProcessTimeout, AfterProcess, Finalize,
     stepVars
<1>5. ASSUME NEW s \in Step, Work(s) PROVE pc[x] = "start"
  BY <1>5 DEF Work, RunStep, Attempt
<1>6. CASE Control
  BY <1>6 DEF Control, Stop, Pause, Resume, stepVars
<1>7. CASE UNCHANGED vars
  BY <1>7 DEF vars, stepVars
<1> QED
  BY <1>2, <1>3, <1>4, <1>5, <1>6, <1>7 DEF Next, Terminated

\* No step is handed to two goroutines.
THEOREM StartedOnceCorrect == Spec => StartedOnce
<1> DEFINE Once == \A s \in Step :
        pc[s] # "wait" => (pc'[s] = "start" => pc[s] = "start")
<1>1. OrderInv /\ [Next]_vars => [Once]_vars
  BY StartsWaiting
<1> QED
  BY <1>1, OrderCorrect, PTL DEF StartedOnce, Spec
-------------------------------------------------------------------------------
(***************************************************************************)
(* A process implements the task graph of module TaskGraph: steps are      *)
(* taken up once, in the order of their dependencies, and Success means    *)
(* that nothing is left to do.                                             *)
(***************************************************************************)

\* A process reports Success only at its end, and one that a recovery finds
\* executed does nothing.
ResultInv == /\ "executed" \in pstat => ppc \in {"init", "final", "end"}
             /\ "Success" \in pstat =>
                    ppc \in {"after", "final", "end"} /\ "executed" \notin pstat

LEMMA InitResult == Init => ResultInv
  BY DEF Init, ResultInv

LEMMA NextResult == ResultInv /\ [Next]_vars => ResultInv'
<1> SUFFICES ASSUME ResultInv, [Next]_vars PROVE ResultInv'
  OBVIOUS
<1> USE DEF ResultInv, procVars, stepVars
<1>1. CASE Schedule
  BY <1>1 DEF Schedule, Proceed, Begin, BeforeProcessPass, BeforeProcessFail, Spawn,
     Spawned, AllFinished, ProcessTimeout, AfterProcess, Finalize, Verdict,
     BeforeFailed, AfterFailed, Suspended
<1>2. ASSUME NEW s \in Step, Execute(s) \/ Propagate(s) \/ Work(s)
      PROVE  ResultInv'
  BY <1>2 DEF Execute, Enter, Gate, SkipStep, MeetCondition, MissCondition,
     Unhold, BeforeStepPass, BeforeStepFail, RunFinished, StepTimeout,
     AfterStep, FinalizeStep, Propagate, Settle, Countdown, Mark, Depart, Work,
     RunStep, Attempt
<1>3. CASE Control
  BY <1>3 DEF Control, Stop, Pause, Resume
<1>4. CASE UNCHANGED vars
  BY <1>4 DEF vars
<1> QED
  BY <1>1, <1>2, <1>3, <1>4 DEF Next, Terminated

\* Everything a step depends on is finished before the step is started.
LEMMA ReadyWhenFinished ==
  ASSUME OrderInv, NEW s \in Step, waiting[s] = 0, NEW d \in Depends[s]
  PROVE  phase[d] = "finished"
<1> DEFINE P == {e \in Depends[s] : s \in todo[e]}
<1>1. d \in Step
  BY GraphAssumption
<1>2. waiting[s] = Cardinality(P)
  BY DEF OrderInv, CountdownExact
<1>3. IsFiniteSet(P)
  BY PendingFinite
<1>4. d \notin P
  <2> HIDE DEF P
  <2> QED
    BY <1>2, <1>3, FS_EmptySet
<1>5. s \notin todo[d] /\ s \in Waiters(d)
  BY <1>1, <1>4, WaitersMember
<1>6. pc[d] \in {"next", "mark", "done"}
  BY <1>1, <1>5 DEF OrderInv, Ownership, FramesExact
<1> QED
  BY <1>1, <1>6 DEF phase

\* Starting a step that is held by nobody any more is TG!Start.
LEMMA PhaseStarts ==
  ASSUME OrderInv, NEW s \in Step, pc[s] = "wait", pc'[s] = "start",
         waiting[s] = 0 \/ Depends[s] = {},
         \A x \in Step : x # s => phase'[x] = phase[x],
         UNCHANGED pstat, UNCHANGED ppc
  PROVE  TG!Start(s)
<1>1. phase[s] = "waiting" /\ phase'[s] = "running"
  BY DEF phase
<1>2. phase' = [phase EXCEPT ![s] = "running"]
  BY <1>1 DEF phase
<1>3. result' = result
  BY DEF result
<1>4. \A d \in Depends[s] : phase[d] = "finished"
  BY ReadyWhenFinished
<1> QED
  BY <1>1, <1>2, <1>3, <1>4 DEF TG!Start

\* A step's goroutine between its start and its countdown is running.
LEMMA ExecuteSimulates ==
  ASSUME OrderInv, ResultInv, NEW s \in Step, Execute(s)
  PROVE  UNCHANGED <<phase, result>>
<1>1. \E l \in {"gate", "cond", "hold", "before", "select", "after", "fin",
                "settle"} : pc' = [pc EXCEPT ![s] = l]
  BY DEF Execute, Enter, Gate, SkipStep, MeetCondition, MissCondition, Unhold,
     BeforeStepPass, BeforeStepFail, RunFinished, StepTimeout, Judge, AfterStep,
     FinalizeStep
<1>2. pc[s] \notin {"wait", "next", "mark", "done"}
  BY DEF Execute, Enter, Gate, SkipStep, MeetCondition, MissCondition, Unhold,
     BeforeStepPass, BeforeStepFail, RunFinished, StepTimeout, AfterStep,
     FinalizeStep, Examined
<1>3. phase' = phase
  BY <1>1, <1>2 DEF phase, OrderInv, TypeOK
<1>4. ppc' = ppc /\ (pstat' = pstat \/ pstat' = pstat \cup {"Suspend"})
  BY DEF Execute, Enter, Gate, SkipStep, MeetCondition, MissCondition, Unhold,
     BeforeStepPass, BeforeStepFail, RunFinished, StepTimeout, AfterStep,
     FinalizeStep, procVars
<1>5. result' = result
  BY <1>4 DEF result
<1> QED
  BY <1>3, <1>5

LEMMA PropagateSimulates ==
  ASSUME OrderInv, ResultInv, NEW s \in Step, Propagate(s)
  PROVE  TG!Next \/ UNCHANGED <<phase, result>>
<1> USE DEF procVars
<1>1. pc \in [Step -> Location]
  BY DEF OrderInv, TypeOK
<1>2. ppc' = ppc /\ pstat' = pstat
  BY DEF Propagate, Settle, Countdown, Mark, Depart
<1>3. result' = result
  BY <1>2 DEF result
<1>4. CASE Settle(s)
  <2>1. phase[s] = "running" /\ phase' = [phase EXCEPT ![s] = "finished"]
    BY <1>1, <1>4 DEF Settle, phase
  <2> QED
    BY <1>3, <2>1 DEF TG!Next, TG!Finish
<1>5. ASSUME NEW w \in Step, Countdown(s, w) PROVE phase' = phase
  BY <1>1, <1>5 DEF Countdown, phase
<1>6. ASSUME NEW l \in {"next", "done"}, pc[s] \in {"next", "mark"},
             pc' = [HandOver(s) EXCEPT ![s] = l]
      PROVE  TG!Next \/ UNCHANGED <<phase, result>>
  <2>1. pc'[s] = l /\ \A x \in Step : x # s /\ x # bind[s] => pc'[x] = pc[x]
    BY <1>6, HandOverOrder
  <2>2. phase'[s] = phase[s]
    BY <1>6, <2>1 DEF phase
  <2>3. \A x \in Step : x # bind[s] => phase'[x] = phase[x]
    BY <2>1, <2>2 DEF phase
  <2>4. CASE bind[s] = None
    BY <1>3, <2>3, <2>4, StepAssumption DEF phase
  <2>5. CASE bind[s] # None
    <3>1. bind[s] \in Step /\ pc[bind[s]] = "wait" /\ waiting[bind[s]] = 0
      BY <2>5, HandOverOrder
    <3>2. pc'[bind[s]] = "start"
      BY <1>6, <3>1, HandOverOrder
    <3>3. TG!Start(bind[s])
      BY <1>2, <2>3, <3>1, <3>2, PhaseStarts
    <3> QED
      BY <3>1, <3>3 DEF TG!Next
  <2> QED
    BY <2>4, <2>5
<1>7. CASE Mark(s)
  <2>1. CASE left[s] # 0
    BY <1>1, <1>3, <1>7, <2>1 DEF Mark, phase
  <2>2. CASE left[s] = 0
    BY <1>6, <1>7, <2>2 DEF Mark
  <2> QED
    BY <2>1, <2>2
<1>8. CASE Depart(s)
  BY <1>6, <1>8 DEF Depart
<1> QED
  BY <1>3, <1>4, <1>5, <1>7, <1>8 DEF Propagate

\* The process ends with Success only when every step has departed.
LEMMA VerdictSimulates ==
  ASSUME OrderInv, ResultInv, AllFinished \/ ProcessTimeout
  PROVE  TG!Next
<1>1. result = "none" /\ phase' = phase
  BY DEF AllFinished, ProcessTimeout, ResultInv, result, phase, stepVars
<1>2. CASE "Success" \in pstat'
  <2>1. AllFinished
    BY <1>2 DEF ProcessTimeout, Verdict, ResultInv, Normal, Abnormal
  <2>2. running = 0
    BY <2>1 DEF AllFinished
  <2> DEFINE R == {s \in Step : pc[s] # "done"}
  <2>3. Cardinality(R) = 0 /\ IsFiniteSet(R)
    BY <2>2, StepAssumption, FS_Subset DEF OrderInv, RunningExact
  <2>4. R = {}
    <3> HIDE DEF R
    <3> QED
      BY <2>3, FS_EmptySet
  <2>5. \A s \in Step : phase[s] = "finished"
    BY <2>4 DEF phase
  <2>6. result' = "success"
    BY <1>2 DEF result
  <2> QED
    BY <1>1, <2>5, <2>6 DEF TG!Next, TG!Succeed
<1>3. CASE "Success" \notin pstat'
  <2>1. "executed" \notin pstat' /\ ppc' = "after"
    BY DEF AllFinished, ProcessTimeout, Verdict, ResultInv
  <2>2. result' = "failed"
    BY <1>3, <2>1 DEF result
  <2> QED
    BY <1>1, <2>2 DEF TG!Next, TG!Fail
<1> QED
  BY <1>2, <1>3

LEMMA ScheduleSimulates ==
  ASSUME OrderInv, ResultInv, Schedule
  PROVE  TG!Next \/ UNCHANGED <<phase, result>>
<1> USE DEF stepVars
<1>1. CASE Begin
  BY <1>1 DEF Begin, ResultInv, result, phase
<1>2. CASE BeforeProcessPass
  BY <1>2 DEF BeforeProcessPass, ResultInv, result, phase
<1>3. CASE BeforeProcessFail
  <2>1. result = "none" /\ phase' = phase
    BY <1>3 DEF BeforeProcessFail, ResultInv, result, phase
  <2>2. result' = "failed"
    BY <1>3 DEF BeforeProcessFail, BeforeFailed, Suspended, ResultInv, result
  <2> QED
    BY <2>1, <2>2 DEF TG!Next, TG!Fail
<1>4. ASSUME NEW s \in Step, Spawn(s) PROVE TG!Next
  <2>1. pc'[s] = "start" /\ \A x \in Step : x # s => pc'[x] = pc[x]
    BY <1>4 DEF Spawn, OrderInv, TypeOK
  <2>2. \A x \in Step : x # s => phase'[x] = phase[x]
    BY <2>1 DEF phase
  <2>3. TG!Start(s)
    BY <1>4, <2>1, <2>2, PhaseStarts DEF Spawn, procVars
  <2> QED
    BY <2>3 DEF TG!Next
<1>5. CASE Spawned
  BY <1>5 DEF Spawned, ResultInv, result, phase
<1>6. CASE AllFinished \/ ProcessTimeout
  BY <1>6, VerdictSimulates
<1>7. CASE AfterProcess
  BY <1>7 DEF AfterProcess, AfterFailed, Suspended, ResultInv, result, phase
<1>8. CASE Finalize
  BY <1>8 DEF Finalize, ResultInv, result, phase
<1> QED
  BY <1>1, <1>2, <1>3, <1>4, <1>5, <1>6, <1>7, <1>8 DEF Schedule, Proceed

LEMMA NextSimulates ==
  ASSUME OrderInv, ResultInv, [Next]_vars
  PROVE  [TG!Next]_<<phase, result>>
<1>1. ASSUME NEW s \in Step, Work(s) PROVE UNCHANGED <<phase, result>>
  BY <1>1 DEF Work, RunStep, Attempt, procVars, phase, result
<1>2. ASSUME Control PROVE UNCHANGED <<phase, result>>
  BY <1>2 DEF Control, Stop, Pause, Resume, stepVars, phase, result
<1>3. ASSUME UNCHANGED vars PROVE UNCHANGED <<phase, result>>
  BY <1>3 DEF vars, procVars, stepVars, phase, result
<1> QED
  BY <1>1, <1>2, <1>3, ScheduleSimulates, ExecuteSimulates, PropagateSimulates
     DEF Next, Terminated

LEMMA InitSimulates == Init => TG!Init
  BY DEF Init, TG!Init, phase, result

\* A process implements the task graph, for every arrangement of its steps.
THEOREM RefinementCorrect == Spec => RefinesTaskGraph
<1>1. Spec => []ResultInv
  BY InitResult, NextResult, PTL DEF Spec
<1>2. OrderInv /\ ResultInv /\ [Next]_vars => [TG!Next]_TG!vars
  BY NextSimulates DEF TG!vars
<1> QED
  BY <1>1, <1>2, InitSimulates, OrderCorrect, PTL
     DEF Spec, RefinesTaskGraph, TG!Spec
===============================================================================

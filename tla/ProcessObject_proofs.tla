------------------------ MODULE ProcessObject_proofs -------------------------
(***************************************************************************)
(* Proofs about a process that goroutines share, for any number of them.   *)
(***************************************************************************)
EXTENDS ProcessObject, StatusWord_proofs, FiniteSetTheorems

(***************************************************************************)
(* The status word of the process is a StatusWord.                         *)
(***************************************************************************)
LEMMA CallInvokes ==
  ASSUME NEW c \in Controller, NEW method \in Methods[c], Call(c, method)
  PROVE  WordNext
<1>1. CASE method = "Pause"
  <2>1. Invoke(c, "append", {"Pause"})
    BY <1>1 DEF Call
  <2>2. QED
    BY <2>1, ObjectAssumption DEF WordNext
<1>2. CASE method = "Resume"
  <2>1. Invoke(c, "clear", {"Pause"})
    BY <1>2 DEF Call
  <2>2. QED
    BY <2>1, ObjectAssumption DEF WordNext
<1>3. CASE method = "Stop"
  <2>1. Invoke(c, "append", {"Stop", "Failed"})
    BY <1>3 DEF Call
  <2>2. QED
    BY <2>1, ObjectAssumption DEF WordNext
<1>4. QED
  BY <1>1, <1>2, <1>3, ObjectAssumption

LEMMA StepMovesWord ==
  ASSUME NEW s \in Step, StepMoves(s)
  PROVE  WordNext \/ UNCHANGED wordVars
<1>1. CASE Fail(s)
  <2>1. Invoke(s, "append", {"Suspend"})
    BY <1>1 DEF Fail
  <2>2. QED
    BY <2>1, ObjectAssumption DEF WordNext
<1>2. CASE ~Fail(s)
  BY <1>2 DEF StepMoves, Enter, CheckPause, Wait, Wake, Acquire, NoAttach, Initialize, Store,
              Succeed, FinalizeStep
<1>3. QED
  BY <1>1, <1>2

LEMMA ProcessMovesWord == Expire \/ ProcessMoves => WordNext \/ UNCHANGED wordVars
<1>1. ASSUME Expire PROVE WordNext
  BY <1>1, ObjectAssumption DEF Expire, WordNext
<1>2. ASSUME Scan PROVE WordNext \/ UNCHANGED wordVars
  BY <1>2, ObjectAssumption DEF Scan, WordNext
<1>3. ASSUME Judge PROVE WordNext \/ UNCHANGED wordVars
  BY <1>3, ObjectAssumption DEF Judge, WordNext
<1>4. QED
  BY <1>1, <1>2, <1>3 DEF ProcessMoves, WaitFinish, Suspend, Release

LEMMA NextMovesWord == [Next]_vars => [WordNext]_wordVars
<1>1. ASSUME NEW c \in Controller, CallMoves(c) PROVE UNCHANGED wordVars
  BY <1>1 DEF CallMoves, Return, Close, Open, Awaken
<1>2. ASSUME NEW c \in Caller, WordMoves(c) PROVE WordNext
  BY <1>2 DEF WordMoves, WordNext
<1>3. ASSUME NEW d \in Waiter, WaiterMoves(d) PROVE UNCHANGED wordVars
  BY <1>3 DEF WaiterMoves, AskDone, Lock, Start, FailBefore, Join, Finalize
<1>4. QED
  BY CallInvokes, StepMovesWord, ProcessMovesWord, <1>1, <1>2, <1>3 DEF Next, vars

LEMMA ObjectIsWord == Spec => WordSpec
<1>1. Init => WordInit
  BY DEF Init
<1>2. QED
  BY <1>1, NextMovesWord, PTL DEF Spec, WordSpec

\* The status word of a process implements an atomic set of flags for all that
\* share it: controllers, steps and the goroutine of the process.
THEOREM ObjectRefinesFlags == Spec => RefinesFlags
  BY ObjectIsWord, WordCorrect

(***************************************************************************)
(* The gate.                                                               *)
(***************************************************************************)
\* Each goroutine is in the operation that its place in the code asks for; steps
\* and the process leave the flag Pause alone.
Appends(flag) == [kind |-> "append", flag |-> flag]

OpsMatch ==
    /\ \A c \in Controller :
          /\ call[c] \in {"none", "Pause", "Resume", "Stop", "Release"}
          /\ call[c] \in {"none", "Release"} => at[c] = "idle"
          /\ call[c] = "Pause" => op[c] = Appends({"Pause"})
          /\ call[c] = "Resume" => op[c] = [kind |-> "clear", flag |-> {"Pause"}]
          /\ call[c] = "Stop" => op[c] = Appends({"Stop", "Failed"})
    /\ \A c \in Step \cup {Process} :
          op[c].kind = "append" /\ "Pause" \notin op[c].flag

StepPlace == {"new", "start", "gate", "held", "asleep", "woken", "run", "init", "store",
              "work", "finalize", "end"}

CallsType == /\ call \in [Controller -> {"none", "Pause", "Resume", "Stop", "Release"}]
             /\ gate \in Nat
             /\ pos \in [Step -> StepPlace]

\* Steps sleep at an open gate only until the Done that opened it releases them.
SleepersReleased == gate = 0 /\ Asleep # {} => \E c \in Controller : call[c] = "Release"

PanicOverlaps == panic \in {"negative", "misuse"} => Overlap

GateInv == WordInv /\ CallsType /\ OpsMatch /\ GateFollows /\ SleepersReleased
           /\ PanicOverlaps

LEMMA OwingFinite ==
  ASSUME NEW method
  PROVE  IsFiniteSet(Owing(method)) /\ Cardinality(Owing(method)) \in Nat
<1>1. Owing(method) \subseteq Controller
  BY DEF Owing
<1>2. QED
  BY <1>1, ObjectAssumption, FS_Subset, FS_CardinalityType

\* What leaves the word, the gate and the controllers alone.
LEMMA QuietKeepsGate ==
  ASSUME GateFollows, UNCHANGED <<word, gate, call>>,
         \A c \in Controller : at'[c] = at[c] /\ answer'[c] = answer[c]
  PROVE  GateFollows'
<1>1. Owing("Pause")' = Owing("Pause") /\ Owing("Resume")' = Owing("Resume")
  BY DEF Owing, Answered
<1>2. QED
  BY <1>1 DEF GateFollows

LEMMA CallKeepsGate ==
  ASSUME GateInv, NEW c \in Controller, NEW method \in Methods[c], Call(c, method)
  PROVE  GateFollows'
<1>1. /\ call[c] = "none" /\ at'[c] = "load" /\ UNCHANGED <<word, gate, answer>>
      /\ \A x \in Controller \ {c} : call'[x] = call[x] /\ at'[x] = at[x]
  BY ObjectAssumption DEF Call, Invoke, GateInv, CallsType, WordInv, WordTypeOK
<1>2. Owing("Pause")' = Owing("Pause") /\ Owing("Resume")' = Owing("Resume")
  BY <1>1 DEF Owing, Answered
<1>3. QED
  BY <1>1, <1>2 DEF GateInv, GateFollows

\* The caller leaves the set of those that owe when it moves the gate.
LEMMA MoveKeepsGate ==
  ASSUME GateInv, NEW c \in Controller, gate' = gate + Moved(c), call[c] # "Release",
         UNCHANGED <<word, at, answer>>, NEW then \in {"none", "Release"},
         call' = [call EXCEPT ![c] = then]
  PROVE  GateFollows'
<1>1. /\ call'[c] \in {"none", "Release"}
      /\ \A x \in Controller \ {c} : call'[x] = call[x]
  BY DEF GateInv, CallsType
<1>2. Owing("Pause")' = Owing("Pause") \ {c} /\ Owing("Resume")' = Owing("Resume") \ {c}
  BY <1>1 DEF Owing, Answered
<1>3. Cardinality(Owing("Pause") \ {c}) =
          IF c \in Owing("Pause") THEN Cardinality(Owing("Pause")) - 1
                                  ELSE Cardinality(Owing("Pause"))
  BY OwingFinite, FS_RemoveElement
<1>4. Cardinality(Owing("Resume") \ {c}) =
          IF c \in Owing("Resume") THEN Cardinality(Owing("Resume")) - 1
                                   ELSE Cardinality(Owing("Resume"))
  BY OwingFinite, FS_RemoveElement
<1>5. /\ c \in Owing("Pause") <=> Answered(c, "Pause")
      /\ c \in Owing("Resume") <=> Answered(c, "Resume")
      /\ ~(Answered(c, "Pause") /\ Answered(c, "Resume"))
  BY DEF Owing, Answered
<1>6. Moved(c) = IF Answered(c, "Pause") THEN 1
                 ELSE IF Answered(c, "Resume") THEN -1 ELSE 0
  BY <1>5 DEF Moved
<1>7. /\ gate \in Nat /\ Cardinality(Owing("Pause")) \in Nat
      /\ Cardinality(Owing("Resume")) \in Nat
      /\ gate = (IF "Pause" \in word THEN 1 ELSE 0)
                - Cardinality(Owing("Pause")) + Cardinality(Owing("Resume"))
  BY OwingFinite DEF GateInv, CallsType, GateFollows
<1>8. gate' = (IF "Pause" \in word THEN 1 ELSE 0)
              - Cardinality(Owing("Pause") \ {c}) + Cardinality(Owing("Resume") \ {c})
  <2>1. CASE Answered(c, "Pause")
    BY <1>3, <1>4, <1>5, <1>6, <1>7, <2>1
  <2>2. CASE ~Answered(c, "Pause")
    BY <1>3, <1>4, <1>5, <1>6, <1>7, <2>2
  <2>3. QED
    BY <2>1, <2>2
<1>9. QED
  BY <1>2, <1>8 DEF GateFollows

LEMMA CallMovesKeepsGate ==
  ASSUME GateInv, NEW c \in Controller, CallMoves(c)
  PROVE  GateFollows'
<1>1. UNCHANGED <<word, at, answer>>
  BY DEF CallMoves, Return, Close, Open, Awaken, wordVars
<1>2. gate \in Nat
  BY DEF GateInv, CallsType
<1>3. CASE Return(c)
  <2>1. /\ gate' = gate + Moved(c) /\ call[c] # "Release"
        /\ call' = [call EXCEPT ![c] = "none"]
    BY <1>2, <1>3 DEF Return
  <2>2. QED
    BY <1>1, <2>1, MoveKeepsGate
<1>4. CASE UNCHANGED <<gate, call>>
  BY <1>1, <1>4, QuietKeepsGate DEF GateInv, GateFollows
<1>5. CASE Close(c) /\ gate' = gate + 1 /\ call' = [call EXCEPT ![c] = "none"]
  <2>1. call[c] # "Release"
    BY <1>5 DEF Close, Moved, Answered
  <2>2. QED
    BY <1>1, <1>5, <2>1, MoveKeepsGate DEF Close
<1>6. CASE Open(c) /\ gate' = gate - 1
           /\ \E then \in {"none", "Release"} : call' = [call EXCEPT ![c] = then]
  <2>1. call[c] # "Release"
    BY <1>6 DEF Open, Moved, Answered
  <2>2. gate' = gate + Moved(c)
    BY <1>2, <1>6 DEF Open
  <2>3. QED
    BY <1>1, <1>6, <2>1, <2>2, MoveKeepsGate
<1>7. CASE Awaken(c)
  <2>1. /\ call[c] = "Release" /\ call'[c] = "none" /\ UNCHANGED gate
        /\ \A x \in Controller \ {c} : call'[x] = call[x]
    BY <1>7 DEF Awaken, GateInv, CallsType
  <2>2. Owing("Pause")' = Owing("Pause") /\ Owing("Resume")' = Owing("Resume")
    BY <1>1, <2>1 DEF Owing, Answered
  <2>3. QED
    BY <1>1, <2>1, <2>2 DEF GateInv, GateFollows
<1>8. QED
  BY <1>3, <1>4, <1>5, <1>6, <1>7 DEF CallMoves, Close, Open

\* A swap that changes the flag Pause makes its caller owe; no other swap does.
LEMMA CasKeepsGate ==
  ASSUME GateInv, NEW c \in Caller, Cas(c), UNCHANGED <<gate, call>>
  PROVE  GateFollows'
<1>1. /\ word = current[c] /\ word' = Changed(word, op[c]) /\ at[c] = "cas"
      /\ at'[c] = "idle" /\ answer'[c] = TRUE
      /\ \A x \in Caller \ {c} : at'[x] = at[x] /\ answer'[x] = answer[x]
  BY DEF Cas, Swaps, Answer, GateInv, WordInv, WordTypeOK
<1>2. CASE c \in Controller /\ call[c] = "Pause"
  <2>1. "Pause" \notin word /\ "Pause" \in word'
    BY <1>1, <1>2 DEF GateInv, OpsMatch, Appends, WordInv, SwapChanges, Changed
  <2>2. /\ c \notin Owing("Pause") /\ Owing("Pause")' = Owing("Pause") \cup {c}
        /\ Owing("Resume")' = Owing("Resume")
    BY <1>1, <1>2, ObjectAssumption DEF Owing, Answered
  <2>3. Cardinality(Owing("Pause") \cup {c}) = Cardinality(Owing("Pause")) + 1
    BY <2>2, OwingFinite, FS_AddElement
  <2>4. /\ gate = 0 - Cardinality(Owing("Pause")) + Cardinality(Owing("Resume"))
        /\ gate' = gate
    BY <2>1 DEF GateInv, GateFollows
  <2>5. Cardinality(Owing("Pause")) \in Nat /\ Cardinality(Owing("Resume")) \in Nat
    BY OwingFinite
  <2>6. gate' = 1 - Cardinality(Owing("Pause") \cup {c}) + Cardinality(Owing("Resume"))
    BY <2>3, <2>4, <2>5
  <2>7. QED
    BY <2>1, <2>2, <2>6 DEF GateFollows
<1>3. CASE c \in Controller /\ call[c] = "Resume"
  <2>1. "Pause" \in word /\ "Pause" \notin word'
    BY <1>1, <1>3 DEF GateInv, OpsMatch, WordInv, SwapChanges, Changed
  <2>2. /\ c \notin Owing("Resume") /\ Owing("Resume")' = Owing("Resume") \cup {c}
        /\ Owing("Pause")' = Owing("Pause")
    BY <1>1, <1>3, ObjectAssumption DEF Owing, Answered
  <2>3. Cardinality(Owing("Resume") \cup {c}) = Cardinality(Owing("Resume")) + 1
    BY <2>2, OwingFinite, FS_AddElement
  <2>4. /\ gate = 1 - Cardinality(Owing("Pause")) + Cardinality(Owing("Resume"))
        /\ gate' = gate
    BY <2>1 DEF GateInv, GateFollows
  <2>5. Cardinality(Owing("Pause")) \in Nat /\ Cardinality(Owing("Resume")) \in Nat
    BY OwingFinite
  <2>6. gate' = 0 - Cardinality(Owing("Pause")) + Cardinality(Owing("Resume") \cup {c})
    BY <2>3, <2>4, <2>5
  <2>7. QED
    BY <2>1, <2>2, <2>6 DEF GateFollows
<1>4. CASE c \notin Controller \/ call[c] = "Stop"
  <2>1. op[c].kind = "append" /\ "Pause" \notin op[c].flag
    BY <1>4, ObjectAssumption DEF GateInv, OpsMatch, Appends
  <2>2. "Pause" \in word' <=> "Pause" \in word
    BY <1>1, <2>1 DEF Changed
  <2>3. Owing("Pause")' = Owing("Pause") /\ Owing("Resume")' = Owing("Resume")
    BY <1>1, <1>4, ObjectAssumption DEF Owing, Answered
  <2>4. QED
    BY <2>2, <2>3 DEF GateInv, GateFollows
<1>5. call[c] \notin {"none", "Release"} \/ c \notin Controller
  BY <1>1 DEF GateInv, OpsMatch
<1>6. QED
  BY <1>2, <1>3, <1>4, <1>5 DEF GateInv, OpsMatch

LEMMA LoadKeepsGate ==
  ASSUME GateInv, NEW c \in Caller, Load(c) \/ Retry(c), UNCHANGED <<gate, call>>
  PROVE  GateFollows'
<1>1. /\ UNCHANGED word
      /\ at[c] # "idle" /\ (at'[c] # "idle" \/ answer'[c] = FALSE)
      /\ \A x \in Caller \ {c} : at'[x] = at[x] /\ answer'[x] = answer[x]
  BY DEF Load, Retry, Answer, GateInv, WordInv, WordTypeOK
<1>2. Owing("Pause")' = Owing("Pause") /\ Owing("Resume")' = Owing("Resume")
  BY <1>1, ObjectAssumption DEF Owing, Answered
<1>3. QED
  BY <1>1, <1>2 DEF GateInv, GateFollows

(***************************************************************************)
(* GateInv is inductive.                                                   *)
(***************************************************************************)
LEMMA GateInitInv == Init => GateInv
<1> SUFFICES ASSUME Init PROVE GateInv
  OBVIOUS
<1>1. WordInv
  BY WordInitInv DEF Init
<1>2. CallsType /\ OpsMatch
  BY ObjectAssumption DEF Init, WordInit, CallsType, OpsMatch, StepPlace
<1>3. Owing("Pause") = {} /\ Owing("Resume") = {}
  BY DEF Init, Owing, Answered
<1>4. Cardinality(Owing("Pause")) = 0 /\ Cardinality(Owing("Resume")) = 0
  BY <1>3, FS_EmptySet
<1>5. gate = 0 /\ "Pause" \notin word
  BY DEF Init, WordInit
<1>6. GateFollows
  BY <1>4, <1>5 DEF GateFollows
<1>7. SleepersReleased /\ PanicOverlaps
  BY DEF Init, SleepersReleased, Asleep, PanicOverlaps
<1>8. QED
  BY <1>1, <1>2, <1>6, <1>7 DEF GateInv

LEMMA CallKeepsCalls ==
  ASSUME GateInv, NEW c \in Controller, NEW method \in Methods[c], Call(c, method)
  PROVE  CallsType' /\ OpsMatch'
<1>1. /\ call' = [call EXCEPT ![c] = method] /\ UNCHANGED <<gate, pos>>
      /\ at' = [at EXCEPT ![c] = "load"]
      /\ op' = [op EXCEPT ![c] =
                   CASE method = "Pause"  -> Appends({"Pause"})
                     [] method = "Resume" -> [kind |-> "clear", flag |-> {"Pause"}]
                     [] method = "Stop"   -> Appends({"Stop", "Failed"})]
  BY ObjectAssumption DEF Call, Invoke, Appends, stepVars
<1>2. method \in {"Pause", "Resume", "Stop"} /\ c \in Caller
  BY ObjectAssumption
<1>3. CallsType'
  BY <1>1, <1>2 DEF GateInv, CallsType
<1>4. /\ call'[c] = method /\ method \notin {"none", "Release"}
      /\ method = "Pause" => op'[c] = Appends({"Pause"})
      /\ method = "Resume" => op'[c] = [kind |-> "clear", flag |-> {"Pause"}]
      /\ method = "Stop" => op'[c] = Appends({"Stop", "Failed"})
  BY <1>1, <1>2 DEF GateInv, CallsType, WordInv, WordTypeOK
<1>5. \A x \in Caller \ {c} : op'[x] = op[x] /\ at'[x] = at[x]
  BY <1>1 DEF GateInv, WordInv, WordTypeOK
<1>6. \A x \in Controller \ {c} : call'[x] = call[x]
  BY <1>1 DEF GateInv, CallsType
<1>7. QED
  BY <1>2, <1>3, <1>4, <1>5, <1>6, ObjectAssumption DEF GateInv, OpsMatch

LEMMA CallMovesKeepsCalls ==
  ASSUME GateInv, NEW c \in Controller, CallMoves(c)
  PROVE  CallsType' /\ OpsMatch'
<1>1. UNCHANGED <<at, op>> /\ at[c] = "idle"
  BY DEF CallMoves, Return, Close, Open, Awaken, wordVars, GateInv, OpsMatch
<1>2. UNCHANGED call \/ \E then \in {"none", "Release"} : call' = [call EXCEPT ![c] = then]
  BY DEF CallMoves, Return, Close, Open, Awaken
<1>3. gate' \in Nat
  BY DEF CallMoves, Return, Close, Open, Awaken, GateInv, CallsType
<1>4. pos' \in [Step -> StepPlace]
  BY DEF CallMoves, Return, Close, Open, Awaken, stepVars, GateInv, CallsType, StepPlace
<1>5. QED
  BY <1>1, <1>2, <1>3, <1>4 DEF GateInv, CallsType, OpsMatch

\* A step goes from place to place and leaves the controllers alone.
LEMMA StepMovesPlace ==
  ASSUME NEW s \in Step, StepMoves(s)
  PROVE  /\ UNCHANGED <<gate, call, ppc, flowVars>>
         /\ \/ /\ UNCHANGED panic
               /\ \E place \in StepPlace :
                     Goes(s, place) /\ (place = "asleep" => gate # 0)
            \/ UNCHANGED pos /\ panic' = "reused"
  BY DEF StepMoves, Enter, CheckPause, Wait, Wake, Acquire, NoAttach, Initialize, Store,
         Succeed, Fail, FinalizeStep, ctlVars, flowVars, StepPlace

LEMMA NextKeepsCalls ==
  ASSUME GateInv, [Next]_vars
  PROVE  CallsType' /\ OpsMatch'
<1>1. ASSUME NEW c \in Caller, WordMoves(c) PROVE CallsType' /\ OpsMatch'
  <2>1. UNCHANGED <<op, call, gate, pos>> /\ at[c] # "idle"
    BY <1>1 DEF WordMoves, WordStep, Load, Cas, Retry, Answer, ctlVars, stepVars
  <2>2. \A x \in Caller \ {c} : at'[x] = at[x]
    BY <1>1 DEF WordMoves, WordStep, Load, Cas, Retry, Answer, GateInv, WordInv, WordTypeOK
  <2>3. QED
    BY <2>1, <2>2, ObjectAssumption DEF GateInv, CallsType, OpsMatch
<1>2. ASSUME NEW c \in Step \cup {Process}, NEW flag, Invoke(c, "append", flag),
             "Pause" \notin flag, UNCHANGED <<gate, call>>
      PROVE  OpsMatch'
  <2>1. op' = [op EXCEPT ![c] = Appends(flag)] /\ at' = [at EXCEPT ![c] = "load"]
    BY <1>2 DEF Invoke, Appends
  <2>2. c \notin Controller /\ c \in Caller
    BY ObjectAssumption
  <2>3. /\ op'[c] = Appends(flag)
        /\ \A x \in Caller \ {c} : op'[x] = op[x] /\ at'[x] = at[x]
    BY <2>1, <2>2 DEF GateInv, WordInv, WordTypeOK
  <2>4. \A x \in Step \cup {Process} : op'[x].kind = "append" /\ "Pause" \notin op'[x].flag
    BY <1>2, <2>3, ObjectAssumption DEF GateInv, OpsMatch, Appends
  <2>5. QED
    BY <1>2, <2>1, <2>2, <2>3, <2>4, ObjectAssumption DEF GateInv, OpsMatch
<1>3. ASSUME UNCHANGED <<wordVars, call>> PROVE OpsMatch'
  BY <1>3 DEF wordVars, GateInv, OpsMatch
<1>4. ASSUME NEW s \in Step, StepMoves(s) PROVE CallsType' /\ OpsMatch'
  <2>1. OpsMatch'
    BY <1>2, <1>3, <1>4 DEF StepMoves, Enter, CheckPause, Wait, Wake, Acquire, NoAttach,
                            Initialize, Store, Succeed, Fail, FinalizeStep, ctlVars
  <2>2. QED
    BY <1>4, <2>1, StepMovesPlace DEF GateInv, CallsType, Goes
<1>5. ASSUME Expire \/ ProcessMoves PROVE CallsType' /\ OpsMatch'
  <2>1. UNCHANGED <<gate, call, pos>>
    BY <1>5 DEF Expire, ProcessMoves, WaitFinish, Scan, Judge, Suspend, Release, ctlVars,
                stepVars
  <2>2. OpsMatch'
    BY <1>2, <1>3, <1>5, <2>1 DEF Expire, ProcessMoves, WaitFinish, Scan, Judge, Suspend,
                                  Release
  <2>3. QED
    BY <2>1, <2>2 DEF GateInv, CallsType
<1>6. ASSUME NEW d \in Waiter, WaiterMoves(d) PROVE CallsType' /\ OpsMatch'
  <2>1. /\ UNCHANGED <<wordVars, gate, call>>
        /\ UNCHANGED pos \/ pos' = [s \in Step |-> "start"]
    BY <1>6 DEF WaiterMoves, AskDone, Lock, Start, FailBefore, Join, Finalize, ctlVars,
                stepVars
  <2>2. QED
    BY <1>3, <2>1 DEF GateInv, CallsType, StepPlace
<1>7. ASSUME UNCHANGED vars PROVE CallsType' /\ OpsMatch'
  BY <1>3, <1>7 DEF vars, ctlVars, stepVars, GateInv, CallsType
<1>8. QED
  BY CallKeepsCalls, CallMovesKeepsCalls, <1>1, <1>4, <1>5, <1>6, <1>7 DEF Next

LEMMA NextKeepsGate ==
  ASSUME GateInv, [Next]_vars
  PROVE  GateFollows'
<1>1. ASSUME NEW c \in Caller, WordMoves(c) PROVE GateFollows'
  BY <1>1, CasKeepsGate, LoadKeepsGate DEF WordMoves, WordStep, ctlVars
<1>2. ASSUME NEW c \in Step \cup {Process}, NEW flag, Invoke(c, "append", flag),
             UNCHANGED <<gate, call>>
      PROVE  GateFollows'
  <2>1. UNCHANGED <<word, answer>> /\ c \notin Controller
    BY <1>2, ObjectAssumption DEF Invoke
  <2>2. \A x \in Controller : at'[x] = at[x]
    BY <1>2, <2>1, ObjectAssumption DEF Invoke, GateInv, WordInv, WordTypeOK
  <2>3. QED
    BY <1>2, <2>1, <2>2, QuietKeepsGate DEF GateInv
<1>3. ASSUME UNCHANGED <<wordVars, gate, call>> PROVE GateFollows'
  BY <1>3, QuietKeepsGate DEF wordVars, GateInv
<1>4. ASSUME NEW s \in Step, StepMoves(s) PROVE GateFollows'
  BY <1>2, <1>3, <1>4 DEF StepMoves, Enter, CheckPause, Wait, Wake, Acquire, NoAttach,
                          Initialize, Store, Succeed, Fail, FinalizeStep, ctlVars
<1>5. ASSUME Expire \/ ProcessMoves PROVE GateFollows'
  BY <1>2, <1>3, <1>5 DEF Expire, ProcessMoves, WaitFinish, Scan, Judge, Suspend, Release,
                          ctlVars
<1>6. ASSUME NEW d \in Waiter, WaiterMoves(d) PROVE GateFollows'
  BY <1>3, <1>6 DEF WaiterMoves, AskDone, Lock, Start, FailBefore, Join, Finalize, ctlVars
<1>7. QED
  BY CallKeepsGate, CallMovesKeepsGate, <1>1, <1>3, <1>4, <1>5, <1>6 DEF Next, vars, ctlVars

\* Only a closed gate puts a step to sleep, and the Done that opens it stays to
\* release those it finds.
LEMMA NextKeepsSleepers ==
  ASSUME GateInv, [Next]_vars
  PROVE  SleepersReleased'
<1>1. ASSUME UNCHANGED <<gate, call>>, Asleep' \subseteq Asleep PROVE SleepersReleased'
  BY <1>1 DEF GateInv, SleepersReleased
<1>2. ASSUME UNCHANGED <<gate, call, pos>> PROVE SleepersReleased'
  BY <1>2 DEF GateInv, SleepersReleased, Asleep
<1>3. ASSUME NEW c \in Controller, NEW method \in Methods[c], Call(c, method)
      PROVE  SleepersReleased'
  <2>1. /\ UNCHANGED <<gate, pos>> /\ call[c] = "none"
        /\ \A x \in Controller \ {c} : call'[x] = call[x]
    BY <1>3 DEF Call, stepVars, GateInv, CallsType
  <2>2. QED
    BY <2>1 DEF GateInv, SleepersReleased, Asleep
<1>4. ASSUME NEW c \in Controller, CallMoves(c) PROVE SleepersReleased'
  <2>1. CASE Return(c)
    <3>1. /\ UNCHANGED <<gate, pos>> /\ call[c] # "Release"
          /\ \A x \in Controller \ {c} : call'[x] = call[x]
      BY <2>1 DEF Return, stepVars, GateInv, CallsType
    <3>2. QED
      BY <3>1 DEF GateInv, SleepersReleased, Asleep
  <2>2. CASE Close(c)
    BY <1>2, <2>2 DEF Close, stepVars, GateInv, CallsType, SleepersReleased
  <2>3. CASE Open(c)
    <3>1. CASE gate' = 0 /\ Asleep # {} /\ call' = [call EXCEPT ![c] = "Release"]
      BY <3>1 DEF GateInv, CallsType, SleepersReleased
    <3>2. CASE gate' # 0 \/ Asleep = {}
      BY <2>3, <3>2 DEF Open, stepVars, SleepersReleased, Asleep
    <3>3. QED
      BY <1>2, <2>3, <3>1, <3>2 DEF Open, stepVars
  <2>4. CASE Awaken(c)
    BY <2>4 DEF Awaken, SleepersReleased, Asleep
  <2>5. QED
    BY <1>4, <2>1, <2>2, <2>3, <2>4 DEF CallMoves
<1>5. ASSUME NEW s \in Step, StepMoves(s) PROVE SleepersReleased'
  <2>1. ASSUME NEW place, Goes(s, place), place = "asleep" => gate # 0, UNCHANGED gate
        PROVE  gate' = 0 => Asleep' \subseteq Asleep
    BY <2>1 DEF Goes, Asleep, GateInv, CallsType
  <2>2. UNCHANGED <<gate, call>>
    BY <1>5, StepMovesPlace
  <2>3. UNCHANGED pos \/ (gate' = 0 => Asleep' \subseteq Asleep)
    BY <1>5, <2>1, StepMovesPlace
  <2>4. QED
    BY <1>1, <1>2, <2>2, <2>3 DEF SleepersReleased
<1>6. ASSUME Expire \/ ProcessMoves PROVE SleepersReleased'
  BY <1>2, <1>6 DEF Expire, ProcessMoves, WaitFinish, Scan, Judge, Suspend, Release, ctlVars,
                    stepVars
<1>7. ASSUME NEW d \in Waiter, WaiterMoves(d) PROVE SleepersReleased'
  <2>1. CASE Start(d)
    BY <1>1, <2>1 DEF Start, ctlVars, Asleep
  <2>2. CASE ~Start(d)
    BY <1>2, <1>7, <2>2 DEF WaiterMoves, AskDone, Lock, FailBefore, Join, Finalize, ctlVars,
                            stepVars
  <2>3. QED
    BY <2>1, <2>2
<1>8. QED
  BY <1>2, <1>3, <1>4, <1>5, <1>6, <1>7 DEF Next, vars, WordMoves, ctlVars, stepVars

\* The counter cannot become negative, nor be raised inside a Done, but by a call
\* of Pause that overlaps one of Resume.
LEMMA NextKeepsPanic ==
  ASSUME GateInv, [Next]_vars
  PROVE  PanicOverlaps'
<1>1. CASE panic' \notin {"negative", "misuse"}
  BY <1>1 DEF PanicOverlaps
<1>2. CASE UNCHANGED <<call, at, answer, panic>>
  BY <1>2 DEF GateInv, PanicOverlaps, Overlap, Answered
<1>3. ASSUME NEW c \in Controller, CallMoves(c) PROVE PanicOverlaps'
  <2>1. CASE UNCHANGED panic
    BY <1>1, <1>3, <2>1 DEF CallMoves, Return, Close, Open, Awaken, Runs
  <2>2. CASE Close(c) /\ panic' = "misuse" /\ gate = 0 /\ Asleep # {}
    <3>1. Answered(c, "Pause") /\ UNCHANGED <<call, at, answer>>
      BY <2>2 DEF Close, Moved, wordVars
    <3>2. \E x \in Controller : call[x] = "Release"
      BY <2>2 DEF GateInv, SleepersReleased
    <3>3. Overlap
      BY <3>1, <3>2 DEF Overlap
    <3>4. QED
      BY <3>1, <3>3 DEF PanicOverlaps, Overlap, Answered
  <2>3. CASE Open(c) /\ panic' = "negative" /\ gate = 0
    <3>1. Answered(c, "Resume") /\ UNCHANGED <<call, at, answer>>
      BY <2>3 DEF Open, Moved, wordVars
    <3>2. Owing("Pause") # {}
      <4>1. c \in Owing("Resume")
        BY <3>1 DEF Owing
      <4>2. Cardinality(Owing("Resume")) # 0
        BY <4>1, OwingFinite, FS_EmptySet
      <4>3. Cardinality(Owing("Pause")) # 0
        BY <2>3, <4>2, OwingFinite DEF GateInv, GateFollows
      <4>4. QED
        BY <4>3, FS_EmptySet
    <3>3. Overlap
      BY <3>1, <3>2 DEF Overlap, Owing, Answered
    <3>4. QED
      BY <3>1, <3>3 DEF PanicOverlaps, Overlap, Answered
  <2>4. QED
    BY <1>3, <2>1, <2>2, <2>3 DEF CallMoves, Return, Close, Open, Awaken
<1>4. ASSUME NEW s \in Step, StepMoves(s) PROVE panic' \notin {"negative", "misuse"}
  BY <1>4 DEF StepMoves, Enter, CheckPause, Wait, Wake, Acquire, NoAttach, Initialize, Store,
              Succeed, Fail, FinalizeStep, ctlVars, Runs
<1>5. ASSUME Expire \/ ProcessMoves PROVE panic' = "none"
  BY <1>5 DEF Expire, ProcessMoves, WaitFinish, Scan, Judge, Suspend, Release, ctlVars, Runs
<1>6. ASSUME NEW d \in Waiter, WaiterMoves(d) PROVE panic' = "none"
  BY <1>6 DEF WaiterMoves, AskDone, Lock, Start, FailBefore, Join, Finalize, ctlVars, Runs
<1>7. QED
  BY <1>1, <1>2, <1>3, <1>4, <1>5, <1>6
     DEF Next, Call, WordMoves, vars, wordVars, ctlVars, Runs

LEMMA NextKeepsGateInv == GateInv /\ [Next]_vars => GateInv'
<1> SUFFICES ASSUME GateInv, [Next]_vars PROVE GateInv'
  OBVIOUS
<1>1. WordInv'
  BY NextMovesWord, WordNextInv DEF GateInv
<1>2. QED
  BY <1>1, NextKeepsCalls, NextKeepsGate, NextKeepsSleepers, NextKeepsPanic DEF GateInv

\* The inductive invariant of the gate.
THEOREM GateInvariant == Spec => []GateInv
  BY GateInitInv, NextKeepsGateInv, PTL DEF Spec

\* However many controllers pause and resume a process at once, the counter of the
\* gate follows the flag: it is off by the calls that are between the two only.  A
\* negative counter, or an Add inside a Done, ends the program only when a Resume
\* overlaps a Pause that has not yet added.
THEOREM GateCorrect == Spec => []GateCounted
<1>1. GateInv => GateCounted
  BY DEF GateInv, GateCounted, PanicOverlaps
<1>2. QED
  BY <1>1, GateInvariant, PTL

(***************************************************************************)
(* The callers of Done.                                                    *)
(***************************************************************************)
\* The lock is with the one caller that executes the flow; the process has not
\* begun before that caller starts it, and has not or is done when the flow has
\* ended.
DoneInv ==
    /\ dpc \in [Waiter -> {"call", "begin", "wait", "after", "returned"}]
    /\ \A d \in Waiter : /\ dpc[d] = "begin" => holder = d /\ ~ended /\ ppc = "idle"
                         /\ dpc[d] = "wait" => holder = d /\ ~ended
                         /\ dpc[d] = "after" => holder = d /\ ended
                         /\ dpc[d] = "returned" => ended
    /\ ended => ppc \in {"idle", "done"}
    /\ holder = None /\ ~ended => ppc = "idle"

LEMMA DoneInitInv == Init => DoneInv
  BY ObjectAssumption DEF Init, DoneInv

LEMMA WaiterKeepsDone ==
  ASSUME DoneInv, NEW d \in Waiter, WaiterMoves(d)
  PROVE  DoneInv'
<1>1. CASE AskDone(d)
  BY <1>1, ObjectAssumption DEF AskDone, Moves, DoneInv
<1>2. CASE Lock(d)
  BY <1>2, ObjectAssumption DEF Lock, Ended, Moves, DoneInv
<1>3. CASE Start(d)
  BY <1>3, ObjectAssumption DEF Start, Moves, DoneInv
<1>4. CASE FailBefore(d)
  BY <1>4, ObjectAssumption DEF FailBefore, Moves, DoneInv
<1>5. CASE Join(d)
  BY <1>5, ObjectAssumption DEF Join, Moves, DoneInv
<1>6. CASE Finalize(d)
  BY <1>6, ObjectAssumption DEF Finalize, Moves, DoneInv
<1>7. QED
  BY <1>1, <1>2, <1>3, <1>4, <1>5, <1>6 DEF WaiterMoves

LEMMA NextKeepsDone == DoneInv /\ [Next]_vars => DoneInv'
<1> SUFFICES ASSUME DoneInv, [Next]_vars PROVE DoneInv'
  OBVIOUS
<1>1. ASSUME UNCHANGED <<ppc, flowVars>> PROVE DoneInv'
  BY <1>1 DEF flowVars, DoneInv
<1>2. ASSUME NEW s \in Step, StepMoves(s) PROVE DoneInv'
  BY <1>1, <1>2, StepMovesPlace
<1>3. ASSUME Expire \/ ProcessMoves PROVE DoneInv'
  <2>1. ppc \notin {"idle", "done"} /\ UNCHANGED flowVars
    BY <1>3 DEF Expire, ProcessMoves, WaitFinish, Scan, Judge, Suspend, Release
  <2>2. QED
    BY <2>1 DEF flowVars, DoneInv
<1>4. ASSUME NEW c \in Controller, CallMoves(c) PROVE DoneInv'
  BY <1>1, <1>4 DEF CallMoves, Return, Close, Open, Awaken
<1>5. QED
  BY WaiterKeepsDone, <1>1, <1>2, <1>3, <1>4 DEF Next, vars, Call, WordMoves

\* No caller of Done is back before the process is done, however many call at once
\* (runFlow.Done: "will block util all process done").
THEOREM DoneCorrect == Spec => []DoneBlocks
<1>1. DoneInv => DoneBlocks
  BY DEF DoneInv, DoneBlocks
<1>2. QED
  BY <1>1, DoneInitInv, NextKeepsDone, PTL DEF Spec

(***************************************************************************)
(* The resources.                                                          *)
(***************************************************************************)
AllOver == \A s \in Step : pos[s] = "end"

\* The timer has expired: its flags are on the word, or on their way.
TimedOut == \/ "Timeout" \in word
            \/ /\ ppc = "scan" /\ at[Process] # "idle"
               /\ op[Process] = Appends({"Timeout", "Failed"})

\* Where the steps are while the process is at each of its points.
StepsInPhase ==
    /\ pos \in [Step -> StepPlace]
    /\ ppc \in {"idle", "steps", "scan", "judge", "final", "release", "done"}
    /\ ppc = "idle" => \A s \in Step : pos[s] = "new"
    /\ ppc \notin {"idle", "steps"} => AllOver \/ TimedOut

\* Every instance that was given to a step is the one in the table.
OneInstance ==
    /\ inits \in Nat /\ attached \in Nat /\ instance \in [Step -> Nat] /\ got \in [Step -> Nat]
    /\ \A s \in Step : /\ got[s] # 0 => got[s] = attached
                       /\ pos[s] = "store" => instance[s] # 0
    /\ inits > 0 /\ attached = 0 => \E s \in Step : pos[s] = "store"

\* A step that has failed is over only when Suspend is on the word, and only such a
\* step puts it there.
FailedSuspends ==
    /\ failed \subseteq Step
    /\ \A s \in failed :
          /\ op[s] = Appends({"Suspend"})
          /\ pos[s] \in {"finalize", "end"}
          /\ pos[s] = "finalize" /\ at[s] = "idle" => "Suspend" \in word
          /\ pos[s] = "end" => "Suspend" \in word

SuspendMeans ==
    /\ "Suspend" \in word => failed # {}
    /\ \A c \in Caller : "Suspend" \in op[c].flag => failed # {}

ReleasedOnce ==
    /\ releases \in {0, 1}
    /\ ppc # "done" => releases = 0
    /\ suspended => failed # {}
    /\ "Timeout" \notin word =>
          /\ ppc = "done" => releases = IF attached # 0 THEN 1 ELSE 0
          /\ ppc \in {"release", "done"} => (suspended <=> failed # {})

ResourceParts == StepsInPhase /\ OneInstance /\ FailedSuspends /\ SuspendMeans
                 /\ ReleasedOnce

ResourceInv == WordInv /\ DoneInv /\ ResourceParts

LEMMA ResourceInitInv == Init => ResourceInv
<1> SUFFICES ASSUME Init PROVE ResourceInv
  OBVIOUS
<1>1. WordInv /\ DoneInv
  BY WordInitInv, DoneInitInv DEF Init
<1>2. StepsInPhase /\ OneInstance /\ FailedSuspends /\ ReleasedOnce
  BY DEF Init, StepsInPhase, StepPlace, OneInstance, FailedSuspends, ReleasedOnce
<1>3. SuspendMeans
  BY DEF Init, WordInit, SuspendMeans
<1>4. QED
  BY <1>1, <1>2, <1>3 DEF ResourceInv, ResourceParts

\* Only Pause is ever cleared.
LEMMA BitStays ==
  ASSUME WordInv, NEW c \in Caller, WordStep(c), NEW bit \in word, bit # "Pause"
  PROVE  bit \in word'
<1>1. CASE Cas(c)
  <2>1. word' = Changed(word, op[c])
    BY <1>1 DEF Cas, Swaps
  <2>2. op[c].kind = "append" \/ op[c].flag = {"Pause"}
    BY ObjectAssumption DEF WordInv, WordTypeOK, ClearsOneBit
  <2>3. QED
    BY <2>1, <2>2 DEF Changed
<1>2. CASE Load(c) \/ Retry(c)
  BY <1>2 DEF Load, Retry
<1>3. QED
  BY <1>1, <1>2 DEF WordStep

\* An append that has ended has set its flag.
LEMMA AppendArrives ==
  ASSUME WordInv, NEW c \in Caller, WordStep(c), NEW flag, op[c] = Appends(flag),
         at'[c] = "idle"
  PROVE  flag \subseteq word'
<1>1. CASE Cas(c)
  BY <1>1 DEF Cas, Changed, Appends
<1>2. CASE Load(c)
  <2>1. Settled(c) => flag \subseteq word
    BY DEF Settled, Appends
  <2>2. Settled(c)
    BY <1>2 DEF Load, WordInv, WordTypeOK
  <2>3. QED
    BY <1>2, <2>1, <2>2 DEF Load
<1>3. CASE Retry(c)
  BY <1>3 DEF Retry, WordInv, WordTypeOK
<1>4. QED
  BY <1>1, <1>2, <1>3 DEF WordStep

\* A bit that was not on the word is one of an operation.
LEMMA BitComes ==
  ASSUME NEW c \in Caller, WordStep(c), NEW bit \in word', bit \notin word
  PROVE  bit \in op[c].flag
<1>1. Cas(c)
  BY DEF WordStep, Load, Retry
<1>2. QED
  BY <1>1 DEF Cas, Swaps, Changed

LEMMA WordMovesKeepsResource ==
  ASSUME ResourceInv, NEW c \in Caller, WordMoves(c)
  PROVE  ResourceParts'
<1> USE DEF ResourceInv, ResourceParts
<1>1. UNCHANGED <<op, pos, failed, resVars, ppc>> /\ WordStep(c) /\ at[c] # "idle"
      /\ \A x \in Caller \ {c} : at'[x] = at[x]
  BY DEF WordMoves, WordStep, Load, Cas, Retry, Answer, stepVars, WordInv, WordTypeOK
<1>2. /\ "Suspend" \in word => "Suspend" \in word'
      /\ "Timeout" \in word => "Timeout" \in word'
  BY <1>1, BitStays
<1>3. Step \subseteq Caller /\ Process \in Caller
  BY ObjectAssumption
<1>4. FailedSuspends'
  <2>1. ASSUME c \in failed, at'[c] = "idle" PROVE "Suspend" \in word'
    BY <1>1, <2>1, AppendArrives DEF FailedSuspends
  <2>2. QED
    BY <1>1, <1>2, <1>3, <2>1 DEF FailedSuspends
<1>5. SuspendMeans'
  BY <1>1, BitComes DEF SuspendMeans
<1>6. TimedOut => TimedOut'
  <2>1. ASSUME c = Process, op[c] = Appends({"Timeout", "Failed"}), at'[c] = "idle"
        PROVE  "Timeout" \in word'
    BY <1>1, <2>1, AppendArrives
  <2>2. QED
    BY <1>1, <1>2, <1>3, <2>1 DEF TimedOut
<1>7. StepsInPhase'
  BY <1>1, <1>6 DEF StepsInPhase, AllOver
<1>8. OneInstance' /\ ReleasedOnce'
  BY <1>1, <1>2 DEF OneInstance, ReleasedOnce, resVars
<1>9. QED
  BY <1>4, <1>5, <1>7, <1>8

\* An operation of a goroutine that is no step.
LEMMA OthersKeepFailed ==
  ASSUME ResourceInv, NEW c \in Caller \ Step, NEW kind, NEW flag, Invoke(c, kind, flag),
         "Suspend" \notin flag, UNCHANGED stepVars
  PROVE  FailedSuspends' /\ SuspendMeans'
<1> USE DEF ResourceInv, ResourceParts
<1>1. UNCHANGED <<word, pos, failed>>
  BY DEF Invoke, stepVars
<1>2. /\ \A x \in Caller \ {c} : op'[x] = op[x] /\ at'[x] = at[x]
      /\ op'[c].flag = flag
  BY DEF Invoke, WordInv, WordTypeOK
<1>3. FailedSuspends'
  BY <1>1, <1>2, ObjectAssumption DEF FailedSuspends
<1>4. SuspendMeans'
  BY <1>1, <1>2 DEF SuspendMeans
<1>5. QED
  BY <1>3, <1>4

\* A step moves after waitFinish only when the process has timed out.
LEMMA StepMovesWhen ==
  ASSUME ResourceInv, NEW s \in Step, StepMoves(s)
  PROVE  ppc # "idle" /\ (ppc = "steps" \/ TimedOut) /\ pos[s] \notin {"new", "end"}
<1>1. pos[s] \notin {"new", "end"}
  BY DEF StepMoves, Enter, CheckPause, Wait, Wake, Acquire, NoAttach, Initialize, Store,
         Succeed, Fail, FinalizeStep
<1>2. QED
  BY <1>1 DEF ResourceInv, ResourceParts, StepsInPhase, AllOver

LEMMA StepMovesKeepsPhase ==
  ASSUME ResourceInv, NEW s \in Step, StepMoves(s)
  PROVE  StepsInPhase' /\ ReleasedOnce'
<1> USE DEF ResourceInv, ResourceParts
<1>1. /\ UNCHANGED <<word, ppc, releases, suspended>> /\ failed \subseteq failed'
      /\ UNCHANGED pos \/ \E place \in StepPlace : Goes(s, place)
  BY StepMovesPlace DEF StepMoves, Enter, CheckPause, Wait, Wake, Acquire, NoAttach,
     Initialize, Store, Succeed, Fail, FinalizeStep, wordVars, resVars, Invoke
<1>2. at'[Process] = at[Process] /\ op'[Process] = op[Process]
  <2>1. Process # s /\ Process \in Caller
    BY ObjectAssumption
  <2>2. UNCHANGED <<at, op>> \/ Invoke(s, "append", {"Suspend"})
    BY DEF StepMoves, Enter, CheckPause, Wait, Wake, Acquire, NoAttach, Initialize, Store,
           Succeed, Fail, FinalizeStep, wordVars
  <2>3. QED
    BY <2>1, <2>2 DEF Invoke, WordInv, WordTypeOK
<1>3. TimedOut' <=> TimedOut
  BY <1>1, <1>2 DEF TimedOut
<1>4. StepsInPhase'
  BY <1>1, <1>3, StepMovesWhen DEF StepsInPhase, Goes
<1>5. ReleasedOnce'
  <2>1. ppc \in {"release", "done"} => "Timeout" \in word
    BY StepMovesWhen DEF TimedOut
  <2>2. QED
    BY <1>1, <2>1 DEF ReleasedOnce
<1>6. QED
  BY <1>4, <1>5

LEMMA StepMovesKeepsInstance ==
  ASSUME ResourceInv, NEW s \in Step, StepMoves(s)
  PROVE  OneInstance'
<1> USE DEF ResourceInv, ResourceParts, OneInstance, StepsInPhase, Goes
<1>1. CASE Acquire(s)
  BY <1>1 DEF Acquire
<1>2. CASE Initialize(s)
  BY <1>2 DEF Initialize
<1>3. CASE Store(s)
  <2>1. instance[s] # 0 /\ instance[s] \in Nat
    BY <1>3 DEF Store
  <2>2. CASE attached = 0
    BY <1>3, <2>1, <2>2 DEF Store, Chosen
  <2>3. CASE attached # 0
    <3>1. attached' = attached /\ got' = [got EXCEPT ![s] = attached]
      BY <1>3, <2>3 DEF Store, Chosen
    <3>2. UNCHANGED <<inits, instance>> /\ pos' = [pos EXCEPT ![s] = "work"]
      BY <1>3 DEF Store
    <3>3. attached \in Nat
      BY <2>3
    <3>4. QED
      BY <2>3, <3>1, <3>2, <3>3
  <2>4. QED
    BY <2>2, <2>3
<1>4. CASE /\ UNCHANGED resVars
           /\ UNCHANGED pos \/ \E place \in StepPlace \ {"store"} : Goes(s, place)
           /\ pos[s] # "store"
  BY <1>4 DEF resVars, StepPlace
<1>5. QED
  BY <1>1, <1>2, <1>3, <1>4
     DEF StepMoves, Enter, CheckPause, Wait, Wake, NoAttach, Succeed, Fail, FinalizeStep,
         StepPlace

LEMMA StepMovesKeepsFailed ==
  ASSUME ResourceInv, NEW s \in Step, StepMoves(s)
  PROVE  FailedSuspends' /\ SuspendMeans'
<1> USE DEF ResourceInv, ResourceParts, FailedSuspends, SuspendMeans, StepsInPhase, Goes
<1>1. CASE Fail(s)
  <2>1. /\ failed' = failed \cup {s} /\ UNCHANGED word
        /\ op' = [op EXCEPT ![s] = Appends({"Suspend"})]
        /\ at' = [at EXCEPT ![s] = "load"]
        /\ pos' = [pos EXCEPT ![s] = "finalize"]
    BY <1>1 DEF Fail, Invoke, Appends
  <2>2. s \in Caller /\ op'[s] = Appends({"Suspend"}) /\ at'[s] = "load"
    BY <2>1, ObjectAssumption DEF WordInv, WordTypeOK
  <2>3. \A x \in Step \ {s} : op'[x] = op[x] /\ at'[x] = at[x] /\ pos'[x] = pos[x]
    BY <2>1, ObjectAssumption DEF WordInv, WordTypeOK
  <2>4. QED
    BY <2>1, <2>2, <2>3
<1>2. CASE FinalizeStep(s)
  BY <1>2 DEF FinalizeStep, Finalized, wordVars
<1>3. CASE /\ s \notin failed /\ UNCHANGED <<wordVars, failed>>
           /\ UNCHANGED pos \/ \E place : Goes(s, place)
  BY <1>3 DEF wordVars
<1>4. pos[s] \notin {"finalize", "end"} => s \notin failed
  OBVIOUS
<1>5. QED
  BY <1>1, <1>2, <1>3, <1>4
     DEF StepMoves, Enter, CheckPause, Wait, Wake, Acquire, NoAttach, Initialize, Store,
         Succeed

LEMMA ProcessKeepsResource ==
  ASSUME ResourceInv, Expire \/ ProcessMoves
  PROVE  ResourceParts'
<1> USE DEF ResourceInv, ResourceParts
<1>1. UNCHANGED <<stepVars, word>>
  BY DEF Expire, ProcessMoves, WaitFinish, Scan, Judge, Suspend, Release, Invoke, wordVars
<1>2. FailedSuspends' /\ SuspendMeans'
  <2>1. Process \in Caller \ Step
    BY ObjectAssumption
  <2>2. \/ UNCHANGED wordVars
        \/ \E flag : Invoke(Process, "append", flag) /\ "Suspend" \notin flag
    BY DEF Expire, ProcessMoves, WaitFinish, Scan, Judge, Suspend, Release
  <2>3. CASE UNCHANGED wordVars
    BY <1>1, <2>3 DEF wordVars, stepVars, FailedSuspends, SuspendMeans
  <2>4. QED
    BY <1>1, <2>1, <2>2, <2>3, OthersKeepFailed
<1>3. OneInstance'
  BY <1>1 DEF Expire, ProcessMoves, WaitFinish, Scan, Judge, Suspend, Release, resVars,
              stepVars, OneInstance
<1>4. StepsInPhase'
  <2>1. CASE Expire
    <3>1. /\ ppc' = "scan" /\ at' = [at EXCEPT ![Process] = "load"]
          /\ op' = [op EXCEPT ![Process] = Appends({"Timeout", "Failed"})]
      BY <2>1 DEF Expire, Invoke, Appends
    <3>2. at'[Process] = "load" /\ op'[Process] = Appends({"Timeout", "Failed"})
      BY <3>1, ObjectAssumption DEF WordInv, WordTypeOK
    <3>3. TimedOut'
      BY <3>1, <3>2 DEF TimedOut
    <3>4. QED
      BY <1>1, <3>1, <3>3 DEF StepsInPhase, stepVars
  <2>2. CASE WaitFinish
    BY <1>1, <2>2 DEF WaitFinish, StepsInPhase, AllOver, stepVars
  <2>3. CASE Scan \/ Judge \/ Suspend \/ Release
    <3>1. /\ ppc \in {"scan", "judge", "final", "release"}
          /\ ppc' \in {"judge", "final", "release", "done"}
          /\ ppc = "scan" => at[Process] = "idle"
      BY <2>3 DEF Scan, Judge, Suspend, Release
    <3>2. AllOver \/ "Timeout" \in word
      BY <3>1 DEF StepsInPhase, TimedOut
    <3>3. QED
      BY <1>1, <3>1, <3>2 DEF StepsInPhase, AllOver, TimedOut, stepVars
  <2>4. QED
    BY <2>1, <2>2, <2>3 DEF ProcessMoves
<1>5. ReleasedOnce'
  <2>1. CASE Expire \/ WaitFinish \/ Scan \/ Judge
    BY <1>1, <2>1 DEF Expire, WaitFinish, Scan, Judge, resVars, stepVars, ReleasedOnce
  <2>2. CASE Suspend
    <3>1. "Timeout" \notin word /\ failed # {} => "Suspend" \in word
      BY <2>2 DEF Suspend, StepsInPhase, TimedOut, AllOver, FailedSuspends
    <3>2. QED
      BY <1>1, <2>2, <3>1 DEF Suspend, stepVars, ReleasedOnce, SuspendMeans
  <2>3. CASE Release
    BY <1>1, <2>3 DEF Release, stepVars, ReleasedOnce
  <2>4. QED
    BY <2>1, <2>2, <2>3 DEF ProcessMoves
<1>6. QED
  BY <1>2, <1>3, <1>4, <1>5

LEMMA WaiterKeepsResource ==
  ASSUME ResourceInv, NEW d \in Waiter, WaiterMoves(d)
  PROVE  ResourceParts'
<1> USE DEF ResourceInv, ResourceParts
<1>1. CASE UNCHANGED <<wordVars, stepVars, resVars, ppc>>
  BY <1>1 DEF wordVars, stepVars, resVars, StepsInPhase, AllOver, TimedOut,
              OneInstance, FailedSuspends, SuspendMeans, ReleasedOnce
<1>2. CASE Start(d)
  <2>1. /\ ppc = "idle" /\ ppc' = "steps" /\ pos' = [s \in Step |-> "start"]
        /\ UNCHANGED <<wordVars, failed, resVars>>
    BY <1>2 DEF Start, DoneInv
  <2>2. failed = {} /\ ~(inits > 0 /\ attached = 0)
    BY <2>1 DEF StepsInPhase, FailedSuspends, OneInstance
  <2>3. StepsInPhase' /\ FailedSuspends' /\ SuspendMeans'
    BY <2>1, <2>2 DEF StepsInPhase, StepPlace, FailedSuspends, SuspendMeans, wordVars
  <2>4. OneInstance' /\ ReleasedOnce'
    BY <2>1, <2>2 DEF resVars, wordVars, OneInstance, ReleasedOnce
  <2>5. QED
    BY <2>3, <2>4
<1>3. QED
  BY <1>1, <1>2 DEF WaiterMoves, AskDone, Lock, FailBefore, Join, Finalize

LEMMA NextKeepsResource == ResourceInv /\ [Next]_vars => ResourceInv'
<1> SUFFICES ASSUME ResourceInv, [Next]_vars PROVE ResourceInv'
  OBVIOUS
<1>1. WordInv' /\ DoneInv'
  BY NextMovesWord, WordNextInv, NextKeepsDone DEF ResourceInv
<1>2. ASSUME UNCHANGED <<wordVars, stepVars, resVars, ppc>> PROVE ResourceParts'
  BY <1>2 DEF wordVars, stepVars, resVars, ResourceInv, ResourceParts, StepsInPhase, AllOver,
              TimedOut, OneInstance, FailedSuspends, SuspendMeans, ReleasedOnce
<1>3. ASSUME NEW c \in Controller, NEW method \in Methods[c], Call(c, method)
      PROVE  ResourceParts'
  <2>1. \E kind, flag : Invoke(c, kind, flag) /\ "Suspend" \notin flag
    <3>1. method \in {"Pause", "Resume", "Stop"}
      BY ObjectAssumption
    <3>2. CASE method = "Pause"
      BY <1>3, <3>2 DEF Call
    <3>3. CASE method = "Resume"
      BY <1>3, <3>3 DEF Call
    <3>4. CASE method = "Stop"
      BY <1>3, <3>4 DEF Call
    <3>5. QED
      BY <3>1, <3>2, <3>3, <3>4
  <2>2. c \in Caller \ Step /\ c # Process /\ Process \in Caller
    BY ObjectAssumption
  <2>3. FailedSuspends' /\ SuspendMeans'
    BY <1>3, <2>1, <2>2, OthersKeepFailed DEF Call
  <2>4. /\ UNCHANGED <<word, stepVars, resVars, ppc>>
        /\ at'[Process] = at[Process] /\ op'[Process] = op[Process]
    BY <1>3, <2>1, <2>2 DEF Call, Invoke, ResourceInv, WordInv, WordTypeOK
  <2>5. QED
    BY <2>3, <2>4 DEF stepVars, resVars, ResourceInv, ResourceParts, StepsInPhase, AllOver,
                      TimedOut, OneInstance, ReleasedOnce
<1>4. ASSUME NEW c \in Controller, CallMoves(c) PROVE ResourceParts'
  <2>1. CASE Awaken(c)
    <3>1. /\ UNCHANGED <<wordVars, failed, resVars, ppc>>
          /\ pos' = [s \in Step |-> IF pos[s] = "asleep" THEN "woken" ELSE pos[s]]
      BY <2>1 DEF Awaken, Asleep
    <3>2. /\ pos' \in [Step -> StepPlace]
          /\ \A s \in Step : /\ pos[s] # "asleep" => pos'[s] = pos[s]
                             /\ pos[s] = "asleep" => pos'[s] = "woken"
      BY <3>1 DEF ResourceInv, ResourceParts, StepsInPhase, StepPlace
    <3>3. StepsInPhase' /\ FailedSuspends' /\ SuspendMeans'
      BY <3>1, <3>2 DEF wordVars, ResourceInv, ResourceParts, StepsInPhase, AllOver, TimedOut,
                        FailedSuspends, SuspendMeans
    <3>4. OneInstance' /\ ReleasedOnce'
      BY <3>1, <3>2 DEF wordVars, resVars, ResourceInv, ResourceParts, OneInstance,
                        ReleasedOnce
    <3>5. QED
      BY <3>3, <3>4 DEF ResourceParts
  <2>2. CASE Return(c) \/ Close(c) \/ Open(c)
    BY <1>2, <2>2 DEF Return, Close, Open
  <2>3. QED
    BY <1>4, <2>1, <2>2 DEF CallMoves
<1>5. ASSUME NEW s \in Step, StepMoves(s) PROVE ResourceParts'
  BY <1>5, StepMovesKeepsPhase, StepMovesKeepsInstance, StepMovesKeepsFailed
     DEF ResourceParts
<1>6. ResourceParts'
  BY <1>2, <1>3, <1>4, <1>5, WordMovesKeepsResource, ProcessKeepsResource,
     WaiterKeepsResource DEF Next, vars
<1>7. QED
  BY <1>1, <1>6 DEF ResourceInv

\* The inductive invariant of the resources.
THEOREM ResourceInvariant == Spec => []ResourceInv
  BY ResourceInitInv, NextKeepsResource, PTL DEF Spec

\* Steps that attach at once share one instance; unless the process times out it is
\* released once, after the last step, and the resources are suspended before
\* exactly if a step has failed.
THEOREM ResourcesCorrect == Spec => []ResourcesRight
<1>1. ResourceInv => ResourcesRight
  <2> SUFFICES ASSUME ResourceInv PROVE ResourcesRight
    OBVIOUS
  <2>1. releases > 0 => ppc = "done"
    BY DEF ResourceInv, ResourceParts, ReleasedOnce
  <2>2. releases > 0 /\ "Timeout" \notin word => \A s \in Step : pos[s] = "end"
    BY <2>1 DEF ResourceInv, ResourceParts, StepsInPhase, TimedOut, AllOver
  <2>3. QED
    BY <2>2 DEF ResourceInv, ResourceParts, OneInstance, ReleasedOnce, ResourcesRight
<1>2. QED
  BY <1>1, ResourceInvariant, PTL

(***************************************************************************)
(* Nobody is left behind.                                                  *)
(***************************************************************************)
\* The lock is held by a caller of Done that will give it back, and every step is
\* begun with the process.
HeldLock ==
    /\ holder # None => /\ holder \in Waiter /\ dpc[holder] \in {"begin", "wait", "after"}
                        /\ dpc[holder] = "wait" => ppc # "idle"
    /\ ppc # "idle" => \A s \in Step : pos[s] # "new"

LEMMA NextKeepsLock ==
  ASSUME DoneInv, ResourceInv, HeldLock, [Next]_vars PROVE HeldLock'
<1>1. CASE UNCHANGED <<pos, ppc, flowVars>>
  BY <1>1 DEF HeldLock, flowVars
<1>2. ASSUME UNCHANGED <<ppc, flowVars>>, \A s \in Step : pos[s] # "new" => pos'[s] # "new"
      PROVE  HeldLock'
  BY <1>2 DEF HeldLock, flowVars
<1>3. ASSUME NEW c \in Controller, CallMoves(c) PROVE HeldLock'
  BY <1>1, <1>2, <1>3 DEF CallMoves, Return, Close, Open, Awaken, stepVars
<1>4. ASSUME NEW s \in Step, StepMoves(s) PROVE HeldLock'
  <2>1. \A x \in Step : pos[x] # "new" => pos'[x] # "new"
    BY <1>4 DEF ResourceInv, ResourceParts, StepsInPhase, StepMoves, Enter, CheckPause, Wait,
                Wake, Acquire, NoAttach, Initialize, Store, Succeed, Fail, FinalizeStep, Goes
  <2>2. QED
    BY <1>2, <1>4, <2>1, StepMovesPlace
<1>5. ASSUME Expire \/ ProcessMoves PROVE HeldLock'
  <2>1. ppc # "idle" /\ ppc' # "idle" /\ UNCHANGED <<pos, flowVars>>
    BY <1>5 DEF Expire, ProcessMoves, WaitFinish, Scan, Judge, Suspend, Release, stepVars
  <2>2. QED
    BY <2>1 DEF HeldLock, flowVars
<1>6. ASSUME NEW d \in Waiter, WaiterMoves(d) PROVE HeldLock'
  <2>1. CASE AskDone(d)
    BY <2>1 DEF AskDone, Moves, HeldLock, DoneInv, stepVars
  <2>2. CASE Lock(d)
    BY <2>2, ObjectAssumption DEF Lock, Ended, Moves, HeldLock, DoneInv, stepVars
  <2>3. CASE Start(d)
    BY <2>3 DEF Start, Moves, HeldLock, DoneInv
  <2>4. CASE FailBefore(d)
    BY <2>4 DEF FailBefore, Moves, HeldLock, DoneInv, stepVars
  <2>5. CASE Join(d)
    BY <2>5 DEF Join, Moves, HeldLock, DoneInv, stepVars
  <2>6. CASE Finalize(d)
    BY <2>6 DEF Finalize, Moves, HeldLock, DoneInv, stepVars
  <2>7. QED
    BY <1>6, <2>1, <2>2, <2>3, <2>4, <2>5, <2>6 DEF WaiterMoves
<1>7. QED
  BY <1>1, <1>3, <1>4, <1>5, <1>6 DEF Next, vars, stepVars, Call, WordMoves

LEMMA LockInvariant == Spec => []HeldLock
<1>1. Init => HeldLock
  BY DEF Init, HeldLock
<1>2. ResourceInv => DoneInv
  BY DEF ResourceInv
<1>3. QED
  BY <1>1, <1>2, NextKeepsLock, ResourceInvariant, PTL DEF Spec

\* Nothing that Go keeps running can go on: the guards of the actions of Fairness.
\* A call of clear whose swap has failed goes round for ever.
Halted ==
    /\ \A c \in Caller :
          at[c] = "idle" \/ (at[c] = "cas" /\ ~Swaps(c) /\ op[c].kind # "append")
    /\ \A c \in Controller : call[c] = "none" \/ at[c] # "idle"
    /\ \A s \in Step : \/ pos[s] \in {"new", "asleep", "end"}
                       \/ pos[s] = "finalize" /\ at[s] # "idle"
    /\ \/ ppc \in {"idle", "done"}
       \/ ppc = "steps" /\ \E s \in Step : pos[s] # "end"
       \/ ppc \in {"scan", "judge", "final"} /\ at[Process] # "idle"
    /\ \A d \in Waiter : \/ dpc[d] = "returned"
                         \/ dpc[d] = "call" /\ ~ended /\ holder # None
                         \/ dpc[d] = "wait" /\ ppc # "done"

\* When everything has come to rest in a program that no panic has ended, and the
\* process is not paused, all callers of Done are back: no step stays asleep at the
\* gate, also if a call of Resume never returns (WaitGroup pause, startStep, Done).
NobodyLeft ==
    Runs /\ Halted /\ "Pause" \notin word => \A d \in Waiter : dpc[d] = "returned"

\* No caller of Done is left waiting at the end (Done, waitFinish, startStep): all of
\* DoneReturns that does not rest on fairness.
THEOREM NobodyLeftCorrect == Spec => []NobodyLeft
<1>1. GateInv /\ ResourceInv /\ HeldLock => NobodyLeft
  <2> SUFFICES ASSUME GateInv, ResourceInv, HeldLock, Halted, "Pause" \notin word
               PROVE  \A d \in Waiter : dpc[d] = "returned"
    BY DEF NobodyLeft
  <2>1. \A c \in Step \cup {Process} : at[c] = "idle"
    BY ObjectAssumption DEF Halted, GateInv, OpsMatch
  <2>2. gate = 0
    <3>1. Owing("Pause") = {} /\ Owing("Resume") = {}
      BY DEF Owing, Answered, Halted
    <3>2. Cardinality(Owing("Pause")) = 0 /\ Cardinality(Owing("Resume")) = 0
      BY <3>1, FS_EmptySet
    <3>3. QED
      BY <3>2 DEF GateInv, GateFollows
  <2>3. Asleep = {}
    BY <2>2 DEF Halted, GateInv, OpsMatch, SleepersReleased
  <2>4. \A s \in Step : pos[s] \in {"new", "end"}
    BY <2>1, <2>3 DEF Halted, Asleep
  <2>5. ppc \in {"idle", "done"}
    BY <2>1, <2>4 DEF Halted, HeldLock
  <2>6. holder = None
    <3> SUFFICES ASSUME holder # None PROVE FALSE
      OBVIOUS
    <3>1. holder \in Waiter /\ dpc[holder] = "wait" /\ ppc # "done"
      BY DEF HeldLock, Halted
    <3>2. QED
      BY <2>5, <3>1 DEF HeldLock
  <2>7. \A d \in Waiter : dpc[d] = "returned" \/ (dpc[d] = "wait" /\ holder = d)
    BY <2>6 DEF Halted, ResourceInv, DoneInv
  <2>8. QED
    BY <2>6, <2>7, ObjectAssumption
<1>2. QED
  BY <1>1, GateInvariant, ResourceInvariant, LockInvariant, PTL
===============================================================================

-------------------------- MODULE StatusWord_proofs --------------------------
(***************************************************************************)
(* Proof that the loops over compare-and-swap implement an atomic set of   *)
(* flags, for any number of goroutines, bits and flags.                    *)
(***************************************************************************)
EXTENDS StatusWord, TLAPS

WordTypeOK ==
    /\ word \in SUBSET Bit
    /\ at \in [Caller -> {"idle", "load", "cas"}]
    /\ op \in [Caller -> [kind : {"append", "clear"}, flag : SUBSET Bit]]
    /\ current \in [Caller -> SUBSET Bit]
    /\ answer \in [Caller -> BOOLEAN]

\* What is cleared is one bit: exclusive or then takes it off.
ClearsOneBit == \A c \in Caller : op[c].kind = "clear" => op[c].flag \in Clearable

\* A goroutine about to swap has something to change in the word it has read.
SwapChanges ==
    \A c \in Caller : at[c] = "cas" =>
        /\ op[c].kind = "append" => ~(op[c].flag \subseteq current[c])
        /\ op[c].kind = "clear" => op[c].flag \cap current[c] # {}

WordInv == WordTypeOK /\ ClearsOneBit /\ SwapChanges

LEMMA WordInitInv == WordInit => WordInv
  BY FlagAssumption
     DEF WordInit, WordInv, WordTypeOK, ClearsOneBit, SwapChanges

LEMMA InvokeInv ==
  ASSUME WordInv, NEW c \in Caller, NEW kind, NEW flag,
         \/ kind = "append" /\ flag \in Flag
         \/ kind = "clear" /\ flag \in Clearable,
         Invoke(c, kind, flag)
  PROVE  WordInv'
<1>1. flag \in SUBSET Bit /\ kind \in {"append", "clear"}
  BY FlagAssumption
<1>2. WordTypeOK'
  BY <1>1 DEF WordInv, WordTypeOK, Invoke
<1>3. ClearsOneBit'
  BY <1>1 DEF WordInv, WordTypeOK, ClearsOneBit, Invoke
<1>4. SwapChanges'
  BY <1>1 DEF WordInv, WordTypeOK, SwapChanges, Invoke
<1>5. QED
  BY <1>2, <1>3, <1>4 DEF WordInv

LEMMA LoadInv ==
  ASSUME WordInv, NEW c \in Caller, Load(c)
  PROVE  WordInv'
<1>1. CASE Settled(c) /\ Answer(c, FALSE) /\ UNCHANGED <<word, current>>
  BY <1>1 DEF WordInv, WordTypeOK, ClearsOneBit, SwapChanges, Answer
<1>2. CASE /\ ~Settled(c)
           /\ current' = [current EXCEPT ![c] = word]
           /\ at' = [at EXCEPT ![c] = "cas"]
           /\ UNCHANGED <<word, op, answer>>
  <2>1. WordTypeOK' /\ ClearsOneBit'
    BY <1>2 DEF WordInv, WordTypeOK, ClearsOneBit
  <2>2. SwapChanges'
    BY <1>2 DEF WordInv, WordTypeOK, SwapChanges, Settled
  <2>3. QED
    BY <2>1, <2>2 DEF WordInv
<1>3. QED
  BY <1>1, <1>2 DEF Load

LEMMA CasInv ==
  ASSUME WordInv, NEW c \in Caller, Cas(c)
  PROVE  WordInv'
<1>1. word' \in SUBSET Bit
  BY DEF WordInv, WordTypeOK, Cas, Changed
<1>2. QED
  BY <1>1 DEF WordInv, WordTypeOK, ClearsOneBit, SwapChanges, Cas, Answer

LEMMA RetryInv ==
  ASSUME WordInv, NEW c \in Caller, Retry(c)
  PROVE  WordInv'
  BY DEF WordInv, WordTypeOK, ClearsOneBit, SwapChanges, Retry

LEMMA WordStepInv ==
  ASSUME WordInv, NEW c \in Caller, WordStep(c)
  PROVE  WordInv'
  BY LoadInv, CasInv, RetryInv DEF WordStep

LEMMA WordStutterInv == WordInv /\ UNCHANGED wordVars => WordInv'
  BY DEF WordInv, WordTypeOK, ClearsOneBit, SwapChanges, wordVars

LEMMA WordNextInv == WordInv /\ [WordNext]_wordVars => WordInv'
  BY InvokeInv, WordStepInv, WordStutterInv DEF WordNext

(***************************************************************************)
(* The refinement, one lemma for each kind of step.                        *)
(***************************************************************************)
LEMMA InvokeSimulates ==
  ASSUME WordInv, NEW c \in Caller, NEW kind \in {"append", "clear"},
         NEW flag \in SUBSET Bit, Invoke(c, kind, flag)
  PROVE  Flags!Invoke(c)
<1>1. {x \in Caller : at'[x] # "idle"} = {x \in Caller : at[x] # "idle"} \cup {c}
  BY DEF Invoke, WordInv, WordTypeOK
<1>2. op'[c] = [kind |-> kind, flag |-> flag]
  BY DEF Invoke, WordInv, WordTypeOK
<1>3. op' = [op EXCEPT ![c] = op'[c]]
  BY <1>2 DEF Invoke
<1>4. op'[c] \in Flags!Op
  BY <1>2 DEF Flags!Op
<1>5. c \notin {x \in Caller : at[x] # "idle"} /\ UNCHANGED <<word, answer>>
  BY DEF Invoke
<1>6. QED
  BY <1>1, <1>3, <1>4, <1>5 DEF Flags!Invoke

LEMMA AnswerSimulates ==
  ASSUME WordInv, NEW c \in Caller, at[c] # "idle", NEW changed, Answer(c, changed)
  PROVE  Flags!Answer(c, changed)
<1>1. {x \in Caller : at'[x] # "idle"} = {x \in Caller : at[x] # "idle"} \ {c}
  BY DEF Answer, WordInv, WordTypeOK
<1>2. QED
  BY <1>1 DEF Answer, Flags!Answer

\* An operation with nothing to do takes effect when it loads the word.
LEMMA LoadSimulates ==
  ASSUME WordInv, NEW c \in Caller, Load(c)
  PROVE  \/ Flags!Append(c) \/ Flags!Clear(c)
         \/ UNCHANGED <<word, {x \in Caller : at[x] # "idle"}, op, answer>>
<1>1. CASE Settled(c) /\ Answer(c, FALSE) /\ UNCHANGED <<word, current>>
  <2>1. Flags!Answer(c, FALSE)
    BY <1>1, AnswerSimulates DEF Load
  <2>2. CASE op[c].kind = "append"
    <3>1. op[c].flag \subseteq word
      BY <1>1, <2>2 DEF Settled
    <3>2. word' = word \cup op[c].flag
      BY <1>1, <3>1
    <3>3. Flags!Answer(c, ~(op[c].flag \subseteq word))
      BY <2>1, <3>1 DEF Flags!Answer
    <3>4. QED
      BY <2>2, <3>2, <3>3 DEF Flags!Append
  <2>3. CASE op[c].kind = "clear"
    <3>1. op[c].flag \cap word = {}
      BY <1>1, <2>3 DEF Settled
    <3>2. word' = word \ op[c].flag
      BY <1>1, <3>1
    <3>3. Flags!Answer(c, op[c].flag \cap word # {})
      BY <2>1, <3>1 DEF Flags!Answer
    <3>4. QED
      BY <2>3, <3>2, <3>3 DEF Flags!Clear
  <2>4. QED
    BY <2>2, <2>3 DEF WordInv, WordTypeOK
<1>2. CASE at' = [at EXCEPT ![c] = "cas"] /\ UNCHANGED <<word, op, answer>>
  BY <1>2 DEF Load, WordInv, WordTypeOK
<1>3. QED
  BY <1>1, <1>2 DEF Load

\* An operation that changes the word takes effect when it swaps it.
LEMMA CasSimulates ==
  ASSUME WordInv, NEW c \in Caller, Cas(c)
  PROVE  Flags!Append(c) \/ Flags!Clear(c)
<1>1. Flags!Answer(c, TRUE)
  BY AnswerSimulates DEF Cas
<1>2. word = current[c] /\ word' = Changed(word, op[c])
  BY DEF Cas, Swaps
<1>3. CASE op[c].kind = "append"
  <2>1. word' = word \cup op[c].flag /\ ~(op[c].flag \subseteq word)
    BY <1>2, <1>3 DEF WordInv, SwapChanges, Changed, Cas
  <2>2. Flags!Answer(c, ~(op[c].flag \subseteq word))
    BY <1>1, <2>1 DEF Flags!Answer
  <2>3. QED
    BY <1>3, <2>1, <2>2 DEF Flags!Append
<1>4. CASE op[c].kind = "clear"
  <2>1. PICK b \in Bit : op[c].flag = {b}
    BY <1>4, FlagAssumption DEF WordInv, ClearsOneBit
  <2>2. b \in word
    BY <1>2, <1>4, <2>1 DEF WordInv, SwapChanges, Cas
  <2>3. word' = word \ op[c].flag /\ op[c].flag \cap word # {}
    BY <1>2, <1>4, <2>1, <2>2 DEF Changed
  <2>4. Flags!Answer(c, op[c].flag \cap word # {})
    BY <1>1, <2>3 DEF Flags!Answer
  <2>5. QED
    BY <1>4, <2>3, <2>4 DEF Flags!Clear
<1>5. QED
  BY <1>3, <1>4 DEF WordInv, WordTypeOK

LEMMA RetrySimulates ==
  ASSUME WordInv, NEW c \in Caller, Retry(c)
  PROVE  UNCHANGED <<word, {x \in Caller : at[x] # "idle"}, op, answer>>
  BY DEF Retry, WordInv, WordTypeOK

LEMMA WordNextSimulates == WordInv /\ [WordNext]_wordVars => [Flags!Next]_Flags!vars
<1> SUFFICES ASSUME WordInv, [WordNext]_wordVars
             PROVE  [Flags!Next]_Flags!vars
  OBVIOUS
<1>1. ASSUME NEW c \in Caller, NEW f \in Flag, Invoke(c, "append", f)
      PROVE  Flags!Next
  BY <1>1, InvokeSimulates, FlagAssumption DEF Flags!Next
<1>2. ASSUME NEW c \in Caller, NEW f \in Clearable, Invoke(c, "clear", f)
      PROVE  Flags!Next
  BY <1>2, InvokeSimulates, FlagAssumption DEF Flags!Next
<1>3. ASSUME NEW c \in Caller, WordStep(c)
      PROVE  [Flags!Next]_Flags!vars
  BY <1>3, LoadSimulates, CasSimulates, RetrySimulates
     DEF WordStep, Flags!Next, Flags!vars
<1>4. CASE UNCHANGED wordVars
  BY <1>4 DEF wordVars, Flags!vars
<1>5. QED
  BY <1>1, <1>2, <1>3, <1>4 DEF WordNext

LEMMA WordInitSimulates == WordInit => Flags!Init
  BY DEF WordInit, Flags!Init

\* The inductive invariant of the loops: what is about to be swapped would change
\* the word that was read, and what is cleared is one bit (state.add, state.clear).
THEOREM WordInvariant == WordSpec => []WordInv
  BY WordInitInv, WordNextInv, PTL DEF WordSpec

\* However many goroutines append and clear flags at once: every append and clear
\* takes effect at one moment, no other flag is lost, and the answers are true
\* (state.add, state.clear).
THEOREM WordCorrect == WordSpec => RefinesFlags
  BY WordInvariant, WordInitSimulates, WordNextSimulates, PTL
     DEF WordSpec, RefinesFlags, Flags!Spec
===============================================================================

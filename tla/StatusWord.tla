----------------------------- MODULE StatusWord ------------------------------
(***************************************************************************)
(* A status word and the goroutines that change it (flow/context.go):      *)
(* add and clear load the word and try to replace it by compare-and-swap.  *)
(* add loads it again when the swap has failed, clear does not.            *)
(***************************************************************************)
CONSTANTS Caller,     \* the goroutines
          Bit,        \* the bits of the word
          Flag,       \* the flags: some have a bit of their own and share one
          Clearable   \* the flags that are ever cleared: Pause, executed, end

ASSUME FlagAssumption == /\ Flag \subseteq SUBSET Bit
                         /\ Clearable \subseteq {{b} : b \in Bit}

VARIABLES
    word,     \* the bits that are set
    at,       \* where each goroutine is: "idle", "load" or "cas"
    op,       \* its operation, the latest one when it is idle
    current,  \* the local variable of its loop, {} when it holds nothing
    answer    \* its latest answer

wordVars == <<word, at, op, current, answer>>

WordInit == /\ word = {}
            /\ at = [c \in Caller |-> "idle"]
            /\ op = [c \in Caller |-> [kind |-> "append", flag |-> {}]]
            /\ current = [c \in Caller |-> {}]
            /\ answer = [c \in Caller |-> FALSE]

Invoke(c, kind, flag) == /\ at[c] = "idle"
                         /\ at' = [at EXCEPT ![c] = "load"]
                         /\ op' = [op EXCEPT ![c] = [kind |-> kind, flag |-> flag]]
                         /\ UNCHANGED <<word, current, answer>>

Answer(c, changed) == /\ at' = [at EXCEPT ![c] = "idle"]
                      /\ answer' = [answer EXCEPT ![c] = changed]
                      /\ UNCHANGED op

\* The loop of add ends when all bits are set, that of clear when none is.
Settled(c) == IF op[c].kind = "append" THEN op[c].flag \subseteq word
                 ELSE op[c].flag \cap word = {}

Load(c) == /\ at[c] = "load"
           /\ \/ /\ Settled(c)
                 /\ Answer(c, FALSE)
                 /\ UNCHANGED <<word, current>>
              \/ /\ ~Settled(c)
                 /\ current' = [current EXCEPT ![c] = word]
                 /\ at' = [at EXCEPT ![c] = "cas"]
                 /\ UNCHANGED <<word, op, answer>>

\* Mutant: the word is stored without a look at what it is now.
SwapsAlways(c) == TRUE

Swaps(c) == word = current[c]

\* current | flag, and current ^ flag.
Changed(w, o) == IF o.kind = "append" THEN w \cup o.flag
                 ELSE (w \ o.flag) \cup (o.flag \ w)

Cas(c) == /\ at[c] = "cas" /\ Swaps(c)
          /\ word' = Changed(current[c], op[c])
          /\ Answer(c, TRUE)
          /\ current' = [current EXCEPT ![c] = {}]

\* Only add loads the word again; clear tries the same swap for ever.
Retry(c) == /\ at[c] = "cas" /\ ~Swaps(c)
            /\ op[c].kind = "append"
            /\ at' = [at EXCEPT ![c] = "load"]
            /\ current' = [current EXCEPT ![c] = {}]
            /\ UNCHANGED <<word, op, answer>>

WordStep(c) == Load(c) \/ Cas(c) \/ Retry(c)

WordNext == \E c \in Caller : \/ \E f \in Flag : Invoke(c, "append", f)
                              \/ \E f \in Clearable : Invoke(c, "clear", f)
                              \/ WordStep(c)

WordSpec == WordInit /\ [][WordNext]_wordVars
-------------------------------------------------------------------------------
\* The loops over compare-and-swap implement an atomic set of flags: no append
\* or clear of another goroutine is lost, and each answer is true.
Flags == INSTANCE FlagSet
             WITH word <- word, asked <- {c \in Caller : at[c] # "idle"},
                  op <- op, answer <- answer

RefinesFlags == Flags!Spec
===============================================================================

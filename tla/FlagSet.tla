------------------------------- MODULE FlagSet -------------------------------
(***************************************************************************)
(* What a status word promises to the goroutines that share it: an append  *)
(* or clear takes effect at one moment between its call and its answer,    *)
(* changes the bits of its flag and no other, and the answer tells whether *)
(* it changed anything.                                                    *)
(***************************************************************************)
CONSTANTS Caller,   \* the goroutines
          Bit       \* the bits of the word

VARIABLES
    word,     \* the bits that are set
    asked,    \* the goroutines that wait for an answer
    op,       \* the latest operation of each goroutine
    answer    \* the latest answer to each goroutine

vars == <<word, asked, op, answer>>

Op == [kind : {"append", "clear"}, flag : SUBSET Bit]

Init == /\ word = {} /\ asked = {}
        /\ op = [c \in Caller |-> [kind |-> "append", flag |-> {}]]
        /\ answer = [c \in Caller |-> FALSE]

\* An operation of the choice of its caller.
Invoke(c) == /\ c \notin asked
             /\ asked' = asked \cup {c}
             /\ op' = [op EXCEPT ![c] = op'[c]] /\ op'[c] \in Op
             /\ UNCHANGED <<word, answer>>

Answer(c, changed) == /\ c \in asked
                      /\ asked' = asked \ {c}
                      /\ answer' = [answer EXCEPT ![c] = changed]
                      /\ UNCHANGED op

Append(c) == /\ op[c].kind = "append"
             /\ word' = word \cup op[c].flag
             /\ Answer(c, ~(op[c].flag \subseteq word))

Clear(c) == /\ op[c].kind = "clear"
            /\ word' = word \ op[c].flag
            /\ Answer(c, op[c].flag \cap word # {})

Next == \E c \in Caller : Invoke(c) \/ Append(c) \/ Clear(c)

Spec == Init /\ [][Next]_vars
===============================================================================

----------------------------- MODULE StepContext -----------------------------
(***************************************************************************)
(* The contexts of a process and its steps (flow/context.go) while the     *)
(* steps run, time out, fail, are saved and recovered (flow/recover.go).   *)
(*                                                                         *)
(* All values are in one table of linked lists, one list for each key.  A  *)
(* node has the path of its writer: the bits of the writer and of all      *)
(* steps before it, as module Arrange computes them (VisibleIsUpstream).   *)
(* Each access is under the lock of the table and so is one step.          *)
(*                                                                         *)
(* A list is written here with its head, the latest node, at the end.      *)
(***************************************************************************)
EXTENDS Integers, Sequences, FiniteSets

CONSTANTS Name,        \* the steps of the process
          Process,     \* the process itself
          Key,         \* the keys the user sets; a key may be the name of a step
          Nothing,     \* the answer for a key that is not there
          Input,       \* the value of each key in the context of the flow
          MaxSets,     \* bound on the number of values set and returned
          MaxFails,    \* bound on the number of steps that fail
          MaxRecovers, \* bound on the number of recoveries
          Renumbers    \* TRUE: the process has merged steps, and the program
                       \* is started again before a recovery

Actor == Name \cup {Process}
AllKey == Key \cup Name

MaxNodes == 62
ResultIndex == 62

ASSUME ContextAssumption ==
    /\ IsFiniteSet(Name) /\ Cardinality(Name) <= MaxNodes
    /\ Process \notin Name
    /\ Nothing \notin Nat /\ Nothing \notin Actor
    /\ Input = [k \in Key |-> Input[k]]
    /\ MaxSets \in Nat /\ MaxFails \in Nat /\ MaxRecovers \in Nat
    /\ Renumbers \in BOOLEAN

VARIABLES
    up,        \* the steps that come before each step
    index,     \* the bit of each step
    table,     \* linkedTable: the list of each key
    ppc,       \* "before", "steps", "after", "saved" or "over"
    phase,     \* of each step: "wait", "run", "late", "done" or "failed"
    saved,     \* <<the table of the last checkpoint>>, <<>> before it
    sets,      \* values set so far
    recovers   \* recoveries so far

vars == <<up, index, table, ppc, phase, saved, sets, recovers>>

Bit == 0..(MaxNodes - 1)

\* No two values are the same: the code never compares them.
Value == 1..MaxSets

(***************************************************************************)
(* Paths.                                                                  *)
(***************************************************************************)
\* The steps come in an order: no step is before itself.
Orders == {f \in [Name -> SUBSET Name] :
              \A n \in Name : n \notin f[n] /\ \A m \in f[n] : f[m] \subseteq f[n]}

\* CustomStep numbers the steps as they are defined.  That need not be their
\* order: After puts a step behind one that was defined later.
Numberings == {g \in [Name -> 0..(Cardinality(Name) - 1)] :
                  \A m, n \in Name : m # n => g[m] # g[n]}

\* The layer of each step is one above the last layer of those before it.
Layers(f) ==
    LET layer[n \in Name] == IF f[n] = {} THEN 1
                             ELSE 1 + CHOOSE l \in {layer[m] : m \in f[n]} :
                                         \A m \in f[n] : layer[m] <= l
    IN  layer

\* Merge numbers the steps again, by layers, and over the steps of one layer it
\* goes in the order of a map.
MergeNumberings(f) == {g \in Numberings :
                          \A m, n \in Name : Layers(f)[m] < Layers(f)[n]
                                               => g[m] < g[n]}

\* access: nodePath, or fullAccess for the process.
Access(r) == IF r = Process THEN Bit ELSE {index[m] : m \in up[r] \cup {r}}

\* visible: what the process sets is public.
Visible(w) == IF w = Process THEN {} ELSE Access(w)

(***************************************************************************)
(* Reading.                                                                *)
(***************************************************************************)
\* The value of the latest of the nodes with the numbers S.
Latest(list, S) ==
    IF S = {} THEN Nothing ELSE list[CHOOSE i \in S : \A j \in S : j <= i].value

\* Mutant: a node is found that shares a bit with the path.
SearchAny(list, path) ==
    Latest(list, {i \in DOMAIN list :
                     list[i].path = {} \/ list[i].path \cap path # {}})

Search(list, path) == Latest(list, {i \in DOMAIN list : list[i].path \subseteq path})

IsHighest(bit, path) == bit \in path /\ \A c \in path : c <= bit

MatchByHighest(list, bit) ==
    Latest(list, {i \in DOMAIN list : IsHighest(bit, list[i].path)})

\* Get of a key that is not restricted: the table, then the context of the flow.
Get(t, r, k) == LET value == Search(t[k], Access(r))
                IN  IF value = Nothing THEN Input[k] ELSE value

\* GetByStepName of the process, and Get of a key that is restricted to step n.
GetByStepName(t, n, k) == MatchByHighest(t[k], index[n])

\* Mutant: the result of any step is shown.
ResultAny(t, n, s) == MatchByHighest(t[s], ResultIndex)

Result(t, n, s) == IF index[s] \in Access(n)
                   THEN MatchByHighest(t[s], ResultIndex) ELSE Nothing

\* The step that the highest bit of a path belongs to.
Owner(path) == CHOOSE n \in Name : IsHighest(index[n], path)

\* Mutant: a node is left out only if its path has been seen as a whole.
CoveredWhole(node, exist, paths) == node.path = {} \/ node.path \in paths

\* The bits of the node have all been seen in later nodes.
Covered(node, exist, paths) == node.path \subseteq exist

\* EndValues, from the head of the list on.
EndValues(t, n, k) ==
    LET list == t[k]
        f[i \in 0..Len(list)] ==
            IF i = 0
            THEN [exist |-> {}, paths |-> {}, values |-> [m \in Name |-> Nothing]]
            ELSE LET node == list[Len(list) + 1 - i]
                     last == f[i-1]
                 IN  IF ~(node.path \subseteq Visible(n))
                        \/ Covered(node, last.exist, last.paths)
                     THEN last
                     ELSE [exist  |-> last.exist \cup node.path,
                           paths  |-> last.paths \cup {node.path},
                           values |-> [last.values EXCEPT
                                         ![Owner(node.path)] = node.value]]
    IN  f[Len(list)].values

(***************************************************************************)
(* Writing.  "by" is a history of the node: nothing reads it.              *)
(***************************************************************************)
Node(w, v) == [path |-> Visible(w), value |-> v, by |-> w]

ResultNode(v) == [path |-> {ResultIndex}, value |-> v, by |-> Nothing]

Write(w, k) ==
    /\ sets < MaxSets /\ sets' = sets + 1
    /\ table' = [table EXCEPT ![k] = Append(@, Node(w, sets'))]

\* setOutcomeIfAbsent: the node of the result is made once.
WithResult(list, v) ==
    IF \E i \in DOMAIN list : IsHighest(ResultIndex, list[i].path)
    THEN [i \in DOMAIN list |->
             IF IsHighest(ResultIndex, list[i].path) THEN ResultNode(v) ELSE list[i]]
    ELSE Append(list, ResultNode(v))

SetResult(s) ==
    /\ sets < MaxSets /\ sets' = sets + 1
    /\ table' = [table EXCEPT ![s] = WithResult(@, sets')]

(***************************************************************************)
(* The process and its steps.                                              *)
(***************************************************************************)
Init == /\ up \in Orders
        /\ index \in IF Renumbers THEN MergeNumberings(up) ELSE Numberings
        /\ table = [k \in AllKey |-> <<>>]
        /\ ppc = "before" /\ phase = [n \in Name |-> "wait"]
        /\ saved = <<>> /\ sets = 0 /\ recovers = 0

\* Set by the callbacks of the process.
SetShared(k) == /\ ppc \in {"before", "after"}
                /\ Write(Process, k)
                /\ UNCHANGED <<up, index, ppc, phase, saved, recovers>>

Schedule == /\ ppc = "before" /\ ppc' = "steps"
            /\ UNCHANGED <<up, index, table, phase, saved, sets, recovers>>

\* Mutant: a step starts when one of those before it is done.
CanBeginEarly(n) ==
    phase[n] = "wait" /\ (up[n] = {} \/ \E m \in up[n] : phase[m] = "done")

\* A step that failed or timed out cancels those behind it.
CanBegin(n) == phase[n] = "wait" /\ \A m \in up[n] : phase[m] = "done"

Begin(n) == /\ ppc = "steps" /\ CanBegin(n)
            /\ phase' = [phase EXCEPT ![n] = "run"]
            /\ UNCHANGED <<up, index, table, ppc, saved, sets, recovers>>

\* The function of a step that timed out runs on.
Active(n) == phase[n] \in {"run", "late"} /\ ppc \in {"steps", "after"}

Set(n, k) == /\ Active(n)
             /\ Write(n, k)
             /\ UNCHANGED <<up, index, ppc, phase, saved, recovers>>

\* A function that returns a value; one that returns none is StepEnds.
Return(n) == /\ Active(n)
             /\ SetResult(n)
             /\ phase' = [phase EXCEPT ![n] =
                             IF @ = "run" THEN "done" ELSE "failed"]
             /\ UNCHANGED <<up, index, ppc, saved, recovers>>

Failed == {n \in Name : phase[n] \in {"late", "failed"}}

StepEnds(n) == /\ Active(n)
               /\ \/ phase[n] = "run" /\ phase' = [phase EXCEPT ![n] = "done"]
                  \/ /\ Cardinality(Failed \cup {n}) <= MaxFails
                     /\ phase' = [phase EXCEPT ![n] = "failed"]
               /\ UNCHANGED <<up, index, table, ppc, saved, sets, recovers>>

StepTimeout(n) == /\ phase[n] = "run" /\ ppc \in {"steps", "after"}
                  /\ Cardinality(Failed) < MaxFails
                  /\ phase' = [phase EXCEPT ![n] = "late"]
                  /\ UNCHANGED <<up, index, table, ppc, saved, sets, recovers>>

\* All steps are settled, or the process times out.
ProcessEnds(timeout) ==
    /\ ppc = "steps"
    /\ timeout \/ \A n \in Name : phase[n] # "run" /\ ~CanBegin(n)
    /\ ppc' = "after"
    /\ UNCHANGED <<up, index, table, phase, saved, sets, recovers>>

\* A flow that did not fail is not saved; nor is one the store refuses.
Over == /\ ppc = "after" /\ ppc' = "over"
        /\ UNCHANGED <<up, index, table, phase, saved, sets, recovers>>

\* buildSnapshot of the process; the other objects are in module FlowRecovery.
Save == /\ ppc = "after" /\ Failed # {}
        /\ saved' = <<table>>
        /\ ppc' = "saved"
        /\ UNCHANGED <<up, index, table, phase, sets, recovers>>

\* Mutant: the lists are rebuilt from the wrong end.
LoadedReversed(t) ==
    [k \in AllKey |-> [i \in DOMAIN t[k] |-> t[k][Len(t[k]) + 1 - i]]]

\* loadCheckpoint rebuilds the lists as they were, with the saved paths.
Loaded(t) == t

\* RecoverFlow: a new table, the failed steps and those behind them once more.
\* A program that was started again has built and merged the process anew.
Recover == /\ ppc = "saved" /\ recovers < MaxRecovers
           /\ recovers' = recovers + 1
           /\ table' = Loaded(saved[1])
           /\ index' \in IF Renumbers THEN MergeNumberings(up) ELSE {index}
           /\ phase' = [n \in Name |-> IF (up[n] \cup {n}) \cap Failed # {}
                                       THEN "wait" ELSE "done"]
           /\ ppc' = "steps"
           /\ UNCHANGED <<up, saved, sets>>

Next == \/ \E k \in Key : SetShared(k)
        \/ Schedule
        \/ \E n \in Name : Begin(n) \/ Return(n) \/ StepEnds(n) \/ StepTimeout(n)
        \/ \E n \in Name, k \in Key : Set(n, k)
        \/ \E timeout \in BOOLEAN : ProcessEnds(timeout)
        \/ Over \/ Save \/ Recover

Spec == Init /\ [][Next]_vars
-------------------------------------------------------------------------------
(***************************************************************************)
(* Properties.                                                             *)
(***************************************************************************)
\* The numbers of the nodes of a list that step w has written.
WrittenBy(list, w) == {i \in DOMAIN list : list[i].by = w}

\* What step w has set last for key k.
LastOf(t, k, w) == Latest(t[k], WrittenBy(t[k], w))

\* The views of a table: what is got, what each step has set last, what the
\* process is told of each step, and the results.
View(t) == [r \in Actor |-> [k \in Key |-> Get(t, r, k)]]
Own(t) == [n \in Name |-> [k \in Key |-> LastOf(t, k, n)]]
Told(t) == [n \in Name |-> [k \in Key |-> GetByStepName(t, n, k)]]
Shown(t) == [n \in Name |-> [s \in Name |-> Result(t, n, s)]]

Views == INSTANCE StepViews
             WITH up <- up, view <- View(table), own <- Own(table),
                  shown <- Shown(table),
                  kept <- IF saved = <<>> THEN <<>>
                          ELSE <<View(saved[1]), Own(saved[1]), Shown(saved[1])>>

\* The lists of nodes with their paths implement a view for each step, however
\* the steps are numbered: a value reaches the steps behind its writer and no
\* other, the latest one counts, and all of it survives a recovery.
RefinesViews == Views!Spec

\* While a step runs, what it gets for a key changes only when it sets that key
\* itself, whatever the other steps do; or when the process has timed out and
\* one of its callbacks sets the key.
StableView ==
    [][\A n \in Name, k \in Key :
          phase[n] = "run" /\ phase'[n] = "run" /\ Get(table, n, k)' # Get(table, n, k)
          => \/ table'[k] = Append(table[k], Node(n, Get(table, n, k)'))
             \/ ppc = "after" /\ table'[k][Len(table'[k])].by = Process]_vars

\* The bit of step w is above those of the steps before it.
Top(w) == IsHighest(index[w], Access(w))

\* The steps whose value n is to have: it sees them, they have set the key, and
\* no step between them and n has set it later.
Ends(n, k) ==
    {w \in up[n] \cup {n} :
        /\ WrittenBy(table[k], w) # {}
        /\ \A x \in up[n] \cup {n} : w \in up[x] =>
              \A j \in WrittenBy(table[k], x) :
                 \E i \in WrittenBy(table[k], w) : j < i}

\* Context.en.md, 4.2: EndValues has the values "not overwritten by subsequent
\* steps", and no other.  Each is under the name of its step as long as no step
\* that n sees has a number below that of a step before it.
EndsRight ==
    \A n \in Name, k \in Key :
        LET values == EndValues(table, n, k)
        IN  /\ \A m \in Name : \/ values[m] = Nothing
                               \/ \E w \in Ends(n, k) : values[m] = LastOf(table, k, w)
            /\ (\A w \in up[n] \cup {n} : Top(w)) =>
                  values = [w \in Name |-> IF w \in Ends(n, k) THEN LastOf(table, k, w)
                                                              ELSE Nothing]

\* GetByStepName: what the process is told of a step was set by that step or by
\* one behind it, and is the last that the step has set as long as the step and
\* those behind it have higher numbers than the steps before them.
NamedRight ==
    \A n \in Name, k \in Key :
        LET value == GetByStepName(table, n, k)
            behind == {m \in Name : n \in up[m] \cup {m}}
        IN  /\ \/ value = Nothing
               \/ \E m \in behind, i \in DOMAIN table[k] :
                     table[k][i].by = m /\ table[k][i].value = value
            /\ (\A m \in behind : Top(m)) => value = LastOf(table, k, n)

\* The highest bit of a path tells the step whose value it is, as far as the
\* numbers of the steps allow.
OwnersRight == EndsRight /\ NamedRight

\* Recover.en.md: the task "remains consistent with its initial execution after
\* recovery": a recovered process sees what was saved.
RecoversViews ==
    [][ppc = "saved" /\ ppc' = "steps" =>
          View(table)' = View(saved[1]) /\ Told(table)' = Told(saved[1])]_vars
===============================================================================

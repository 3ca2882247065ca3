------------------------------- MODULE Arrange -------------------------------
(***************************************************************************)
(* Arranging the steps of a process (flow/process_meta.go, the StepMeta    *)
(* part of flow/step.go): CustomStep, Follow and Parallel add steps, After *)
(* adds dependencies to the head of a chain, Merge takes over the steps of *)
(* another process, SyncAll adds a step behind all ends, and initialize    *)
(* computes what every step can see.                                       *)
(*                                                                         *)
(* The waiters of a step are the steps that depend on it (wireDepends adds *)
(* both ends of an edge), and nodeNum is the number of steps.  The loops   *)
(* of Merge and constructVisible go over sortedSteps, a stable sort by     *)
(* layer of the steps in the order of a map: any order by layer.           *)
(***************************************************************************)
EXTENDS Integers, FiniteSets, FiniteSetsExt

CONSTANTS Name,          \* names of steps
          MergedName,    \* the steps of the process that Merge takes over
          MaxCalls,      \* bound on the number of building calls
          MaxNodes       \* 62 in the code

ASSUME ArrangeAssumption ==
    /\ IsFiniteSet(Name) /\ MergedName \subseteq Name
    /\ MaxCalls \in Nat /\ MaxNodes \in Nat

VARIABLES
    phase,      \* "build", "merge", "visible", "ready" or "panic"
    calls,      \* building calls so far
    other,      \* the process to merge: the dependencies and layers of its steps
    todo,       \* the steps that the current loop has still to visit
    steps,      \* the steps of the process
    heads,      \* the steps Follow or Parallel may have added as heads of a chain
    merged,     \* steps with mergedE
    ends,       \* steps with endE
    depends,    \* the dependencies of each step
    layer,      \* the layer of each step, 0 before it is added
    index,      \* the bit of each step
    nodePath,   \* the set of bits of each step
    behind      \* history: After has moved a step whose waiters stayed behind

vars == <<phase, calls, other, todo, steps, heads, merged, ends, depends,
          layer, index, nodePath, behind>>

\* The least layers under which every step of the graph d comes after its
\* dependencies.
LeastLayers(d) ==
    LET f[k \in 0..Cardinality(Name)] ==
            IF k = 0 THEN [n \in DOMAIN d |-> 1]
            ELSE [n \in DOMAIN d |-> Max({1} \cup {f[k-1][x] + 1 : x \in d[n]})]
    IN  f[Cardinality(Name)]

\* The steps that step n depends on in the graph d, directly or not.
Upstream(d, n) ==
    LET f[k \in 0..Cardinality(Name)] ==
            IF k = 0 THEN d[n] ELSE f[k-1] \cup UNION {d[x] : x \in f[k-1]}
    IN  f[Cardinality(Name)]

Acyclic(d) == \A n \in DOMAIN d : n \notin Upstream(d, n)

Init == /\ phase = "build" /\ calls = 0 /\ todo = {}
        /\ other \in {[depends |-> d, layer |-> LeastLayers(d)] :
                        d \in {e \in [MergedName -> SUBSET MergedName] : Acyclic(e)}}
        /\ steps = {} /\ heads = {} /\ merged = {} /\ ends = {}
        /\ depends = [n \in Name |-> {}]
        /\ layer = [n \in Name |-> 0]
        /\ index = [n \in Name |-> 0]
        /\ nodePath = [n \in Name |-> {}]
        /\ behind = FALSE

(***************************************************************************)
(* wireDepends and addRouterInfo.                                          *)
(***************************************************************************)
\* The layers after the steps of G, which had the layers l, were wired to D.
WiredLayer(l, G, D) ==
    [n \in Name |-> IF n \in G
                    THEN Max({l[n]} \cup {l[d] + 1 : d \in D \ depends[n]})
                    ELSE l[n]]

\* Mutant: a step without dependencies does not become an end.
WiredEndsDependent(G, D) == IF D = {} THEN ends ELSE (ends \ D) \cup G

\* Each step of G becomes an end, and the steps it was newly wired to do not
\* remain ends.
WiredEnds(G, D) ==
    (ends \ {d \in D : \E n \in G : d \notin depends[n]}) \cup G

Wire(G, D) ==
    /\ depends' = [n \in Name |-> IF n \in G THEN depends[n] \cup D ELSE depends[n]]
    /\ ends' = WiredEnds(G, D)

\* Mutant: every new step is on the first layer.
NewLayerFirst(n, D) == [layer EXCEPT ![n] = 1]

\* A new step is on the first layer before it is wired.
NewLayer(n, D) == WiredLayer([layer EXCEPT ![n] = 1], {n}, D)

AddStep(n, D) ==
    /\ n \notin steps /\ D \subseteq steps
    /\ Cardinality(steps) < MaxNodes
    /\ steps' = steps \cup {n}
    /\ Wire({n}, D)
    /\ layer' = NewLayer(n, D)
    /\ index' = [index EXCEPT ![n] = Cardinality(steps)]
    /\ nodePath' = [nodePath EXCEPT ![n] = {Cardinality(steps)}]

(***************************************************************************)
(* mergeStep.                                                              *)
(***************************************************************************)
\* Mutant: a later layer is taken for a circle.
CircleByLayer(n, D) == \E d \in D \ depends[n] : layer[d] > layer[n]

\* forwardSearch, which a dependency on an earlier layer saves.
Circle(n, D) == \E d \in D \ depends[n] :
                    layer[d] > layer[n] /\ n \in Upstream(depends, d)

\* Mutant: the waiters keep their layers.
RaisedAlone(l, n) == l

\* updateWaitersLayer: the layers l, in which n was raised, after the waiters
\* of every raised step were raised above it.
Raised(l, n) ==
    LET f[k \in 0..Cardinality(Name)] ==
            IF k = 0 THEN l
            ELSE [w \in Name |->
                    Max({f[k-1][w]} \cup
                        {f[k-1][d] + 1 : d \in {x \in depends[w] :
                            x = n \/ f[k-1][x] > layer[x]}})]
    IN  f[Cardinality(Name)]

MergeStep(n, D) ==
    /\ n \in steps /\ D \subseteq steps \ {n}
    /\ ~Circle(n, D)
    /\ Wire({n}, D)
    /\ layer' = Raised(WiredLayer(layer, {n}, D), n)
    /\ UNCHANGED <<steps, index, nodePath>>

(***************************************************************************)
(* The building calls.                                                     *)
(***************************************************************************)
Call == phase = "build" /\ calls < MaxCalls /\ calls' = calls + 1

\* CustomStep of a new name; Follow and Parallel add their steps so.
CustomStep(n, D) ==
    /\ Call /\ AddStep(n, D)
    /\ heads' = IF D = {} THEN heads \cup {n} ELSE heads
    /\ UNCHANGED <<phase, other, todo, merged, behind>>

\* CustomStep of a merged step gives it more dependencies.
Redefine(n, D) ==
    /\ Call /\ ~behind /\ n \in merged /\ MergeStep(n, D)
    /\ UNCHANGED <<phase, other, todo, heads, merged, behind>>

SyncAll(n) ==
    /\ Call /\ AddStep(n, ends)
    /\ UNCHANGED <<phase, other, todo, heads, merged, behind>>

\* buildChain.After for the head of a serial chain or the steps G of a
\* parallel one.  A caller who closes a circle gets a process that never
\* starts: D is upstream of no step of G.  The waiters of G keep their layers;
\* when that leaves one behind, the model merges no more: Merge relies on the
\* layers to find a circle and need not end without them.
After(G, D) ==
    /\ Call
    /\ D \cap G = {}
    /\ \A n \in G, d \in D : n \notin Upstream(depends, d)
    /\ Wire(G, D)
    /\ layer' = WiredLayer(layer, G, D)
    /\ behind' = (behind \/ \E w \in steps : \E n \in depends[w] :
                                layer'[n] >= layer'[w])
    /\ UNCHANGED <<phase, other, todo, steps, heads, merged, index, nodePath>>

(***************************************************************************)
(* Merge, one step of the other process at a time.                         *)
(***************************************************************************)
\* The steps of the set S that a loop by the layers l may visit next.
Least(S, l) == {n \in S : \A x \in S : l[n] <= l[x]}

MergeBegin == /\ Call /\ ~behind
              /\ phase' = "merge" /\ todo' = MergedName
              /\ UNCHANGED <<other, steps, heads, merged, ends, depends, layer,
                             index, nodePath, behind>>

MergeAdd(n) == /\ phase = "merge" /\ n \in Least(todo, other.layer)
               /\ AddStep(n, other.depends[n])
               /\ merged' = merged \cup {n}
               /\ todo' = todo \ {n}
               /\ UNCHANGED <<phase, calls, other, heads, behind>>

MergeInto(n) == /\ phase = "merge" /\ n \in Least(todo, other.layer)
                /\ MergeStep(n, other.depends[n])
                /\ todo' = todo \ {n}
                /\ UNCHANGED <<phase, calls, other, heads, merged, behind>>

MergePanics(n) == /\ phase = "merge" /\ n \in Least(todo, other.layer)
                  /\ n \in steps /\ Circle(n, other.depends[n])
                  /\ phase' = "panic"
                  /\ UNCHANGED <<calls, other, todo, steps, heads, merged, ends,
                                 depends, layer, index, nodePath, behind>>

\* Mutant: the steps are numbered in the order of the map.
NumberingsAny == {f \in [steps -> 0..(Cardinality(steps) - 1)] :
                     \A m, n \in steps : m # n => f[m] # f[n]}

\* The numberings of the steps by layer.
Numberings == {f \in [steps -> 0..(Cardinality(steps) - 1)] :
                  \A m, n \in steps : /\ layer[m] < layer[n] => f[m] < f[n]
                                      /\ m # n => f[m] # f[n]}

MergeEnd == /\ phase = "merge" /\ todo = {}
            /\ \E f \in Numberings :
                  /\ index' = [n \in Name |-> IF n \in steps THEN f[n] ELSE 0]
                  /\ nodePath' = [n \in Name |-> IF n \in steps THEN {f[n]} ELSE {}]
            /\ phase' = "build"
            /\ UNCHANGED <<calls, other, todo, steps, heads, merged, ends, depends,
                           layer, behind>>

(***************************************************************************)
(* initialize and constructVisible.                                        *)
(***************************************************************************)
Initialize == /\ phase = "build" /\ steps # {}
              /\ phase' = "visible" /\ todo' = steps
              /\ UNCHANGED <<calls, other, steps, heads, merged, ends, depends,
                             layer, index, nodePath, behind>>

\* Mutant: a step hands on its own bit only.
HandedOnBit(n) == [w \in Name |-> IF n \in depends[w]
                                  THEN nodePath[w] \cup {index[n]}
                                  ELSE nodePath[w]]

\* A step hands the bits it has on to its waiters.
HandedOn(n) == [w \in Name |-> IF n \in depends[w]
                               THEN nodePath[w] \cup nodePath[n]
                               ELSE nodePath[w]]

Visit(n) == /\ phase = "visible" /\ n \in Least(todo, layer)
            /\ nodePath' = HandedOn(n)
            /\ todo' = todo \ {n}
            /\ UNCHANGED <<phase, calls, other, steps, heads, merged, ends,
                           depends, layer, index, behind>>

Ready == /\ phase = "visible" /\ todo = {}
         /\ phase' = "ready"
         /\ UNCHANGED <<calls, other, todo, steps, heads, merged, ends, depends,
                        layer, index, nodePath, behind>>

Terminated == phase \in {"ready", "panic"} /\ UNCHANGED vars

Next == \/ \E n \in Name, D \in SUBSET Name : CustomStep(n, D) \/ Redefine(n, D)
        \/ \E n \in Name : SyncAll(n)
        \/ \E G \in (SUBSET heads) \ {{}}, D \in (SUBSET steps) \ {{}} : After(G, D)
        \/ MergeBegin \/ MergeEnd
        \/ \E n \in Name : MergeAdd(n) \/ MergeInto(n) \/ MergePanics(n)
        \/ Initialize \/ Ready \/ Terminated
        \/ \E n \in Name : Visit(n)

Spec == Init /\ [][Next]_vars
-------------------------------------------------------------------------------
(***************************************************************************)
(* Properties.                                                             *)
(***************************************************************************)
\* schedule starts the steps of the first layer and the others are started by
\* their dependencies: a step of the first layer that has dependencies would
\* run twice or too early, one of a later layer that has none would never run.
FirstLayerStarts == \A n \in steps : layer[n] = 1 <=> depends[n] = {}

\* A process with a circle never ends.  CustomStep and Merge close none, even when
\* After has left a step behind: among any steps of the process there is one that
\* waits for no other of them.
NoCircle == \A S \in SUBSET steps : S # {} => \E n \in S : depends[n] \cap S = {}

\* Every step comes after its dependencies in the order that Merge and
\* constructVisible go by, unless After has left one behind; with or without
\* the layers, the process has no circle.
LayersFollowDepends ==
    /\ NoCircle
    /\ behind \/ \A n \in steps : \A d \in depends[n] : layer[d] < layer[n]

\* Merge gives up only if the two processes together have a circle.
PanicJustified ==
    phase = "panic" =>
        ~Acyclic([n \in Name |-> depends[n] \cup
                     IF n \in MergedName THEN other.depends[n] ELSE {}])

\* Every step leads to an end, so that a step added by SyncAll waits for all.
EndsCover == \A n \in steps : \E e \in ends : e = n \/ n \in Upstream(depends, e)

\* No two steps have the same bit, and a step sees the data of the steps upstream
\* of it and of no other step.  When After has left a step behind, it may miss
\* some; those it depends on itself it still sees, and no stranger.
VisibleIsUpstream ==
    phase = "ready" =>
        /\ \A m, n \in steps : index[m] = index[n] => m = n
        /\ \A n \in steps :
               LET seen == {m \in steps : index[m] \in nodePath[n]}
                   all == Upstream(depends, n) \cup {n}
               IN  /\ nodePath[n] = {index[m] : m \in seen}
                   /\ depends[n] \cup {n} \subseteq seen /\ seen \subseteq all
                   /\ ~behind => seen = all

\* Merge: "ensure step index bigger than all depends index"; when it ends, the
\* highest bit a step will see is its own.
MergeNumbersUpwards ==
    [][phase = "merge" /\ phase' = "build" =>
          \A n \in steps' : \A d \in Upstream(depends', n) : index'[d] < index'[n]]_vars
===============================================================================

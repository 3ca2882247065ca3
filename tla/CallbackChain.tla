---------------------------- MODULE CallbackChain ----------------------------
(***************************************************************************)
(* The callbacks around one unit -- a step, or a process or flow -- over   *)
(* an execution and its recoveries (flow/callback.go).                     *)
(*                                                                         *)
(* A unit has six chains: the before chains of the default, the flow and   *)
(* the process scope, and the after chains in the same order.  They are    *)
(* numbered in the order of Stage0, 1..3 and 4..6; the body of the unit    *)
(* lies between 3 and 4.  A callback is a pair of a stage and an index.    *)
(***************************************************************************)
EXTENDS Integers

CONSTANTS Length,       \* Length[g]: the callbacks of chain g
          Must,         \* Must[g]: the first Must[g] of them are must callbacks
          MaxRuns       \* bound on the number of executions

Stage == 1..6
Before == 1..3
DefaultAfter == 4

ASSUME ChainAssumption ==
    /\ Length \in [Stage -> Nat]
    /\ Must \in [Stage -> Nat]
    /\ \A g \in Stage : Must[g] <= Length[g]
    /\ MaxRuns \in Nat \ {0}

VARIABLES
    kind,       \* "step", or "process" for a process or a flow
    at,         \* "enter" a chain, "chain", "body" or "end"
    stage,      \* the chain that is entered or executed
    index,      \* the next callback of that chain
    recovering, \* the unit has Recovering
    fail,       \* the unit has CallbackFail
    body,       \* the body when it was last reached: "none", "ok" or "failed"
    bp,         \* the break point in the context of the unit
    runs,       \* executions so far
    passed,     \* history: callbacks that were called and did not fail
    failing,    \* history: must callbacks whose last call failed
    left,       \* history: callbacks after one that ended its chain
    over,       \* history: callbacks passed over by the index of another chain
    done        \* history: the body has succeeded

history == <<passed, failing, left, over, done>>
vars == <<kind, at, stage, index, recovering, fail, body, bp, runs, history>>

Callback == UNION {{g} \X (0..(Length[g] - 1)) : g \in Stage}
MustCallback == {c \in Callback : c[2] < Must[c[1]]}

NoPoint == [stage |-> 0, index |-> 0, skipRun |-> FALSE, used |-> FALSE]
Point(g, i, skipRun) ==
    [stage |-> g, index |-> i, skipRun |-> skipRun, used |-> FALSE]

Init == /\ kind \in {"step", "process"}
        /\ at = "enter" /\ stage = 1 /\ index = 0
        /\ recovering = FALSE /\ fail = FALSE /\ body = "none"
        /\ bp = NoPoint /\ runs = 1
        /\ passed = {} /\ failing = {} /\ left = {} /\ over = {}
        /\ done = FALSE

\* What follows chain g: the next chain, the body or the end of the unit.
Follow(g) == IF g = 6 THEN at' = "end" /\ UNCHANGED stage
             ELSE /\ at' = IF g = 3 THEN "body" ELSE "enter"
                  /\ stage' = g + 1

(***************************************************************************)
(* funcChain.filter up to the loop.                                        *)
(***************************************************************************)
\* Mutant: the before chains of a process are called again.
PassedOverNever(g) == \/ Length[g] = 0
                      \/ recovering /\ bp # NoPoint /\ g < bp.stage

\* An empty chain, a chain before the break point, and the before chains of a
\* process or flow that has no break point are passed over by a recovery.
PassedOver(g) == \/ Length[g] = 0
                 \/ recovering /\ bp # NoPoint /\ g < bp.stage
                 \/ recovering /\ bp = NoPoint /\ g \in Before /\ kind # "step"

PassOver == /\ at = "enter" /\ PassedOver(stage)
            /\ Follow(stage)
            /\ UNCHANGED <<kind, index, recovering, fail, body, bp, runs, history>>

\* Mutant: the callback after the one that failed is the first.
BeginNext == IF recovering /\ bp # NoPoint THEN bp.index + 1 ELSE 0

\* The loop begins at the index of the break point, whichever chain it is of.
Begin == IF recovering /\ bp # NoPoint THEN bp.index ELSE 0

EnterChain == /\ at = "enter" /\ ~PassedOver(stage)
              /\ index' = Begin
              /\ at' = "chain"
              /\ over' = over \cup (IF stage = bp.stage THEN {}
                                     ELSE {stage} \X (0..(index' - 1)))
              /\ UNCHANGED <<kind, stage, recovering, fail, body, bp, runs, passed,
                             failing, left, done>>

(***************************************************************************)
(* The loop of funcChain.filter, one callback at a time.                   *)
(***************************************************************************)
\* The callbacks of the chain in hand from index i on.
Rest(i) == {c \in Callback : c[1] = stage /\ c[2] >= i}

ChainEnds == /\ at = "chain" /\ index >= Length[stage]
             /\ Follow(stage)
             /\ UNCHANGED <<kind, index, recovering, fail, body, bp, runs, history>>

Called == at = "chain" /\ index < Length[stage]

KeepOn == /\ Called
          /\ index' = index + 1
          /\ passed' = passed \cup {<<stage, index>>}
          /\ failing' = failing \ {<<stage, index>>}
          /\ UNCHANGED <<kind, at, stage, recovering, fail, body, bp, runs, left,
                         over, done>>

\* A callback that does not keep on, and a non-must callback that returns an
\* error or panics, end their chain and nothing else.
Break == /\ Called
         /\ Follow(stage)
         /\ passed' = passed \cup {<<stage, index>>}
         /\ left' = left \cup Rest(index + 1)
         /\ failing' = failing \ Rest(index)
         /\ UNCHANGED <<kind, index, recovering, fail, body, bp, runs, over,
                        done>>

\* Mutant: the break point of the body is overwritten.
SavedAlways == IF stage \notin Before /\ kind # "step"
               THEN Point(DefaultAfter, 0, TRUE)
               ELSE Point(stage, index, stage \notin Before)

\* A break point of this execution is kept; the after chains of a process or
\* flow are replayed from the first.
Saved == IF bp # NoPoint /\ ~bp.used THEN bp
         ELSE IF stage \notin Before /\ kind # "step"
              THEN Point(DefaultAfter, 0, TRUE)
              ELSE Point(stage, index, stage \notin Before)

\* The callback in hand is a must callback.
Necessary == index < Must[stage]

\* A must callback returns an error or panics: no other chain is called.
MustFails == /\ Called /\ Necessary
             /\ fail' = TRUE
             /\ bp' = Saved
             /\ failing' = failing \cup {<<stage, index>>}
             /\ at' = "end"
             /\ UNCHANGED <<kind, stage, index, recovering, body, runs, passed,
                            left, over, done>>

(***************************************************************************)
(* The body: runStep for a step; for a process its steps, of which those   *)
(* that are not normal have checkpoints of their own and are executed      *)
(* again whatever the break point of the process says.                     *)
(***************************************************************************)
\* Mutant: any break point passes the body over.
BodySkippedAlways == recovering /\ bp # NoPoint /\ (kind = "step" \/ body = "ok")

BodySkipped == recovering /\ bp.skipRun /\ (kind = "step" \/ body = "ok")

SkipBody == /\ at = "body" /\ BodySkipped
            /\ at' = "enter" /\ body' = "ok"
            /\ UNCHANGED <<kind, stage, index, recovering, fail, bp, runs, history>>

RunBody ==
    /\ at = "body" /\ ~BodySkipped
    /\ at' = "enter"
    /\ \/ body' = "ok" /\ done' = TRUE /\ UNCHANGED bp
       \/ /\ body' = "failed"
          /\ bp' = IF kind = "step" THEN Point(DefaultAfter, 0, FALSE) ELSE bp
          /\ UNCHANGED done
    /\ UNCHANGED <<kind, stage, index, recovering, fail, runs, passed, failing,
                   left, over>>

(***************************************************************************)
(* A checkpoint keeps the break point unless it was loaded from the one    *)
(* before; the recovery marks it as used.                                  *)
(***************************************************************************)
\* Mutant: the break point is not marked as used.
ReloadedUnused == IF bp = NoPoint \/ bp.used THEN NoPoint ELSE bp

Reloaded == IF bp = NoPoint \/ bp.used THEN NoPoint
            ELSE [bp EXCEPT !.used = TRUE]

Recover == /\ at = "end" /\ (fail \/ body = "failed") /\ runs < MaxRuns
           /\ at' = "enter" /\ stage' = 1 /\ index' = 0
           /\ recovering' = TRUE /\ fail' = FALSE
           /\ bp' = Reloaded
           /\ runs' = runs + 1
           /\ UNCHANGED <<kind, body, history>>

Terminated == /\ at = "end" /\ ((~fail /\ body = "ok") \/ runs = MaxRuns)
              /\ UNCHANGED vars

Next == PassOver \/ EnterChain \/ ChainEnds \/ KeepOn \/ Break \/ MustFails
        \/ SkipBody \/ RunBody \/ Recover \/ Terminated

Spec == Init /\ [][Next]_vars
-------------------------------------------------------------------------------
(***************************************************************************)
(* Properties.                                                             *)
(***************************************************************************)
\* The unit has ended and is not failed.
EndedWell == at = "end" /\ ~fail /\ body = "ok"

\* A before callback that has passed is not called again by any recovery:
\* recovery goes on from the failed step or callback.
BeforeOnce == Called /\ stage \in Before => <<stage, index>> \notin passed

\* A unit that ends well has run its body, and no must callback failed the
\* last time it was called, over any number of recoveries; those apart that
\* the index of a break point of an earlier chain has passed over.
NoFailureForgotten == EndedWell => done /\ failing \subseteq over

\* Neither the body nor a chain further on is reached past a must callback of
\* a before chain that failed the last time it was called.
FailureBlocks == \A c \in failing :
    c[1] \in Before => at # "body" /\ (at = "chain" => stage <= c[1])

\* The break point a failed execution leaves says where to go on: it is new,
\* and it passes the body over only if the body has succeeded.
PointTells == at = "end" /\ fail => bp # NoPoint /\ ~bp.used /\
                                    (bp.skipRun => body = "ok" \/ kind # "step")

\* The chains, the index and the rule for the break point implement a unit whose
\* callbacks before and after the body are one move each, with the guards and break
\* points that the models of a process and of its recovery suppose.
place == CASE at \in {"body", "end"} -> at
           [] OTHER -> IF stage \in Before THEN "before" ELSE "after"
point == CASE bp = NoPoint -> "none"
           [] bp # NoPoint /\ bp.skipRun -> IF bp.used THEN "oldAfter" ELSE "newAfter"
           [] bp # NoPoint /\ ~bp.skipRun /\ bp.stage \in Before ->
                IF bp.used THEN "oldBefore" ELSE "newBefore"
           [] OTHER -> IF bp.used THEN "oldRun" ELSE "newRun"
Unit == INSTANCE UnitRun
RefinesUnit == Unit!Spec

\* Callback.en.md: must callbacks ensure that "critical logic is not
\* overlooked": a unit that ends well has passed every one of them, those
\* apart whose chain was ended by a callback before them.
MustNotOverlooked == EndedWell => MustCallback \subseteq passed \cup left
===============================================================================

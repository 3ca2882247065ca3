------------------------- MODULE CallbackChain_proofs -------------------------
(***************************************************************************)
(* Proofs about the callbacks around one unit, for chains of any length    *)
(* and any number of recoveries.                                           *)
(***************************************************************************)
EXTENDS CallbackChain, TLAPS

TypeOK ==
    /\ kind \in {"step", "process"}
    /\ at \in {"enter", "chain", "body", "end"}
    /\ stage \in Stage /\ index \in Nat
    /\ at = "body" => stage = DefaultAfter
    /\ recovering \in BOOLEAN /\ fail \in BOOLEAN /\ done \in BOOLEAN
    /\ body \in {"none", "ok", "failed"}
    /\ bp \in [stage : 0..6, index : Nat, skipRun : BOOLEAN, used : BOOLEAN]
    /\ bp = NoPoint \/ bp.stage # 0
    /\ passed \subseteq Callback /\ failing \subseteq Callback

BodyPoint == Point(DefaultAfter, 0, FALSE)

\* The break points.  One that is new while the unit still executes is that of
\* the body of a step; the unit that failed leaves one that tells the truth; a
\* step is never recovered without one.
PointInv ==
    /\ at # "end" => ~fail
    /\ at = "end" /\ ~fail => stage >= DefaultAfter
    /\ bp.used => recovering
    /\ kind = "step" /\ recovering => bp # NoPoint
    /\ bp # NoPoint /\ ~bp.used /\ ~fail =>
          kind = "step" /\ bp = BodyPoint /\ stage >= DefaultAfter /\ at # "body"
    /\ kind = "step" /\ stage >= DefaultAfter /\ at # "body" /\ ~fail =>
          body = "ok" \/ bp = BodyPoint
    /\ PointTells

BodyInv == (body = "ok" => done) /\ (kind = "step" /\ bp.skipRun => done)

\* Callback i of chain g comes before callback j of chain h.
Precedes(g, i, h, j) == g < h \/ (g = h /\ i < j)

\* The before callbacks that have passed lie before the place where the execution
\* is, or the one that recovers it will begin.
PassedInv ==
    \A g \in Before, i \in Nat : <<g, i>> \in passed =>
        /\ at = "enter" =>
              \/ g < stage
              \/ recovering /\ bp = NoPoint /\ kind # "step"
              \/ recovering /\ bp # NoPoint /\ Precedes(g, i, bp.stage, bp.index)
        /\ at = "chain" => Precedes(g, i, stage, index)
        /\ at = "end" /\ fail => Precedes(g, i, bp.stage, bp.index)

\* A must callback that failed lies ahead: the break point is not behind it.  If it
\* is a before callback, the break point is that callback.
FailingInv ==
    \A g \in Stage, i \in Nat : <<g, i>> \in failing =>
        \/ g \notin Before /\ <<g, i>> \in over
        \/ /\ bp # NoPoint /\ ~Precedes(g, i, bp.stage, bp.index)
           /\ g \in Before => bp.stage = g /\ bp.index = i
           /\ at = "end" => fail
           /\ at \in {"enter", "body"} => g >= stage
           /\ at = "chain" => ~Precedes(g, i, stage, index)
           /\ at = "chain" /\ g \in Before => stage = g /\ index = i

ChainInv == TypeOK /\ PointInv /\ BodyInv /\ PassedInv /\ FailingInv

LEMMA CallbackPair ==
  ASSUME NEW g, NEW i
  PROVE  <<g, i>> \in Callback <=> g \in Stage /\ i \in Nat /\ i < Length[g]
<1>1. <<g, i>> \in Callback <=> g \in Stage /\ i \in 0..(Length[g] - 1)
  BY DEF Callback
<1>2. g \in Stage => Length[g] \in Nat
  BY ChainAssumption
<1>3. QED
  BY <1>1, <1>2

LEMMA PairOfCallback ==
  ASSUME NEW c \in Callback
  PROVE  c[1] \in Stage /\ c[2] \in Nat /\ c = <<c[1], c[2]>>
<1>1. PICK g \in Stage : c \in {g} \X (0..(Length[g] - 1))
  BY DEF Callback
<1>2. c = <<c[1], c[2]>> /\ c[1] = g /\ c[2] \in 0..(Length[g] - 1)
  BY <1>1
<1>3. Length[g] \in Nat
  BY ChainAssumption
<1>4. QED
  BY <1>1, <1>2, <1>3

LEMMA InitInv == Init => ChainInv
<1> SUFFICES ASSUME Init PROVE ChainInv
  OBVIOUS
<1>1. TypeOK /\ PointInv /\ BodyInv
  <2>1. NoPoint.skipRun = FALSE /\ NoPoint.used = FALSE /\ NoPoint.stage = 0
    BY DEF NoPoint
  <2>2. NoPoint \in [stage : 0..6, index : Nat, skipRun : BOOLEAN, used : BOOLEAN]
    BY DEF NoPoint
  <2>3. TypeOK
    <3>1. stage \in Stage /\ index \in Nat
      BY DEF Init, Stage
    <3>2. bp = NoPoint /\ passed = {} /\ failing = {} /\ at = "enter" /\ at # "body"
      BY DEF Init
    <3>3. QED
      BY <2>2, <3>1, <3>2, Zenon DEF Init, TypeOK
  <2>4. PointInv /\ BodyInv
    BY <2>1 DEF Init, DefaultAfter, PointInv, PointTells, BodyInv
  <2>5. QED
    BY <2>3, <2>4
<1>2. PassedInv /\ FailingInv
  BY DEF Init, PassedInv, FailingInv
<1>3. QED
  BY <1>1, <1>2 DEF ChainInv

\* What follows a chain that ends; the break point stays.
LEMMA FollowType ==
  ASSUME TypeOK, Follow(stage)
  PROVE  /\ stage' \in Stage /\ at' \in {"enter", "body", "end"}
         /\ at' = "enter" => stage' = stage + 1 /\ stage # 3
         /\ at' = "body" => stage' = DefaultAfter /\ stage = 3
         /\ at' = "end" => stage = 6 /\ stage' = 6
  BY DEF TypeOK, Follow, Stage, DefaultAfter

LEMMA PassOverKeeps ==
  ASSUME ChainInv, PassOver
  PROVE  ChainInv'
<1>1. /\ at = "enter" /\ PassedOver(stage)
      /\ UNCHANGED <<kind, index, recovering, fail, body, bp, passed, failing, over, done>>
  BY DEF PassOver, history
<1>2. /\ stage' \in Stage /\ at' \in {"enter", "body", "end"}
      /\ at' = "enter" => stage' = stage + 1 /\ stage # 3
      /\ at' = "body" => stage' = DefaultAfter /\ stage = 3
      /\ at' = "end" => stage = 6 /\ stage' = 6
  BY FollowType DEF PassOver, ChainInv
<1>3. TypeOK'
  BY <1>1, <1>2 DEF ChainInv, TypeOK, Callback
<1>4. PointInv' /\ BodyInv'
  BY <1>1, <1>2 DEF ChainInv, TypeOK, PointInv, PointTells, BodyInv, DefaultAfter, Stage,
                    BodyPoint, Point, NoPoint
<1>5. PassedInv'
  BY <1>1, <1>2 DEF ChainInv, TypeOK, PointInv, PassedInv, Precedes, DefaultAfter, Stage, Before
<1>6. FailingInv'
  <2>1. SUFFICES ASSUME NEW g \in Stage, NEW i \in Nat, <<g, i>> \in failing,
                        ~(g \notin Before /\ <<g, i>> \in over)
                 PROVE  /\ bp # NoPoint /\ ~Precedes(g, i, bp.stage, bp.index)
                        /\ g \in Before => bp.stage = g /\ bp.index = i
                        /\ at' # "end" /\ g >= stage'
    BY <1>1, <1>2 DEF FailingInv
  <2>2. /\ bp # NoPoint /\ ~Precedes(g, i, bp.stage, bp.index)
        /\ g \in Before => bp.stage = g /\ bp.index = i
        /\ g >= stage
    BY <1>1, <2>1 DEF ChainInv, FailingInv
  <2>3. i < Length[g]
    BY <2>1, CallbackPair DEF ChainInv, TypeOK
  <2>4. g # stage
    BY <1>1, <2>2, <2>3 DEF PassedOver, Precedes, ChainInv, TypeOK, Stage
  <2>5. QED
    BY <1>1, <1>2, <2>1, <2>2, <2>4 DEF ChainInv, TypeOK, Stage, DefaultAfter
<1>7. QED
  BY <1>3, <1>4, <1>5, <1>6 DEF ChainInv

\* The index at which a chain begins.
LEMMA BeginIndex ==
  ASSUME TypeOK
  PROVE  Begin \in Nat /\ Begin = IF recovering /\ bp # NoPoint THEN bp.index ELSE 0
  BY DEF TypeOK, Begin

LEMMA EnterKeeps ==
  ASSUME ChainInv, EnterChain
  PROVE  ChainInv'
<1>1. /\ at = "enter" /\ ~PassedOver(stage) /\ at' = "chain" /\ index' = Begin
      /\ over' = over \cup (IF stage = bp.stage THEN {} ELSE {stage} \X (0..(index' - 1)))
      /\ UNCHANGED <<kind, stage, recovering, fail, body, bp, passed, failing, done>>
  BY DEF EnterChain
<1>2. index' \in Nat /\ index' = IF recovering /\ bp # NoPoint THEN bp.index ELSE 0
  BY <1>1, BeginIndex DEF ChainInv
<1>3. TypeOK'
  BY <1>1, <1>2 DEF ChainInv, TypeOK, Callback
<1>4. PointInv' /\ BodyInv'
  BY <1>1 DEF ChainInv, TypeOK, PointInv, PointTells, BodyInv
<1>5. /\ recovering /\ bp # NoPoint => stage >= bp.stage
      /\ ~(recovering /\ bp = NoPoint /\ stage \in Before /\ kind # "step")
  BY <1>1 DEF PassedOver, ChainInv, TypeOK, Stage
<1>6. PassedInv'
  BY <1>1, <1>2, <1>5 DEF ChainInv, TypeOK, PassedInv, Precedes, Stage, Before
<1>7. FailingInv'
  <2>1. SUFFICES ASSUME NEW g \in Stage, NEW i \in Nat, <<g, i>> \in failing,
                        ~(g \notin Before /\ <<g, i>> \in over')
                 PROVE  /\ bp # NoPoint /\ ~Precedes(g, i, bp.stage, bp.index)
                        /\ g \in Before => bp.stage = g /\ bp.index = i
                        /\ ~Precedes(g, i, stage, index')
                        /\ g \in Before => stage = g /\ index' = i
    BY <1>1 DEF FailingInv
  <2>2. /\ bp # NoPoint /\ ~Precedes(g, i, bp.stage, bp.index)
        /\ g \in Before => bp.stage = g /\ bp.index = i
        /\ g >= stage
    BY <1>1, <2>1 DEF ChainInv, FailingInv
  <2>3. CASE g \in Before
    <3>1. recovering
      BY <1>1, <2>2, <2>3 DEF ChainInv, TypeOK, PointInv, Before, DefaultAfter, Stage
    <3>2. stage = g /\ index' = i
      BY <1>2, <1>5, <2>2, <2>3, <3>1 DEF ChainInv, TypeOK, Stage
    <3>3. QED
      BY <1>2, <2>2, <3>2 DEF Precedes, Stage
  <2>4. CASE g \notin Before
    <3>1. <<g, i>> \notin over'
      BY <2>1, <2>4
    <3>2. g = stage /\ stage # bp.stage => ~(i < index')
      BY <1>1, <1>2, <3>1
    <3>3. g = stage => ~(i < index')
      BY <1>2, <2>2, <3>2 DEF Precedes, Stage
    <3>4. QED
      BY <1>2, <2>2, <2>4, <3>3 DEF Precedes, ChainInv, TypeOK, Stage
  <2>5. QED
    BY <2>3, <2>4
<1>8. QED
  BY <1>3, <1>4, <1>6, <1>7 DEF ChainInv

LEMMA EndsKeeps ==
  ASSUME ChainInv, ChainEnds
  PROVE  ChainInv'
<1>1. /\ at = "chain" /\ index >= Length[stage]
      /\ UNCHANGED <<kind, index, recovering, fail, body, bp, passed, failing, over, done>>
  BY DEF ChainEnds, history
<1>2. /\ stage' \in Stage /\ at' \in {"enter", "body", "end"}
      /\ at' = "enter" => stage' = stage + 1 /\ stage # 3
      /\ at' = "body" => stage' = DefaultAfter /\ stage = 3
      /\ at' = "end" => stage = 6 /\ stage' = 6
  BY FollowType DEF ChainEnds, ChainInv
<1>3. TypeOK'
  BY <1>1, <1>2 DEF ChainInv, TypeOK, Callback
<1>4. PointInv' /\ BodyInv'
  BY <1>1, <1>2 DEF ChainInv, TypeOK, PointInv, PointTells, BodyInv, DefaultAfter, Stage,
                    BodyPoint, Point, NoPoint
<1>5. PassedInv'
  BY <1>1, <1>2 DEF ChainInv, TypeOK, PointInv, PassedInv, Precedes, DefaultAfter, Stage, Before
<1>6. FailingInv'
  <2>1. SUFFICES ASSUME NEW g \in Stage, NEW i \in Nat, <<g, i>> \in failing,
                        ~(g \notin Before /\ <<g, i>> \in over)
                 PROVE  /\ bp # NoPoint /\ ~Precedes(g, i, bp.stage, bp.index)
                        /\ g \in Before => bp.stage = g /\ bp.index = i
                        /\ at' # "end" /\ g >= stage'
    BY <1>1, <1>2 DEF FailingInv
  <2>2. /\ bp # NoPoint /\ ~Precedes(g, i, bp.stage, bp.index)
        /\ g \in Before => bp.stage = g /\ bp.index = i
        /\ ~Precedes(g, i, stage, index)
    BY <1>1, <2>1 DEF ChainInv, FailingInv
  <2>3. i < Length[g]
    BY <2>1, CallbackPair DEF ChainInv, TypeOK
  <2>4. g > stage
    BY <1>1, <2>2, <2>3, ChainAssumption DEF Precedes, ChainInv, TypeOK, Stage
  <2>5. QED
    BY <1>1, <1>2, <2>1, <2>2, <2>4 DEF ChainInv, TypeOK, Stage, DefaultAfter
<1>7. QED
  BY <1>3, <1>4, <1>5, <1>6 DEF ChainInv

LEMMA KeepOnKeeps ==
  ASSUME ChainInv, KeepOn
  PROVE  ChainInv'
<1>1. /\ at = "chain" /\ index < Length[stage] /\ index' = index + 1
      /\ passed' = passed \cup {<<stage, index>>}
      /\ failing' = failing \ {<<stage, index>>}
      /\ UNCHANGED <<kind, at, stage, recovering, fail, body, bp, over, done>>
  BY DEF KeepOn, Called
<1>2. <<stage, index>> \in Callback
  BY <1>1, CallbackPair DEF ChainInv, TypeOK
<1>3. TypeOK'
  BY <1>1, <1>2 DEF ChainInv, TypeOK
<1>4. PointInv' /\ BodyInv'
  BY <1>1 DEF ChainInv, TypeOK, PointInv, PointTells, BodyInv
<1>5. PassedInv'
  BY <1>1 DEF ChainInv, TypeOK, PassedInv, Precedes, Stage, Before
<1>6. FailingInv'
  BY <1>1 DEF ChainInv, TypeOK, FailingInv, Precedes, Stage, Before
<1>7. QED
  BY <1>3, <1>4, <1>5, <1>6 DEF ChainInv

LEMMA BreakKeeps ==
  ASSUME ChainInv, Break
  PROVE  ChainInv'
<1>1. /\ at = "chain" /\ index < Length[stage]
      /\ passed' = passed \cup {<<stage, index>>}
      /\ failing' = failing \ Rest(index)
      /\ UNCHANGED <<kind, index, recovering, fail, body, bp, over, done>>
  BY DEF Break, Called
<1>2. /\ stage' \in Stage /\ at' \in {"enter", "body", "end"}
      /\ at' = "enter" => stage' = stage + 1 /\ stage # 3
      /\ at' = "body" => stage' = DefaultAfter /\ stage = 3
      /\ at' = "end" => stage = 6 /\ stage' = 6
  BY FollowType DEF Break, ChainInv
<1>3. <<stage, index>> \in Callback
  BY <1>1, CallbackPair DEF ChainInv, TypeOK
<1>4. TypeOK'
  BY <1>1, <1>2, <1>3 DEF ChainInv, TypeOK
<1>5. PointInv' /\ BodyInv'
  BY <1>1, <1>2 DEF ChainInv, TypeOK, PointInv, PointTells, BodyInv, DefaultAfter, Stage,
                    BodyPoint, Point, NoPoint
<1>6. PassedInv'
  BY <1>1, <1>2 DEF ChainInv, TypeOK, PointInv, PassedInv, Precedes, DefaultAfter, Stage, Before
<1>7. FailingInv'
  <2>1. SUFFICES ASSUME NEW g \in Stage, NEW i \in Nat, <<g, i>> \in failing',
                        ~(g \notin Before /\ <<g, i>> \in over)
                 PROVE  /\ bp # NoPoint /\ ~Precedes(g, i, bp.stage, bp.index)
                        /\ g \in Before => bp.stage = g /\ bp.index = i
                        /\ at' # "end" /\ g >= stage'
    BY <1>1, <1>2 DEF FailingInv
  <2>2. <<g, i>> \in failing /\ <<g, i>> \notin Rest(index)
    BY <1>1, <2>1
  <2>3. /\ bp # NoPoint /\ ~Precedes(g, i, bp.stage, bp.index)
        /\ g \in Before => bp.stage = g /\ bp.index = i
        /\ ~Precedes(g, i, stage, index)
    BY <1>1, <2>1, <2>2 DEF ChainInv, FailingInv
  <2>4. <<g, i>> \in Callback
    BY <2>2 DEF ChainInv, TypeOK
  <2>5. g > stage
    BY <2>2, <2>3, <2>4 DEF Rest, Precedes, ChainInv, TypeOK, Stage
  <2>6. QED
    BY <1>1, <1>2, <2>1, <2>3, <2>5 DEF ChainInv, TypeOK, Stage, DefaultAfter
<1>8. QED
  BY <1>4, <1>5, <1>6, <1>7 DEF ChainInv

\* The break point of a must callback that fails.
LEMMA SavedPoint ==
  ASSUME ChainInv, MustFails
  PROVE  /\ bp' \in [stage : 0..6, index : Nat, skipRun : BOOLEAN, used : BOOLEAN]
         /\ bp' # NoPoint /\ ~bp'.used /\ bp'.stage # 0
         /\ \/ bp' = BodyPoint /\ kind = "step" /\ stage >= DefaultAfter
            \/ /\ bp' = Point(DefaultAfter, 0, TRUE)
               /\ stage >= DefaultAfter /\ kind # "step"
            \/ /\ bp' = Point(stage, index, stage \notin Before)
               /\ kind = "step" /\ stage >= DefaultAfter => body = "ok"
<1>1. bp' = Saved /\ at = "chain" /\ ~fail
  BY DEF MustFails, Called, ChainInv, PointInv
<1>2. CASE bp # NoPoint /\ ~bp.used
  BY <1>1, <1>2 DEF Saved, ChainInv, TypeOK, PointInv, BodyPoint, Point, DefaultAfter
<1>3. CASE ~(bp # NoPoint /\ ~bp.used)
  <2>1. CASE stage \notin Before /\ kind # "step"
    BY <1>1, <1>3, <2>1
       DEF Saved, Point, NoPoint, DefaultAfter, ChainInv, TypeOK, Stage, Before
  <2>2. CASE ~(stage \notin Before /\ kind # "step")
    <3>1. bp' = Point(stage, index, stage \notin Before)
      BY <1>1, <1>3, <2>2 DEF Saved
    <3>2. bp # BodyPoint
      BY <1>3 DEF BodyPoint, Point, NoPoint, DefaultAfter
    <3>3. kind = "step" /\ stage >= DefaultAfter => body = "ok"
      BY <1>1, <3>2 DEF ChainInv, PointInv
    <3>4. QED
      BY <3>1, <3>3 DEF Point, NoPoint, ChainInv, TypeOK, Stage
  <2>3. QED
    BY <2>1, <2>2
<1>4. QED
  BY <1>2, <1>3

LEMMA MustFailsKeeps ==
  ASSUME ChainInv, MustFails
  PROVE  ChainInv'
<1>1. /\ at = "chain" /\ index < Length[stage] /\ at' = "end" /\ fail' = TRUE
      /\ failing' = failing \cup {<<stage, index>>}
      /\ UNCHANGED <<kind, stage, index, recovering, body, passed, over, done>>
  BY DEF MustFails, Called, Necessary
<1>2. <<stage, index>> \in Callback
  BY <1>1, CallbackPair DEF ChainInv, TypeOK
<1>3. TypeOK'
  BY <1>1, <1>2, SavedPoint DEF ChainInv, TypeOK
<1>4. PointInv'
  BY <1>1, SavedPoint DEF ChainInv, TypeOK, PointInv, PointTells, BodyPoint, Point,
                          DefaultAfter, Before, Stage
<1>5. BodyInv'
  BY <1>1, SavedPoint DEF ChainInv, TypeOK, BodyInv, BodyPoint, Point, DefaultAfter, Before,
                          Stage
<1>6. PassedInv'
  BY <1>1, SavedPoint DEF ChainInv, TypeOK, PassedInv, Precedes, BodyPoint, Point,
                          DefaultAfter, Before, Stage
<1>7. FailingInv'
  <2>1. SUFFICES ASSUME NEW g \in Stage, NEW i \in Nat, <<g, i>> \in failing',
                        ~(g \notin Before /\ <<g, i>> \in over)
                 PROVE  /\ ~Precedes(g, i, bp'.stage, bp'.index)
                        /\ g \in Before => bp'.stage = g /\ bp'.index = i
    BY <1>1, SavedPoint DEF FailingInv
  <2>2. /\ ~Precedes(g, i, stage, index)
        /\ g \in Before => stage = g /\ index = i
    <3>1. CASE <<g, i>> = <<stage, index>>
      BY <3>1 DEF Precedes, ChainInv, TypeOK, Stage
    <3>2. CASE <<g, i>> \in failing
      BY <1>1, <2>1, <3>2 DEF ChainInv, FailingInv
    <3>3. QED
      BY <1>1, <2>1, <3>1, <3>2
  <2>3. QED
    BY <2>2, SavedPoint DEF Precedes, BodyPoint, Point, DefaultAfter, Before, Stage, ChainInv,
                            TypeOK
<1>8. QED
  BY <1>3, <1>4, <1>5, <1>6, <1>7 DEF ChainInv

LEMMA BodyKeeps ==
  ASSUME ChainInv, SkipBody \/ RunBody
  PROVE  ChainInv'
<1>1. /\ at = "body" /\ at' = "enter" /\ stage = DefaultAfter /\ ~fail
      /\ UNCHANGED <<kind, stage, index, recovering, fail, passed, failing, over>>
  BY DEF SkipBody, RunBody, history, ChainInv, TypeOK, PointInv
<1>2. \/ body' = "ok" /\ done' = TRUE /\ UNCHANGED bp
      \/ body' = "failed" /\ UNCHANGED done /\ bp' = IF kind = "step" THEN BodyPoint ELSE bp
      \/ body' = "ok" /\ UNCHANGED <<bp, done>> /\ bp.skipRun /\ (kind = "step" \/ body = "ok")
  BY DEF SkipBody, RunBody, BodySkipped, history, BodyPoint
<1>3. bp = NoPoint \/ bp.used
  BY <1>1 DEF ChainInv, PointInv
<1>4. TypeOK'
  <2>1. BodyPoint \in [stage : 0..6, index : Nat, skipRun : BOOLEAN, used : BOOLEAN]
        /\ BodyPoint.stage # 0
    BY DEF BodyPoint, Point, DefaultAfter
  <2>2. bp' = bp \/ bp' = BodyPoint
    BY <1>2
  <2>3. body' \in {"none", "ok", "failed"} /\ (done' = TRUE \/ done' = done)
    BY <1>2
  <2>4. QED
    BY <1>1, <2>1, <2>2, <2>3, Zenon DEF ChainInv, TypeOK
<1>5. PointInv'
  BY <1>1, <1>2, <1>3 DEF ChainInv, TypeOK, PointInv, PointTells, BodyPoint, Point, NoPoint,
                          DefaultAfter
<1>6. BodyInv'
  <2>1. ~BodyPoint.skipRun
    BY DEF BodyPoint, Point
  <2>2. CASE done' = TRUE
    BY <2>2, Zenon DEF BodyInv
  <2>3. CASE body' = "failed" /\ UNCHANGED done /\ bp' = IF kind = "step" THEN BodyPoint ELSE bp
    BY <1>1, <2>1, <2>3 DEF BodyInv
  <2>4. CASE body' = "ok" /\ UNCHANGED <<bp, done>> /\ bp.skipRun
             /\ (kind = "step" \/ body = "ok")
    BY <1>1, <2>4 DEF ChainInv, BodyInv
  <2>5. QED
    BY <1>2, <2>2, <2>3, <2>4
<1>7. PassedInv'
  BY <1>1 DEF PassedInv, DefaultAfter, Before
<1>8. FailingInv'
  <2>1. SUFFICES ASSUME NEW g \in Stage, NEW i \in Nat, <<g, i>> \in failing,
                        ~(g \notin Before /\ <<g, i>> \in over)
                 PROVE  /\ bp' # NoPoint /\ ~Precedes(g, i, bp'.stage, bp'.index)
                        /\ g \notin Before /\ g >= stage
    BY <1>1 DEF FailingInv
  <2>2. /\ bp # NoPoint /\ ~Precedes(g, i, bp.stage, bp.index) /\ g >= stage
    BY <1>1, <2>1 DEF ChainInv, FailingInv
  <2>3. BodyPoint # NoPoint /\ ~Precedes(g, i, BodyPoint.stage, BodyPoint.index)
    BY <1>1, <2>2 DEF BodyPoint, Point, NoPoint, Precedes, DefaultAfter, Stage
  <2>4. QED
    BY <1>1, <1>2, <2>2, <2>3 DEF DefaultAfter, Before
<1>9. QED
  BY <1>4, <1>5, <1>6, <1>7, <1>8 DEF ChainInv

LEMMA RecoverKeeps ==
  ASSUME ChainInv, Recover
  PROVE  ChainInv'
<1>1. /\ at = "end" /\ (fail \/ body = "failed") /\ at' = "enter" /\ stage' = 1 /\ index' = 0
      /\ recovering' = TRUE /\ fail' = FALSE /\ bp' = Reloaded
      /\ UNCHANGED <<kind, body, passed, failing, over, done>>
  BY DEF Recover, history
<1>2. \/ bp' = NoPoint /\ (bp = NoPoint \/ bp.used)
      \/ /\ bp # NoPoint /\ ~bp.used /\ bp' # NoPoint /\ bp'.used
         /\ bp' \in [stage : 0..6, index : Nat, skipRun : BOOLEAN, used : BOOLEAN]
         /\ bp'.stage = bp.stage /\ bp'.index = bp.index /\ bp'.skipRun = bp.skipRun
  BY <1>1 DEF Reloaded, NoPoint, ChainInv, TypeOK
<1>3. fail => bp # NoPoint /\ ~bp.used
  BY <1>1 DEF ChainInv, PointInv, PointTells
<1>4. kind = "step" => bp' # NoPoint
  <2>1. CASE fail
    BY <1>2, <1>3, <2>1
  <2>2. CASE ~fail
    BY <1>1, <1>2, <2>2 DEF ChainInv, PointInv, BodyPoint, Point, NoPoint, DefaultAfter
  <2>3. QED
    BY <2>1, <2>2
<1>5. TypeOK'
  <2>1. bp' \in [stage : 0..6, index : Nat, skipRun : BOOLEAN, used : BOOLEAN]
        /\ (bp' = NoPoint \/ bp'.stage # 0)
    <3>1. CASE bp' = NoPoint
      BY <3>1 DEF NoPoint
    <3>2. CASE /\ bp # NoPoint /\ bp'.stage = bp.stage
               /\ bp' \in [stage : 0..6, index : Nat, skipRun : BOOLEAN, used : BOOLEAN]
      BY <3>2 DEF ChainInv, TypeOK
    <3>3. QED
      BY <1>2, <3>1, <3>2
  <2>2. stage' \in Stage /\ index' \in Nat /\ at' = "enter" /\ at' # "body"
    BY <1>1 DEF Stage
  <2>3. QED
    BY <1>1, <2>1, <2>2, Zenon DEF ChainInv, TypeOK
<1>6. PointInv' /\ BodyInv'
  BY <1>1, <1>2, <1>4 DEF ChainInv, TypeOK, PointInv, PointTells, BodyInv, DefaultAfter, NoPoint
<1>7. PassedInv'
  BY <1>1, <1>2, <1>3, <1>4
     DEF ChainInv, TypeOK, PointInv, PassedInv, Precedes, BodyPoint, Point, DefaultAfter, Before
<1>8. FailingInv'
  BY <1>1, <1>2, <1>3 DEF ChainInv, TypeOK, FailingInv, Stage, Precedes
<1>9. QED
  BY <1>5, <1>6, <1>7, <1>8 DEF ChainInv

LEMMA NextInv == ChainInv /\ [Next]_vars => ChainInv'
<1> SUFFICES ASSUME ChainInv, [Next]_vars PROVE ChainInv'
  OBVIOUS
<1>1. ASSUME UNCHANGED vars PROVE ChainInv'
  BY <1>1 DEF vars, history, ChainInv, TypeOK, PointInv, PointTells, BodyInv, PassedInv,
              FailingInv, Callback
<1>2. QED
  BY <1>1, PassOverKeeps, EnterKeeps, EndsKeeps, KeepOnKeeps, BreakKeeps, MustFailsKeeps,
     BodyKeeps, RecoverKeeps DEF Next, Terminated

\* The inductive invariant of the chains.
THEOREM ChainInvariant == Spec => []ChainInv
  BY InitInv, NextInv, PTL DEF Spec

\* A before callback that has passed is never called again.
THEOREM BeforeOnceCorrect == Spec => []BeforeOnce
<1>1. ChainInv => BeforeOnce
  BY DEF ChainInv, TypeOK, PassedInv, BeforeOnce, Called, Precedes, Before
<1>2. QED
  BY <1>1, ChainInvariant, PTL

\* A failed execution leaves a break point that says truly where to go on.
THEOREM PointCorrect == Spec => []PointTells
<1>1. ChainInv => PointTells
  BY DEF ChainInv, PointInv
<1>2. QED
  BY <1>1, ChainInvariant, PTL

\* Nothing behind a failed must callback of a before chain is reached.
THEOREM BlocksCorrect == Spec => []FailureBlocks
<1>1. ASSUME ChainInv, NEW c \in failing, c[1] \in Before
      PROVE  at # "body" /\ (at = "chain" => stage <= c[1])
  <2>1. c[1] \in Stage /\ c[2] \in Nat /\ c = <<c[1], c[2]>>
    BY <1>1, PairOfCallback DEF ChainInv, TypeOK
  <2>2. QED
    BY <1>1, <2>1 DEF ChainInv, TypeOK, FailingInv, Before, DefaultAfter, Stage
<1>2. ChainInv => FailureBlocks
  BY <1>1 DEF FailureBlocks
<1>3. QED
  BY <1>2, ChainInvariant, PTL

\* A unit that ends well has run its body, and every must callback that failed was
\* called again and passed, or its chain was begun behind it.
THEOREM NoneForgotten == Spec => []NoFailureForgotten
<1>1. ASSUME ChainInv, EndedWell, NEW c \in failing
      PROVE  c \in over
  <2>1. c[1] \in Stage /\ c[2] \in Nat /\ c = <<c[1], c[2]>>
    BY <1>1, PairOfCallback DEF ChainInv, TypeOK
  <2>2. QED
    BY <1>1, <2>1 DEF ChainInv, FailingInv, EndedWell
<1>2. ChainInv => NoFailureForgotten
  BY <1>1 DEF NoFailureForgotten, EndedWell, ChainInv, BodyInv
<1>3. QED
  BY <1>2, ChainInvariant, PTL

(***************************************************************************)
(* The chains implement one unit.                                          *)
(***************************************************************************)
\* A break point that passes the body over lies behind it, and a recovery is in a
\* before chain only at or behind the break point.
UnitInv ==
    /\ bp.skipRun => bp.stage \notin Before
    /\ at = "chain" /\ stage \in Before /\ recovering =>
          \/ bp = NoPoint /\ kind = "step"
          \/ bp # NoPoint /\ bp.stage <= stage

LEMMA InitUnit == Init => UnitInv
  BY DEF Init, UnitInv, NoPoint

LEMMA NextUnit ==
  ASSUME ChainInv, UnitInv, [Next]_vars
  PROVE  UnitInv'
<1> USE DEF UnitInv
<1>1. CASE PassOver \/ ChainEnds \/ Break
  BY <1>1 DEF PassOver, ChainEnds, Break, Follow, Called, history
<1>2. CASE EnterChain
  <2>1. /\ at' = "chain" /\ ~PassedOver(stage)
        /\ UNCHANGED <<kind, stage, recovering, bp>>
    BY <1>2 DEF EnterChain
  <2>2. stage \in 1..6 /\ bp.stage \in 0..6 /\ kind \in {"step", "process"}
    BY DEF ChainInv, TypeOK, Stage
  <2>3. QED
    BY <2>1, <2>2 DEF PassedOver
<1>3. CASE KeepOn
  BY <1>3 DEF KeepOn, Called
<1>4. CASE MustFails
  <2>1. at' = "end" /\ bp' = Saved
    BY <1>4 DEF MustFails
  <2>2. CASE bp' = bp
    BY <2>1, <2>2
  <2>3. CASE bp' = Point(DefaultAfter, 0, TRUE)
    BY <2>1, <2>3 DEF Point, DefaultAfter, Before
  <2>4. CASE bp' = Point(stage, index, stage \notin Before)
    <3>1. bp'.stage = stage /\ bp'.skipRun = (stage \notin Before)
      BY <2>4 DEF Point
    <3>2. QED
      BY <2>1, <3>1
  <2>5. QED
    BY <2>1, <2>2, <2>3, <2>4 DEF Saved
<1>5. CASE SkipBody \/ RunBody
  <2>1. at' = "enter" /\ (bp' = bp \/ bp' = BodyPoint)
    BY <1>5 DEF SkipBody, RunBody, BodyPoint
  <2>2. QED
    BY <2>1 DEF BodyPoint, Point
<1>6. CASE Recover
  <2>1. at' = "enter" /\ bp' = Reloaded
    BY <1>6 DEF Recover
  <2>2. bp \in [stage : 0..6, index : Nat, skipRun : BOOLEAN, used : BOOLEAN]
    BY DEF ChainInv, TypeOK
  <2>3. QED
    BY <2>1, <2>2 DEF Reloaded, NoPoint
<1>7. CASE Terminated \/ UNCHANGED vars
  BY <1>7 DEF Terminated, vars
<1>8. QED
  BY <1>1, <1>2, <1>3, <1>4, <1>5, <1>6, <1>7 DEF Next

\* What the break point of the unit stands for.
LEMMA PointCases ==
  ASSUME ChainInv, UnitInv
  PROVE  /\ bp = NoPoint => point = "none"
         /\ bp # NoPoint /\ bp.skipRun =>
               point = IF bp.used THEN "oldAfter" ELSE "newAfter"
         /\ bp # NoPoint /\ ~bp.skipRun /\ bp.stage \in Before =>
               point = IF bp.used THEN "oldBefore" ELSE "newBefore"
         /\ bp # NoPoint /\ ~bp.skipRun /\ bp.stage \notin Before =>
               point = IF bp.used THEN "oldRun" ELSE "newRun"
         /\ bp.skipRun \in BOOLEAN /\ bp.used \in BOOLEAN
  BY DEF point, ChainInv, TypeOK

\* A break point of this execution is one of those that are kept.
LEMMA PointIsNew ==
  ASSUME ChainInv, UnitInv
  PROVE  point \in Unit!NewPoint <=> bp # NoPoint /\ ~bp.used
  BY PointCases DEF Unit!NewPoint

LEMMA FollowPlace ==
  ASSUME ChainInv, at \in {"enter", "chain"}, Follow(stage),
         UNCHANGED <<kind, recovering, fail, body, bp>>
  PROVE  Unit!BeforePass \/ Unit!AfterPass \/ UNCHANGED Unit!vars
<1>1. stage \in 1..6 /\ UNCHANGED point
  BY DEF ChainInv, TypeOK, Stage, point
<1>2. CASE stage = 3
  <2>1. place = "before" /\ place' = "body"
    BY <1>2 DEF Follow, place, Before
  <2>2. QED
    BY <1>1, <2>1 DEF Unit!BeforePass, Unit!Passes
<1>3. CASE stage = 6
  <2>1. place = "after" /\ place' = "end"
    BY <1>3 DEF Follow, place, Before
  <2>2. QED
    BY <1>1, <2>1 DEF Unit!AfterPass, Unit!Passes
<1>4. CASE stage \notin {3, 6}
  <2>1. at' = "enter" /\ stage' = stage + 1
    BY <1>4 DEF Follow
  <2>2. UNCHANGED place
    BY <1>1, <1>4, <2>1 DEF place, Before
  <2>3. QED
    BY <1>1, <2>2 DEF Unit!vars
<1>5. QED
  BY <1>2, <1>3, <1>4

LEMMA FailSimulates ==
  ASSUME ChainInv, UnitInv, UnitInv', MustFails
  PROVE  Unit!BeforeFail \/ Unit!AfterFail
<1>1. /\ at = "chain" /\ ~fail /\ at' = "end" /\ fail' = TRUE /\ bp' = Saved
      /\ UNCHANGED <<kind, recovering, body>>
  BY DEF MustFails, Called, ChainInv, PointInv
<1>2. place' = "end"
  BY <1>1 DEF place
<1>3. ChainInv' /\ bp' # NoPoint /\ ~bp'.used
  BY MustFailsKeeps, SavedPoint
<1>4. stage \in 1..6 /\ bp.stage \in 0..6 /\ (bp = NoPoint \/ bp.stage # 0)
  BY DEF ChainInv, TypeOK, Stage
<1>5. CASE stage \in Before
  <2>1. bp = NoPoint \/ bp.used
    BY <1>1, <1>5 DEF ChainInv, PointInv, Before, DefaultAfter
  <2>2. bp' = Point(stage, index, FALSE)
    BY <1>1, <1>5, <2>1 DEF Saved
  <2>3. point' = "newBefore"
    BY <1>5, <2>2, <1>3 DEF point, Point
  <2>4. Unit!Recorded("newBefore") = "newBefore"
    BY <2>1, PointIsNew DEF Unit!Recorded
  <2>5. recovering => \/ point = "oldBefore"
                      \/ kind = "step" /\ point = "none"
    <3>1. CASE bp = NoPoint
      BY <1>1, <1>5, <3>1, PointCases DEF UnitInv
    <3>2. CASE bp # NoPoint /\ recovering
      <4>1. bp.stage \in Before /\ ~bp.skipRun /\ bp.used
        BY <1>1, <1>4, <1>5, <2>1, <3>2 DEF UnitInv, Before
      <4>2. QED
        BY <3>2, <4>1, PointCases
    <3>3. QED
      BY <3>1, <3>2
  <2>6. place = "before"
    BY <1>1, <1>5 DEF place
  <2>7. QED
    BY <1>1, <1>2, <2>3, <2>4, <2>5, <2>6 DEF Unit!BeforeFail, Unit!Fails
<1>6. CASE stage \notin Before
  <2>1. place = "after"
    BY <1>1, <1>6 DEF place
  <2>2. point' = Unit!Recorded("newAfter")
    <3>1. CASE bp # NoPoint /\ ~bp.used
      <4>1. bp' = bp
        BY <1>1, <3>1 DEF Saved
      <4>2. point' = point
        BY <4>1 DEF point
      <4>3. QED
        BY <3>1, <4>2, PointIsNew DEF Unit!Recorded
    <3>2. CASE bp = NoPoint \/ bp.used
      <4>1. bp'.skipRun
        BY <1>1, <1>6, <3>2 DEF Saved, Point
      <4>2. point' = "newAfter"
        BY <1>3, <4>1 DEF point
      <4>3. QED
        BY <3>2, <4>2, PointIsNew DEF Unit!Recorded
    <3>3. QED
      BY <3>1, <3>2
  <2>3. QED
    BY <1>1, <1>2, <2>1, <2>2 DEF Unit!AfterFail, Unit!Fails
<1>7. QED
  BY <1>5, <1>6

LEMMA BodySimulates ==
  ASSUME ChainInv, UnitInv, SkipBody \/ RunBody
  PROVE  Unit!Body
<1>1. /\ at = "body" /\ at' = "enter" /\ stage = DefaultAfter
      /\ UNCHANGED <<kind, stage, recovering, fail>>
  BY DEF SkipBody, RunBody, ChainInv, TypeOK
<1>2. place = "body" /\ place' = "after"
  BY <1>1 DEF place, DefaultAfter, Before
<1>3. bp.skipRun <=> point \in {"oldAfter", "newAfter"}
  BY PointCases DEF NoPoint
<1>4. CASE body' = "ok" /\ UNCHANGED bp
  BY <1>1, <1>2, <1>4 DEF Unit!Body, point
<1>5. CASE ~BodySkipped /\ body' = "failed"
           /\ bp' = IF kind = "step" THEN BodyPoint ELSE bp
  <2>1. ~Unit!Over
    BY <1>3, <1>5 DEF BodySkipped, Unit!Over
  <2>2. point' = IF kind = "step" THEN "newRun" ELSE point
    <3>1. CASE kind = "step"
      BY <1>5, <3>1 DEF point, BodyPoint, Point, NoPoint, DefaultAfter, Before
    <3>2. CASE kind # "step"
      BY <1>5, <3>2 DEF point
    <3>3. QED
      BY <3>1, <3>2
  <2>3. QED
    BY <1>1, <1>2, <1>5, <2>1, <2>2 DEF Unit!Body
<1>6. QED
  BY <1>4, <1>5 DEF SkipBody, RunBody, BodyPoint

LEMMA RecoverSimulates ==
  ASSUME ChainInv, UnitInv, Recover
  PROVE  Unit!Recover
<1>1. /\ at = "end" /\ (fail \/ body = "failed") /\ at' = "enter" /\ stage' = 1
      /\ recovering' = TRUE /\ fail' = FALSE /\ bp' = Reloaded
      /\ UNCHANGED <<kind, body>>
  BY DEF Recover
<1>2. place = "end" /\ place' = "before"
  BY <1>1 DEF place, Before
<1>3. point' = Unit!Reloaded
  <2>1. CASE bp = NoPoint \/ bp.used
    <3>1. bp' = NoPoint
      BY <1>1, <2>1 DEF Reloaded
    <3>2. point' = "none" /\ point \in {"none", "oldBefore", "oldRun", "oldAfter"}
      BY <2>1, <3>1, PointCases DEF point
    <3>3. QED
      BY <3>2 DEF Unit!Reloaded
  <2>2. CASE bp # NoPoint /\ ~bp.used
    <3>1. /\ bp' # NoPoint /\ bp'.used
          /\ bp'.stage = bp.stage /\ bp'.skipRun = bp.skipRun
      BY <1>1, <2>2 DEF Reloaded, NoPoint, ChainInv, TypeOK
    <3>2. QED
      BY <2>2, <3>1, PointCases DEF point, Unit!Reloaded
  <2>3. QED
    BY <2>1, <2>2
<1>4. QED
  BY <1>1, <1>2, <1>3 DEF Unit!Recover

\* The chains around a body implement a unit whose callbacks before and after the
\* body are one move each: the abstraction that ProcessRun and FlowRecovery make of
\* funcChain.filter, its guards and its break points.
THEOREM UnitCorrect == Spec => RefinesUnit
<1>1. Init => Unit!Init
  BY DEF Init, Unit!Init, place, point, Before
<1>2. ASSUME ChainInv, UnitInv, [Next]_vars
      PROVE  [Unit!Next]_Unit!vars
  <2>1. CASE PassOver \/ ChainEnds \/ Break
    BY <1>2, <2>1, FollowPlace
       DEF PassOver, ChainEnds, Break, Called, Unit!Next
  <2>2. CASE EnterChain \/ KeepOn
    <3>1. /\ at \in {"enter", "chain"} /\ at' \in {"enter", "chain"}
          /\ UNCHANGED <<kind, stage, recovering, fail, body, bp>>
      BY <2>2 DEF EnterChain, KeepOn, Called
    <3>2. UNCHANGED <<place, point>>
      BY <3>1 DEF place, point
    <3>3. QED
      BY <3>1, <3>2 DEF Unit!vars
  <2>3. CASE MustFails
    BY <1>2, <2>3, NextUnit, FailSimulates DEF Unit!Next
  <2>4. CASE SkipBody \/ RunBody
    BY <1>2, <2>4, BodySimulates DEF Unit!Next
  <2>5. CASE Recover
    BY <1>2, <2>5, RecoverSimulates DEF Unit!Next
  <2>6. CASE Terminated \/ UNCHANGED vars
    BY <2>6 DEF Terminated, vars, Unit!vars, place, point
  <2>7. QED
    BY <1>2, <2>1, <2>2, <2>3, <2>4, <2>5, <2>6 DEF Next
<1>3. Spec => [](ChainInv /\ UnitInv)
  BY InitInv, InitUnit, NextInv, NextUnit, PTL DEF Spec
<1>4. QED
  BY <1>1, <1>2, <1>3, PTL DEF Spec, RefinesUnit, Unit!Spec
===============================================================================

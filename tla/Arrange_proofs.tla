--------------------------- MODULE Arrange_proofs ---------------------------
(***************************************************************************)
(* However a process is built, merged and initialised, for every finite    *)
(* set of steps: layers follow dependencies, the first layer is what has   *)
(* none, Merge gives up only for a circle, every step leads to an end, and *)
(* a step sees what is upstream of it.                                     *)
(***************************************************************************)
EXTENDS Arrange, FiniteSetTheorems, WellFoundedInduction, TLAPS

(***************************************************************************)
(* Natural numbers and the functions that are defined along them.          *)
(***************************************************************************)
LEMMA Smallest == ASSUME NEW T \in SUBSET Nat, T # {}
                  PROVE  \E m \in T : \A j \in T : m <= j
<1>1. PICK n \in T : TRUE
  OBVIOUS
<1> DEFINE low == {m \in T : m <= n}
           Below == {1..m : m \in low}
           R == StrictSubsetOrdering(1..n)
<1>2. IsFiniteSet(1..n) /\ Below \subseteq SUBSET (1..n) /\ Below # {}
  <2>1. IsFiniteSet(1..n)
    BY FS_Interval
  <2>2. n \in low /\ 1..n \in Below
    OBVIOUS
  <2>3. \A m \in low : 1..m \subseteq 1..n
    OBVIOUS
  <2>4. QED
    BY <2>1, <2>2, <2>3
<1>3. IsWellFoundedOn(R, SUBSET (1..n))
  BY <1>2, FS_StrictSubsetOrderingWellFounded, FS_FiniteSubsetsOfFinite
<1>4. PICK B \in Below : \A C \in Below : ~(<<C, B>> \in R)
  <2> HIDE DEF R, Below
  <2> QED
    BY <1>2, <1>3, WFMin
<1>5. PICK m \in low : B = 1..m
  OBVIOUS
<1>6. ASSUME NEW j \in T, j < m PROVE FALSE
  <2>1. j \in low /\ 1..j \in Below
    BY <1>5, <1>6
  <2>2. 1..j \subseteq 1..m /\ m \in 1..m /\ m \notin 1..j
    BY <1>6
  <2>3. <<1..j, B>> \in R
    BY <1>2, <1>5, <2>1, <2>2 DEF StrictSubsetOrdering
  <2>4. QED
    BY <1>4, <2>1, <2>3
<1>7. QED
  BY <1>5, <1>6

\* Induction over an interval, as a fact about sets.
LEMMA Interval ==
  ASSUME NEW N \in Nat, NEW T, 0 \in T, \A k \in 0..(N-1) : k \in T => k + 1 \in T
  PROVE  0..N \subseteq T
<1> DEFINE miss == (0..N) \ T
<1>1. SUFFICES ASSUME miss # {} PROVE FALSE
  OBVIOUS
<1>2. PICK k \in miss : \A j \in miss : k <= j
  <2>1. miss \in SUBSET Nat
    OBVIOUS
  <2> HIDE DEF miss
  <2>2. QED
    BY <1>1, <2>1, Smallest
<1>3. k \in 1..N /\ k - 1 \in 0..(N-1) /\ k - 1 \notin miss /\ (k - 1) + 1 = k
  BY <1>2
<1>4. QED
  BY <1>3

\* The k-th iterate of a function.
Iterates(N, A, G, f) == f = [k \in 0..N |-> IF k = 0 THEN A ELSE G[f[k-1]]]

LEMMA IteratesExist ==
  ASSUME NEW S, NEW A \in S, NEW G \in [S -> S], NEW M \in Nat
  PROVE  \E f \in [0..M -> S] : Iterates(M, A, G, f)
<1> DEFINE T == {N \in Nat : \E f \in [0..N -> S] : Iterates(N, A, G, f)}
<1>1. 0 \in T
  <2>1. [k \in 0..0 |-> A] \in [0..0 -> S] /\ Iterates(0, A, G, [k \in 0..0 |-> A])
    BY DEF Iterates
  <2>2. QED
    BY <2>1
<1>2. ASSUME NEW N \in 0..(M-1), N \in T PROVE N + 1 \in T
  <2>1. PICK g \in [0..N -> S] : Iterates(N, A, G, g)
    BY <1>2
  <2> DEFINE h == [k \in 0..(N+1) |-> IF k = N + 1 THEN G[g[N]] ELSE g[k]]
  <2>2. \A k \in 0..N : g[k] = IF k = 0 THEN A ELSE G[g[k-1]]
    BY <2>1 DEF Iterates
  <2>3. ASSUME NEW k \in 0..(N+1)
        PROVE  h[k] \in S /\ h[k] = IF k = 0 THEN A ELSE G[h[k-1]]
    <3>1. CASE k = N + 1
      <4>1. N \in 0..(N+1) /\ N \in 0..N /\ N # N + 1 /\ k # 0 /\ k - 1 = N
        BY <3>1
      <4>2. h[k] = G[g[N]] /\ h[k-1] = g[N] /\ g[N] \in S
        BY <3>1, <4>1
      <4>3. QED
        BY <4>1, <4>2
    <3>2. CASE k = 0
      <4>1. h[k] = g[0] /\ g[0] = A
        BY <2>2, <3>2
      <4>2. QED
        BY <3>2, <4>1
    <3>3. CASE k # N + 1 /\ k # 0
      <4>1. k \in 0..N /\ k - 1 \in 0..(N+1) /\ k - 1 # N + 1
        BY <3>3
      <4>2. h[k] = g[k] /\ h[k-1] = g[k-1]
        BY <3>3, <4>1
      <4>3. QED
        BY <2>2, <3>3, <4>1, <4>2
    <3>4. QED
      BY <3>1, <3>2, <3>3
  <2>4. h = [k \in 0..(N+1) |-> h[k]]
    OBVIOUS
  <2> HIDE DEF h
  <2>5. h \in [0..(N+1) -> S] /\ Iterates(N + 1, A, G, h)
    BY <2>3, <2>4 DEF Iterates
  <2>6. QED
    BY <1>2, <2>5
<1>3. M \in 0..M
  OBVIOUS
<1> HIDE DEF T
<1>4. M \in T
  BY <1>1, <1>2, <1>3, Interval
<1>5. QED
  BY <1>4 DEF T

\* The least number from a on that is above the numbers of the steps D.
Above(a, g, D) == Max({a} \cup {g[d] + 1 : d \in D})

LEMMA MaxOver ==
  ASSUME NEW D, IsFiniteSet(D), NEW a \in Nat, NEW g, \A d \in D : g[d] \in Nat
  PROVE  /\ Above(a, g, D) \in Nat /\ a <= Above(a, g, D)
         /\ \A d \in D : g[d] + 1 <= Above(a, g, D)
         /\ Above(a, g, D) = a \/ \E d \in D : Above(a, g, D) = g[d] + 1
<1> DEFINE Values(E) == {a} \cup {g[d] + 1 : d \in E}
           Highest(E, m) == m \in Values(E) /\ \A y \in Values(E) : m >= y
           Bad == {E \in SUBSET D : ~\E m : Highest(E, m)}
           R == StrictSubsetOrdering(D)
<1>1. \A E \in SUBSET D : Values(E) \subseteq Nat
  OBVIOUS
<1>2. Bad = {}
  <2>1. SUFFICES ASSUME Bad # {} PROVE FALSE
    OBVIOUS
  <2>2. PICK E \in Bad : \A F \in Bad : ~(<<F, E>> \in R)
    <3>1. IsWellFoundedOn(R, FiniteSubsetsOf(D))
      BY FS_StrictSubsetOrderingWellFounded
    <3>2. FiniteSubsetsOf(D) = SUBSET D
      BY FS_FiniteSubsetsOfFinite
    <3>3. Bad \in SUBSET (SUBSET D)
      OBVIOUS
    <3> HIDE DEF Bad, R
    <3>4. QED
      BY <2>1, <3>1, <3>2, <3>3, WFMin
  <2>3. CASE E = {}
    <3>1. Highest({}, a)
      OBVIOUS
    <3>2. QED
      BY <2>3, <3>1
  <2>4. CASE E # {}
    <3>1. PICK e \in E : TRUE
      BY <2>4
    <3> DEFINE F == E \ {e}
    <3>2. F \in SUBSET D /\ <<F, E>> \in R
      BY <3>1 DEF StrictSubsetOrdering
    <3>3. PICK m : Highest(F, m)
      BY <2>2, <3>2
    <3>4. e \in D /\ m \in Nat /\ g[e] + 1 \in Nat
      BY <1>1, <3>2, <3>3
    <3>5. Values(E) = Values(F) \cup {g[e] + 1}
      BY <3>1
    <3> HIDE DEF Values, F
    <3>6. Highest(E, IF m >= g[e] + 1 THEN m ELSE g[e] + 1)
      BY <1>1, <3>2, <3>3, <3>4, <3>5
    <3>7. QED
      BY <3>6
  <2>5. QED
    BY <2>3, <2>4
<1>3. PICK m : Highest(D, m)
  BY <1>2
<1>4. \E x \in Values(D) : \A y \in Values(D) : x >= y
  BY <1>3
<1>5. Max(Values(D)) \in Values(D) /\ \A y \in Values(D) : Max(Values(D)) >= y
  <2> HIDE DEF Values
  <2>1. QED
    BY <1>4 DEF Max
<1>6. QED
  BY <1>1, <1>5 DEF Above

-------------------------------------------------------------------------------
(***************************************************************************)
(* Upstream is the least set with the dependencies of a step and of all    *)
(* its members: after as many rounds as there are steps nothing is added.  *)
(***************************************************************************)
Steps == Cardinality(Name)

LEMMA StepsNat == Steps \in Nat /\ IsFiniteSet(Name)
  BY ArrangeAssumption, FS_CardinalityType DEF Steps

Round(d, S) == S \cup UNION {d[x] : x \in S}

LEMMA UpstreamRounds ==
  ASSUME NEW d \in [Name -> SUBSET Name], NEW n \in Name
  PROVE  \E f \in [0..Steps -> SUBSET Name] :
             /\ \A k \in 0..Steps : f[k] = IF k = 0 THEN d[n] ELSE Round(d, f[k-1])
             /\ Upstream(d, n) = f[Steps]
<1> DEFINE G == [S \in SUBSET Name |-> Round(d, S)]
           Rounds(f) == f = [k \in 0..Steps |-> IF k = 0 THEN d[n] ELSE Round(d, f[k-1])]
           F == CHOOSE f : Rounds(f)
<1>1. G \in [SUBSET Name -> SUBSET Name] /\ d[n] \in SUBSET Name
  BY DEF Round
<1>2. PICK f \in [0..Steps -> SUBSET Name] : Iterates(Steps, d[n], G, f)
  <2> HIDE DEF G
  <2>1. QED
    BY <1>1, StepsNat, IteratesExist
<1>3. Rounds(f)
  <2>1. \A k \in 0..Steps : k # 0 => k - 1 \in 0..Steps
    BY StepsNat
  <2>2. \A k \in 0..Steps : k # 0 => G[f[k-1]] = Round(d, f[k-1])
    BY <2>1
  <2> HIDE DEF G
  <2>3. f = [k \in 0..Steps |-> IF k = 0 THEN d[n] ELSE G[f[k-1]]]
    BY <1>2 DEF Iterates
  <2>4. QED
    BY <2>2, <2>3
<1>4. Rounds(F)
  BY <1>3
<1>5. Upstream(d, n) = F[Steps]
  BY DEF Upstream, Steps, Round
<1> HIDE DEF F
<1>6. \A k \in 0..Steps : F[k] = IF k = 0 THEN d[n] ELSE Round(d, F[k-1])
  BY <1>4
<1>7. \A k \in 0..Steps : F[k] \in SUBSET Name
  <2> DEFINE T == {k \in 0..Steps : F[k] \in SUBSET Name}
  <2>1. 0 \in T
    BY <1>1, <1>6, StepsNat
  <2>2. ASSUME NEW k \in 0..(Steps-1), k \in T PROVE k + 1 \in T
    <3>1. k + 1 \in 0..Steps /\ k + 1 # 0 /\ (k + 1) - 1 = k
      BY StepsNat
    <3>2. F[k+1] = Round(d, F[k])
      BY <1>6, <3>1
    <3>3. QED
      BY <2>2, <3>1, <3>2 DEF Round
  <2> HIDE DEF T
  <2>3. 0..Steps \subseteq T
    BY <2>1, <2>2, StepsNat, Interval
  <2>4. QED
    BY <2>3 DEF T
<1>8. F \in [0..Steps -> SUBSET Name]
  BY <1>4, <1>7
<1>9. QED
  BY <1>5, <1>6, <1>8

LEMMA UpstreamIs ==
  ASSUME NEW d \in [Name -> SUBSET Name], NEW n \in Name
  PROVE  /\ Upstream(d, n) \subseteq Name
         /\ d[n] \subseteq Upstream(d, n)
         /\ \A x \in Upstream(d, n) : d[x] \subseteq Upstream(d, n)
         /\ \A S : d[n] \subseteq S /\ (\A x \in S \cap Name : d[x] \subseteq S)
                   => Upstream(d, n) \subseteq S
<1>1. PICK f \in [0..Steps -> SUBSET Name] :
             /\ \A k \in 0..Steps : f[k] = IF k = 0 THEN d[n] ELSE Round(d, f[k-1])
             /\ Upstream(d, n) = f[Steps]
  BY UpstreamRounds
<1> DEFINE Closed(S) == \A x \in S : d[x] \subseteq S
<1>2. ASSUME NEW k \in 0..(Steps-1)
      PROVE  k \in 0..Steps /\ k + 1 \in 0..Steps /\ f[k+1] = Round(d, f[k]) /\ f[k] \in SUBSET Name
  <2>1. k \in 0..Steps /\ k + 1 \in 0..Steps /\ k + 1 # 0 /\ (k + 1) - 1 = k
    BY StepsNat
  <2>2. QED
    BY <1>1, <2>1
<1>3. \A k \in 0..Steps : d[n] \subseteq f[k]
  <2> DEFINE T == {k \in 0..Steps : d[n] \subseteq f[k]}
  <2>1. 0 \in T
    BY <1>1, StepsNat
  <2>2. \A k \in 0..(Steps-1) : k \in T => k + 1 \in T
    BY <1>2 DEF Round
  <2> HIDE DEF T
  <2>3. 0..Steps \subseteq T
    BY <2>1, <2>2, StepsNat, Interval
  <2>4. QED
    BY <2>3 DEF T
<1>4. \A k \in 0..Steps : Closed(f[k]) \/ Cardinality(f[k]) >= k
  <2> DEFINE T == {k \in 0..Steps : Closed(f[k]) \/ Cardinality(f[k]) >= k}
  <2>1. 0 \in T
    <3>1. IsFiniteSet(f[0]) /\ 0 \in 0..Steps
      BY StepsNat, FS_Subset
    <3>2. Cardinality(f[0]) \in Nat
      BY <3>1, FS_CardinalityType
    <3>3. QED
      BY <3>1, <3>2
  <2>2. ASSUME NEW k \in 0..(Steps-1), k \in T PROVE k + 1 \in T
    <3>1. CASE Closed(f[k])
      <4>1. UNION {d[x] : x \in f[k]} \subseteq f[k]
        BY <3>1
      <4>2. f[k+1] = f[k]
        BY <1>2, <4>1 DEF Round
      <4>3. QED
        BY <1>2, <3>1, <4>2
    <3>2. CASE ~Closed(f[k])
      <4>1. Cardinality(f[k]) >= k
        BY <2>2, <3>2
      <4>2. f[k] \subseteq f[k+1] /\ f[k] # f[k+1]
        BY <1>2, <3>2 DEF Round
      <4>3. IsFiniteSet(f[k+1]) /\ IsFiniteSet(f[k])
        BY <1>2, StepsNat, FS_Subset
      <4>4. Cardinality(f[k]) # Cardinality(f[k+1]) /\ Cardinality(f[k]) <= Cardinality(f[k+1])
        BY <4>2, <4>3, FS_Subset
      <4>5. Cardinality(f[k]) \in Nat /\ Cardinality(f[k+1]) \in Nat
        BY <4>3, FS_CardinalityType
      <4>6. Cardinality(f[k+1]) >= k + 1
        BY <4>1, <4>4, <4>5
      <4>7. QED
        BY <1>2, <4>6
    <3>3. QED
      BY <3>1, <3>2
  <2> HIDE DEF T
  <2>3. 0..Steps \subseteq T
    BY <2>1, <2>2, StepsNat, Interval
  <2>4. QED
    BY <2>3 DEF T
<1>5. Closed(f[Steps])
  <2>1. Steps \in 0..Steps /\ f[Steps] \in SUBSET Name
    BY StepsNat
  <2>2. CASE Cardinality(f[Steps]) >= Steps
    <3>1. Cardinality(f[Steps]) <= Steps /\ IsFiniteSet(f[Steps])
      BY <2>1, StepsNat, FS_Subset DEF Steps
    <3>2. Cardinality(f[Steps]) = Steps
      BY <2>2, <3>1, StepsNat, FS_CardinalityType
    <3>3. f[Steps] = Name
      BY <2>1, <3>2, StepsNat, FS_Subset DEF Steps
    <3>4. QED
      BY <3>3
  <2>3. QED
    BY <1>4, <2>1, <2>2
<1>6. ASSUME NEW S, d[n] \subseteq S, \A x \in S \cap Name : d[x] \subseteq S
      PROVE  f[Steps] \subseteq S
  <2> DEFINE T == {k \in 0..Steps : f[k] \subseteq S}
  <2>1. 0 \in T
    BY <1>1, <1>6, StepsNat
  <2>2. \A k \in 0..(Steps-1) : k \in T => k + 1 \in T
    BY <1>2, <1>6 DEF Round
  <2> HIDE DEF T
  <2>3. 0..Steps \subseteq T /\ Steps \in 0..Steps
    BY <2>1, <2>2, StepsNat, Interval
  <2>4. QED
    BY <2>3 DEF T
<1>7. Steps \in 0..Steps
  BY StepsNat
<1>8. QED
  BY <1>1, <1>3, <1>5, <1>6, <1>7

LEMMA UpstreamSplit ==
  ASSUME NEW d \in [Name -> SUBSET Name], NEW n \in Name, NEW m \in Upstream(d, n)
  PROVE  \E x \in d[n] : m = x \/ m \in Upstream(d, x)
<1> DEFINE S == {m1 \in Name : \E x \in d[n] : m1 = x \/ m1 \in Upstream(d, x)}
<1>1. d[n] \subseteq S
  OBVIOUS
<1>2. ASSUME NEW y \in S, NEW z \in d[y] PROVE z \in S
  <2>1. PICK x \in d[n] : y = x \/ y \in Upstream(d, x)
    BY <1>2
  <2>2. x \in Name /\ y \in Name /\ z \in Name
    BY <1>2, <2>1
  <2>3. z \in Upstream(d, x)
    BY <1>2, <2>1, <2>2, UpstreamIs
  <2>4. QED
    BY <2>1, <2>2, <2>3
<1>3. Upstream(d, n) \subseteq S
  <2> HIDE DEF S
  <2>1. QED
    BY <1>1, <1>2, UpstreamIs
<1>4. QED
  BY <1>3

\* What lies above a dependency lies above the step.
LEMMA UpstreamAbove ==
  ASSUME NEW d \in [Name -> SUBSET Name], NEW n \in Name, NEW x \in d[n]
  PROVE  Upstream(d, x) \cup {x} \subseteq Upstream(d, n)
<1>1. /\ x \in Upstream(d, n) /\ d[x] \subseteq Upstream(d, n) /\ x \in Name
      /\ \A y \in Upstream(d, n) : d[y] \subseteq Upstream(d, n)
  BY UpstreamIs
<1>2. QED
  BY <1>1, UpstreamIs

\* More dependencies, more upstream.
LEMMA UpstreamGrows ==
  ASSUME NEW d \in [Name -> SUBSET Name], NEW e \in [Name -> SUBSET Name],
         \A x \in Name : d[x] \subseteq e[x], NEW n \in Name
  PROVE  Upstream(d, n) \subseteq Upstream(e, n)
<1>1. /\ e[n] \subseteq Upstream(e, n)
      /\ \A y \in Upstream(e, n) : e[y] \subseteq Upstream(e, n)
  BY UpstreamIs
<1>2. /\ d[n] \subseteq Upstream(e, n)
      /\ \A y \in Upstream(e, n) \cap Name : d[y] \subseteq Upstream(e, n)
  BY <1>1
<1>3. QED
  BY <1>2, UpstreamIs

-------------------------------------------------------------------------------
(***************************************************************************)
(* updateWaitersLayer ends with every step above its dependencies.  When a *)
(* layer changes in round k, the step has at least k steps on earlier      *)
(* layers; so nothing changes any more when there are as many rounds as    *)
(* steps.                                                                  *)
(***************************************************************************)
\* The dependencies of w that raise it.
Raisers(n, g, w) == {x \in depends[w] : x = n \/ g[x] > layer[x]}

RaiseRound(n, g) ==
    [w \in Name |-> Above(g[w], g, Raisers(n, g, w))]

Arranged == depends \in [Name -> SUBSET Name] /\ layer \in [Name -> Nat]

LEMMA RaiseRoundIs ==
  ASSUME Arranged, NEW n \in Name, NEW g \in [Name -> Nat]
  PROVE  /\ RaiseRound(n, g) \in [Name -> Nat]
         /\ \A w \in Name :
                /\ g[w] <= RaiseRound(n, g)[w]
                /\ \A x \in Raisers(n, g, w) : g[x] + 1 <= RaiseRound(n, g)[w]
                /\ \/ RaiseRound(n, g)[w] = g[w]
                   \/ \E x \in Raisers(n, g, w) : RaiseRound(n, g)[w] = g[x] + 1
<1>1. ASSUME NEW w \in Name
      PROVE  LET m == Above(g[w], g, Raisers(n, g, w))
             IN  /\ m \in Nat /\ g[w] <= m /\ \A d \in Raisers(n, g, w) : g[d] + 1 <= m
                 /\ m = g[w] \/ \E d \in Raisers(n, g, w) : m = g[d] + 1
  <2>1. Raisers(n, g, w) \in SUBSET Name
    BY DEF Arranged, Raisers
  <2>2. IsFiniteSet(Raisers(n, g, w)) /\ \A d \in Raisers(n, g, w) : g[d] \in Nat
    BY <2>1, StepsNat, FS_Subset
  <2>3. QED
    BY <2>2, MaxOver
<1>2. QED
  BY <1>1 DEF RaiseRound

LEMMA RaisedRounds ==
  ASSUME Arranged, NEW n \in Name, NEW l \in [Name -> Nat]
  PROVE  \E f \in [0..Steps -> [Name -> Nat]] :
             /\ \A k \in 0..Steps : f[k] = IF k = 0 THEN l ELSE RaiseRound(n, f[k-1])
             /\ Raised(l, n) = f[Steps]
<1> DEFINE G == [g \in [Name -> Nat] |-> RaiseRound(n, g)]
           Rounds(f) == f = [k \in 0..Steps |-> IF k = 0 THEN l ELSE RaiseRound(n, f[k-1])]
           F == CHOOSE f : Rounds(f)
<1>1. G \in [[Name -> Nat] -> [Name -> Nat]]
  BY RaiseRoundIs
<1>2. PICK f \in [0..Steps -> [Name -> Nat]] : Iterates(Steps, l, G, f)
  <2> HIDE DEF G
  <2>1. QED
    BY <1>1, StepsNat, IteratesExist
<1>3. Rounds(f)
  <2>1. \A k \in 0..Steps : k # 0 => k - 1 \in 0..Steps
    BY StepsNat
  <2>2. \A k \in 0..Steps : k # 0 => G[f[k-1]] = RaiseRound(n, f[k-1])
    BY <2>1
  <2> HIDE DEF G
  <2>3. f = [k \in 0..Steps |-> IF k = 0 THEN l ELSE G[f[k-1]]]
    BY <1>2 DEF Iterates
  <2>4. QED
    BY <2>2, <2>3
<1>4. Rounds(F)
  BY <1>3
<1>5. Raised(l, n) = F[Steps]
  BY DEF Raised, Steps, RaiseRound, Raisers, Above
<1> HIDE DEF F
<1>6. \A k \in 0..Steps : F[k] = IF k = 0 THEN l ELSE RaiseRound(n, F[k-1])
  BY <1>4
<1>7. \A k \in 0..Steps : F[k] \in [Name -> Nat]
  <2> DEFINE T == {k \in 0..Steps : F[k] \in [Name -> Nat]}
  <2>1. 0 \in T
    BY <1>6, StepsNat
  <2>2. ASSUME NEW k \in 0..(Steps-1), k \in T PROVE k + 1 \in T
    <3>1. k + 1 \in 0..Steps /\ k + 1 # 0 /\ (k + 1) - 1 = k
      BY StepsNat
    <3>2. F[k+1] = RaiseRound(n, F[k])
      BY <1>6, <3>1
    <3>3. QED
      BY <2>2, <3>1, <3>2, RaiseRoundIs
  <2> HIDE DEF T
  <2>3. 0..Steps \subseteq T
    BY <2>1, <2>2, StepsNat, Interval
  <2>4. QED
    BY <2>3 DEF T
<1>8. F \in [0..Steps -> [Name -> Nat]]
  BY <1>4, <1>7
<1>9. QED
  BY <1>5, <1>6, <1>8

\* The layers l are those of the process, with step n raised.
RaisedAt(l, n) == /\ l \in [Name -> Nat] /\ layer[n] <= l[n]
                  /\ \A w \in Name \ {n} : l[w] = layer[w]

\* No layer sinks, and a step is raised above one of its dependencies.
LEMMA RaisedUp ==
  ASSUME Arranged, NEW n \in Name, NEW l, RaisedAt(l, n)
  PROVE  /\ Raised(l, n) \in [Name -> Nat]
         /\ \A w \in Name : /\ l[w] <= Raised(l, n)[w]
                            /\ \/ Raised(l, n)[w] = l[w]
                               \/ \E x \in depends[w] : l[x] < Raised(l, n)[w]
<1>1. l \in [Name -> Nat]
  BY DEF RaisedAt
<1>2. PICK f \in [0..Steps -> [Name -> Nat]] :
             /\ \A k \in 0..Steps : f[k] = IF k = 0 THEN l ELSE RaiseRound(n, f[k-1])
             /\ Raised(l, n) = f[Steps]
  BY <1>1, RaisedRounds
<1> DEFINE Good(g) == \A w \in Name : /\ l[w] <= g[w]
                                      /\ \/ g[w] = l[w]
                                         \/ \E x \in depends[w] : l[x] < g[w]
           T == {k \in 0..Steps : Good(f[k])}
<1>3. 0 \in T
  BY <1>1, <1>2, StepsNat
<1>4. ASSUME NEW k \in 0..(Steps-1), k \in T PROVE k + 1 \in T
  <2>1. /\ k \in 0..Steps /\ k + 1 \in 0..Steps /\ k + 1 # 0 /\ (k + 1) - 1 = k
        /\ f[k] \in [Name -> Nat] /\ f[k+1] \in [Name -> Nat]
    BY StepsNat
  <2>2. f[k+1] = RaiseRound(n, f[k])
    BY <1>2, <2>1
  <2>3. ASSUME NEW w \in Name
        PROVE  /\ l[w] <= f[k+1][w]
               /\ f[k+1][w] = l[w] \/ \E x \in depends[w] : l[x] < f[k+1][w]
    <3>1. /\ f[k][w] <= f[k+1][w]
          /\ \/ f[k+1][w] = f[k][w]
             \/ \E x \in Raisers(n, f[k], w) : f[k+1][w] = f[k][x] + 1
      <4>1. /\ f[k][w] <= RaiseRound(n, f[k])[w]
            /\ \/ RaiseRound(n, f[k])[w] = f[k][w]
               \/ \E x \in Raisers(n, f[k], w) : RaiseRound(n, f[k])[w] = f[k][x] + 1
        BY <2>1, RaiseRoundIs
      <4>2. QED
        BY <2>2, <4>1
    <3>2. \A x \in Raisers(n, f[k], w) : x \in depends[w] /\ x \in Name
      BY DEF Raisers, Arranged
    <3>3. \A x \in Name : l[x] \in Nat /\ f[k][x] \in Nat /\ f[k+1][x] \in Nat /\ l[x] <= f[k][x]
      BY <1>1, <1>4, <2>1
    <3>4. f[k][w] = l[w] \/ \E x \in depends[w] : l[x] < f[k][w]
      BY <1>4
    <3>5. depends[w] \subseteq Name
      BY DEF Arranged
    <3>6. QED
      BY <3>1, <3>2, <3>3, <3>4, <3>5
  <2>4. QED
    BY <2>1, <2>3
<1>5. 0..Steps \subseteq T /\ Steps \in 0..Steps
  <2> HIDE DEF T
  <2>1. 0..Steps \subseteq T
    BY <1>3, <1>4, StepsNat, Interval
  <2>2. QED
    BY <2>1, StepsNat
<1>6. QED
  BY <1>2, <1>5

\* Only what is downstream of the step is raised.
LEMMA RaisedOnly ==
  ASSUME Arranged, NEW n \in Name, NEW l, RaisedAt(l, n),
         NEW S, n \in S, \A w \in Name : depends[w] \cap S # {} => w \in S
  PROVE  \A w \in Name : w \notin S => Raised(l, n)[w] = l[w]
<1>1. l \in [Name -> Nat]
  BY DEF RaisedAt
<1>2. PICK f \in [0..Steps -> [Name -> Nat]] :
             /\ \A k \in 0..Steps : f[k] = IF k = 0 THEN l ELSE RaiseRound(n, f[k-1])
             /\ Raised(l, n) = f[Steps]
  BY <1>1, RaisedRounds
<1> DEFINE T == {k \in 0..Steps : \A w \in Name \ S : f[k][w] = l[w]}
<1>3. 0 \in T
  BY <1>1, <1>2, StepsNat
<1>4. ASSUME NEW k \in 0..(Steps-1), k \in T PROVE k + 1 \in T
  <2>1. /\ k \in 0..Steps /\ k + 1 \in 0..Steps /\ k + 1 # 0 /\ (k + 1) - 1 = k
        /\ f[k] \in [Name -> Nat]
    BY StepsNat
  <2>2. f[k+1] = RaiseRound(n, f[k])
    BY <1>2, <2>1
  <2>3. ASSUME NEW w \in Name \ S PROVE f[k+1][w] = l[w]
    <3>1. Raisers(n, f[k], w) = {}
      <4>1. ASSUME NEW x \in Raisers(n, f[k], w) PROVE FALSE
        <5>1. x \in depends[w] /\ x \in Name /\ x \notin S /\ x # n
          BY DEF Raisers, Arranged
        <5>2. f[k][x] = layer[x] /\ layer[x] \in Nat
          BY <1>4, <5>1 DEF RaisedAt, Arranged
        <5>3. QED
          BY <5>1, <5>2 DEF Raisers
      <4>2. QED
        BY <4>1
    <3>2. RaiseRound(n, f[k])[w] = f[k][w]
      BY <2>1, <3>1, RaiseRoundIs
    <3>3. QED
      BY <1>4, <2>2, <3>2
  <2>4. QED
    BY <2>1, <2>3
<1>5. 0..Steps \subseteq T /\ Steps \in 0..Steps
  <2> HIDE DEF T
  <2>1. 0..Steps \subseteq T
    BY <1>3, <1>4, StepsNat, Interval
  <2>2. QED
    BY <2>1, StepsNat
<1>6. QED
  BY <1>2, <1>5

\* Where the layers follow the dependencies, they do so again.
Follows == \A w \in Name : \A x \in depends[w] : layer[x] < layer[w]

Lower(w) == {x \in Name : layer[x] < layer[w]}

LEMMA LowerGrows ==
  ASSUME Arranged, Follows, NEW w \in Name, NEW x \in depends[w]
  PROVE  /\ Cardinality(Lower(w)) \in Nat /\ Cardinality(Lower(x)) \in Nat
         /\ Cardinality(Lower(x)) + 1 <= Cardinality(Lower(w))
         /\ Cardinality(Lower(w)) < Steps
<1>1. /\ x \in Name /\ layer[x] \in Nat /\ layer[w] \in Nat /\ layer[x] < layer[w]
      /\ \A y \in Name : layer[y] \in Nat
  BY DEF Arranged, Follows
<1>2. /\ IsFiniteSet(Lower(w)) /\ IsFiniteSet(Lower(x))
      /\ Lower(x) \cup {x} \subseteq Lower(w) /\ x \notin Lower(x)
      /\ Lower(w) \subseteq Name /\ w \notin Lower(w)
  <2>1. Lower(w) \in SUBSET Name /\ Lower(x) \in SUBSET Name
    BY DEF Lower
  <2>2. Lower(x) \cup {x} \subseteq Lower(w) /\ x \notin Lower(x) /\ w \notin Lower(w)
    BY <1>1 DEF Lower
  <2>3. QED
    BY <2>1, <2>2, StepsNat, FS_Subset
<1>3. Cardinality(Lower(x) \cup {x}) = Cardinality(Lower(x)) + 1
  BY <1>2, FS_AddElement
<1>4. Cardinality(Lower(x) \cup {x}) <= Cardinality(Lower(w))
  BY <1>2, FS_Subset
<1>5. Cardinality(Lower(w)) <= Steps /\ Cardinality(Lower(w)) # Steps
  BY <1>2, StepsNat, FS_Subset DEF Steps
<1>6. QED
  BY <1>2, <1>3, <1>4, <1>5, StepsNat, FS_CardinalityType

LEMMA RaisedFollows ==
  ASSUME Arranged, Follows, NEW n \in Name, NEW l, RaisedAt(l, n)
  PROVE  \A w \in Name : \A x \in depends[w] : Raised(l, n)[x] < Raised(l, n)[w]
<1>1. l \in [Name -> Nat]
  BY DEF RaisedAt
<1>2. PICK f \in [0..Steps -> [Name -> Nat]] :
             /\ \A k \in 0..Steps : f[k] = IF k = 0 THEN l ELSE RaiseRound(n, f[k-1])
             /\ Raised(l, n) = f[Steps]
  BY <1>1, RaisedRounds
<1> DEFINE T == {k \in 0..Steps : k # 0 => \A w \in Name :
                      f[k][w] # f[k-1][w] => Cardinality(Lower(w)) >= k}
<1>3. 0 \in T
  BY StepsNat
<1>4. ASSUME NEW k \in 0..(Steps-1), k \in T PROVE k + 1 \in T
  <2>1. /\ k \in 0..Steps /\ k + 1 \in 0..Steps /\ k + 1 # 0 /\ (k + 1) - 1 = k
        /\ f[k] \in [Name -> Nat] /\ f[k+1] \in [Name -> Nat]
    BY StepsNat
  <2>2. f[k+1] = RaiseRound(n, f[k])
    BY <1>2, <2>1
  <2>3. ASSUME NEW w \in Name, f[k+1][w] # f[k][w] PROVE Cardinality(Lower(w)) >= k + 1
    <3>1. PICK x \in Raisers(n, f[k], w) : f[k+1][w] = f[k][x] + 1 /\ f[k][w] <= f[k+1][w]
      BY <2>1, <2>2, <2>3, RaiseRoundIs
    <3>2. x \in depends[w] /\ x \in Name /\ (x = n \/ f[k][x] > layer[x])
      BY DEF Raisers, Arranged
    <3>3. k # 0 => f[k][x] # f[k-1][x]
      <4>1. SUFFICES ASSUME k # 0, f[k][x] = f[k-1][x] PROVE FALSE
        OBVIOUS
      <4>2. k - 1 \in 0..Steps /\ f[k-1] \in [Name -> Nat] /\ f[k] = RaiseRound(n, f[k-1])
        <5>1. k - 1 \in 0..Steps
          BY <2>1, <4>1, StepsNat
        <5>2. QED
          BY <1>2, <2>1, <4>1, <5>1
      <4>3. x \in Raisers(n, f[k-1], w)
        BY <3>2, <4>1 DEF Raisers
      <4>4. f[k-1][x] + 1 <= f[k][w]
        BY <4>2, <4>3, RaiseRoundIs
      <4>5. f[k][x] \in Nat /\ f[k][w] \in Nat /\ f[k+1][w] \in Nat
        BY <2>1, <3>2
      <4>6. QED
        BY <2>3, <3>1, <4>1, <4>4, <4>5
    <3>4. Cardinality(Lower(x)) >= k
      <4>1. CASE k = 0
        BY <3>2, <4>1, LowerGrows
      <4>2. CASE k # 0
        BY <1>4, <3>2, <3>3, <4>2
      <4>3. QED
        BY <4>1, <4>2
    <3>5. /\ Cardinality(Lower(w)) \in Nat /\ Cardinality(Lower(x)) \in Nat
          /\ Cardinality(Lower(x)) + 1 <= Cardinality(Lower(w))
      BY <3>2, LowerGrows
    <3>6. QED
      BY <3>4, <3>5
  <2>4. QED
    BY <2>1, <2>3
<1>5. 0..Steps \subseteq T /\ Steps \in 0..Steps
  <2> HIDE DEF T
  <2>1. 0..Steps \subseteq T
    BY <1>3, <1>4, StepsNat, Interval
  <2>2. QED
    BY <2>1, StepsNat
<1>6. Steps # 0
  BY StepsNat, FS_EmptySet DEF Steps
<1>7. Steps - 1 \in 0..Steps /\ f[Steps-1] \in [Name -> Nat] /\ f[Steps] \in [Name -> Nat]
  BY <1>6, StepsNat
<1>8. f[Steps] = f[Steps-1]
  <2>1. ASSUME NEW w \in Name, f[Steps][w] # f[Steps-1][w] PROVE FALSE
    <3>1. Cardinality(Lower(w)) >= Steps
      BY <1>5, <1>6, <2>1
    <3>2. Lower(w) \in SUBSET Name /\ w \notin Lower(w)
      BY DEF Lower, Arranged
    <3>3. IsFiniteSet(Lower(w)) /\ Cardinality(Lower(w)) <= Steps /\ Cardinality(Lower(w)) # Steps
      BY <3>2, StepsNat, FS_Subset DEF Steps
    <3>4. QED
      BY <3>1, <3>3, StepsNat, FS_CardinalityType
  <2>2. QED
    BY <1>7, <2>1
<1>9. f[Steps] = RaiseRound(n, f[Steps])
  BY <1>2, <1>5, <1>6, <1>8
<1> DEFINE r == f[Steps]
<1>10. ASSUME NEW w \in Name, NEW x \in depends[w] PROVE r[x] < r[w]
  <2>1. x \in Name /\ r[x] \in Nat /\ r[w] \in Nat /\ layer[x] < layer[w]
        /\ layer[x] \in Nat /\ layer[w] \in Nat
    BY <1>7 DEF Arranged, Follows
  <2>2. CASE x \in Raisers(n, r, w)
    <3>1. r[x] + 1 <= r[w]
      BY <1>7, <1>9, <2>2, RaiseRoundIs
    <3>2. QED
      BY <2>1, <3>1
  <2>3. CASE x \notin Raisers(n, r, w)
    <3>1. x # n /\ ~(r[x] > layer[x])
      BY <2>3 DEF Raisers
    <3>2. l[w] <= r[w]
      BY <1>2, RaisedUp
    <3>3. layer[w] <= l[w] /\ l[w] \in Nat
      BY <1>1, <2>1 DEF RaisedAt
    <3>4. QED
      BY <2>1, <3>1, <3>2, <3>3
  <2>4. QED
    BY <2>2, <2>3
<1>11. QED
  BY <1>2, <1>10

-------------------------------------------------------------------------------
(***************************************************************************)
(* Dependencies, layers and ends, call by call.                            *)
(***************************************************************************)
Shape == /\ steps \in SUBSET Name /\ ends \in SUBSET steps
         /\ depends \in [Name -> SUBSET Name] /\ layer \in [Name -> Nat]
         /\ \A n \in Name : depends[n] \subseteq steps
         /\ \A n \in Name \ steps : depends[n] = {}

LayersStart == \A n \in steps : 1 <= layer[n] /\ (layer[n] = 1 <=> depends[n] = {})

Built == Shape /\ LayersStart /\ LayersFollowDepends /\ EndsCover

LEMMA WiredLayerIs ==
  ASSUME Arranged, NEW l \in [Name -> Nat], NEW G, NEW D \in SUBSET Name
  PROVE  /\ WiredLayer(l, G, D) \in [Name -> Nat]
         /\ \A n \in Name \ G : WiredLayer(l, G, D)[n] = l[n]
         /\ \A n \in Name \cap G :
                /\ l[n] <= WiredLayer(l, G, D)[n]
                /\ \A d \in D \ depends[n] : l[d] + 1 <= WiredLayer(l, G, D)[n]
                /\ \/ WiredLayer(l, G, D)[n] = l[n]
                   \/ \E d \in D \ depends[n] : WiredLayer(l, G, D)[n] = l[d] + 1
<1>1. WiredLayer(l, G, D) =
          [n \in Name |-> IF n \in G THEN Above(l[n], l, D \ depends[n]) ELSE l[n]]
  BY DEF WiredLayer, Above
<1>2. ASSUME NEW n \in Name
      PROVE  LET m == Above(l[n], l, D \ depends[n])
             IN  /\ m \in Nat /\ l[n] <= m /\ \A d \in D \ depends[n] : l[d] + 1 <= m
                 /\ m = l[n] \/ \E d \in D \ depends[n] : m = l[d] + 1
  <2>1. D \ depends[n] \in SUBSET Name
    OBVIOUS
  <2>2. IsFiniteSet(D \ depends[n]) /\ (\A d \in D \ depends[n] : l[d] \in Nat) /\ l[n] \in Nat
    BY <2>1, StepsNat, FS_Subset
  <2>3. QED
    BY <2>2, MaxOver
<1>3. QED
  BY <1>1, <1>2

\* Everything upstream is on an earlier layer.
LEMMA UpstreamLower ==
  ASSUME Arranged, Follows, NEW n \in Name, NEW m \in Upstream(depends, n)
  PROVE  m \in Name /\ layer[m] < layer[n]
<1>1. \A x \in Name : layer[x] \in Nat /\ depends[x] \subseteq Name
  BY DEF Arranged
<1>2. depends[n] \subseteq Lower(n) /\ \A x \in Lower(n) \cap Name : depends[x] \subseteq Lower(n)
  <2>1. depends[n] \subseteq Lower(n)
    BY <1>1 DEF Follows, Lower
  <2>2. ASSUME NEW x \in Lower(n), NEW y \in depends[x] PROVE y \in Lower(n)
    BY <1>1, <2>2 DEF Follows, Lower
  <2>3. QED
    BY <2>1, <2>2
<1>3. Upstream(depends, n) \subseteq Lower(n)
  BY <1>2, UpstreamIs DEF Arranged
<1>4. QED
  BY <1>3 DEF Lower

LEMMA BuiltFollows == Built => Arranged /\ (behind \/ Follows)
  BY DEF Built, Shape, Arranged, Follows, LayersFollowDepends

\* A step that stops being an end leads to one that is new.
LEMMA WiredEndsCover ==
  ASSUME Built, NEW G, NEW D, Wire(G, D),
         steps \subseteq steps', steps' \subseteq Name, G \subseteq steps', D \subseteq steps',
         \A n \in steps' \ steps : n \in G
  PROVE  /\ depends' \in [Name -> SUBSET Name]
         /\ ends' \in SUBSET steps'
         /\ EndsCover'
<1>1. /\ depends \in [Name -> SUBSET Name] /\ ends \subseteq steps /\ steps \subseteq Name
  BY DEF Built, Shape
<1>2. depends' = [n \in Name |-> IF n \in G THEN depends[n] \cup D ELSE depends[n]]
  BY DEF Wire
<1>3. depends' \in [Name -> SUBSET Name] /\ \A n \in Name : depends[n] \subseteq depends'[n]
  BY <1>1, <1>2
<1>4. ends' = (ends \ {d \in D : \E n \in G : d \notin depends[n]}) \cup G
  BY DEF Wire, WiredEnds
<1>5. ASSUME NEW n \in steps' PROVE \E e \in ends' : e = n \/ n \in Upstream(depends', e)
  <2>1. CASE n \notin steps
    BY <1>4, <2>1
  <2>2. CASE n \in steps
    <3>1. PICK e \in ends : e = n \/ n \in Upstream(depends, e)
      BY <2>2 DEF Built, EndsCover
    <3>2. e \in Name
      BY <1>1
    <3>3. Upstream(depends, e) \subseteq Upstream(depends', e)
      BY <1>1, <1>3, <3>2, UpstreamGrows
    <3>4. CASE e \in ends'
      BY <3>1, <3>3, <3>4
    <3>5. CASE e \notin ends'
      <4>1. PICK g \in G : e \in D
        BY <1>4, <3>5
      <4>2. g \in Name /\ e \in depends'[g] /\ g \in ends'
        BY <1>2, <1>4, <4>1
      <4>3. Upstream(depends', e) \cup {e} \subseteq Upstream(depends', g)
        BY <1>3, <4>2, UpstreamAbove
      <4>4. QED
        BY <3>1, <3>3, <4>2, <4>3
    <3>6. QED
      BY <3>4, <3>5
  <2>3. QED
    BY <2>1, <2>2
<1>6. EndsCover'
  BY <1>5 DEF EndsCover
<1>7. QED
  BY <1>1, <1>3, <1>4, <1>6

\* New dependencies close no circle when they lie above none of their waiters.
LEMMA WireNoCircle ==
  ASSUME Built, NEW G, NEW D \in SUBSET steps, Wire(G, D), D \cap G = {},
         steps \subseteq steps', steps' \subseteq Name, steps' \ steps \subseteq G,
         \A n \in G, d \in D : n \notin Upstream(depends, d)
  PROVE  NoCircle'
<1>1. /\ depends \in [Name -> SUBSET Name] /\ steps \subseteq Name
      /\ \A n \in Name : depends[n] \subseteq steps
      /\ \A n \in Name \ steps : depends[n] = {}
      /\ \A S \in SUBSET steps : S # {} => \E n \in S : depends[n] \cap S = {}
  BY DEF Built, Shape, LayersFollowDepends, NoCircle
<1>2. depends' = [n \in Name |-> IF n \in G THEN depends[n] \cup D ELSE depends[n]]
  BY DEF Wire
<1> DEFINE U == D \cup UNION {Upstream(depends, d) : d \in D}
<1>3. /\ D \subseteq U /\ U \cap G = {} /\ U \subseteq steps
      /\ \A x \in U : depends[x] \subseteq U
  <2>1. \A d \in D : /\ d \in Name /\ depends[d] \subseteq Upstream(depends, d)
                     /\ Upstream(depends, d) \subseteq steps
                     /\ \A x \in Upstream(depends, d) :
                            depends[x] \subseteq Upstream(depends, d)
    BY <1>1, UpstreamIs
  <2>2. QED
    BY <2>1
<1> HIDE DEF U
<1>4. ASSUME NEW S \in SUBSET steps', S # {} PROVE \E n \in S : depends'[n] \cap S = {}
  <2>1. CASE S \cap U # {}
    <3>1. PICK n \in S \cap U : depends[n] \cap (S \cap U) = {}
      BY <1>1, <1>3, <2>1
    <3>2. n \in Name /\ n \notin G /\ depends[n] \subseteq U
      BY <1>1, <1>3
    <3>3. depends'[n] = depends[n]
      BY <1>2, <3>2
    <3>4. QED
      BY <3>1, <3>2, <3>3
  <2>2. CASE S \cap U = {} /\ S \cap steps # {}
    <3>1. PICK n \in S \cap steps : depends[n] \cap (S \cap steps) = {}
      BY <1>1, <2>2
    <3>2. n \in Name /\ depends[n] \cap S = {} /\ D \cap S = {}
      BY <1>1, <1>3, <2>2, <3>1
    <3>3. depends'[n] \subseteq depends[n] \cup D
      BY <1>2, <3>2
    <3>4. QED
      BY <3>1, <3>2, <3>3
  <2>3. CASE S \cap steps = {}
    <3>1. PICK n \in S : n \in Name \ steps
      BY <1>4, <2>3
    <3>2. depends'[n] \subseteq D
      BY <1>1, <1>2, <3>1
    <3>3. QED
      BY <2>3, <3>1, <3>2
  <2>4. QED
    BY <2>1, <2>2, <2>3
<1>5. QED
  BY <1>4 DEF NoCircle

\* Where every step is above its dependencies, a lowest one waits for no other.
LEMMA LayersNoCircle ==
  ASSUME NEW R \in SUBSET Name, NEW e, NEW l \in [Name -> Nat],
         \A n \in R : \A d \in e[n] : l[d] < l[n],
         NEW S \in SUBSET R, S # {}
  PROVE  \E n \in S : e[n] \cap S = {}
<1> DEFINE T == {l[n] : n \in S}
<1>1. T \in SUBSET Nat /\ T # {}
  OBVIOUS
<1>2. PICK m \in T : \A j \in T : m <= j
  <2> HIDE DEF T
  <2>1. QED
    BY <1>1, Smallest
<1>3. PICK n \in S : m = l[n]
  OBVIOUS
<1>4. \A d \in e[n] : d \notin S
  <2> SUFFICES ASSUME NEW d \in e[n], d \in S PROVE FALSE
    OBVIOUS
  <2>1. l[d] < l[n] /\ l[n] <= l[d] /\ l[d] \in Nat /\ l[n] \in Nat
    BY <1>2, <1>3
  <2>2. QED
    BY <2>1
<1>5. QED
  BY <1>4

LEMMA AddBuilds ==
  ASSUME Built, NEW n \in Name, NEW D, AddStep(n, D), behind' = behind
  PROVE  Built'
<1>1. /\ n \notin steps /\ D \subseteq steps /\ steps' = steps \cup {n} /\ Wire({n}, D)
      /\ layer' = WiredLayer([layer EXCEPT ![n] = 1], {n}, D)
      /\ steps \subseteq Name /\ depends \in [Name -> SUBSET Name] /\ layer \in [Name -> Nat]
      /\ depends[n] = {} /\ \A w \in Name : depends[w] \subseteq steps
      /\ \A w \in Name \ steps : depends[w] = {}
  BY DEF AddStep, NewLayer, Built, Shape
<1>2. depends' \in [Name -> SUBSET Name] /\ ends' \in SUBSET steps' /\ EndsCover'
  BY <1>1, WiredEndsCover
<1>3. depends' = [w \in Name |-> IF w = n THEN D ELSE depends[w]]
  BY <1>1 DEF Wire
<1> DEFINE l == [layer EXCEPT ![n] = 1]
<1>4. /\ l \in [Name -> Nat] /\ l[n] = 1 /\ \A w \in Name \ {n} : l[w] = layer[w]
  BY <1>1
<1>5. /\ layer' \in [Name -> Nat] /\ \A w \in Name \ {n} : layer'[w] = layer[w]
      /\ 1 <= layer'[n] /\ \A d \in D : layer[d] + 1 <= layer'[n]
      /\ layer'[n] = 1 \/ \E d \in D : layer'[n] = layer[d] + 1
  <2> HIDE DEF l
  <2>1. Arranged /\ D \in SUBSET Name /\ layer' = WiredLayer(l, {n}, D)
    BY <1>1 DEF Arranged, l
  <2>2. /\ WiredLayer(l, {n}, D) \in [Name -> Nat]
        /\ \A w \in Name \ {n} : WiredLayer(l, {n}, D)[w] = l[w]
        /\ l[n] <= WiredLayer(l, {n}, D)[n]
        /\ \A d \in D : l[d] + 1 <= WiredLayer(l, {n}, D)[n]
        /\ \/ WiredLayer(l, {n}, D)[n] = l[n]
           \/ \E d \in D : WiredLayer(l, {n}, D)[n] = l[d] + 1
    BY <1>1, <1>4, <2>1, WiredLayerIs
  <2>3. \A d \in D : l[d] = layer[d]
    BY <1>1, <1>4
  <2>4. QED
    BY <1>4, <2>1, <2>2, <2>3
<1>6. Shape'
  BY <1>1, <1>2, <1>3, <1>5 DEF Shape
<1>7. LayersStart'
  <2>1. ASSUME NEW w \in steps' PROVE 1 <= layer'[w] /\ (layer'[w] = 1 <=> depends'[w] = {})
    <3>1. CASE w = n
      <4>1. \A d \in D : layer[d] \in Nat /\ 1 <= layer[d]
        BY <1>1 DEF Built, LayersStart
      <4>2. layer'[n] \in Nat
        BY <1>5
      <4>3. QED
        BY <1>3, <1>5, <3>1, <4>1, <4>2
    <3>2. CASE w # n
      BY <1>1, <1>3, <1>5, <3>2 DEF Built, LayersStart
    <3>3. QED
      BY <3>1, <3>2
  <2>2. QED
    BY <2>1 DEF LayersStart
<1>8. LayersFollowDepends'
  <2>1. ASSUME ~behind, NEW w \in steps', NEW d \in depends'[w] PROVE layer'[d] < layer'[w]
    <3>1. d \in steps /\ d # n /\ layer'[d] = layer[d] /\ layer[d] \in Nat /\ layer'[w] \in Nat
      BY <1>1, <1>3, <1>5, <2>1
    <3>2. CASE w = n
      BY <1>3, <1>5, <2>1, <3>1, <3>2
    <3>3. CASE w # n
      BY <1>1, <1>3, <1>5, <2>1, <3>1, <3>3 DEF Built, LayersFollowDepends
    <3>4. QED
      BY <3>2, <3>3
  <2>2. NoCircle'
    <3>1. \A d \in D : n \notin Upstream(depends, d)
      <4>1. \A d \in D : d \in Name /\ Upstream(depends, d) \subseteq steps
        BY <1>1, UpstreamIs
      <4>2. QED
        BY <1>1, <4>1
    <3>2. QED
      BY <1>1, <3>1, WireNoCircle
  <2>3. QED
    BY <2>1, <2>2 DEF LayersFollowDepends
<1>9. QED
  BY <1>2, <1>6, <1>7, <1>8 DEF Built

LEMMA MergeBuilds ==
  ASSUME Built, ~behind, NEW n \in Name, NEW D, MergeStep(n, D), behind' = behind
  PROVE  Built'
<1>1. /\ n \in steps /\ D \subseteq steps \ {n} /\ steps' = steps /\ Wire({n}, D) /\ ~Circle(n, D)
      /\ layer' = Raised(WiredLayer(layer, {n}, D), n)
      /\ steps \subseteq Name /\ depends \in [Name -> SUBSET Name] /\ layer \in [Name -> Nat]
      /\ \A w \in Name : depends[w] \subseteq steps
      /\ \A w \in Name \ steps : depends[w] = {}
  BY DEF MergeStep, Built, Shape
<1>2. Arranged /\ Follows
  BY BuiltFollows
<1>3. depends' \in [Name -> SUBSET Name] /\ ends' \in SUBSET steps' /\ EndsCover'
  BY <1>1, WiredEndsCover
<1>4. depends' = [w \in Name |-> IF w = n THEN depends[n] \cup D ELSE depends[w]]
  BY <1>1 DEF Wire
<1> DEFINE l == WiredLayer(layer, {n}, D)
<1>5. /\ RaisedAt(l, n) /\ \A w \in Name \ {n} : l[w] = layer[w]
      /\ l \in [Name -> Nat] /\ layer[n] <= l[n]
      /\ \A d \in D \ depends[n] : layer[d] + 1 <= l[n]
      /\ l[n] = layer[n] \/ \E d \in D \ depends[n] : l[n] = layer[d] + 1
  <2>1. D \in SUBSET Name
    BY <1>1
  <2> HIDE DEF l
  <2>2. /\ l \in [Name -> Nat] /\ \A w \in Name \ {n} : l[w] = layer[w]
        /\ layer[n] <= l[n]
        /\ \A d \in D \ depends[n] : layer[d] + 1 <= l[n]
        /\ l[n] = layer[n] \/ \E d \in D \ depends[n] : l[n] = layer[d] + 1
    BY <1>1, <1>2, <2>1, WiredLayerIs DEF l
  <2>3. QED
    BY <2>2 DEF RaisedAt
<1> HIDE DEF l
<1>6. /\ layer' \in [Name -> Nat]
      /\ \A w \in Name : /\ l[w] <= layer'[w]
                         /\ layer'[w] = l[w] \/ \E x \in depends[w] : l[x] < layer'[w]
      /\ \A w \in Name : \A x \in depends[w] : layer'[x] < layer'[w]
  <2>1. layer' = Raised(l, n)
    BY <1>1 DEF l
  <2>2. /\ Raised(l, n) \in [Name -> Nat]
        /\ \A w \in Name : /\ l[w] <= Raised(l, n)[w]
                           /\ \/ Raised(l, n)[w] = l[w]
                              \/ \E x \in depends[w] : l[x] < Raised(l, n)[w]
    BY <1>2, <1>5, RaisedUp
  <2>3. \A w \in Name : \A x \in depends[w] : Raised(l, n)[x] < Raised(l, n)[w]
    BY <1>2, <1>5, RaisedFollows
  <2>4. QED
    BY <2>1, <2>2, <2>3
<1>7. ASSUME NEW d \in D \ depends[n] PROVE layer'[d] = layer[d] /\ layer[d] < layer'[n]
  <2> DEFINE S == {w \in Name : w = n \/ n \in Upstream(depends, w)}
  <2>1. d \in Name /\ d # n /\ layer[d] \in Nat /\ layer[n] \in Nat
    BY <1>1
  <2>2. d \notin S
    <3>1. SUFFICES ASSUME n \in Upstream(depends, d) PROVE FALSE
      BY <2>1
    <3>2. layer[n] < layer[d]
      BY <1>2, <2>1, <3>1, UpstreamLower
    <3>3. QED
      BY <1>1, <1>7, <2>1, <3>1, <3>2 DEF Circle
  <2>3. \A w \in Name : depends[w] \cap S # {} => w \in S
    <3>1. ASSUME NEW w \in Name, NEW x \in depends[w], x \in S PROVE n \in Upstream(depends, w)
      <4>1. Upstream(depends, x) \cup {x} \subseteq Upstream(depends, w)
        BY <1>1, UpstreamAbove
      <4>2. QED
        BY <3>1, <4>1
    <3>2. QED
      BY <3>1
  <2>4. n \in S
    OBVIOUS
  <2> HIDE DEF S
  <2>5. Raised(l, n)[d] = l[d]
    BY <1>2, <1>5, <2>1, <2>2, <2>3, <2>4, RaisedOnly
  <2>6. layer'[d] = l[d] /\ l[d] = layer[d]
    BY <1>1, <1>5, <2>1, <2>5 DEF l
  <2>7. layer[d] + 1 <= l[n] /\ l[n] <= layer'[n] /\ l[n] \in Nat /\ layer'[n] \in Nat
    BY <1>5, <1>6
  <2>8. QED
    BY <2>1, <2>6, <2>7
<1>8. Shape'
  BY <1>1, <1>3, <1>4, <1>6 DEF Shape
<1>9. LayersStart'
  <2>1. \A x \in steps : layer[x] \in Nat /\ 1 <= layer[x] /\ l[x] \in Nat /\ 1 <= l[x]
                         /\ layer'[x] \in Nat
    <3>1. \A x \in steps : x \in Name /\ 1 <= layer[x] /\ layer[x] \in Nat
      BY <1>1 DEF Built, LayersStart
    <3>2. \A x \in steps : l[x] \in Nat /\ layer[x] <= l[x]
      BY <1>5, <3>1
    <3>3. QED
      BY <1>6, <3>1, <3>2
  <2>2. ASSUME NEW w \in steps PROVE 1 <= layer'[w] /\ (layer'[w] = 1 <=> depends'[w] = {})
    <3>1. /\ w \in Name /\ l[w] <= layer'[w]
          /\ layer'[w] = l[w] \/ \E x \in depends[w] : l[x] < layer'[w]
          /\ layer[w] = 1 <=> depends[w] = {}
      BY <1>1, <1>6 DEF Built, LayersStart
    <3>2. \A x \in depends[w] : x \in steps
      BY <1>1, <3>1
    <3>3. CASE w # n
      <4>1. l[w] = layer[w] /\ depends'[w] = depends[w]
        BY <1>4, <1>5, <3>1, <3>3
      <4>2. QED
        BY <2>1, <3>1, <3>2, <4>1
    <3>4. CASE w = n
      <4>1. CASE D \subseteq depends[n]
        <5>1. l[w] = layer[w] /\ depends'[w] = depends[w]
          BY <1>4, <1>5, <3>4, <4>1
        <5>2. QED
          BY <2>1, <3>1, <3>2, <5>1
      <4>2. CASE ~(D \subseteq depends[n])
        <5>1. PICK d \in D \ depends[n] : layer[d] + 1 <= l[n]
          BY <1>5, <4>2
        <5>2. d \in steps /\ depends'[n] # {}
          BY <1>1, <1>4
        <5>3. QED
          BY <2>1, <3>1, <3>4, <5>1, <5>2
      <4>3. QED
        BY <4>1, <4>2
    <3>5. QED
      BY <3>3, <3>4
  <2>3. QED
    BY <1>1, <2>2 DEF LayersStart
<1>10. LayersFollowDepends'
  <2>1. ASSUME NEW w \in steps, NEW d \in depends'[w] PROVE layer'[d] < layer'[w]
    <3>1. CASE d \in depends[w]
      BY <1>1, <1>6, <3>1
    <3>2. CASE d \notin depends[w]
      <4>1. w = n /\ d \in D \ depends[n]
        BY <1>1, <1>4, <2>1, <3>2
      <4>2. QED
        BY <1>7, <4>1
    <3>3. QED
      BY <3>1, <3>2
  <2>2. NoCircle'
    <3>1. ASSUME NEW S \in SUBSET steps', S # {} PROVE \E w \in S : depends'[w] \cap S = {}
      <4>1. /\ steps \subseteq Name /\ layer' \in [Name -> Nat] /\ S \in SUBSET steps
            /\ \A w \in steps : \A d \in depends'[w] : layer'[d] < layer'[w]
        BY <1>1, <1>6, <2>1, <3>1
      <4>2. QED
        BY <3>1, <4>1, LayersNoCircle
    <3>2. QED
      BY <3>1 DEF NoCircle
  <2>3. QED
    BY <1>1, <2>1, <2>2 DEF LayersFollowDepends
<1>11. QED
  BY <1>3, <1>8, <1>9, <1>10 DEF Built

LEMMA AfterBuilds ==
  ASSUME Built, NEW G \in SUBSET steps, NEW D \in SUBSET steps, D # {}, After(G, D)
  PROVE  Built'
<1>1. /\ D \cap G = {} /\ steps' = steps /\ Wire(G, D) /\ layer' = WiredLayer(layer, G, D)
      /\ behind' = (behind \/ \E w \in steps : \E n \in depends[w] : layer'[n] >= layer'[w])
      /\ steps \subseteq Name /\ depends \in [Name -> SUBSET Name] /\ layer \in [Name -> Nat]
      /\ \A w \in Name : depends[w] \subseteq steps
      /\ \A w \in Name \ steps : depends[w] = {}
  BY DEF After, Built, Shape
<1>2. depends' \in [Name -> SUBSET Name] /\ ends' \in SUBSET steps' /\ EndsCover'
  BY <1>1, WiredEndsCover
<1>3. depends' = [w \in Name |-> IF w \in G THEN depends[w] \cup D ELSE depends[w]]
  BY <1>1 DEF Wire
<1>4. /\ layer' \in [Name -> Nat] /\ \A w \in Name \ G : layer'[w] = layer[w]
      /\ \A n \in G : /\ layer[n] <= layer'[n]
                      /\ \A d \in D \ depends[n] : layer[d] + 1 <= layer'[n]
                      /\ \/ layer'[n] = layer[n]
                         \/ \E d \in D \ depends[n] : layer'[n] = layer[d] + 1
  <2>1. Arranged /\ D \in SUBSET Name /\ G \subseteq Name
    BY <1>1 DEF Arranged
  <2>2. QED
    BY <1>1, <2>1, WiredLayerIs
<1>5. Shape'
  BY <1>1, <1>2, <1>3, <1>4 DEF Shape
<1>6. LayersStart'
  <2>1. ASSUME NEW w \in steps PROVE 1 <= layer'[w] /\ (layer'[w] = 1 <=> depends'[w] = {})
    <3>1. /\ w \in Name /\ 1 <= layer[w] /\ layer[w] \in Nat /\ layer'[w] \in Nat
          /\ layer[w] = 1 <=> depends[w] = {}
      BY <1>1, <1>4 DEF Built, LayersStart
    <3>2. CASE w \notin G
      BY <1>3, <1>4, <3>1, <3>2
    <3>3. CASE w \in G
      <4>1. depends'[w] = depends[w] \cup D /\ depends'[w] # {}
        BY <1>3, <3>1, <3>3
      <4>2. CASE D \subseteq depends[w]
        BY <1>4, <3>1, <3>3, <4>1, <4>2
      <4>3. CASE ~(D \subseteq depends[w])
        <5>1. PICK d \in D \ depends[w] : layer[d] + 1 <= layer'[w]
          BY <1>4, <3>3, <4>3
        <5>2. layer[d] \in Nat /\ 1 <= layer[d]
          BY <1>1 DEF Built, LayersStart
        <5>3. QED
          BY <3>1, <4>1, <5>1, <5>2
      <4>4. QED
        BY <4>2, <4>3
    <3>4. QED
      BY <3>2, <3>3
  <2>2. QED
    BY <1>1, <2>1 DEF LayersStart
<1>7. LayersFollowDepends'
  <2>1. ASSUME ~behind', NEW w \in steps, NEW d \in depends'[w] PROVE layer'[d] < layer'[w]
    <3>1. d \in Name /\ w \in Name /\ layer'[d] \in Nat /\ layer'[w] \in Nat
      BY <1>1, <1>2, <1>4, <2>1
    <3>2. CASE d \in depends[w]
      <4>1. ~(layer'[d] >= layer'[w])
        BY <1>1, <2>1, <3>2
      <4>2. QED
        BY <3>1, <4>1
    <3>3. CASE d \notin depends[w]
      <4>1. w \in G /\ d \in D \ depends[w] /\ d \notin G
        BY <1>1, <1>3, <2>1, <3>1, <3>3
      <4>2. layer'[d] = layer[d] /\ layer[d] + 1 <= layer'[w]
        BY <1>4, <3>1, <4>1
      <4>3. QED
        BY <3>1, <4>2
    <3>4. QED
      BY <3>2, <3>3
  <2>2. NoCircle'
    <3>1. \A n \in G, d \in D : n \notin Upstream(depends, d)
      BY DEF After
    <3>2. QED
      BY <1>1, <3>1, WireNoCircle
  <2>3. QED
    BY <1>1, <2>1, <2>2 DEF LayersFollowDepends
<1>8. QED
  BY <1>2, <1>5, <1>6, <1>7 DEF Built

-------------------------------------------------------------------------------
(***************************************************************************)
(* The invariant: the phases, the numbers and the paths.                   *)
(***************************************************************************)
Phases == /\ phase \in {"build", "merge", "visible", "ready", "panic"}
          /\ other.depends \in [MergedName -> SUBSET MergedName]
          /\ heads \subseteq steps
          /\ phase = "merge" => ~behind /\ todo \subseteq MergedName
          /\ phase = "visible" => todo \subseteq steps
          /\ phase = "ready" => todo = {}

Numbered == /\ index \in [Name -> Nat]
            /\ \A n \in steps : index[n] < Cardinality(steps)
            /\ \A m, n \in steps : index[m] = index[n] => m = n

\* The steps in and above a step.
UpTo(n) == Upstream(depends, n) \cup {n}

\* What a step has in its path: its own bit until the loop of constructVisible
\* begins; then the bits of steps above it only, those of each dependency that has
\* been visited and, if the layers are right, of everything above that.
Paths ==
    /\ nodePath \in [Name -> SUBSET Nat]
    /\ phase \in {"build", "merge"} => \A n \in steps : nodePath[n] = {index[n]}
    /\ phase \in {"visible", "ready"} =>
          \A n \in steps :
             /\ index[n] \in nodePath[n]
             /\ \A b \in nodePath[n] : \E m \in UpTo(n) : b = index[m]
             /\ \A d \in depends[n] \ todo :
                   /\ index[d] \in nodePath[n]
                   /\ ~behind => \A m \in UpTo(d) : index[m] \in nodePath[n]

ArrangeInv == Built /\ Phases /\ Numbered /\ Paths

LEMMA InitArrange == Init => ArrangeInv
<1> SUFFICES ASSUME Init PROVE ArrangeInv
  OBVIOUS
<1>1. other.depends \in [MergedName -> SUBSET MergedName]
  BY DEF Init
<1>2. Built
  BY DEF Init, Built, Shape, LayersStart, LayersFollowDepends, NoCircle, EndsCover
<1>3. Phases /\ Numbered /\ Paths
  BY <1>1 DEF Init, Phases, Numbered, Paths
<1>4. QED
  BY <1>2, <1>3 DEF ArrangeInv

\* A new step has a number of its own, and its bit.
LEMMA AddNumbers ==
  ASSUME Shape, Numbered, NEW n \in Name, NEW D, AddStep(n, D), nodePath \in [Name -> SUBSET Nat]
  PROVE  /\ Numbered' /\ nodePath' \in [Name -> SUBSET Nat]
         /\ (\A m \in steps : nodePath[m] = {index[m]}) =>
                \A m \in steps' : nodePath'[m] = {index'[m]}
<1>1. /\ n \notin steps /\ steps' = steps \cup {n} /\ steps \in SUBSET Name
      /\ index' = [index EXCEPT ![n] = Cardinality(steps)]
      /\ nodePath' = [nodePath EXCEPT ![n] = {Cardinality(steps)}]
      /\ index \in [Name -> Nat]
  BY DEF AddStep, Shape, Numbered
<1>2. IsFiniteSet(steps) /\ Cardinality(steps) \in Nat
  BY <1>1, StepsNat, FS_Subset, FS_CardinalityType
<1>3. Cardinality(steps') = Cardinality(steps) + 1
  BY <1>1, <1>2, FS_AddElement
<1>4. Numbered'
  <2>1. \A m \in steps : index'[m] = index[m] /\ index[m] \in Nat /\ index[m] < Cardinality(steps)
    BY <1>1 DEF Numbered
  <2>2. index'[n] = Cardinality(steps) /\ index' \in [Name -> Nat]
    BY <1>1, <1>2
  <2>3. \A m, k \in steps' : index'[m] = index'[k] => m = k
    BY <1>1, <1>2, <2>1, <2>2 DEF Numbered
  <2>4. \A m \in steps' : index'[m] < Cardinality(steps')
    BY <1>1, <1>2, <1>3, <2>1, <2>2
  <2>5. QED
    BY <2>2, <2>3, <2>4 DEF Numbered
<1>5. QED
  BY <1>1, <1>2, <1>4

LEMMA NextBuilt == ArrangeInv /\ [Next]_vars => Built'
<1> SUFFICES ASSUME ArrangeInv, [Next]_vars PROVE Built'
  OBVIOUS
<1>1. /\ Built /\ heads \subseteq steps /\ steps \subseteq Name
      /\ phase = "merge" => ~behind /\ todo \subseteq MergedName
      /\ MergedName \subseteq Name
  BY ArrangeAssumption DEF ArrangeInv, Phases, Built, Shape
<1>2. CASE UNCHANGED <<steps, ends, depends, layer, behind>>
  BY <1>1, <1>2 DEF Built, Shape, LayersStart, LayersFollowDepends, NoCircle, EndsCover
<1>3. ASSUME NEW n \in Name, NEW D, CustomStep(n, D) PROVE Built'
  BY <1>1, <1>3, AddBuilds DEF CustomStep
<1>4. ASSUME NEW n \in Name, NEW D, Redefine(n, D) PROVE Built'
  BY <1>1, <1>4, MergeBuilds DEF Redefine
<1>5. ASSUME NEW n \in Name, SyncAll(n) PROVE Built'
  BY <1>1, <1>5, AddBuilds DEF SyncAll
<1>6. ASSUME NEW G \in (SUBSET heads) \ {{}}, NEW D \in (SUBSET steps) \ {{}}, After(G, D)
      PROVE  Built'
  <2>1. G \in SUBSET steps /\ D \in SUBSET steps /\ D # {}
    BY <1>1, <1>6
  <2>2. QED
    BY <1>1, <1>6, <2>1, AfterBuilds
<1>7. ASSUME NEW n \in Name, MergeAdd(n) PROVE Built'
  BY <1>1, <1>7, AddBuilds DEF MergeAdd
<1>8. ASSUME NEW n \in Name, MergeInto(n) PROVE Built'
  BY <1>1, <1>8, MergeBuilds DEF MergeInto
<1>9. CASE \/ MergeBegin \/ MergeEnd \/ Initialize \/ Ready \/ Terminated \/ UNCHANGED vars
           \/ \E n \in Name : MergePanics(n) \/ Visit(n)
  <2>1. UNCHANGED <<steps, ends, depends, layer, behind>>
    BY <1>9 DEF MergeBegin, MergeEnd, Initialize, Ready, Terminated, MergePanics, Visit, vars
  <2>2. QED
    BY <1>2, <2>1
<1>10. QED
  BY <1>3, <1>4, <1>5, <1>6, <1>7, <1>8, <1>9 DEF Next

LEMMA NextPhases == ArrangeInv /\ [Next]_vars => Phases'
<1> SUFFICES ASSUME ArrangeInv, [Next]_vars PROVE Phases'
  OBVIOUS
<1>1. /\ phase \in {"build", "merge", "visible", "ready", "panic"}
      /\ other.depends \in [MergedName -> SUBSET MergedName]
      /\ heads \subseteq steps
      /\ phase = "merge" => ~behind /\ todo \subseteq MergedName
      /\ phase = "visible" => todo \subseteq steps
      /\ phase = "ready" => todo = {}
  BY DEF ArrangeInv, Phases
<1> USE <1>1 DEF Phases
<1>2. ASSUME NEW n \in Name, NEW D, CustomStep(n, D) PROVE Phases'
  BY <1>2 DEF CustomStep, AddStep, Call
<1>3. ASSUME NEW n \in Name, NEW D, Redefine(n, D) PROVE Phases'
  BY <1>3 DEF Redefine, MergeStep, Call
<1>4. ASSUME NEW n \in Name, SyncAll(n) PROVE Phases'
  BY <1>4 DEF SyncAll, AddStep, Call
<1>5. ASSUME NEW G, NEW D, After(G, D) PROVE Phases'
  BY <1>5 DEF After, Call
<1>6. ASSUME NEW n \in Name, MergeAdd(n) PROVE Phases'
  BY <1>6 DEF MergeAdd, AddStep
<1>7. ASSUME NEW n \in Name, MergeInto(n) PROVE Phases'
  BY <1>7 DEF MergeInto, MergeStep
<1>8. CASE MergeBegin \/ MergeEnd
  BY <1>8 DEF MergeBegin, MergeEnd, Call
<1>9. CASE Initialize \/ Ready \/ Terminated \/ UNCHANGED vars
  BY <1>9 DEF Initialize, Ready, Terminated, vars
<1>10. CASE \E n \in Name : MergePanics(n) \/ Visit(n)
  BY <1>10 DEF MergePanics, Visit
<1>11. QED
  BY <1>2, <1>3, <1>4, <1>5, <1>6, <1>7, <1>8, <1>9, <1>10 DEF Next

\* When the loop visits a step, it has visited its dependencies.
LEMMA VisitsInOrder ==
  ASSUME Built, ~behind, todo \subseteq steps, NEW n \in Least(todo, layer)
  PROVE  depends[n] \cap todo = {}
<1>1. n \in steps /\ n \in Name /\ \A x \in todo : layer[n] <= layer[x]
  BY DEF Least, Built, Shape
<1>2. \A d \in depends[n] : d \in Name /\ layer[d] < layer[n] /\ layer[d] \in Nat /\ layer[n] \in Nat
  BY <1>1 DEF Built, Shape, LayersFollowDepends
<1>3. QED
  BY <1>1, <1>2

LEMMA VisitPaths ==
  ASSUME Built, Phases, Numbered, Paths, NEW n \in Name, Visit(n)
  PROVE  Paths'
<1>1. /\ phase = "visible" /\ n \in Least(todo, layer) /\ todo' = todo \ {n}
      /\ UNCHANGED <<phase, steps, depends, index, behind>>
      /\ nodePath' = [w \in Name |-> IF n \in depends[w] THEN nodePath[w] \cup nodePath[n]
                                                          ELSE nodePath[w]]
      /\ todo \subseteq steps /\ n \in steps
      /\ nodePath \in [Name -> SUBSET Nat] /\ depends \in [Name -> SUBSET Name]
      /\ steps \subseteq Name
  BY DEF Visit, HandedOn, Phases, Paths, Least, Built, Shape
<1>2. /\ steps' = steps /\ index' = index /\ depends' = depends /\ behind' = behind
      /\ \A w : UpTo(w)' = UpTo(w)
  BY <1>1 DEF UpTo
<1>3. nodePath' \in [Name -> SUBSET Nat] /\ \A w \in Name : nodePath[w] \subseteq nodePath'[w]
  BY <1>1
<1>4. \A w \in steps :
             /\ index[w] \in nodePath[w]
             /\ \A b \in nodePath[w] : \E m \in UpTo(w) : b = index[m]
             /\ \A d \in depends[w] \ todo :
                   /\ index[d] \in nodePath[w]
                   /\ ~behind => \A m \in UpTo(d) : index[m] \in nodePath[w]
  BY <1>1 DEF Paths
<1>5. ~behind => \A m \in UpTo(n) : index[m] \in nodePath[n]
  <2>1. ASSUME ~behind, NEW m \in Upstream(depends, n) PROVE index[m] \in nodePath[n]
    <3>1. PICK d \in depends[n] : m = d \/ m \in Upstream(depends, d)
      BY <1>1, <2>1, UpstreamSplit
    <3>2. d \notin todo
      BY <1>1, <2>1, VisitsInOrder
    <3>3. QED
      BY <1>1, <1>4, <2>1, <3>1, <3>2 DEF UpTo
  <2>2. QED
    BY <1>1, <1>4, <2>1 DEF UpTo
<1>6. ASSUME NEW w \in steps
      PROVE  /\ index[w] \in nodePath'[w]
             /\ \A b \in nodePath'[w] : \E m \in UpTo(w) : b = index[m]
             /\ \A d \in depends[w] \ todo' :
                   /\ index[d] \in nodePath'[w]
                   /\ ~behind => \A m \in UpTo(d) : index[m] \in nodePath'[w]
  <2>1. w \in Name
    BY <1>1
  <2>2. ASSUME NEW b \in nodePath'[w] PROVE \E m \in UpTo(w) : b = index[m]
    <3>1. CASE b \in nodePath[w]
      BY <1>4, <3>1
    <3>2. CASE b \notin nodePath[w]
      <4>1. n \in depends[w] /\ b \in nodePath[n]
        BY <1>1, <2>1, <2>2, <3>2
      <4>2. PICK m \in UpTo(n) : b = index[m]
        BY <1>1, <1>4, <4>1
      <4>3. UpTo(n) \subseteq UpTo(w)
        BY <1>1, <2>1, <4>1, UpstreamAbove DEF UpTo
      <4>4. QED
        BY <4>2, <4>3
    <3>3. QED
      BY <3>1, <3>2
  <2>3. ASSUME NEW d \in depends[w] \ todo'
        PROVE  /\ index[d] \in nodePath'[w]
               /\ ~behind => \A m \in UpTo(d) : index[m] \in nodePath'[w]
    <3>1. CASE d \notin todo
      BY <1>3, <1>4, <2>1, <3>1
    <3>2. CASE d \in todo
      <4>1. d = n /\ n \in depends[w]
        BY <1>1, <2>3, <3>2
      <4>2. nodePath[n] \subseteq nodePath'[w]
        BY <1>1, <2>1, <4>1
      <4>3. QED
        BY <1>1, <1>4, <1>5, <4>1, <4>2
    <3>3. QED
      BY <3>1, <3>2
  <2>4. QED
    BY <1>3, <1>4, <2>1, <2>2, <2>3
<1>7. phase' = "visible"
  BY <1>1
<1>8. QED
  BY <1>2, <1>3, <1>6, <1>7 DEF Paths

\* Steps that change neither the numbers nor the paths, before the loop.
LEMMA SameNumbers ==
  ASSUME Numbered, Paths, phase \in {"build", "merge"}, phase' \in {"build", "merge", "panic"},
         UNCHANGED <<steps, index, nodePath>>
  PROVE  Numbered' /\ Paths'
  BY DEF Numbered, Paths

LEMMA NextNumbers == ArrangeInv /\ [Next]_vars => Numbered' /\ Paths'
<1> SUFFICES ASSUME ArrangeInv, [Next]_vars PROVE Numbered' /\ Paths'
  OBVIOUS
<1>1. Built /\ Shape /\ Phases /\ Numbered /\ Paths
  BY DEF ArrangeInv, Built
<1>2. ASSUME NEW n \in Name, NEW D, AddStep(n, D), phase' = phase, phase \in {"build", "merge"}
      PROVE  Numbered' /\ Paths'
  <2>1. nodePath \in [Name -> SUBSET Nat] /\ \A m \in steps : nodePath[m] = {index[m]}
    BY <1>1, <1>2 DEF Paths
  <2>2. /\ Numbered' /\ nodePath' \in [Name -> SUBSET Nat]
        /\ \A m \in steps' : nodePath'[m] = {index'[m]}
    BY <1>1, <1>2, <2>1, AddNumbers
  <2>3. phase' \notin {"visible", "ready"}
    BY <1>2
  <2>4. QED
    BY <2>2, <2>3 DEF Paths
<1>3. ASSUME NEW n \in Name, NEW D, CustomStep(n, D) PROVE Numbered' /\ Paths'
  BY <1>2, <1>3 DEF CustomStep, Call
<1>4. ASSUME NEW n \in Name, NEW D, Redefine(n, D) PROVE Numbered' /\ Paths'
  BY <1>1, <1>4, SameNumbers DEF Redefine, MergeStep, Call
<1>5. ASSUME NEW n \in Name, SyncAll(n) PROVE Numbered' /\ Paths'
  BY <1>2, <1>5 DEF SyncAll, Call
<1>6. ASSUME NEW G, NEW D, After(G, D) PROVE Numbered' /\ Paths'
  BY <1>1, <1>6, SameNumbers DEF After, Call
<1>7. ASSUME NEW n \in Name, MergeAdd(n) PROVE Numbered' /\ Paths'
  BY <1>2, <1>7 DEF MergeAdd
<1>8. ASSUME NEW n \in Name, MergeInto(n) PROVE Numbered' /\ Paths'
  BY <1>1, <1>8, SameNumbers DEF MergeInto, MergeStep
<1>9. ASSUME NEW n \in Name, MergePanics(n) PROVE Numbered' /\ Paths'
  BY <1>1, <1>9, SameNumbers DEF MergePanics
<1>10. CASE MergeBegin
  BY <1>1, <1>10, SameNumbers DEF MergeBegin, Call
<1>11. CASE MergeEnd
  <2>1. PICK f \in Numberings :
               /\ index' = [n \in Name |-> IF n \in steps THEN f[n] ELSE 0]
               /\ nodePath' = [n \in Name |-> IF n \in steps THEN {f[n]} ELSE {}]
    BY <1>11 DEF MergeEnd
  <2>2. steps' = steps /\ phase' = "build" /\ steps \subseteq Name
    BY <1>1, <1>11 DEF MergeEnd, Shape
  <2>3. Cardinality(steps) \in Nat
    BY <2>2, StepsNat, FS_Subset, FS_CardinalityType
  <2>4. /\ \A n \in steps : f[n] \in 0..(Cardinality(steps) - 1)
        /\ \A m, n \in steps : m # n => f[m] # f[n]
    BY <2>1 DEF Numberings
  <2>5. \A n \in steps : f[n] \in Nat /\ f[n] < Cardinality(steps)
    BY <2>3, <2>4
  <2>6. index' \in [Name -> Nat] /\ nodePath' \in [Name -> SUBSET Nat]
    BY <2>1, <2>5
  <2>7. \A n \in steps : index'[n] = f[n] /\ nodePath'[n] = {f[n]}
    BY <2>1, <2>2
  <2>8. Numbered'
    BY <2>2, <2>4, <2>5, <2>6, <2>7 DEF Numbered
  <2>9. Paths'
    BY <2>2, <2>6, <2>7 DEF Paths
  <2>10. QED
    BY <2>8, <2>9
<1>12. CASE Initialize
  <2>1. /\ phase = "build" /\ phase' = "visible" /\ todo' = steps
        /\ UNCHANGED <<steps, index, nodePath, depends, behind>>
    BY <1>12 DEF Initialize
  <2>2. \A n \in steps : nodePath[n] = {index[n]} /\ depends[n] \subseteq steps
    BY <1>1, <2>1 DEF Paths, Shape
  <2>3. \A n \in steps : /\ index[n] \in nodePath[n]
                         /\ \A b \in nodePath[n] : \E m \in UpTo(n)' : b = index[m]
                         /\ depends[n] \ todo' = {}
    BY <2>1, <2>2 DEF UpTo
  <2>4. Numbered'
    BY <1>1, <2>1 DEF Numbered
  <2>5. nodePath' \in [Name -> SUBSET Nat]
    BY <1>1, <2>1 DEF Paths
  <2>6. Paths'
    BY <2>1, <2>3, <2>5 DEF Paths
  <2>7. QED
    BY <2>4, <2>6
<1>13. ASSUME NEW n \in Name, Visit(n) PROVE Numbered' /\ Paths'
  <2>1. Numbered'
    BY <1>1, <1>13 DEF Visit, Numbered
  <2>2. QED
    BY <1>1, <1>13, <2>1, VisitPaths
<1>14. CASE Ready \/ Terminated \/ UNCHANGED vars
  <2>1. /\ UNCHANGED <<steps, index, nodePath, depends, behind, todo>>
        /\ \/ phase' = phase
           \/ phase = "visible" /\ phase' = "ready"
    BY <1>14 DEF Ready, Terminated, vars
  <2>2. \A w : UpTo(w)' = UpTo(w)
    BY <2>1 DEF UpTo
  <2>3. Numbered'
    BY <1>1, <2>1 DEF Numbered
  <2>4. Paths'
    BY <1>1, <2>1, <2>2 DEF Paths
  <2>5. QED
    BY <2>3, <2>4
<1>15. QED
  BY <1>3, <1>4, <1>5, <1>6, <1>7, <1>8, <1>9, <1>10, <1>11, <1>12, <1>13, <1>14 DEF Next

LEMMA NextArrange == ArrangeInv /\ [Next]_vars => ArrangeInv'
  BY NextBuilt, NextPhases, NextNumbers DEF ArrangeInv

LEMMA SpecArrange == Spec => []ArrangeInv
<1>1. Init => ArrangeInv
  BY InitArrange
<1>2. ArrangeInv /\ [Next]_vars => ArrangeInv'
  BY NextArrange
<1>3. QED
  BY <1>1, <1>2, PTL DEF Spec

-------------------------------------------------------------------------------
(***************************************************************************)
(* What the invariant says of the properties.                              *)
(***************************************************************************)
\* What a step sees when the loop is done.
LEMMA ReadySees ==
  ASSUME ArrangeInv, phase = "ready", NEW n \in steps
  PROVE  LET seen == {m \in steps : index[m] \in nodePath[n]}
             all == Upstream(depends, n) \cup {n}
         IN  /\ nodePath[n] = {index[m] : m \in seen}
             /\ depends[n] \cup {n} \subseteq seen /\ seen \subseteq all
             /\ ~behind => seen = all
<1> DEFINE seen == {m \in steps : index[m] \in nodePath[n]}
<1>1. /\ steps \subseteq Name /\ depends \in [Name -> SUBSET Name] /\ todo = {}
      /\ depends[n] \subseteq steps /\ \A x \in Name : depends[x] \subseteq steps
      /\ \A m, k \in steps : index[m] = index[k] => m = k
  BY DEF ArrangeInv, Built, Shape, Phases, Numbered
<1>2. /\ index[n] \in nodePath[n]
      /\ \A b \in nodePath[n] : \E m \in UpTo(n) : b = index[m]
      /\ \A d \in depends[n] :
            /\ index[d] \in nodePath[n]
            /\ ~behind => \A m \in UpTo(d) : index[m] \in nodePath[n]
  BY <1>1 DEF ArrangeInv, Paths
<1>3. UpTo(n) \subseteq steps
  <2>1. Upstream(depends, n) \subseteq steps
    BY <1>1, UpstreamIs
  <2>2. QED
    BY <2>1 DEF UpTo
<1>4. nodePath[n] = {index[m] : m \in seen}
  BY <1>2, <1>3
<1>5. depends[n] \cup {n} \subseteq seen
  BY <1>1, <1>2
<1>6. seen \subseteq UpTo(n)
  BY <1>1, <1>2, <1>3
<1>7. ASSUME ~behind, NEW m \in UpTo(n) PROVE m \in seen
  <2>1. CASE m = n
    BY <1>5, <2>1
  <2>2. CASE m \in Upstream(depends, n)
    <3>1. PICK d \in depends[n] : m = d \/ m \in Upstream(depends, d)
      BY <1>1, <2>2, UpstreamSplit
    <3>2. m \in UpTo(d)
      BY <3>1 DEF UpTo
    <3>3. QED
      BY <1>2, <1>3, <1>7, <3>2
  <2>3. QED
    BY <1>7, <2>1, <2>2 DEF UpTo
<1>8. QED
  BY <1>4, <1>5, <1>6, <1>7 DEF UpTo

\* The two processes together.
Joined == [n \in Name |-> depends[n] \cup
               IF n \in MergedName THEN other.depends[n] ELSE {}]

LEMMA PanicsForCircle ==
  ASSUME ArrangeInv, NEW n \in Name, MergePanics(n)
  PROVE  ~Acyclic(Joined)
<1>1. /\ depends \in [Name -> SUBSET Name] /\ n \in MergedName /\ MergedName \subseteq Name
      /\ other.depends \in [MergedName -> SUBSET MergedName]
  BY ArrangeAssumption DEF ArrangeInv, Built, Shape, Phases, MergePanics, Least
<1>2. PICK d \in other.depends[n] : n \in Upstream(depends, d)
  BY DEF MergePanics, Circle
<1>3. d \in Name
  BY <1>1, <1>2
<1>4. /\ Joined \in [Name -> SUBSET Name] /\ \A x \in Name : depends[x] \subseteq Joined[x]
      /\ d \in Joined[n] /\ DOMAIN Joined = Name
  BY <1>1, <1>2 DEF Joined
<1>5. n \in Upstream(Joined, d)
  BY <1>1, <1>2, <1>3, <1>4, UpstreamGrows
<1>6. n \in Upstream(Joined, n)
  BY <1>4, <1>5, UpstreamAbove
<1>7. QED
  BY <1>4, <1>6 DEF Acyclic

LEMMA NextPanic == ArrangeInv /\ PanicJustified /\ [Next]_vars => PanicJustified'
<1> SUFFICES ASSUME ArrangeInv, PanicJustified, [Next]_vars, phase' = "panic"
             PROVE  ~Acyclic(Joined)'
  BY DEF PanicJustified, Joined
<1>1. /\ phase = "panic" \/ \E n \in Name : MergePanics(n)
      /\ UNCHANGED <<depends, other>>
  BY DEF Next, CustomStep, Redefine, SyncAll, After, Call, MergeBegin, MergeEnd, MergeAdd,
         MergeInto, MergePanics, Initialize, Ready, Terminated, Visit, vars
<1>2. ~Acyclic(Joined)
  BY <1>1, PanicsForCircle DEF PanicJustified, Joined
<1>3. Joined' = Joined
  BY <1>1 DEF Joined
<1>4. QED
  BY <1>2, <1>3 DEF Acyclic, Upstream

\* Merge numbers by layer, so what lies above a step has a lower number.
LEMMA MergeEndNumbers ==
  ASSUME ArrangeInv, MergeEnd
  PROVE  \A n \in steps' : \A d \in Upstream(depends', n) : index'[d] < index'[n]
<1>1. Arranged /\ Follows /\ steps \subseteq Name /\ \A x \in Name : depends[x] \subseteq steps
  BY BuiltFollows DEF ArrangeInv, Phases, MergeEnd, Built, Shape
<1>2. PICK f \in Numberings : index' = [n \in Name |-> IF n \in steps THEN f[n] ELSE 0]
  BY DEF MergeEnd
<1>3. \A m, n \in steps : layer[m] < layer[n] => f[m] < f[n]
  BY <1>2 DEF Numberings
<1>4. steps' = steps /\ depends' = depends
  BY DEF MergeEnd
<1>5. ASSUME NEW n \in steps, NEW d \in Upstream(depends, n) PROVE index'[d] < index'[n]
  <2>1. n \in Name /\ d \in Name /\ layer[d] < layer[n]
    BY <1>1, UpstreamLower
  <2>2. d \in steps
    <3>1. depends \in [Name -> SUBSET Name]
      BY <1>1 DEF Arranged
    <3>2. Upstream(depends, n) \subseteq steps
      BY <1>1, <2>1, <3>1, UpstreamIs
    <3>3. QED
      BY <3>2
  <2>3. QED
    BY <1>2, <1>3, <2>1, <2>2
<1>6. QED
  BY <1>4, <1>5 DEF Upstream

(***************************************************************************)
(* The theorems.                                                           *)
(***************************************************************************)
\* schedule finds exactly the steps without dependencies on the first layer.
THEOREM FirstLayerCorrect == Spec => []FirstLayerStarts
<1>1. ArrangeInv => FirstLayerStarts
  BY DEF ArrangeInv, Built, LayersStart, FirstLayerStarts
<1>2. QED
  BY <1>1, SpecArrange, PTL

\* However CustomStep, SyncAll and Merge are called, and After by a caller who closes
\* no circle, every step is on a later layer than its dependencies, until After has
\* left a waiter behind; and there is no circle even then.
THEOREM LayersCorrect == Spec => []LayersFollowDepends
<1>1. ArrangeInv => LayersFollowDepends
  BY DEF ArrangeInv, Built
<1>2. QED
  BY <1>1, SpecArrange, PTL

\* Neither CustomStep nor Merge closes a circle, so that a process has none unless
\* a call of After closes one: what StrandedCorrect and ConcludesCorrect of
\* FlowRecovery_proofs ask of the dependencies.
THEOREM GraphCorrect == Spec => []NoCircle
<1>1. ArrangeInv => NoCircle
  BY DEF ArrangeInv, Built, LayersFollowDepends
<1>2. QED
  BY <1>1, SpecArrange, PTL

\* Every step is an end or upstream of one: what SyncAll adds waits for all steps.
THEOREM EndsCorrect == Spec => []EndsCover
<1>1. ArrangeInv => EndsCover
  BY DEF ArrangeInv, Built
<1>2. QED
  BY <1>1, SpecArrange, PTL

\* constructVisible gives every step the bits of what is upstream of it, and of
\* nothing else; no two steps share a bit.
THEOREM VisibleCorrect == Spec => []VisibleIsUpstream
<1>1. ArrangeInv => VisibleIsUpstream
  BY ReadySees DEF ArrangeInv, Numbered, VisibleIsUpstream
<1>2. QED
  BY <1>1, SpecArrange, PTL

\* When mergeStep panics, the two processes together have a circle.
THEOREM PanicCorrect == Spec => []PanicJustified
<1>1. Init => PanicJustified
  BY DEF Init, PanicJustified
<1>2. ArrangeInv /\ PanicJustified /\ [Next]_vars => PanicJustified'
  BY NextPanic
<1>3. QED
  BY <1>1, <1>2, SpecArrange, PTL DEF Spec

\* Merge leaves every step with a higher bit than all that is upstream of it.
THEOREM NumbersCorrect == Spec => MergeNumbersUpwards
<1> DEFINE Upwards == phase = "merge" /\ phase' = "build" =>
                        \A n \in steps' : \A d \in Upstream(depends', n) : index'[d] < index'[n]
<1>1. ArrangeInv /\ [Next]_vars => [Upwards]_vars
  <2> SUFFICES ASSUME ArrangeInv, Next, phase = "merge", phase' = "build" PROVE Upwards
    BY DEF vars
  <2>1. MergeEnd
    BY DEF Next, CustomStep, Redefine, SyncAll, After, Call, MergeBegin, MergeAdd,
           MergeInto, MergePanics, Initialize, Ready, Terminated, Visit, vars
  <2>2. QED
    BY <2>1, MergeEndNumbers
<1>2. QED
  BY <1>1, SpecArrange, PTL DEF Spec, MergeNumbersUpwards
===============================================================================

--------------------------- MODULE StepContext_proofs ---------------------------
(***************************************************************************)
(* The contexts of a process implement a view for each step, for every     *)
(* finite set of steps in any order, however they are numbered, and any    *)
(* keys, over timeouts, failures and recoveries, as long as the steps keep *)
(* their numbers.                                                          *)
(***************************************************************************)
EXTENDS StepContext, FiniteSetTheorems, WellFoundedInduction, TLAPS

(***************************************************************************)
(* The latest of some nodes of a list.                                     *)
(***************************************************************************)
LEMMA Smallest == ASSUME NEW T \in SUBSET Nat, T # {}
                  PROVE  \E m \in T : \A j \in T : m <= j
<1>1. PICK n \in T : TRUE
  OBVIOUS
<1> DEFINE low == {m \in T : m <= n}
           Below == {1..m : m \in low}
           R == StrictSubsetOrdering(1..n)
<1>2. IsFiniteSet(1..n) /\ Below \subseteq SUBSET (1..n) /\ Below # {}
  <2>1. IsFiniteSet(1..n)
    BY FS_Interval
  <2>2. n \in low /\ 1..n \in Below
    OBVIOUS
  <2>3. \A m \in low : 1..m \subseteq 1..n
    OBVIOUS
  <2>4. QED
    BY <2>1, <2>2, <2>3
<1>3. IsWellFoundedOn(R, SUBSET (1..n))
  BY <1>2, FS_StrictSubsetOrderingWellFounded, FS_FiniteSubsetsOfFinite
<1>4. PICK B \in Below : \A C \in Below : ~(<<C, B>> \in R)
  <2> HIDE DEF R, Below
  <2> QED
    BY <1>2, <1>3, WFMin
<1>5. PICK m \in low : B = 1..m
  OBVIOUS
<1>6. ASSUME NEW j \in T, j < m PROVE FALSE
  <2>1. j \in low /\ 1..j \in Below
    BY <1>5, <1>6
  <2>2. 1..j \subseteq 1..m /\ m \in 1..m /\ m \notin 1..j
    BY <1>6
  <2>3. <<1..j, B>> \in R
    BY <1>2, <1>5, <2>1, <2>2 DEF StrictSubsetOrdering
  <2>4. QED
    BY <1>4, <2>1, <2>3
<1>7. QED
  BY <1>5, <1>6

LEMMA Largest == ASSUME NEW n \in Nat, NEW S \in SUBSET (1..n), S # {}
                 PROVE  \E m \in S : \A j \in S : j <= m
<1> DEFINE T == {n - i : i \in S}
<1>1. T \in SUBSET Nat /\ T # {}
  <2>1. \A i \in S : n - i \in Nat
    OBVIOUS
  <2>2. QED
    BY <2>1
<1>2. PICK t \in T : \A u \in T : t <= u
  BY <1>1, Smallest
<1>3. PICK m \in S : t = n - m
  OBVIOUS
<1>4. \A j \in S : n - m <= n - j
  BY <1>2, <1>3
<1>5. QED
  BY <1>4

LEMMA LatestIs == ASSUME NEW list, NEW S \in SUBSET Int, NEW i \in S, \A j \in S : j <= i
                  PROVE  Latest(list, S) = list[i].value
<1>1. ASSUME NEW m \in S, \A j \in S : j <= m PROVE m = i
  BY <1>1
<1>2. (CHOOSE m \in S : \A j \in S : j <= m) = i
  BY <1>1
<1>3. QED
  BY <1>2 DEF Latest

\* A path has bits of steps, or is that of a result.  It is that of the writer.
Path == SUBSET (0..ResultIndex)

Telling(node) == \/ node.by \in Actor /\ node.path = Visible(node.by)
                 \/ node.by = Nothing /\ node.path = {ResultIndex}

AnyNode == {node \in [path : Path, value : Value, by : Actor \cup {Nothing}] :
               Telling(node)}

\* The numbers of the nodes of a list that are in Q.
With(list, Q) == {i \in DOMAIN list : list[i] \in Q}

LEMMA LatestValue ==
  ASSUME NEW list \in Seq(AnyNode), NEW S \in SUBSET DOMAIN list, S # {}
  PROVE  /\ Latest(list, S) \in Value
         /\ \E i \in S : Latest(list, S) = list[i].value
<1>1. DOMAIN list = 1..Len(list) /\ Len(list) \in Nat
  OBVIOUS
<1>2. PICK i \in S : \A j \in S : j <= i
  BY <1>1, Largest
<1>3. Latest(list, S) = list[i].value
  BY <1>1, <1>2, LatestIs
<1>4. list[i] \in AnyNode
  BY <1>1
<1>5. QED
  BY <1>3, <1>4 DEF AnyNode

LEMMA LatestAppended ==
  ASSUME NEW list \in Seq(AnyNode), NEW node \in AnyNode, NEW Q
  PROVE  Latest(Append(list, node), With(Append(list, node), Q)) =
             IF node \in Q THEN node.value ELSE Latest(list, With(list, Q))
<1> DEFINE longer == Append(list, node)
           last == Len(list) + 1
<1>1. /\ DOMAIN longer = DOMAIN list \cup {last} /\ longer[last] = node
      /\ DOMAIN list = 1..Len(list)
      /\ \A i \in DOMAIN list : longer[i] = list[i]
  OBVIOUS
<1>2. With(longer, Q) = With(list, Q) \cup (IF node \in Q THEN {last} ELSE {})
  <2> HIDE DEF longer, last
  <2> QED
    BY <1>1 DEF With
<1>3. CASE node \in Q
  <2>1. last \in With(longer, Q) /\ \A j \in With(longer, Q) : j <= last
    BY <1>1, <1>2, <1>3 DEF With
  <2>2. With(longer, Q) \in SUBSET Int
    BY <1>1 DEF With
  <2>3. Latest(longer, With(longer, Q)) = longer[last].value
    BY <2>1, <2>2, LatestIs
  <2>4. QED
    BY <1>1, <1>3, <2>3
<1>4. CASE node \notin Q /\ With(list, Q) = {}
  BY <1>2, <1>4 DEF Latest
<1>5. CASE node \notin Q /\ With(list, Q) # {}
  <2> DEFINE S == With(list, Q)
  <2>1. /\ S \in SUBSET (1..Len(list)) /\ S \in SUBSET Int /\ S # {}
        /\ With(longer, Q) = S /\ Len(list) \in Nat
    BY <1>1, <1>2, <1>5 DEF With
  <2> HIDE DEF S, longer
  <2>2. PICK i \in S : \A j \in S : j <= i
    BY <2>1, Largest
  <2>3. Latest(list, S) = list[i].value /\ Latest(longer, S) = longer[i].value
    BY <2>1, <2>2, LatestIs
  <2>4. longer[i] = list[i]
    BY <1>1, <2>1
  <2>5. Latest(longer, With(longer, Q)) = Latest(list, With(list, Q))
    BY <2>1, <2>3, <2>4 DEF S
  <2>6. QED
    BY <1>5, <2>5 DEF longer
<1>6. QED
  BY <1>3, <1>4, <1>5

-------------------------------------------------------------------------------
(***************************************************************************)
(* Lists and paths.                                                        *)
(***************************************************************************)
\* The nodes on a path, those with a bit as the highest, and those of a writer.
Seen(path) == {node \in AnyNode : node.path \subseteq path}
Highest(bit) == {node \in AnyNode : IsHighest(bit, node.path)}
By(w) == {node \in AnyNode : node.by = w}

LEMMA LooksWith ==
  ASSUME NEW list \in Seq(AnyNode)
  PROVE  /\ \A A : Search(list, A) = Latest(list, With(list, Seen(A)))
         /\ \A bit : MatchByHighest(list, bit) = Latest(list, With(list, Highest(bit)))
         /\ \A w : WrittenBy(list, w) = With(list, By(w))
<1>1. \A i \in DOMAIN list : list[i] \in AnyNode
  OBVIOUS
<1>2. \A A : {i \in DOMAIN list : list[i].path \subseteq A} = With(list, Seen(A))
  BY <1>1 DEF With, Seen
<1>3. \A bit : {i \in DOMAIN list : IsHighest(bit, list[i].path)} =
                   With(list, Highest(bit))
  BY <1>1 DEF With, Highest
<1>4. \A w : WrittenBy(list, w) = With(list, By(w))
  BY <1>1 DEF With, By, WrittenBy
<1>5. QED
  BY <1>2, <1>3, <1>4 DEF Search, MatchByHighest

LEMMA ResultNodeType ==
  ASSUME NEW v \in Value
  PROVE  /\ ResultNode(v) \in AnyNode /\ ResultNode(v) \in Highest(ResultIndex)
         /\ ResultNode(v).value = v
  BY DEF ResultNode, AnyNode, Telling, Path, Highest, IsHighest, ResultIndex

\* A result is written over the one before it, and nothing else is touched.
LEMMA WithResultIs ==
  ASSUME NEW list \in Seq(AnyNode), NEW v \in Value
  PROVE  /\ WithResult(list, v) \in Seq(AnyNode)
         /\ MatchByHighest(WithResult(list, v), ResultIndex) = v
         /\ \A Q : Q \cap Highest(ResultIndex) = {} =>
                Latest(WithResult(list, v), With(WithResult(list, v), Q)) =
                    Latest(list, With(list, Q))
<1> DEFINE results == With(list, Highest(ResultIndex))
           new == WithResult(list, v)
<1>1. /\ DOMAIN list = 1..Len(list) /\ Len(list) \in Nat
      /\ \A i \in DOMAIN list : list[i] \in AnyNode
  OBVIOUS
<1>2. \A i \in DOMAIN list : i \in results <=> IsHighest(ResultIndex, list[i].path)
  BY <1>1 DEF With, Highest
<1>3. /\ ResultNode(v) \in AnyNode /\ ResultNode(v) \in Highest(ResultIndex)
      /\ ResultNode(v).value = v
  BY ResultNodeType
<1>4. CASE results = {}
  <2>1. new = Append(list, ResultNode(v))
    BY <1>2, <1>4 DEF WithResult
  <2>2. new \in Seq(AnyNode)
    BY <1>3, <2>1
  <2> HIDE DEF new, results
  <2>3. ASSUME NEW Q
        PROVE  Latest(new, With(new, Q)) =
                   IF ResultNode(v) \in Q THEN v ELSE Latest(list, With(list, Q))
    <3>1. Latest(Append(list, ResultNode(v)), With(Append(list, ResultNode(v)), Q)) =
              IF ResultNode(v) \in Q THEN ResultNode(v).value
                                     ELSE Latest(list, With(list, Q))
      BY <1>3, LatestAppended
    <3>2. QED
      BY <1>3, <2>1, <3>1
  <2>4. MatchByHighest(new, ResultIndex) = v
    BY <1>3, <2>2, <2>3, LooksWith
  <2>5. ASSUME NEW Q, Q \cap Highest(ResultIndex) = {}
        PROVE  Latest(new, With(new, Q)) = Latest(list, With(list, Q))
    BY <1>3, <2>5, <2>3
  <2>6. QED
    BY <2>2, <2>4, <2>5 DEF new
<1>5. CASE results # {}
  <2>1. new = [i \in DOMAIN list |-> IF i \in results THEN ResultNode(v) ELSE list[i]]
    <3>1. \E i \in DOMAIN list : IsHighest(ResultIndex, list[i].path)
      BY <1>2, <1>5 DEF With
    <3>2. QED
      BY <1>2, <3>1 DEF WithResult
  <2>2. /\ DOMAIN new = DOMAIN list
        /\ \A i \in DOMAIN list : new[i] = IF i \in results THEN ResultNode(v) ELSE list[i]
    BY <2>1
  <2>3. new \in Seq(AnyNode)
    <3>1. \A i \in 1..Len(list) : new[i] \in AnyNode
      BY <1>1, <1>3, <2>2
    <3>2. new \in [1..Len(list) -> AnyNode]
      BY <1>1, <2>1, <3>1
    <3>3. QED
      BY <1>1, <3>2
  <2>4. MatchByHighest(new, ResultIndex) = v
    <3>1. With(new, Highest(ResultIndex)) = results
      <4>1. \A i \in DOMAIN list \ results : list[i] \notin Highest(ResultIndex)
        BY DEF With
      <4>2. QED
        BY <1>3, <2>2, <4>1 DEF With
    <3>2. PICK i \in results : Latest(new, results) = new[i].value
      <4> HIDE DEF new
      <4>1. results \in SUBSET DOMAIN new
        BY <2>2 DEF With
      <4> HIDE DEF results
      <4>2. QED
        BY <1>5, <2>3, <4>1, LatestValue
    <3>3. new[i].value = v
      BY <1>3, <2>2, <3>2 DEF With
    <3>4. QED
      BY <2>3, <3>1, <3>2, <3>3, LooksWith
  <2>5. ASSUME NEW Q, Q \cap Highest(ResultIndex) = {}
        PROVE  Latest(new, With(new, Q)) = Latest(list, With(list, Q))
    <3> DEFINE S == With(list, Q)
    <3>4. ResultNode(v) \notin Q /\ S \cap results = {}
      BY <1>3, <2>5 DEF With
    <3>5. \A i \in DOMAIN list : new[i] \in Q <=> list[i] \in Q
      <4>1. \A i \in results : new[i] = ResultNode(v) /\ list[i] \notin Q
        BY <1>3, <2>2, <2>5 DEF With
      <4>2. QED
        BY <2>2, <3>4, <4>1
    <3>1. With(new, Q) = S /\ S \in SUBSET (1..Len(list)) /\ S \in SUBSET Int
          /\ S \cap results = {}
      BY <1>1, <2>2, <3>4, <3>5 DEF With
    <3>2. CASE S = {}
      BY <3>1, <3>2 DEF Latest
    <3>3. CASE S # {}
      <4> HIDE DEF S, new, results
      <4>1. PICK i \in S : \A j \in S : j <= i
        BY <1>1, <3>1, <3>3, Largest
      <4>2. Latest(list, S) = list[i].value /\ Latest(new, S) = new[i].value
        BY <3>1, <4>1, LatestIs
      <4>3. new[i] = list[i]
        BY <1>1, <2>2, <3>1
      <4>4. QED
        BY <3>1, <4>2, <4>3 DEF S
    <3>6. QED
      BY <3>2, <3>3
  <2>6. QED
    BY <2>3, <2>4, <2>5
<1>6. QED
  BY <1>4, <1>5

\* The steps have an order and each a number of its own.
Ordered == up \in Orders /\ index \in Numberings

\* A path tells who is behind its writer, and its highest bit is that of the
\* writer or of a step before it.
LEMMA PathsTell ==
  ASSUME Ordered
  PROVE  /\ \A r, w \in Actor : Visible(w) \subseteq Access(r) <=> Views!Sees(r, w)
         /\ \A r \in Actor : Access(r) \subseteq Bit
         /\ \A w \in Actor : Visible(w) \subseteq Bit
         /\ \A n \in Name, w \in Actor :
                IsHighest(index[n], Visible(w)) => w \in Name /\ n \in up[w] \cup {w}
         /\ \A n, w \in Name : Top(w) => (IsHighest(index[n], Visible(w)) <=> n = w)
         /\ \A n, s \in Name : index[s] \in Access(n) <=> Views!Sees(n, s)
<1>1. /\ up \in [Name -> SUBSET Name]
      /\ \A n \in Name : n \notin up[n] /\ \A m \in up[n] : up[m] \subseteq up[n]
  BY DEF Ordered, Orders
<1>2. Cardinality(Name) \in Nat /\ Cardinality(Name) <= 62
  BY ContextAssumption, FS_CardinalityType DEF MaxNodes
<1>3. /\ \A n \in Name : index[n] \in Nat /\ index[n] \in Bit
      /\ \A m, n \in Name : m # n => index[m] # index[n]
  BY <1>1, <1>2 DEF Ordered, Numberings, Bit, MaxNodes
<1>4. \A n \in Name : /\ n # Process
                      /\ Access(n) = {index[m] : m \in up[n] \cup {n}}
                      /\ Visible(n) = Access(n)
  BY ContextAssumption DEF Access, Visible
<1>5. Access(Process) = Bit /\ Visible(Process) = {}
  BY DEF Access, Visible
<1>6. \A n, s \in Name : index[s] \in Access(n) <=> s \in up[n] \cup {n}
  BY <1>1, <1>3, <1>4
<1>7. \A n \in Name : Access(n) \subseteq Bit
  BY <1>1, <1>3, <1>4
<1>8. \A r, w \in Name : Visible(w) \subseteq Access(r) <=> w \in up[r] \cup {r}
  <2> SUFFICES ASSUME NEW r \in Name, NEW w \in Name
               PROVE  Visible(w) \subseteq Access(r) <=> w \in up[r] \cup {r}
    OBVIOUS
  <2>1. ASSUME Visible(w) \subseteq Access(r) PROVE w \in up[r] \cup {r}
    BY <1>4, <1>6, <2>1
  <2>2. ASSUME w \in up[r] \cup {r} PROVE Visible(w) \subseteq Access(r)
    <3>1. up[w] \cup {w} \subseteq up[r] \cup {r}
      BY <1>1, <2>2
    <3>2. QED
      BY <1>4, <3>1
  <2>3. QED
    BY <2>1, <2>2
<1>9. \A n, w \in Name : /\ IsHighest(index[n], Visible(w)) => n \in up[w] \cup {w}
                         /\ Top(w) => (IsHighest(index[n], Visible(w)) <=> n = w)
  <2> SUFFICES ASSUME NEW n \in Name, NEW w \in Name
               PROVE  /\ IsHighest(index[n], Visible(w)) => n \in up[w] \cup {w}
                      /\ Top(w) => (IsHighest(index[n], Visible(w)) <=> n = w)
    OBVIOUS
  <2>1. IsHighest(index[n], Visible(w)) => n \in up[w] \cup {w}
    BY <1>4, <1>6 DEF IsHighest
  <2>2. ASSUME Top(w) PROVE IsHighest(index[w], Visible(w))
    BY <1>4, <2>2 DEF Top
  <2>3. ASSUME Top(w), IsHighest(index[n], Visible(w)) PROVE n = w
    <3>1. index[n] <= index[w] /\ index[w] <= index[n]
      BY <2>2, <2>3 DEF IsHighest
    <3>2. index[n] \in Nat /\ index[w] \in Nat
      BY <1>3
    <3>3. QED
      BY <1>3, <3>1, <3>2
  <2>4. QED
    BY <2>1, <2>2, <2>3
<1>10. \A n \in Name : ~IsHighest(index[n], {}) /\ n # Process
  BY <1>4 DEF IsHighest
<1>11. QED
  BY <1>4, <1>5, <1>6, <1>7, <1>8, <1>9, <1>10 DEF Views!Sees, Actor

-------------------------------------------------------------------------------
(***************************************************************************)
(* What a write does to the views.                                         *)
(***************************************************************************)
Tables == [AllKey -> Seq(AnyNode)]

LEMMA NodeType == ASSUME Ordered, NEW w \in Actor, NEW v \in Value
                  PROVE  /\ Node(w, v) \in AnyNode
                         /\ Node(w, v).path = Visible(w) /\ Node(w, v).value = v
<1>1. Visible(w) \in Path
  <2>1. Bit \subseteq 0..ResultIndex
    BY DEF Bit, MaxNodes, ResultIndex
  <2>2. QED
    BY <2>1, PathsTell DEF Path
<1>2. QED
  BY <1>1 DEF Node, AnyNode, Telling

\* What each reader looks for in a list.
LEMMA GetLooks ==
  ASSUME NEW t \in Tables, NEW r, NEW k \in Key
  PROVE  Get(t, r, k) = LET found == Latest(t[k], With(t[k], Seen(Access(r))))
                        IN  IF found = Nothing THEN Input[k] ELSE found
  BY LooksWith DEF Tables, AllKey, Get

LEMMA OwnLooks ==
  ASSUME NEW t \in Tables, NEW n, NEW k \in Key
  PROVE  LastOf(t, k, n) = Latest(t[k], With(t[k], By(n)))
  BY LooksWith DEF Tables, AllKey, LastOf

LEMMA ResultLooks ==
  ASSUME NEW t \in Tables, NEW n, NEW s \in Name
  PROVE  Result(t, n, s) =
             IF index[s] \in Access(n)
             THEN Latest(t[s], With(t[s], Highest(ResultIndex))) ELSE Nothing
  BY LooksWith DEF Tables, AllKey, Result

\* The table after a value is set, and after a result is returned.
Added(t, w, k, v) == [t EXCEPT ![k] = Append(@, Node(w, v))]
Answered(t, s, v) == [t EXCEPT ![s] = WithResult(@, v)]

\* The views after a value is set, and after a result is returned.
ViewSet(t, w, k, v) == [r \in Actor |-> [x \in Key |->
                           IF x = k /\ Views!Sees(r, w) THEN v ELSE View(t)[r][x]]]
OwnSet(t, w, k, v) == [n \in Name |-> [x \in Key |->
                           IF x = k /\ n = w THEN v ELSE Own(t)[n][x]]]
ShownReturned(t, s, v) == [n \in Name |-> [x \in Name |->
                              IF x = s /\ Views!Sees(n, s) THEN v ELSE Shown(t)[n][x]]]

\* A value that is set reaches the views of those who see its writer.
LEMMA SetViews ==
  ASSUME Ordered, NEW t \in Tables, NEW w \in Actor, NEW k \in Key, NEW v \in Value,
         NEW u, u = Added(t, w, k, v)
  PROVE  /\ u \in Tables
         /\ View(u) = ViewSet(t, w, k, v)
         /\ Shown(u) = Shown(t)
         /\ Own(u) = OwnSet(t, w, k, v)
<1> DEFINE list == t[k]
           node == Node(w, v)
<1>1. k \in AllKey /\ list \in Seq(AnyNode) /\ \A x \in AllKey : t[x] \in Seq(AnyNode)
  BY DEF Tables, AllKey
<1>2. node \in AnyNode /\ node.path = Visible(w) /\ node.value = v
  BY NodeType
<1> HIDE DEF node
<1>3. u[k] = Append(list, node) /\ \A x \in AllKey \ {k} : u[x] = t[x]
  BY <1>1 DEF Tables, node, Added
<1>4. u \in Tables
  BY <1>1, <1>2 DEF Tables, node, Added
<1>5. ASSUME NEW Q
      PROVE  Latest(u[k], With(u[k], Q)) =
                 IF node \in Q THEN v ELSE Latest(list, With(list, Q))
  <2>1. Latest(Append(list, node), With(Append(list, node), Q)) =
            IF node \in Q THEN node.value ELSE Latest(list, With(list, Q))
    BY <1>1, <1>2, LatestAppended
  <2>2. QED
    BY <1>2, <1>3, <2>1
<1>6. v # Nothing /\ node.by = w
  BY ContextAssumption DEF Value, node, Node
<1>7. View(u) = ViewSet(t, w, k, v)
  <2> SUFFICES ASSUME NEW r \in Actor, NEW x \in Key
               PROVE  Get(u, r, x) =
                          IF x = k /\ Views!Sees(r, w) THEN v ELSE Get(t, r, x)
    BY DEF View, ViewSet
  <2>1. CASE x # k
    BY <1>3, <2>1 DEF Get, AllKey
  <2>2. CASE x = k
    <3>1. node \in Seen(Access(r)) <=> Views!Sees(r, w)
      BY <1>2, PathsTell DEF Seen
    <3>2. Latest(u[k], With(u[k], Seen(Access(r)))) =
              IF Views!Sees(r, w) THEN v ELSE Latest(list, With(list, Seen(Access(r))))
      BY <1>5, <3>1
    <3>3. /\ Get(u, r, k) = LET found == Latest(u[k], With(u[k], Seen(Access(r))))
                            IN  IF found = Nothing THEN Input[k] ELSE found
          /\ Get(t, r, k) = LET found == Latest(t[k], With(t[k], Seen(Access(r))))
                            IN  IF found = Nothing THEN Input[k] ELSE found
      BY <1>4, GetLooks
    <3>4. QED
      BY <1>6, <2>2, <3>2, <3>3
  <2>3. QED
    BY <2>1, <2>2
<1>8. Own(u) = OwnSet(t, w, k, v)
  <2> SUFFICES ASSUME NEW n \in Name, NEW x \in Key
               PROVE  LastOf(u, x, n) = IF x = k /\ n = w THEN v ELSE LastOf(t, x, n)
    BY DEF Own, OwnSet
  <2>1. CASE x # k
    BY <1>3, <2>1 DEF LastOf, AllKey
  <2>2. CASE x = k
    <3>1. node \in By(n) <=> n = w
      BY <1>2, <1>6 DEF By
    <3>2. /\ LastOf(u, k, n) = Latest(u[k], With(u[k], By(n)))
          /\ LastOf(t, k, n) = Latest(t[k], With(t[k], By(n)))
      BY <1>4, OwnLooks
    <3>3. Latest(u[k], With(u[k], By(n))) =
              IF n = w THEN v ELSE Latest(t[k], With(t[k], By(n)))
      BY <1>5, <3>1
    <3>4. QED
      BY <2>2, <3>2, <3>3
  <2>3. QED
    BY <2>1, <2>2
<1>9. Shown(u) = Shown(t)
  <2> SUFFICES ASSUME NEW n \in Name, NEW s \in Name
               PROVE  Result(u, n, s) = Result(t, n, s)
    BY DEF Shown
  <2>1. CASE s # k
    BY <1>3, <2>1 DEF Result, AllKey
  <2>2. CASE s = k
    <3>1. node \notin Highest(ResultIndex)
      <4>1. ResultIndex \notin Bit
        BY DEF Bit, MaxNodes, ResultIndex
      <4>2. QED
        BY <1>2, <4>1, PathsTell DEF Highest, IsHighest
    <3>2. Latest(u[s], With(u[s], Highest(ResultIndex))) =
              Latest(t[s], With(t[s], Highest(ResultIndex)))
      BY <1>5, <2>2, <3>1
    <3>3. /\ Result(u, n, s) = IF index[s] \in Access(n)
                               THEN Latest(u[s], With(u[s], Highest(ResultIndex)))
                               ELSE Nothing
          /\ Result(t, n, s) = IF index[s] \in Access(n)
                               THEN Latest(t[s], With(t[s], Highest(ResultIndex)))
                               ELSE Nothing
      BY <1>4, ResultLooks
    <3>4. QED
      BY <3>2, <3>3
  <2>3. QED
    BY <2>1, <2>2
<1>10. QED
  BY <1>4, <1>7, <1>8, <1>9

\* A result is shown to those who see the step, and changes no view.
LEMMA ReturnViews ==
  ASSUME Ordered, NEW t \in Tables, NEW s \in Name, NEW v \in Value,
         NEW u, u = Answered(t, s, v)
  PROVE  /\ u \in Tables
         /\ View(u) = View(t) /\ Own(u) = Own(t)
         /\ Shown(u) = ShownReturned(t, s, v)
<1>1. s \in AllKey /\ t[s] \in Seq(AnyNode) /\ \A x \in AllKey : t[x] \in Seq(AnyNode)
  BY DEF Tables, AllKey
<1>2. u[s] = WithResult(t[s], v) /\ \A x \in AllKey \ {s} : u[x] = t[x]
  BY <1>1 DEF Tables, Answered
<1>3. /\ u[s] \in Seq(AnyNode)
      /\ MatchByHighest(u[s], ResultIndex) = v
      /\ \A Q : Q \cap Highest(ResultIndex) = {} =>
             Latest(u[s], With(u[s], Q)) = Latest(t[s], With(t[s], Q))
  BY <1>1, <1>2, WithResultIs
<1>4. u \in Tables
  BY <1>1, <1>3, <1>2 DEF Tables, Answered
<1>5. ResultIndex \notin Bit
  BY DEF Bit, MaxNodes, ResultIndex
<1>6. \A r \in Actor : Seen(Access(r)) \cap Highest(ResultIndex) = {}
  BY <1>5, PathsTell DEF Seen, Highest, IsHighest
<1>7. View(u) = View(t)
  <2> SUFFICES ASSUME NEW r \in Actor, NEW k \in Key PROVE Get(u, r, k) = Get(t, r, k)
    BY DEF View
  <2>1. CASE k # s
    BY <1>2, <2>1 DEF Get, AllKey
  <2>2. CASE k = s
    <3>1. Latest(u[k], With(u[k], Seen(Access(r)))) =
              Latest(t[k], With(t[k], Seen(Access(r))))
      BY <1>3, <1>6, <2>2
    <3>2. /\ Get(u, r, k) = LET found == Latest(u[k], With(u[k], Seen(Access(r))))
                            IN  IF found = Nothing THEN Input[k] ELSE found
          /\ Get(t, r, k) = LET found == Latest(t[k], With(t[k], Seen(Access(r))))
                            IN  IF found = Nothing THEN Input[k] ELSE found
      BY <1>4, GetLooks
    <3>3. QED
      BY <3>1, <3>2
  <2>3. QED
    BY <2>1, <2>2
<1>8. Own(u) = Own(t)
  <2> SUFFICES ASSUME NEW n \in Name, NEW k \in Key
               PROVE  LastOf(u, k, n) = LastOf(t, k, n)
    BY DEF Own
  <2>1. CASE k # s
    BY <1>2, <2>1 DEF LastOf, AllKey
  <2>2. CASE k = s
    <3>1. By(n) \cap Highest(ResultIndex) = {}
      <4> SUFFICES ASSUME NEW node \in By(n) PROVE ~IsHighest(ResultIndex, node.path)
        BY DEF Highest
      <4>1. n \in Actor /\ n # Nothing
        BY ContextAssumption DEF Actor
      <4>2. node.path = Visible(n)
        BY <4>1 DEF By, AnyNode, Telling
      <4>3. QED
        BY <1>5, <4>1, <4>2, PathsTell DEF IsHighest
    <3>2. Latest(u[k], With(u[k], By(n))) = Latest(t[k], With(t[k], By(n)))
      BY <1>3, <2>2, <3>1
    <3>3. /\ LastOf(u, k, n) = Latest(u[k], With(u[k], By(n)))
          /\ LastOf(t, k, n) = Latest(t[k], With(t[k], By(n)))
      BY <1>4, OwnLooks
    <3>4. QED
      BY <3>2, <3>3
  <2>3. QED
    BY <2>1, <2>2
<1>9. Shown(u) = ShownReturned(t, s, v)
  <2> SUFFICES ASSUME NEW n \in Name, NEW x \in Name
               PROVE  Result(u, n, x) =
                          IF x = s /\ Views!Sees(n, s) THEN v ELSE Result(t, n, x)
    BY DEF Shown, ShownReturned
  <2>1. CASE x # s
    BY <1>2, <2>1 DEF Result, AllKey
  <2>2. CASE x = s
    BY <1>3, <2>2, PathsTell DEF Result
  <2>3. QED
    BY <2>1, <2>2
<1>10. QED
  BY <1>4, <1>7, <1>8, <1>9

-------------------------------------------------------------------------------
(***************************************************************************)
(* The invariant, and what a step does to the table.                       *)
(***************************************************************************)
TableFits == /\ Ordered /\ sets \in Nat /\ table \in Tables
             /\ saved = <<>> \/ \E t \in Tables : saved = <<t>>
             /\ ppc = "saved" => saved # <<>>

\* A step runs when those before it are done, and nothing runs before the process.
RunsAfter ==
    /\ phase \in [Name -> {"wait", "run", "late", "done", "failed"}]
    /\ \A n \in Name : phase[n] = "run" => \A m \in up[n] : phase[m] = "done"
    /\ ppc = "before" => \A n \in Name : phase[n] = "wait"

ContextInv == TableFits /\ RunsAfter

LEMMA InitContext == Init => ContextInv
<1> SUFFICES ASSUME Init PROVE ContextInv
  OBVIOUS
<1>1. Ordered
  BY DEF Init, Ordered, MergeNumberings
<1>2. table \in Tables
  <2>1. <<>> \in Seq(AnyNode)
    OBVIOUS
  <2>2. QED
    BY <2>1 DEF Init, Tables
<1>3. QED
  BY <1>1, <1>2 DEF Init, ContextInv, TableFits, RunsAfter

Sets(w, k, v) == table' = Added(table, w, k, v)
Returns(s, v) == table' = Answered(table, s, v)

\* The writer of a value is a step that is active, or the process.
MayWrite(w) == IF w = Process THEN ppc \in {"before", "after"} ELSE Active(w)

LEMMA TableMoves ==
  ASSUME ContextInv, [Next]_vars, ~Renumbers
  PROVE  /\ up' = up /\ index' = index
         /\ \/ UNCHANGED <<table, saved>>
            \/ saved' = saved /\ \E w \in Actor, k \in Key, v \in Value :
                                     MayWrite(w) /\ Sets(w, k, v)
            \/ saved' = saved /\ \E s \in Name, v \in Value :
                                     phase'[s] # "run" /\ Returns(s, v)
            \/ table' = table /\ saved' = <<table>>
            \/ /\ saved # <<>> /\ saved' = saved /\ table' = saved[1]
               /\ \A n \in Name : phase'[n] # "run"
<1>1. /\ sets \in Nat /\ MaxSets \in Nat /\ Process \notin Name
      /\ sets < MaxSets /\ sets' = sets + 1 => sets' \in Value
  BY ContextAssumption DEF ContextInv, TableFits, Value
<1>2. ASSUME NEW k \in Key, SetShared(k)
      PROVE  up' = up /\ index' = index /\ saved' = saved
             /\ sets' \in Value /\ MayWrite(Process) /\ Sets(Process, k, sets')
  BY <1>1, <1>2 DEF SetShared, Write, MayWrite, Sets, Added
<1>3. ASSUME NEW n \in Name, NEW k \in Key, Set(n, k)
      PROVE  up' = up /\ index' = index /\ saved' = saved
             /\ sets' \in Value /\ MayWrite(n) /\ Sets(n, k, sets')
  BY <1>1, <1>3 DEF Set, Write, MayWrite, Sets, Added
<1>4. ASSUME NEW n \in Name, Return(n)
      PROVE  up' = up /\ index' = index /\ saved' = saved
             /\ sets' \in Value /\ phase'[n] # "run" /\ Returns(n, sets')
  BY <1>1, <1>4 DEF Return, SetResult, Returns, Answered, ContextInv, RunsAfter
<1>5. CASE Save
  BY <1>5 DEF Save
<1>6. CASE Recover
  BY <1>6 DEF Recover, Loaded, ContextInv, TableFits
<1>7. CASE \/ Schedule \/ Over \/ UNCHANGED vars
           \/ \E timeout \in BOOLEAN : ProcessEnds(timeout)
           \/ \E n \in Name : Begin(n) \/ StepEnds(n) \/ StepTimeout(n)
  BY <1>7 DEF Schedule, Over, ProcessEnds, Begin, StepEnds, StepTimeout, vars
<1>8. Process \in Actor /\ Name \subseteq Actor
  BY DEF Actor
<1>9. CASE \E k \in Key : SetShared(k)
  BY <1>2, <1>8, <1>9
<1>10. CASE \E n \in Name, k \in Key : Set(n, k)
  BY <1>3, <1>8, <1>10
<1>11. CASE \E n \in Name : Return(n)
  BY <1>4, <1>11
<1>12. QED
  BY <1>5, <1>6, <1>7, <1>9, <1>10, <1>11 DEF Next

\* What a table may be depends on the order and the numbers only.
LEMMA SameTables == ASSUME up' = up, index' = index PROVE Tables' = Tables
<1>1. \A r : Access(r)' = Access(r)
  BY DEF Access
<1>2. \A w : Visible(w)' = Visible(w)
  BY <1>1 DEF Visible
<1>3. \A node : Telling(node)' <=> Telling(node)
  BY <1>2 DEF Telling
<1>4. AnyNode' = AnyNode
  BY <1>3 DEF AnyNode
<1>5. QED
  BY <1>4 DEF Tables

LEMMA NextTable == ASSUME ContextInv, [Next]_vars, ~Renumbers PROVE TableFits'
<1>1. /\ Ordered /\ sets \in Nat /\ table \in Tables
      /\ saved = <<>> \/ \E t \in Tables : saved = <<t>>
      /\ ppc = "saved" => saved # <<>>
  BY DEF ContextInv, TableFits
<1>2. up' = up /\ index' = index /\ Tables' = Tables
  BY TableMoves, SameTables
<1>3. Ordered'
  BY <1>1, <1>2 DEF Ordered, Numberings
<1>4. table' \in Tables /\ (saved' = saved \/ saved' = <<table>>)
  <2>1. ASSUME NEW w \in Actor, NEW k \in Key, NEW v \in Value, Sets(w, k, v)
        PROVE  table' \in Tables
    BY <1>1, <2>1, SetViews DEF Sets
  <2>2. ASSUME NEW s \in Name, NEW v \in Value, Returns(s, v) PROVE table' \in Tables
    BY <1>1, <2>2, ReturnViews DEF Returns
  <2>3. saved # <<>> => saved[1] \in Tables
    BY <1>1
  <2>4. QED
    BY <1>1, <2>1, <2>2, <2>3, TableMoves
<1>5. sets' \in Nat /\ (ppc' = "saved" => saved' # <<>>)
  <2>1. CASE \E n \in Name, k \in Key : Set(n, k) \/ SetShared(k)
    BY <1>1, <2>1 DEF Set, SetShared, Write
  <2>2. CASE \E n \in Name : Return(n)
    BY <1>1, <2>2 DEF Return, SetResult
  <2>3. CASE Save \/ Recover
    BY <1>1, <2>3 DEF Save, Recover
  <2>4. CASE \/ Schedule \/ Over \/ UNCHANGED vars
             \/ \E timeout \in BOOLEAN : ProcessEnds(timeout)
             \/ \E n \in Name : Begin(n) \/ StepEnds(n) \/ StepTimeout(n)
    BY <1>1, <2>4 DEF Schedule, Over, ProcessEnds, Begin, StepEnds, StepTimeout, vars
  <2>5. CASE \E k \in Key : SetShared(k)
    BY <1>1, <2>5 DEF SetShared, Write
  <2>6. QED
    BY <2>1, <2>2, <2>3, <2>4, <2>5 DEF Next
<1>6. QED
  BY <1>1, <1>2, <1>3, <1>4, <1>5 DEF TableFits

LEMMA NextRuns == ASSUME ContextInv, [Next]_vars, ~Renumbers PROVE RunsAfter'
<1>1. /\ phase \in [Name -> {"wait", "run", "late", "done", "failed"}]
      /\ \A n \in Name : phase[n] = "run" => \A m \in up[n] : phase[m] = "done"
      /\ ppc = "before" => \A n \in Name : phase[n] = "wait"
      /\ up \in [Name -> SUBSET Name] /\ up' = up
  BY TableMoves DEF ContextInv, RunsAfter, TableFits, Ordered, Orders
<1> USE <1>1 DEF RunsAfter
<1>2. ASSUME NEW n \in Name, Begin(n) PROVE RunsAfter'
  BY <1>2 DEF Begin, CanBegin
<1>3. ASSUME NEW n \in Name, Return(n) \/ StepEnds(n) \/ StepTimeout(n) PROVE RunsAfter'
  <2>1. /\ phase[n] \in {"run", "late"} /\ ppc' = ppc
        /\ \E p \in {"late", "done", "failed"} : phase' = [phase EXCEPT ![n] = p]
    BY <1>3 DEF Return, StepEnds, StepTimeout, Active
  <2>2. QED
    BY <2>1
<1>4. CASE Recover
  <2>1. ppc' = "steps" /\ phase' \in [Name -> {"wait", "done"}]
    BY <1>4 DEF Recover
  <2>2. QED
    BY <2>1
<1>5. CASE \/ Schedule \/ Over \/ Save \/ UNCHANGED vars
           \/ \E timeout \in BOOLEAN : ProcessEnds(timeout)
           \/ (\E n \in Name, k \in Key : Set(n, k)) \/ (\E k \in Key : SetShared(k))
  <2>1. phase' = phase /\ (ppc' = "before" => ppc = "before")
    BY <1>5 DEF Schedule, Over, Save, ProcessEnds, Set, SetShared, vars
  <2>2. QED
    BY <2>1
<1>6. QED
  BY <1>2, <1>3, <1>4, <1>5 DEF Next

LEMMA NextContext == ~Renumbers /\ ContextInv /\ [Next]_vars => ContextInv'
  BY NextTable, NextRuns DEF ContextInv

LEMMA ContextKnown == ~Renumbers => (Spec => []ContextInv)
<1> SUFFICES ASSUME ~Renumbers PROVE Spec => []ContextInv
  OBVIOUS
<1>1. QED
  BY InitContext, NextContext, PTL DEF Spec

-------------------------------------------------------------------------------
(***************************************************************************)
(* The theorems.                                                           *)
(***************************************************************************)
Kept == IF saved = <<>> THEN <<>>
        ELSE <<View(saved[1]), Own(saved[1]), Shown(saved[1])>>

LEMMA InitViews == Init => Views!Init
<1> SUFFICES ASSUME Init PROVE Views!Init
  OBVIOUS
<1>1. table \in Tables /\ \A k \in AllKey : table[k] = <<>>
  BY InitContext DEF Init, ContextInv, TableFits
<1>2. \A k \in AllKey : \A Q : Latest(table[k], With(table[k], Q)) = Nothing
  BY <1>1 DEF With, Latest
<1>3. View(table) = [r \in Actor |-> Input]
  <2>1. \A r \in Actor, k \in Key : Get(table, r, k) = Input[k]
    BY <1>1, <1>2, GetLooks DEF AllKey
  <2>2. Input = [k \in Key |-> Input[k]]
    BY ContextAssumption
  <2>3. QED
    BY <2>1, <2>2 DEF View
<1>4. Own(table) = [n \in Name |-> [k \in Key |-> Nothing]]
  <2>1. \A n \in Name, k \in Key : LastOf(table, k, n) = Nothing
    BY <1>1, <1>2, OwnLooks DEF AllKey
  <2>2. QED
    BY <2>1 DEF Own
<1>5. Shown(table) = [n \in Name |-> [s \in Name |-> Nothing]]
  <2>1. \A n, s \in Name : Result(table, n, s) = Nothing
    BY <1>1, <1>2, ResultLooks DEF AllKey
  <2>2. QED
    BY <2>1 DEF Shown
<1>6. QED
  BY <1>3, <1>4, <1>5 DEF Init, Views!Init, Orders, Views!Actor, Actor

\* The views of a table depend on the order and the numbers only.
LEMMA SameViews ==
  ASSUME up' = up, index' = index
  PROVE  /\ View(table)' = View(table') /\ Own(table)' = Own(table')
         /\ Shown(table)' = Shown(table')
         /\ Kept' = IF saved' = <<>> THEN <<>>
                    ELSE <<View(saved'[1]), Own(saved'[1]), Shown(saved'[1])>>
  BY DEF View, Own, Shown, Kept, Get, LastOf, WrittenBy, Result, Access

LEMMA NextViews == ASSUME ContextInv, [Next]_vars, ~Renumbers
                   PROVE  Views!Next \/ UNCHANGED <<up, View(table), Own(table), Shown(table), Kept>>
<1>1. /\ Ordered /\ table \in Tables /\ up' = up /\ index' = index
      /\ saved = <<>> \/ \E t \in Tables : saved = <<t>>
  BY TableMoves DEF ContextInv, TableFits
<1>2. /\ View(table)' = View(table') /\ Own(table)' = Own(table')
      /\ Shown(table)' = Shown(table')
      /\ saved' = saved => Kept' = Kept
      /\ saved' = <<table>> => Kept' = <<View(table), Own(table), Shown(table)>>
  BY <1>1, SameViews DEF Kept
<1>3. CASE UNCHANGED <<table, saved>>
  BY <1>1, <1>2, <1>3
<1>4. ASSUME NEW w \in Actor, NEW k \in Key, NEW v \in Value, saved' = saved, Sets(w, k, v)
      PROVE  Views!Next
  <2>1. /\ View(table') = ViewSet(table, w, k, v)
        /\ Own(table') = OwnSet(table, w, k, v)
        /\ Shown(table') = Shown(table)
    BY <1>1, <1>4, SetViews DEF Sets
  <2>2. View(table')[w][k] = v
    BY <2>1 DEF ViewSet, Views!Sees
  <2>3. Views!Set(w, k, v)
    BY <1>1, <1>2, <1>4, <2>1, <2>2
       DEF Views!Set, Views!Actor, Actor, Kept, ViewSet, OwnSet
  <2>4. QED
    BY <2>3 DEF Views!Next, Views!Actor, Actor
<1>5. ASSUME NEW s \in Name, NEW v \in Value, saved' = saved, Returns(s, v)
      PROVE  Views!Next
  <2>1. /\ View(table') = View(table) /\ Own(table') = Own(table)
        /\ Shown(table') = ShownReturned(table, s, v)
    BY <1>1, <1>5, ReturnViews DEF Returns
  <2>2. Views!Return(s, v)
    BY <1>1, <1>2, <1>5, <2>1 DEF Views!Return, Kept, ShownReturned
  <2>3. QED
    BY <2>2 DEF Views!Next
<1>6. CASE table' = table /\ saved' = <<table>>
  <2>1. Views!Save
    BY <1>1, <1>2, <1>6 DEF Views!Save, Kept
  <2>2. QED
    BY <2>1 DEF Views!Next
<1>7. CASE saved # <<>> /\ saved' = saved /\ table' = saved[1]
  <2>1. Views!Recover
    BY <1>1, <1>2, <1>7 DEF Views!Recover, Kept
  <2>2. QED
    BY <2>1 DEF Views!Next
<1>8. QED
  BY <1>3, <1>4, <1>5, <1>6, <1>7, TableMoves

\* As long as the steps keep their numbers, the lists of nodes with their paths
\* implement a view for each step and survive a recovery (linkedTable).
THEOREM ViewsCorrect == ~Renumbers => (Spec => RefinesViews)
<1> SUFFICES ASSUME ~Renumbers PROVE Spec => RefinesViews
  OBVIOUS
<1>1. ContextInv /\ [Next]_vars => [Views!Next]_(Views!vars)
  BY NextViews DEF Views!vars, Kept
<1>2. Spec => []ContextInv
  BY ContextKnown
<1>3. QED
  BY <1>1, <1>2, InitViews, PTL DEF Spec, RefinesViews, Views!Spec

\* Whatever the other steps do, what a step gets for a key changes only by the
\* step itself or by a callback of a process that has timed out.
THEOREM StableCorrect == ~Renumbers => (Spec => StableView)
<1> SUFFICES ASSUME ~Renumbers PROVE Spec => StableView
  OBVIOUS
<1> DEFINE Stable == \A n \in Name, k \in Key :
          phase[n] = "run" /\ phase'[n] = "run" /\ Get(table, n, k)' # Get(table, n, k)
          => \/ table'[k] = Append(table[k], Node(n, Get(table, n, k)'))
             \/ ppc = "after" /\ table'[k][Len(table'[k])].by = Process
<1>1. ASSUME ContextInv, [Next]_vars PROVE [Stable]_vars
  <2> SUFFICES ASSUME NEW n \in Name, NEW k \in Key, phase[n] = "run", phase'[n] = "run",
                      Get(table, n, k)' # Get(table, n, k)
               PROVE  \/ table'[k] = Append(table[k], Node(n, Get(table, n, k)'))
                      \/ ppc = "after" /\ table'[k][Len(table'[k])].by = Process
    BY DEF Stable
  <2>1. /\ Ordered /\ table \in Tables /\ up' = up /\ index' = index /\ k \in AllKey
        /\ n \in Actor /\ n # Process
    BY <1>1, TableMoves, ContextAssumption DEF ContextInv, TableFits, AllKey, Actor
  <2>2. /\ Get(table, n, k)' = View(table')[n][k] /\ Get(table, n, k) = View(table)[n][k]
    BY <2>1 DEF View, Get, Access
  <2>3. View(table') # View(table)
    BY <2>2
  <2>4. ~\E s \in Name, v \in Value : Returns(s, v)
    BY <2>1, <2>3, ReturnViews DEF Returns
  <2>5. PICK w \in Actor, x \in Key, v \in Value : MayWrite(w) /\ Sets(w, x, v)
    BY <1>1, <2>3, <2>4, TableMoves
  <2>6. x = k /\ Views!Sees(n, w) /\ Get(table, n, k)' = v
    <3>1. View(table') = ViewSet(table, w, x, v)
      BY <2>1, <2>5, SetViews DEF Sets
    <3>2. QED
      BY <2>1, <2>2, <3>1 DEF ViewSet
  <2>7. table'[k] = Append(table[k], Node(w, v))
    BY <2>1, <2>5, <2>6 DEF Sets, Added, Tables
  <2>8. CASE w = n
    BY <2>6, <2>7, <2>8
  <2>9. CASE w = Process
    <3>1. ppc = "after"
      BY <1>1, <2>5, <2>9 DEF MayWrite, ContextInv, RunsAfter
    <3>2. table'[k][Len(table'[k])] = Node(w, v)
      BY <2>1, <2>7 DEF Tables
    <3>3. QED
      BY <2>9, <3>1, <3>2 DEF Node
  <2>10. CASE w # n /\ w # Process
    <3>1. w \in up[n]
      BY <2>1, <2>6, <2>10 DEF Views!Sees
    <3>2. phase[w] = "done"
      BY <1>1, <3>1 DEF ContextInv, RunsAfter
    <3>3. QED
      BY <2>5, <2>10, <3>2 DEF MayWrite, Active
  <2>11. QED
    BY <2>8, <2>9, <2>10
<1>2. Spec => []ContextInv
  BY ContextKnown
<1>3. QED
  BY <1>1, <1>2, PTL DEF Spec, StableView

-------------------------------------------------------------------------------
(***************************************************************************)
(* EndValues.  The loop goes over the list from its head; what it knows    *)
(* after each node is found by induction over the nodes it has passed, as  *)
(* the least number of nodes after which it knows something else.          *)
(***************************************************************************)
\* The loop before its first node, and how it passes node i from the head.
Start == [exist |-> {}, paths |-> {}, values |-> [m \in Name |-> Nothing]]

Passed(list, n, i, last) ==
    LET node == list[Len(list) + 1 - i]
    IN  IF ~(node.path \subseteq Visible(n))
           \/ Covered(node, last.exist, last.paths)
        THEN last
        ELSE [exist  |-> last.exist \cup node.path,
              paths  |-> last.paths \cup {node.path},
              values |-> [last.values EXCEPT ![Owner(node.path)] = node.value]]

Loops(list, n, N, f) ==
    f = [i \in 0..N |-> IF i = 0 THEN Start ELSE Passed(list, n, i, f[i-1])]

LEMMA LoopExists == \A list, n : \A N \in Nat : \E f : Loops(list, n, N, f)
<1> SUFFICES ASSUME NEW list, NEW n PROVE \A N \in Nat : \E f : Loops(list, n, N, f)
  OBVIOUS
<1> DEFINE T == {N \in Nat : ~\E f : Loops(list, n, N, f)}
<1>1. SUFFICES ASSUME T # {} PROVE FALSE
  OBVIOUS
<1>2. PICK N \in T : \A M \in T : N <= M
  <2>1. T \in SUBSET Nat
    OBVIOUS
  <2> HIDE DEF T
  <2>2. QED
    BY <1>1, <2>1, Smallest
<1>3. CASE N = 0
  <2>1. Loops(list, n, 0, [i \in 0..0 |-> Start])
    BY DEF Loops
  <2>2. QED
    BY <1>3, <2>1
<1>4. CASE N # 0
  <2>1. N - 1 \in Nat /\ N - 1 \notin T
    BY <1>2, <1>4
  <2>2. PICK g : Loops(list, n, N - 1, g)
    BY <2>1
  <2> DEFINE h == [i \in 0..N |-> IF i = N THEN Passed(list, n, N, g[N-1]) ELSE g[i]]
  <2>3. \A i \in 0..(N-1) : g[i] = IF i = 0 THEN Start ELSE Passed(list, n, i, g[i-1])
    BY <2>2 DEF Loops
  <2>4. \A i \in 0..N : h[i] = IF i = 0 THEN Start ELSE Passed(list, n, i, h[i-1])
    <3>1. ASSUME NEW i \in 0..N, i # N, i # 0
          PROVE  h[i] = Passed(list, n, i, h[i-1])
      <4>1. i \in 0..(N-1) /\ i - 1 \in 0..N /\ i - 1 # N
        BY <2>1, <3>1
      <4>2. h[i] = g[i] /\ h[i-1] = g[i-1]
        BY <3>1, <4>1
      <4>3. QED
        BY <2>3, <3>1, <4>1, <4>2
    <3>2. h[N] = Passed(list, n, N, h[N-1])
      <4>1. N \in 0..N /\ N - 1 \in 0..N /\ N - 1 # N
        BY <2>1
      <4>2. h[N] = Passed(list, n, N, g[N-1]) /\ h[N-1] = g[N-1]
        BY <4>1
      <4>3. QED
        BY <4>2
    <3>3. h[0] = Start
      BY <1>4, <2>1, <2>3
    <3>4. QED
      BY <1>4, <3>1, <3>2, <3>3
  <2>5. Loops(list, n, N, h)
    <3>1. h = [i \in 0..N |-> h[i]]
      OBVIOUS
    <3> HIDE DEF h
    <3>2. QED
      BY <2>4, <3>1 DEF Loops
  <2>6. QED
    BY <2>5
<1>5. QED
  BY <1>3, <1>4

\* EndValues is what the loop knows after the last node.
LEMMA EndOfLoop ==
  ASSUME NEW t, NEW n, NEW k, Len(t[k]) \in Nat
  PROVE  \E f : Loops(t[k], n, Len(t[k]), f) /\ EndValues(t, n, k) = f[Len(t[k])].values
<1> DEFINE list == t[k]
           F == CHOOSE f : Loops(list, n, Len(list), f)
<1>1. EndValues(t, n, k) = F[Len(list)].values
  BY DEF EndValues, Loops, Passed, Start
<1>2. Loops(list, n, Len(list), F)
  BY LoopExists
<1>3. QED
  BY <1>1, <1>2

\* The nodes behind node p, nearer to the head, that n sees.
Later(list, n, p) == {l \in DOMAIN list : l > p /\ list[l].path \subseteq Visible(n)}

Bits(list, S) == UNION {list[l].path : l \in S}

\* The nodes whose values EndValues takes.
Fresh(list, n) == {j \in DOMAIN list :
                      /\ list[j].path \subseteq Visible(n)
                      /\ ~(list[j].path \subseteq Bits(list, Later(list, n, j)))}

\* The owner of each path is its writer.
AllTop(n) == \A w \in up[n] \cup {n} : Top(w)

\* What the loop knows when it has passed all nodes behind p.
Knows(list, n, p, known) ==
    /\ known.exist = Bits(list, Later(list, n, p))
    /\ known.values \in [Name -> Value \cup {Nothing}]
    /\ \A m \in Name : \/ known.values[m] = Nothing
                       \/ \E j \in Fresh(list, n) : /\ j > p
                                                    /\ known.values[m] = list[j].value
                                                    /\ AllTop(n) => list[j].by = m
    /\ AllTop(n) =>
          \A j \in Fresh(list, n) : j > p => known.values[list[j].by] = list[j].value

LEMMA FreshWriter ==
  ASSUME Ordered, NEW list \in Seq(AnyNode), NEW n \in Name,
         NEW j \in Fresh(list, n)
  PROVE  /\ j \in 1..Len(list) /\ list[j] \in AnyNode
         /\ list[j].by \in Name /\ list[j].path = Visible(list[j].by)
         /\ list[j].by \in up[n] \cup {n}
         /\ \A i \in WrittenBy(list, list[j].by) : i <= j
<1>1. /\ j \in 1..Len(list) /\ list[j] \in AnyNode
      /\ list[j].path \subseteq Visible(n)
      /\ ~(list[j].path \subseteq Bits(list, Later(list, n, j)))
  BY DEF Fresh
<1>2. Visible(n) \subseteq Bit /\ ResultIndex \notin Bit /\ Visible(Process) = {}
  <2>1. Visible(n) \subseteq Bit
    BY PathsTell DEF Actor
  <2>2. QED
    BY <2>1 DEF Bit, MaxNodes, ResultIndex, Visible
<1>3. list[j].by \in Actor /\ list[j].path = Visible(list[j].by)
  BY <1>1, <1>2 DEF AnyNode, Telling
<1>4. list[j].by \in Name
  BY <1>1, <1>2, <1>3 DEF Actor
<1>5. list[j].by \in up[n] \cup {n}
  <2>1. n \in Actor /\ n # Process /\ list[j].by # Process /\ Visible(n) = Access(n)
    BY <1>4, ContextAssumption DEF Actor, Visible
  <2>2. Views!Sees(n, list[j].by)
    BY <1>1, <1>3, <2>1, PathsTell
  <2>3. QED
    BY <2>1, <2>2 DEF Views!Sees
<1>6. ASSUME NEW i \in WrittenBy(list, list[j].by), i > j PROVE FALSE
  <2>1. i \in DOMAIN list /\ list[i].by = list[j].by
    BY <1>6 DEF WrittenBy
  <2>2. list[i].path = list[j].path
    <3>1. Nothing \notin Actor
      BY ContextAssumption
    <3>2. QED
      BY <1>3, <2>1, <3>1 DEF AnyNode, Telling
  <2>3. i \in Later(list, n, j)
    BY <1>1, <1>6, <2>1, <2>2 DEF Later
  <2>4. list[j].path \subseteq Bits(list, Later(list, n, j))
    BY <2>2, <2>3 DEF Bits
  <2>5. QED
    BY <1>1, <2>4
<1>7. QED
  <2>1. \A i \in WrittenBy(list, list[j].by) : i \in Nat
    BY DEF WrittenBy
  <2>2. QED
    BY <1>1, <1>3, <1>4, <1>6, <1>5, <2>1

\* Passing a node keeps what the loop knows true.
LEMMA PassedKnows ==
  ASSUME Ordered, NEW list \in Seq(AnyNode), NEW n \in Name,
         NEW i \in 1..Len(list), NEW last, Knows(list, n, Len(list) + 1 - i, last)
  PROVE  Knows(list, n, Len(list) - i, Passed(list, n, i, last))
<1> DEFINE p == Len(list) + 1 - i
           node == list[p]
           next == Passed(list, n, i, last)
<1>1. /\ Len(list) \in Nat /\ DOMAIN list = 1..Len(list) /\ p \in DOMAIN list
      /\ Len(list) - i = p - 1 /\ p \in Nat /\ node \in AnyNode
      /\ \A j \in DOMAIN list : j > p - 1 <=> j > p \/ j = p
  OBVIOUS
<1>2. Later(list, n, p - 1) =
          Later(list, n, p) \cup (IF node.path \subseteq Visible(n) THEN {p} ELSE {})
  BY <1>1 DEF Later
<1>3. p \in Fresh(list, n) <=> /\ node.path \subseteq Visible(n)
                               /\ ~(node.path \subseteq last.exist)
  BY <1>1 DEF Fresh, Knows
<1>4. CASE p \notin Fresh(list, n)
  <2>1. next = last
    BY <1>3, <1>4 DEF Passed, Covered
  <2>2. Bits(list, Later(list, n, p - 1)) = last.exist
    <3>1. last.exist = Bits(list, Later(list, n, p))
      BY DEF Knows
    <3>2. CASE ~(node.path \subseteq Visible(n))
      BY <1>2, <3>1, <3>2
    <3>3. CASE node.path \subseteq last.exist
      <4>1. Bits(list, Later(list, n, p) \cup {p}) = last.exist \cup node.path
        BY <3>1 DEF Bits
      <4>2. QED
        BY <1>2, <3>1, <3>3, <4>1
    <3>4. QED
      BY <1>3, <1>4, <3>2, <3>3
  <2>3. \A j \in Fresh(list, n) : j > p - 1 <=> j > p
    BY <1>1, <1>4 DEF Fresh
  <2>4. QED
    <3>1. Knows(list, n, p, last)
      OBVIOUS
    <3>2. Knows(list, n, p - 1, last)
      <4> HIDE DEF p
      <4>1. QED
        BY <2>2, <2>3, <3>1 DEF Knows
    <3>3. QED
      BY <1>1, <2>1, <3>2
<1>5. CASE p \in Fresh(list, n)
  <2> DEFINE w == node.by
           owner == Owner(node.path)
  <2>1. /\ w \in Name /\ node.path = Visible(w) /\ w \in up[n] \cup {n}
        /\ \A j \in WrittenBy(list, w) : j <= p
    BY <1>5, FreshWriter
  <2>2. AllTop(n) => owner = w
    <3> SUFFICES ASSUME AllTop(n) PROVE owner = w
      OBVIOUS
    <3>1. \A m \in Name : IsHighest(index[m], node.path) <=> m = w
      BY <2>1, PathsTell DEF AllTop
    <3>2. QED
      BY <2>1, <3>1 DEF Owner
  <2>3. /\ next.exist = last.exist \cup node.path
        /\ next.values = [last.values EXCEPT ![owner] = node.value]
    BY <1>3, <1>5 DEF Passed, Covered
  <2>4. /\ last.values \in [Name -> Value \cup {Nothing}]
        /\ last.exist = Bits(list, Later(list, n, p))
        /\ \A m \in Name : \/ last.values[m] = Nothing
                           \/ \E j \in Fresh(list, n) :
                                 /\ j > p /\ last.values[m] = list[j].value
                                 /\ AllTop(n) => list[j].by = m
        /\ AllTop(n) => \A j \in Fresh(list, n) : j > p =>
                           last.values[list[j].by] = list[j].value
    BY DEF Knows
  <2>5. next.exist = Bits(list, Later(list, n, p - 1))
    <3>1. Bits(list, Later(list, n, p) \cup {p}) = last.exist \cup node.path
      BY <2>4 DEF Bits
    <3>2. QED
      BY <1>2, <1>3, <1>5, <2>3, <3>1
  <2>6. node.value \in Value
    BY <1>1 DEF AnyNode
  <2> HIDE DEF owner
  <2>7. next.values \in [Name -> Value \cup {Nothing}]
    BY <2>3, <2>4, <2>6
  <2>8. ASSUME AllTop(n), NEW j \in Fresh(list, n), j > p - 1
        PROVE  next.values[list[j].by] = list[j].value
    <3>1. CASE j = p
      BY <2>1, <2>2, <2>3, <2>4, <2>8, <3>1
    <3>2. CASE j > p
      <4>1. j \in DOMAIN list /\ list[j].by \in Name
        BY FreshWriter
      <4>2. list[j].by # w
        BY <1>1, <2>1, <3>2, <4>1 DEF WrittenBy
      <4>3. QED
        BY <2>2, <2>3, <2>4, <2>8, <3>2, <4>1, <4>2
    <3>3. QED
      BY <1>1, <2>8, <3>1, <3>2 DEF Fresh
  <2>9. ASSUME NEW m \in Name, next.values[m] # Nothing
        PROVE  \E j \in Fresh(list, n) : /\ j > p - 1 /\ next.values[m] = list[j].value
                                         /\ AllTop(n) => list[j].by = m
    <3>1. CASE m = owner
      BY <1>1, <1>5, <2>2, <2>3, <2>4, <3>1
    <3>2. CASE m # owner
      <4>1. PICK j \in Fresh(list, n) : /\ j > p /\ next.values[m] = list[j].value
                                        /\ AllTop(n) => list[j].by = m
        BY <2>3, <2>4, <2>9, <3>2
      <4>2. j > p - 1
        BY <1>1, <4>1 DEF Fresh
      <4>3. QED
        BY <4>1, <4>2
    <3>3. QED
      BY <3>1, <3>2
  <2>10. QED
    <3>1. Knows(list, n, p - 1, next)
      <4> HIDE DEF next, p
      <4>1. QED
        BY <2>5, <2>7, <2>8, <2>9 DEF Knows
    <3>2. QED
      BY <1>1, <3>1
<1>6. QED
  BY <1>4, <1>5

LEMMA LoopKnows ==
  ASSUME Ordered, NEW list \in Seq(AnyNode), NEW n \in Name,
         NEW f, Loops(list, n, Len(list), f)
  PROVE  Knows(list, n, 0, f[Len(list)])
<1> DEFINE T == {i \in 0..Len(list) : ~Knows(list, n, Len(list) - i, f[i])}
<1>1. /\ Len(list) \in Nat
      /\ \A i \in 0..Len(list) : f[i] = IF i = 0 THEN Start ELSE Passed(list, n, i, f[i-1])
  BY DEF Loops
<1>2. CASE T = {}
  <2>1. Knows(list, n, Len(list) - Len(list), f[Len(list)])
    BY <1>1, <1>2
  <2>2. QED
    BY <1>1, <2>1
<1>3. CASE T # {}
  <2>1. PICK i \in T : \A j \in T : i <= j
    <3>1. T \in SUBSET Nat
      BY <1>1
    <3> HIDE DEF T
    <3>2. QED
      BY <1>3, <3>1, Smallest
  <2>2. i # 0
    <3>1. Later(list, n, Len(list)) = {} /\ \A j \in Fresh(list, n) : ~(j > Len(list))
      BY <1>1 DEF Later, Fresh
    <3>2. Knows(list, n, Len(list), Start)
      BY <3>1 DEF Knows, Start, Bits
    <3>3. f[0] = Start /\ Len(list) - 0 = Len(list)
      BY <1>1
    <3>4. QED
      BY <2>1, <3>2, <3>3
  <2>3. i \in 1..Len(list) /\ i - 1 \in 0..Len(list) /\ i - 1 \notin T
    BY <1>1, <2>1, <2>2
  <2>4. Knows(list, n, Len(list) + 1 - i, f[i-1])
    <3>1. Len(list) - (i - 1) = Len(list) + 1 - i
      BY <1>1, <2>3
    <3>2. QED
      BY <2>3, <3>1
  <2>5. Knows(list, n, Len(list) - i, f[i])
    BY <1>1, <2>2, <2>3, <2>4, PassedKnows
  <2>6. QED
    BY <2>1, <2>5
<1>4. QED
  BY <1>2, <1>3

\* The nodes whose values are taken are the last of the steps that are to have
\* theirs taken.
LEMMA FreshEnds ==
  ASSUME Ordered, table \in Tables, NEW k \in Key, NEW n \in Name
  PROVE  /\ \A j \in Fresh(table[k], n) :
                /\ table[k][j].by \in Ends(n, k)
                /\ LastOf(table, k, table[k][j].by) = table[k][j].value
         /\ \A w \in Ends(n, k) : \E j \in Fresh(table[k], n) : table[k][j].by = w
<1> DEFINE list == table[k]
<1>1. /\ list \in Seq(AnyNode) /\ Len(list) \in Nat /\ DOMAIN list = 1..Len(list)
      /\ up \in [Name -> SUBSET Name] /\ \A m \in Name : m \notin up[m]
      /\ \A m \in Name : up[m] \subseteq Name
      /\ Process \notin Name /\ Nothing \notin Actor /\ Name \subseteq Actor
  BY ContextAssumption DEF Tables, AllKey, Ordered, Orders, Actor
<1>2. \A w, x \in Name : Visible(w) \subseteq Visible(x) <=> w = x \/ w \in up[x]
  BY <1>1, PathsTell DEF Views!Sees, Visible
<1>3. \A w \in Name : \A i \in WrittenBy(list, w) :
          i \in DOMAIN list /\ list[i].by = w /\ list[i].path = Visible(w)
  <2> SUFFICES ASSUME NEW w \in Name, NEW i \in WrittenBy(list, w)
               PROVE  i \in DOMAIN list /\ list[i].by = w /\ list[i].path = Visible(w)
    OBVIOUS
  <2>1. i \in DOMAIN list /\ list[i].by = w /\ list[i] \in AnyNode
    BY <1>1 DEF WrittenBy
  <2>2. QED
    BY <1>1, <2>1 DEF AnyNode, Telling
<1> HIDE DEF list
<1>4. ASSUME NEW j \in Fresh(list, n)
      PROVE  list[j].by \in Ends(n, k) /\ Latest(list, WrittenBy(list, list[j].by)) = list[j].value
  <2> DEFINE w == list[j].by
  <2>1. /\ j \in 1..Len(list) /\ list[j].path = Visible(w)
        /\ w \in Name /\ w \in up[n] \cup {n}
        /\ \A i \in WrittenBy(list, w) : i <= j
    BY <1>1, FreshWriter
  <2>2. j \in WrittenBy(list, w) /\ WrittenBy(list, w) \in SUBSET Int
    BY <1>1, <2>1 DEF WrittenBy
  <2>3. Latest(list, WrittenBy(list, w)) = list[j].value
    BY <2>1, <2>2, LatestIs
  <2>4. ASSUME NEW x \in up[n] \cup {n}, w \in up[x], NEW l \in WrittenBy(list, x)
        PROVE  l < j
    <3>1. x \in Name /\ x # w /\ l \in DOMAIN list /\ list[l].by = x
          /\ list[l].path = Visible(x)
      BY <1>1, <1>3, <2>1, <2>4
    <3>2. Visible(x) \subseteq Visible(n) /\ Visible(w) \subseteq Visible(x)
      BY <1>2, <2>1, <2>4, <3>1
    <3>3. ~(l > j)
      <4>1. ASSUME l > j PROVE FALSE
        <5>1. l \in Later(list, n, j)
          BY <3>1, <3>2, <4>1 DEF Later
        <5>2. list[j].path \subseteq Bits(list, Later(list, n, j))
          BY <2>1, <3>1, <3>2, <5>1 DEF Bits
        <5>3. QED
          BY <5>2 DEF Fresh
      <4>2. QED
        BY <4>1
    <3>4. l # j
      BY <3>1
    <3>5. QED
      BY <1>1, <2>1, <3>1, <3>3, <3>4
  <2>5. w \in Ends(n, k)
    <3> HIDE DEF w
    <3>1. QED
      BY <2>1, <2>2, <2>4 DEF Ends, list
  <2>6. QED
    BY <2>3, <2>5
<1>5. ASSUME NEW w \in Ends(n, k) PROVE \E j \in Fresh(list, n) : list[j].by = w
  <2>1. /\ w \in up[n] \cup {n} /\ w \in Name /\ WrittenBy(list, w) # {}
        /\ \A x \in up[n] \cup {n} : w \in up[x] =>
              \A j \in WrittenBy(list, x) : \E i \in WrittenBy(list, w) : j < i
    BY <1>1 DEF Ends, list
  <2>2. PICK j \in WrittenBy(list, w) : \A i \in WrittenBy(list, w) : i <= j
    <3>1. WrittenBy(list, w) \in SUBSET (1..Len(list))
      BY <1>1 DEF WrittenBy
    <3>2. QED
      BY <1>1, <2>1, <3>1, Largest
  <2>3. j \in 1..Len(list) /\ list[j].by = w /\ list[j].path = Visible(w)
    BY <1>1, <1>3, <2>1
  <2>4. Visible(w) \subseteq Visible(n)
    BY <1>2, <2>1
  <2>5. ASSUME Visible(w) \subseteq Bits(list, Later(list, n, j)) PROVE FALSE
    <3>1. index[w] \in Visible(w) /\ index[w] # ResultIndex
      <4>1. index[w] \in Access(w) /\ Access(w) \subseteq Bit /\ Visible(w) = Access(w)
        BY <1>1, <2>1, PathsTell DEF Views!Sees, Visible
      <4>2. QED
        BY <4>1 DEF Bit, MaxNodes, ResultIndex
    <3>2. PICK l \in Later(list, n, j) : index[w] \in list[l].path
      BY <2>5, <3>1 DEF Bits
    <3>3. l \in DOMAIN list /\ l > j /\ list[l].path \subseteq Visible(n)
          /\ list[l] \in AnyNode
      BY <1>1 DEF Later
    <3>4. list[l].by \in Actor /\ list[l].path = Visible(list[l].by)
      BY <3>1, <3>2, <3>3 DEF AnyNode, Telling
    <3> DEFINE x == list[l].by
    <3>5. x \in Name
      BY <3>2, <3>4 DEF Actor, Visible
    <3>6. w = x \/ w \in up[x]
      BY <1>1, <2>1, <3>2, <3>4, <3>5, PathsTell DEF Views!Sees, Visible
    <3>7. l \in WrittenBy(list, x)
      BY <3>3 DEF WrittenBy
    <3>8. ~\E i \in WrittenBy(list, w) : l < i
      <4>1. \A i \in WrittenBy(list, w) : i \in 1..Len(list)
        BY <1>1 DEF WrittenBy
      <4>2. QED
        BY <1>1, <2>2, <2>3, <3>3, <4>1
    <3>9. w # x
      BY <1>1, <2>2, <2>3, <3>3, <3>7
    <3>10. x \in up[n] \cup {n}
      BY <1>2, <3>3, <3>4, <3>5
    <3>11. QED
      BY <2>1, <3>6, <3>7, <3>8, <3>9, <3>10
  <2>6. j \in Fresh(list, n)
    BY <1>1, <2>3, <2>4, <2>5 DEF Fresh
  <2>7. QED
    BY <2>3, <2>6
<1>6. QED
  BY <1>4, <1>5 DEF list, LastOf

LEMMA EndsAreRight == Ordered /\ table \in Tables => EndsRight
<1> SUFFICES ASSUME Ordered, table \in Tables, NEW n \in Name, NEW k \in Key
             PROVE  /\ \A m \in Name :
                           \/ EndValues(table, n, k)[m] = Nothing
                           \/ \E w \in Ends(n, k) :
                                 EndValues(table, n, k)[m] = LastOf(table, k, w)
                    /\ AllTop(n) =>
                          EndValues(table, n, k) =
                              [w \in Name |-> IF w \in Ends(n, k)
                                             THEN LastOf(table, k, w) ELSE Nothing]
  BY DEF EndsRight, AllTop
<1> DEFINE list == table[k]
<1>1. list \in Seq(AnyNode) /\ Len(list) \in Nat
  BY DEF Tables, AllKey
<1>2. PICK f : Loops(list, n, Len(list), f)
               /\ EndValues(table, n, k) = f[Len(list)].values
  BY <1>1, EndOfLoop
<1> DEFINE values == f[Len(list)].values
<1>3. /\ values \in [Name -> Value \cup {Nothing}]
      /\ \A m \in Name : \/ values[m] = Nothing
                         \/ \E j \in Fresh(list, n) : /\ values[m] = list[j].value
                                                      /\ AllTop(n) => list[j].by = m
      /\ AllTop(n) => \A j \in Fresh(list, n) :
                         j > 0 => values[list[j].by] = list[j].value
  BY <1>1, <1>2, LoopKnows DEF Knows
<1>4. /\ \A j \in Fresh(list, n) : /\ j > 0 /\ list[j].by \in Ends(n, k)
                                   /\ LastOf(table, k, list[j].by) = list[j].value
      /\ \A w \in Ends(n, k) : \E j \in Fresh(list, n) : list[j].by = w
  BY <1>1, FreshEnds, FreshWriter
<1> HIDE DEF list, values
<1>5. \A m \in Name : \/ values[m] = Nothing
                      \/ \E w \in Ends(n, k) : values[m] = LastOf(table, k, w)
  BY <1>3, <1>4
<1>6. ASSUME AllTop(n), NEW m \in Name
      PROVE  values[m] = IF m \in Ends(n, k) THEN LastOf(table, k, m) ELSE Nothing
  BY <1>3, <1>4, <1>6
<1>7. AllTop(n) => values = [w \in Name |-> IF w \in Ends(n, k)
                                           THEN LastOf(table, k, w) ELSE Nothing]
  BY <1>3, <1>6
<1>8. QED
  BY <1>2, <1>5, <1>7 DEF list, values

\* Only steps at or behind n have paths with the bit of n as the highest.
LEMMA NamesAreRight == Ordered /\ table \in Tables => NamedRight
<1> DEFINE Right(n, k, value, behind) ==
               /\ \/ value = Nothing
                  \/ \E m \in behind, i \in DOMAIN table[k] :
                        table[k][i].by = m /\ table[k][i].value = value
               /\ (\A m \in behind : Top(m)) => value = LastOf(table, k, n)
<1> SUFFICES ASSUME Ordered, table \in Tables, NEW n \in Name, NEW k \in Key
             PROVE  Right(n, k, GetByStepName(table, n, k),
                          {m \in Name : n \in up[m] \cup {m}})
  <2>1. ASSUME \A n \in Name, k \in Key :
                  Right(n, k, GetByStepName(table, n, k),
                        {m \in Name : n \in up[m] \cup {m}})
        PROVE  NamedRight
    BY <2>1 DEF NamedRight
  <2> HIDE DEF Right
  <2>2. QED
    BY <2>1
<1> DEFINE value == GetByStepName(table, n, k)
           behind == {m \in Name : n \in up[m] \cup {m}}
           list == table[k]
           S == With(list, Highest(index[n]))
<1>1. /\ list \in Seq(AnyNode) /\ \A i \in DOMAIN list : list[i] \in AnyNode
      /\ S \in SUBSET DOMAIN list
  BY DEF Tables, AllKey, With
<1>2. value = Latest(list, S)
  BY <1>1, LooksWith DEF GetByStepName
<1>3. index[n] # ResultIndex /\ n \in Actor /\ n # Nothing /\ n \in behind
  <2>1. n \in Actor /\ n # Nothing
    BY ContextAssumption DEF Actor
  <2>2. index[n] \in Access(n) /\ Access(n) \subseteq Bit
    BY <2>1, PathsTell DEF Views!Sees
  <2>3. QED
    BY <2>1, <2>2 DEF Bit, MaxNodes, ResultIndex
<1>4. ASSUME NEW i \in S
      PROVE  /\ list[i].by \in behind /\ list[i].path = Visible(list[i].by)
             /\ IsHighest(index[n], list[i].path)
  <2>1. IsHighest(index[n], list[i].path) /\ list[i] \in AnyNode
    BY <1>1 DEF With, Highest
  <2>2. list[i].by \in Actor /\ list[i].path = Visible(list[i].by)
    BY <1>3, <2>1 DEF AnyNode, Telling, IsHighest
  <2>3. QED
    BY <2>1, <2>2, PathsTell
<1> HIDE DEF list, S
<1>5. value = Nothing \/ \E i \in S : value = list[i].value
  <2>1. CASE S = {}
    BY <1>2, <2>1 DEF Latest
  <2>2. CASE S # {}
    BY <1>1, <1>2, <2>2, LatestValue
  <2>3. QED
    BY <2>1, <2>2
<1>6. ASSUME \A m \in behind : Top(m) PROVE S = WrittenBy(list, n)
  <2>1. ASSUME NEW i \in S PROVE i \in WrittenBy(list, n)
    <3>1. list[i].by = n
      BY <1>4, <1>6, PathsTell
    <3>2. QED
      BY <1>1, <3>1 DEF WrittenBy
  <2>2. ASSUME NEW i \in WrittenBy(list, n) PROVE i \in S
    <3>1. i \in DOMAIN list /\ list[i].by = n /\ list[i] \in AnyNode
      BY <1>1 DEF WrittenBy
    <3>2. list[i].path = Visible(n)
      BY <1>3, <3>1 DEF AnyNode, Telling
    <3>3. IsHighest(index[n], Visible(n))
      BY <1>3, <1>6, PathsTell
    <3>4. QED
      BY <3>1, <3>2, <3>3 DEF S, With, Highest
  <2>3. QED
    BY <2>1, <2>2
<1>7. QED
  <2>1. \/ value = Nothing
        \/ \E m \in behind, i \in DOMAIN list : list[i].by = m /\ list[i].value = value
    BY <1>1, <1>4, <1>5
  <2>2. (\A m \in behind : Top(m)) => value = LastOf(table, k, n)
    BY <1>2, <1>6 DEF LastOf, list
  <2>3. QED
    BY <2>1, <2>2 DEF list

\* EndValues has "not overwritten" values only, and GetByStepName no value of a
\* step that is not behind the one named; where the numbers rise along the
\* dependencies, each value is that of the step it is told for.
THEOREM OwnersCorrect == ~Renumbers => (Spec => []OwnersRight)
<1> SUFFICES ASSUME ~Renumbers PROVE Spec => []OwnersRight
  OBVIOUS
<1>1. ContextInv => OwnersRight
  BY EndsAreRight, NamesAreRight DEF ContextInv, TableFits, OwnersRight
<1>2. Spec => []ContextInv
  BY ContextKnown
<1>3. QED
  BY <1>1, <1>2, PTL

====

---------------------------- MODULE RegAllocCounts ----------------------------
(***************************************************************************)
(* What the parts of a step of RegAlloc do to its books: to the counted    *)
(* degrees, to what the name of a worklist promises of its nodes, and to   *)
(* what was above a node of the select stack when it was pushed.           *)
(***************************************************************************)
EXTENDS RegAllocProofs

-----------------------------------------------------------------------------
(* The records *)

(* There is a colour, and what counts nodes is a number. *)
LEMMA Counting == K \in Nat /\ K >= 1 /\ \A S \in SUBSET Node : IsFiniteSet(S) /\ Cardinality(S) \in Nat
<1>1. IsFiniteSet(Avail) /\ Avail # {}
  BY InputAssumption, FS_Subset
<1>2. Cardinality(Avail) \in Nat /\ Cardinality(Avail) # 0
  BY <1>1, FS_CardinalityType, FS_EmptySet
<1>3. \A S \in SUBSET Node : IsFiniteSet(S) /\ Cardinality(S) \in Nat
  BY NodesFinite, FS_CardinalityType
<1> QED
  BY <1>2, <1>3 DEF K

(* GetAlias leads to the root while the graph is reduced. *)
LEMMA AliasIsRoot ==
  ASSUME NEW p, ReduceInv(p)
  PROVE  \A n \in Node : /\ GetAlias(p, n) = RootOf(p)[n] /\ RootOf(p)[n] \in Node
                         /\ p.state[RootOf(p)[n]] # "COALESCED"
                         /\ p.state[n] # "COALESCED" => RootOf(p)[n] = n
<1>1. p \in Pass /\ AliasOK(p) /\ Acyclic(p.alias)
  BY DEF ReduceInv, AliasOK
<1>2. PICK g : RootMap(p.alias, g)
  BY <1>1 DEF AliasOK
<1>3. RootOf(p) = g
  BY <1>1, <1>2, RootIs
<1>4. \A n \in Node : GetAlias(p, n) = g[n] /\ g[n] \in Node /\ p.state[g[n]] # "COALESCED"
  BY <1>1, <1>2, ReducingAlias
<1>5. \A n \in Node : p.state[n] # "COALESCED" => g[n] = n
  BY <1>1, <1>2 DEF AliasOK, RootMap
<1> QED
  BY <1>3, <1>4, <1>5

(* What is calm leaves the same nodes in the graph. *)
LEMMA CalmLive ==
  ASSUME NEW p, NEW q, Calm(p, q)
  PROVE  /\ \A n \in Node : InGraph(q, n) <=> InGraph(p, n)
         /\ \A n \in Node : q.state[n] = "SELECT" <=> p.state[n] = "SELECT"
         /\ \A n \in Node : q.state[n] \in Listed <=> p.state[n] \in Listed
         /\ p \in Pass => \A n \in Node : Live(q, n) = Live(p, n)
<1>1. \A n \in Node : IF p.state[n] \in Listed THEN q.state[n] \in Listed ELSE q.state[n] = p.state[n]
  BY DEF Calm, Stays
<1>2. \A n \in Node : InGraph(q, n) <=> InGraph(p, n)
  BY <1>1 DEF InGraph, Listed
<1>3. \A n \in Node : q.state[n] = "SELECT" <=> p.state[n] = "SELECT"
  BY <1>1 DEF Listed
<1>4. \A n \in Node : q.state[n] \in Listed <=> p.state[n] \in Listed
  BY <1>1
<1>5. ASSUME p \in Pass, NEW n \in Node PROVE Live(q, n) = Live(p, n)
  <2>1. q.adjSet = p.adjSet /\ p.adjSet[n] \subseteq Node
    BY <1>5 DEF Calm, Pass
  <2> QED
    BY <1>2, <2>1 DEF Live
<1> QED
  BY <1>2, <1>3, <1>4, <1>5

(* What is calm keeps the records. *)
LEMMA CalmRecorded ==
  ASSUME MovsOK, NEW p, NEW q, ReduceInv(p), ReduceInv(q), Calm(p, q), NEW chosen, Recorded(p, chosen)
  PROVE  Recorded(q, chosen)
<1>1. p \in Pass /\ q \in Pass /\ AliasOK(p) /\ ListsOK(p)
  BY DEF ReduceInv
<1>2. RootOf(q) = RootOf(p) /\ RankOf(q) = RankOf(p) /\ q.adjSet = p.adjSet /\ q.movArr = p.movArr
  BY <1>1, CalmView DEF Calm, Stays
<1>3. /\ \A n \in Node : InGraph(q, n) <=> InGraph(p, n)
      /\ \A n \in Node : q.state[n] = "SELECT" <=> p.state[n] = "SELECT"
  BY CalmLive
<1>4. PICK r : r = RootOf(p) /\ \A n \in Node : GetAlias(p, n) = r[n] /\ GetAlias(q, n) = r[n] /\ r[n] \in Node
  BY <1>2, AliasIsRoot
<1>5. MovesBelong(q)
  <2> SUFFICES ASSUME NEW n \in Node, InGraph(q, n), NEW m \in ToSet(q.movArr[n])
               PROVE  n \in {GetAlias(q, movs[m].dst), GetAlias(q, movs[m].src)}
    BY DEF MovesBelong
  <2>1. m \in Mov
    <3>1. q.movArr[n] \in Seq(Mov)
      BY <1>1 DEF Pass
    <3> QED
      BY <3>1, ElementsOf
  <2>2. movs[m].dst \in Node /\ movs[m].src \in Node
    BY <2>1, MovEnds
  <2>3. n \in {GetAlias(p, movs[m].dst), GetAlias(p, movs[m].src)}
    BY <1>2, <1>3 DEF Recorded, MovesBelong
  <2> QED
    BY <1>4, <2>2, <2>3
<1>6. RootsSeen(q)
  <2>1. \A n \in Node : p.adjSet[n] \subseteq Node
    BY <1>1 DEF Pass
  <2>2. \A n \in Node : InGraph(p, n) => \A w \in p.adjSet[n] : InGraph(p, r[w]) => r[w] \in p.adjSet[n]
    BY <1>4 DEF Recorded, RootsSeen
  <2> QED
    BY <1>2, <1>3, <1>4, <2>1, <2>2 DEF RootsSeen
<1>7. \A n \in Node : Above(q, n) = Above(p, n)
  <2> TAKE n \in Node
  <2>1. p.adjSet[n] \subseteq Node
    BY <1>1 DEF Pass
  <2>2. \A x \in p.adjSet[n] : q.state[r[x]] = "SELECT" <=> p.state[r[x]] = "SELECT"
    BY <1>3, <1>4, <2>1
  <2> QED
    BY <1>2, <1>4, <2>2 DEF Above
<1>8. FewAbove(q, chosen)
  BY <1>3, <1>7 DEF Recorded, FewAbove
<1> QED
  BY <1>5, <1>6, <1>8 DEF Recorded

(* A node that is pushed because it has few neighbours finds few colours
   taken when it is popped.                                              *)
LEMMA PushRecorded ==
  ASSUME MovsOK, NEW p, NEW q, ReduceInv(p), ReduceInv(q), NEW n \in Node, p.state[n] = "SIMPLIFY", Pushes(p, n, q),
         NEW chosen, Recorded(p, chosen), DegreesOff(p, {}), ~Significant(p, n) \/ n \in chosen
  PROVE  Recorded(q, chosen)
<1>1. p \in Pass /\ q \in Pass /\ AliasOK(p) /\ ListsOK(p) /\ ListsOK(q) /\ Reducing(p) /\ HWOK(p)
  BY DEF ReduceInv
<1>2. /\ q.alias = p.alias /\ q.adjSet = p.adjSet /\ q.movArr = p.movArr
      /\ \A m \in Node : IF m = n THEN q.state[m] = "SELECT"
                         ELSE IF p.state[m] \in Listed THEN q.state[m] \in Listed ELSE q.state[m] = p.state[m]
  BY DEF Pushes
<1>3. /\ RankOf(q) = [RankOf(p) EXCEPT ![n] = Len(p.list["SELECT"]) + 1] /\ RootOf(q) = RootOf(p)
  BY <1>1, PushView
<1>4. PICK r : r = RootOf(p) /\ \A m \in Node : /\ GetAlias(p, m) = r[m] /\ GetAlias(q, m) = r[m] /\ r[m] \in Node
                                                /\ p.state[r[m]] # "COALESCED"
  BY <1>3, AliasIsRoot
<1>5. /\ \A m \in Node : InGraph(q, m) <=> InGraph(p, m) /\ m # n
      /\ \A m \in Node : q.state[m] = "SELECT" <=> p.state[m] = "SELECT" \/ m = n
  BY <1>2 DEF InGraph, Listed
<1>6. MovesBelong(q)
  <2> SUFFICES ASSUME NEW m \in Node, InGraph(q, m), NEW x \in ToSet(q.movArr[m])
               PROVE  m \in {GetAlias(q, movs[x].dst), GetAlias(q, movs[x].src)}
    BY DEF MovesBelong
  <2>1. x \in Mov
    <3>1. q.movArr[m] \in Seq(Mov)
      BY <1>1 DEF Pass
    <3> QED
      BY <3>1, ElementsOf
  <2>2. movs[x].dst \in Node /\ movs[x].src \in Node
    BY <2>1, MovEnds
  <2>3. m \in {GetAlias(p, movs[x].dst), GetAlias(p, movs[x].src)}
    BY <1>2, <1>5 DEF Recorded, MovesBelong
  <2> QED
    BY <1>4, <2>2, <2>3
<1>7. \A m \in Node : p.adjSet[m] \subseteq Node
  BY <1>1 DEF Pass
<1>8. \A m \in Node : InGraph(p, m) => \A w \in p.adjSet[m] : InGraph(p, r[w]) => r[w] \in p.adjSet[m]
  BY <1>4 DEF Recorded, RootsSeen
<1>9. RootsSeen(q)
  BY <1>2, <1>3, <1>4, <1>5, <1>7, <1>8 DEF RootsSeen
<1>10. PICK a, b, s, k : a = RankOf(p) /\ b = RankOf(q) /\ s = p.list["SELECT"] /\ k = Len(s)
  OBVIOUS
<1>11. Ranks(p, a, s, k) /\ k \in Nat
  <2>1. s \in Seq(Node)
    BY <1>1, <1>10 DEF Pass, NodeState
  <2> QED
    BY <1>1, <1>10, <2>1, RankIs
<1>12. \A m \in Node : a[m] \in Int /\ a[m] <= k /\ b[m] = IF m = n THEN k + 1 ELSE a[m]
  <2>1. a \in [Node -> Int] /\ b = [a EXCEPT ![n] = k + 1]
    BY <1>3, <1>10, <1>11 DEF Ranks
  <2>2. ASSUME NEW m \in Node PROVE a[m] <= k
    <3>1. CASE p.state[m] # "SELECT"
      BY <1>11, <3>1 DEF Ranks
    <3>2. CASE p.state[m] = "SELECT"
      <4>1. PICK i \in 1 .. k : m = s[i]
        BY <1>11, <3>2 DEF Ranks
      <4>2. a[s[i]] = k + 1 - i
        BY <1>11 DEF Ranks
      <4> QED
        BY <1>11, <4>1, <4>2
    <3> QED
      BY <3>1, <3>2
  <2> QED
    BY <2>1, <2>2
<1>13. ASSUME NEW m \in Node, p.state[m] = "SELECT" PROVE Above(q, m) = Above(p, m)
  <2>1. m # n
    BY <1>13
  <2>2. \A x \in p.adjSet[m] : r[x] \in Node
    BY <1>4, <1>7
  <2>3. \A y \in Node : q.state[y] = "SELECT" /\ b[y] <= b[m] <=> p.state[y] = "SELECT" /\ a[y] <= a[m]
    BY <1>5, <1>11, <1>12, <2>1
  <2>4. \A x \in p.adjSet[m] : q.state[r[x]] = "SELECT" /\ b[r[x]] <= b[m] <=> p.state[r[x]] = "SELECT" /\ a[r[x]] <= a[m]
    BY <2>2, <2>3
  <2> QED
    BY <1>2, <1>3, <1>4, <1>10, <2>4 DEF Above
<1>14. n \notin chosen => Cardinality(Above(q, n)) < K
  <2> SUFFICES ASSUME n \notin chosen PROVE Cardinality(Above(q, n)) < K
    OBVIOUS
  <2>1. Above(q, n) \subseteq Live(p, n)
    <3> SUFFICES ASSUME NEW x \in p.adjSet[n], ~(q.state[r[x]] = "SELECT" /\ b[r[x]] <= b[n])
                 PROVE  r[x] \in Live(p, n)
      BY <1>2, <1>3, <1>4, <1>10 DEF Above
    <3>1. r[x] \in Node
      BY <1>4, <1>7
    <3>2. b[r[x]] <= b[n]
      BY <1>11, <1>12, <3>1
    <3>3. q.state[r[x]] # "SELECT"
      BY <3>2
    <3>4. InGraph(p, r[x]) /\ InGraph(p, n)
      BY <1>2, <1>4, <1>5, <1>7, <3>1, <3>3 DEF InGraph
    <3> QED
      BY <1>8, <3>4 DEF Live
  <2>2. IsFiniteSet(Live(p, n)) /\ Cardinality(Live(p, n)) \in Nat
    <3>1. Live(p, n) \in SUBSET Node
      BY <1>7 DEF Live
    <3> QED
      BY <3>1, Counting
  <2>3. IsFiniteSet(Above(q, n)) /\ Cardinality(Above(q, n)) <= Cardinality(Live(p, n))
    BY <2>1, <2>2, FS_Subset
  <2>4. n \in VNode /\ p.state[n] \in Listed
    BY <1>1, VNodes DEF HWOK, Listed
  <2>5. p.degree[n] = Cardinality(Live(p, n)) + 0
    BY <2>4 DEF DegreesOff
  <2>6. p.degree[n] \in Int /\ ~(p.degree[n] >= K)
    BY <1>1 DEF Pass, Significant
  <2>7. K \in Int /\ Cardinality(Above(q, n)) \in Int
    BY <2>3, Counting, FS_CardinalityType
  <2> QED
    BY <2>2, <2>3, <2>5, <2>6, <2>7
<1>15. FewAbove(q, chosen)
  BY <1>5, <1>13, <1>14 DEF Recorded, FewAbove
<1> QED
  BY <1>6, <1>9, <1>15 DEF Recorded

(* A merge keeps the records: u is known to the neighbours of v, and to its
   moves, and what is on the stack has no more colours against it.         *)
LEMMA MergeRecorded ==
  ASSUME MovsOK, NEW p, NEW q, ReduceInv(p), ReduceInv(q), NEW u, NEW v, Mergeable(p, u, v), Merges(p, u, v, q),
         NEW chosen, Recorded(p, chosen)
  PROVE  Recorded(q, chosen)
<1>1. /\ p \in Pass /\ q \in Pass /\ AliasOK(p) /\ ListsOK(q) /\ GraphOK(p) /\ u \in Node /\ v \in Node /\ u # v
      /\ p.state[u] \in Listed \cup {"PRECOLORED"} /\ p.state[v] \in Listed /\ v \notin p.adjSet[u]
      /\ u \notin p.adjSet[v] /\ v \notin p.adjSet[v]
  BY DEF ReduceInv, Mergeable, GraphOK
<1>2. /\ \A n \in Node : IF n = v THEN q.state[n] = "COALESCED"
                         ELSE IF p.state[n] \in Listed THEN q.state[n] \in Listed ELSE q.state[n] = p.state[n]
      /\ \A n \in Node : ToSet(q.movArr[n]) = ToSet(p.movArr[n]) \cup (IF n = u THEN ToSet(p.movArr[v]) ELSE {})
  BY DEF Merges
<1>3. /\ RootOf(q) = [n \in Node |-> IF RootOf(p)[n] = v THEN u ELSE RootOf(p)[n]] /\ RankOf(q) = RankOf(p)
  <2>1. ListsOK(q)
    BY <1>1
  <2>2. MergeSeen(p, u, v, q)
    BY <2>1, MergeView
  <2> QED
    BY ONLY <2>2 DEF MergeSeen
<1>4. PICK r, f : /\ r = RootOf(p) /\ f = RootOf(q)
                  /\ \A n \in Node : /\ GetAlias(p, n) = r[n] /\ GetAlias(q, n) = f[n] /\ r[n] \in Node
                                     /\ f[n] \in Node /\ f[n] = (IF r[n] = v THEN u ELSE r[n])
                                     /\ p.state[n] # "COALESCED" => r[n] = n
  BY <1>3, AliasIsRoot
<1>5. /\ \A n \in Node : InGraph(q, n) <=> InGraph(p, n) /\ n # v
      /\ \A n \in Node : q.state[n] = "SELECT" <=> p.state[n] = "SELECT"
      /\ InGraph(p, u) /\ InGraph(p, v)
  BY <1>1, <1>2 DEF InGraph, Listed
<1>6. PICK moved : /\ moved = {t \in p.adjSet[v] : InGraph(p, t)}
                   /\ \A n \in Node : q.adjSet[n] = p.adjSet[n] \cup (IF n \in moved THEN {u} ELSE {})
                                                                \cup (IF n = u THEN moved ELSE {})
  BY DEF Merges
<1>7. \A n \in Node : p.adjSet[n] \subseteq Node
  BY <1>1 DEF Pass
<1>8. MovesBelong(q)
  <2> SUFFICES ASSUME NEW n \in Node, InGraph(q, n), NEW m \in ToSet(q.movArr[n])
               PROVE  n \in {GetAlias(q, movs[m].dst), GetAlias(q, movs[m].src)}
    BY DEF MovesBelong
  <2>1. m \in Mov
    <3>1. q.movArr[n] \in Seq(Mov)
      BY <1>1 DEF Pass
    <3> QED
      BY <3>1, ElementsOf
  <2>2. PICK a, b \in Node : a = movs[m].dst /\ b = movs[m].src
    BY <2>1, MovEnds
  <2>3. InGraph(p, n) /\ n # v
    BY <1>5
  <2>4. \A x \in Node : InGraph(p, x) /\ m \in ToSet(p.movArr[x]) => x \in {r[a], r[b]}
    BY <1>4, <2>2 DEF Recorded, MovesBelong
  <2>5. CASE m \in ToSet(p.movArr[n])
    BY <1>4, <2>2, <2>3, <2>4, <2>5
  <2>6. CASE m \notin ToSet(p.movArr[n])
    <3>1. n = u /\ m \in ToSet(p.movArr[v])
      BY <1>2, <2>6
    <3>2. v \in {r[a], r[b]}
      BY <1>1, <1>5, <2>4, <3>1
    <3> QED
      BY <1>4, <2>2, <3>1, <3>2
  <2> QED
    BY <2>5, <2>6
<1>9. \A n \in Node : InGraph(p, n) => \A w \in p.adjSet[n] : InGraph(p, r[w]) => r[w] \in p.adjSet[n]
  BY <1>4 DEF Recorded, RootsSeen
<1>10. RootsSeen(q)
  <2> SUFFICES ASSUME NEW n \in Node, InGraph(q, n), NEW w \in q.adjSet[n], InGraph(q, f[w])
               PROVE  f[w] \in q.adjSet[n]
    BY <1>4 DEF RootsSeen
  <2>1. InGraph(p, n) /\ n # v
    BY <1>5
  <2>2. CASE w \in p.adjSet[n] /\ r[w] # v
    <3>1. w \in Node /\ f[w] = r[w] /\ r[w] \in Node
      BY <1>4, <1>7, <2>2
    <3>2. InGraph(p, r[w])
      BY <1>5, <3>1
    <3>3. r[w] \in p.adjSet[n]
      BY <1>9, <2>1, <2>2, <3>2
    <3> QED
      BY <1>6, <3>1, <3>3
  <2>3. CASE w \in p.adjSet[n] /\ r[w] = v
    <3>1. w \in Node /\ f[w] = u
      BY <1>4, <1>7, <2>3
    <3>2. v \in p.adjSet[n]
      BY <1>5, <1>9, <2>1, <2>3
    <3>3. n \in moved
      BY <1>1, <1>6, <2>1, <3>2 DEF GraphOK
    <3> QED
      BY <1>6, <3>1, <3>3
  <2>4. CASE w = u /\ n \in moved
    <3>1. f[u] = u
      BY <1>1, <1>4 DEF Listed
    <3> QED
      BY <1>6, <2>4, <3>1
  <2>5. CASE n = u /\ w \in moved
    <3>1. w \in Node /\ InGraph(p, w) /\ w # v
      BY <1>1, <1>6, <1>7, <2>5
    <3>2. f[w] = w
      BY <1>4, <3>1 DEF InGraph
    <3> QED
      BY <1>6, <2>5, <3>2
  <2> QED
    BY <1>6, <2>2, <2>3, <2>4, <2>5
<1>11. ASSUME NEW n \in Node, p.state[n] = "SELECT" PROVE Cardinality(Above(q, n)) <= Cardinality(Above(p, n))
  <2>1. q.adjSet[n] = p.adjSet[n]
    <3>1. n # u /\ ~InGraph(p, n)
      BY <1>1, <1>11 DEF InGraph, Listed
    <3> QED
      BY <1>6, <3>1
  <2>2. PICK a : a = RankOf(p)
    OBVIOUS
  <2> DEFINE A == Above(p, n)
             B == Above(q, n)
  <2>3. A = {r[w] : w \in {x \in p.adjSet[n] : ~(p.state[r[x]] = "SELECT" /\ a[r[x]] <= a[n])}}
    BY <1>4, <2>2 DEF Above
  <2>4. B = {f[w] : w \in {x \in p.adjSet[n] : ~(q.state[f[x]] = "SELECT" /\ a[f[x]] <= a[n])}}
    BY <1>3, <1>4, <2>1, <2>2 DEF Above
  <2> HIDE DEF A, B
  <2>5. \A x \in p.adjSet[n] : /\ x \in Node /\ r[x] \in Node /\ f[x] = (IF r[x] = v THEN u ELSE r[x])
                               /\ (q.state[f[x]] = "SELECT" <=> p.state[f[x]] = "SELECT")
    BY <1>4, <1>5, <1>7
  <2>6. p.state[u] # "SELECT" /\ p.state[v] # "SELECT"
    BY <1>1 DEF Listed
  <2>7. \A x \in p.adjSet[n] : /\ q.state[f[x]] = "SELECT" /\ a[f[x]] <= a[n]
                               <=> p.state[r[x]] = "SELECT" /\ a[r[x]] <= a[n]
    BY <2>5, <2>6
  <2>8. B \subseteq (A \ {v}) \cup (IF v \in A THEN {u} ELSE {})
    BY <2>3, <2>4, <2>5, <2>7
  <2>9. A \in SUBSET Node
    BY <2>3, <2>5
  <2>10. IsFiniteSet(A) /\ Cardinality(A) \in Nat
    BY <2>9, Counting
  <2>11. CASE v \notin A
    <3>1. B \subseteq A
      BY <2>8, <2>11
    <3> QED
      BY <2>10, <3>1, FS_Subset DEF A, B
  <2>12. CASE v \in A
    <3>1. IsFiniteSet(A \ {v}) /\ Cardinality(A \ {v}) = Cardinality(A) - 1
      BY <2>10, <2>12, FS_RemoveElement
    <3>2. PICK C : C = (A \ {v}) \cup {u}
      OBVIOUS
    <3>3. IsFiniteSet(C) /\ Cardinality(C) \in Nat /\ Cardinality(C) <= Cardinality(A)
      <4>1. /\ IsFiniteSet(C)
            /\ Cardinality(C) = IF u \in A \ {v} THEN Cardinality(A \ {v}) ELSE Cardinality(A \ {v}) + 1
        BY <3>1, <3>2, FS_AddElement
      <4>2. Cardinality(C) \in {Cardinality(A) - 1, Cardinality(A)} /\ Cardinality(C) \in Nat
        <5>1. Cardinality(C) \in Nat
          BY <4>1, FS_CardinalityType
        <5> QED
          BY <2>10, <3>1, <4>1, <5>1
      <4> QED
        BY <2>10, <4>1, <4>2
    <3>4. B \subseteq C
      BY <2>8, <2>12, <3>2
    <3>5. Cardinality(B) <= Cardinality(C) /\ Cardinality(B) \in Nat
      BY <3>3, <3>4, FS_Subset, FS_CardinalityType
    <3>6. Cardinality(B) <= Cardinality(A)
      BY <2>10, <3>3, <3>5
    <3> QED
      BY <3>6 DEF A, B
  <2> QED
    BY <2>11, <2>12
<1>12. \A n \in Node : Cardinality(Above(p, n)) \in Int /\ Cardinality(Above(q, n)) \in Int
  <2> TAKE n \in Node
  <2>1. Above(p, n) \in SUBSET Node
    BY <1>4, <1>7 DEF Above
  <2>2. Above(q, n) \in SUBSET Node
    <3>1. q.adjSet[n] \subseteq Node
      BY <1>1 DEF Pass
    <3> QED
      BY <1>4, <3>1 DEF Above
  <2> QED
    BY <2>1, <2>2, Counting
<1>13. FewAbove(q, chosen)
  <2> SUFFICES ASSUME NEW n \in Node, q.state[n] = "SELECT", n \notin chosen PROVE Cardinality(Above(q, n)) < K
    BY DEF FewAbove
  <2>1. p.state[n] = "SELECT"
    BY <1>5
  <2>2. Cardinality(Above(p, n)) < K
    BY <2>1 DEF Recorded, FewAbove
  <2> QED
    BY <1>11, <1>12, <2>1, <2>2, Counting
<1> QED
  BY <1>8, <1>10, <1>13 DEF Recorded

-----------------------------------------------------------------------------
(* The counts *)

(* What leaves the graph is still counted by its neighbours. *)
LEMMA LeavesCounted ==
  ASSUME NEW p \in Pass, GraphOK(p), HWOK(p), DegreesOff(p, {}), NEW n \in Node, p.state[n] \in Listed,
         NEW q, q.adjSet = p.adjSet, q.degree = p.degree, NEW s \in {"SELECT", "COALESCED"},
         \A m \in Node : q.state[m] = IF m = n THEN s ELSE p.state[m]
  PROVE  DegreesOff(q, p.adjSet[n])
<1> SUFFICES ASSUME NEW m \in VNode, q.state[m] \in Listed
             PROVE  q.degree[m] = Cardinality(Live(q, m)) + (IF m \in p.adjSet[n] THEN 1 ELSE 0)
  BY DEF DegreesOff
<1>1. m \in Node /\ m # n /\ p.state[m] \in Listed
  BY VNodes DEF Listed
<1>2. p.degree[m] = Cardinality(Live(p, m)) /\ p.adjSet[m] \subseteq Node
  <2>1. p.degree[m] = Cardinality(Live(p, m)) + 0 /\ Live(p, m) \in SUBSET Node
    BY <1>1 DEF DegreesOff, Live, Pass
  <2>2. Cardinality(Live(p, m)) \in Nat
    BY <2>1, Counting
  <2>3. p.adjSet[m] \subseteq Node
    BY <1>1 DEF Pass
  <2> QED
    BY <2>1, <2>2, <2>3
<1>3. Live(q, m) = Live(p, m) \ {n}
  <2>1. \A x \in Node : InGraph(q, x) <=> InGraph(p, x) /\ x # n
    BY DEF InGraph
  <2> QED
    BY <1>2, <2>1 DEF Live
<1>4. n \in Live(p, m) <=> m \in p.adjSet[n]
  <2>1. InGraph(p, n)
    BY DEF InGraph, Listed
  <2> QED
    BY <1>1, <2>1 DEF Live, GraphOK
<1>5. IsFiniteSet(Live(p, m)) /\ Cardinality(Live(p, m)) \in Nat
  <2>1. Live(p, m) \in SUBSET Node
    BY <1>2 DEF Live
  <2> QED
    BY <2>1, Counting
<1>6. Cardinality(Live(p, m) \ {n}) = IF n \in Live(p, m) THEN Cardinality(Live(p, m)) - 1 ELSE Cardinality(Live(p, m))
  BY <1>5, FS_RemoveElement
<1> QED
  BY <1>2, <1>3, <1>4, <1>5, <1>6

(* It does not matter whether a node that has left is among the nodes that
   count one too many.                                                     *)
LEMMA GoneCounted ==
  ASSUME NEW p, NEW T, NEW t \in Node, ~InGraph(p, t), DegreesOff(p, T)
  PROVE  DegreesOff(p, T \ {t})
<1>1. p.state[t] \notin Listed
  BY DEF InGraph, Listed
<1> QED
  BY <1>1 DEF DegreesOff

(* t has been told: one less of T to come, and only t has changed worklists. *)
Told(p, t, T, X, Y, q) ==
  /\ Counted(q, T \ {t}, X, Y) /\ q.failed = p.failed
  /\ \A n \in Node \ {t} : q.state[n] = p.state[n]

(* A neighbour that is told counts right again. *)
LEMMA DecrementsCounted ==
  ASSUME NEW p \in Pass, HWOK(p), NEW t \in Node, p.state[t] \in (Listed \ {"INITIAL"}) \cup {"PRECOLORED"},
         NEW T, t \in T, NEW X, NEW Y, t \notin Y, Counted(p, T, X, Y), NEW q, Decrements(p, t, q)
  PROVE  Told(p, t, T, X, Y, q)
<1>1. /\ q \in Pass /\ q.adjSet = p.adjSet /\ q.movArr = p.movArr
      /\ \A n \in Node : q.degree[n] = IF n = t /\ ~Precolored(p, t) THEN p.degree[t] - 1 ELSE p.degree[n]
  BY DEF Decrements
<1>2. \A m \in Mov : MovPending(q, m) <=> MovPending(p, m)
  BY DEF Decrements, MovPending
<1>3. \A n \in Node : MoveRelated(q, n) <=> MoveRelated(p, n)
  BY <1>1, <1>2, WakesRelated
<1>4. Precolored(p, t) <=> t \notin VNode
  BY VNodes DEF HWOK, Precolored
<1>5. \A n \in Node : p.degree[n] \in Int /\ q.degree[n] \in Int
  BY <1>1 DEF Pass
<1>6. /\ \A n \in Node \ {t} : q.state[n] = p.state[n]
      /\ q.state[t] \in (Listed \ {"INITIAL"}) \cup {"PRECOLORED"} /\ q.failed = p.failed
      /\ q.state[t] \in Listed <=> p.state[t] \in Listed
      /\ \/ q.state = p.state /\ (Precolored(p, t) \/ p.degree[t] # K)
         \/ ~Precolored(p, t) /\ p.degree[t] = K /\ q.state[t] = IF MoveRelated(p, t) THEN "FREEZE" ELSE "SIMPLIFY"
  <2>1. CASE Precolored(p, t) \/ p.degree[t] # K
    BY <2>1 DEF Decrements
  <2>2. CASE ~(Precolored(p, t) \/ p.degree[t] # K)
    <3>1. Significant(p, t)
      BY <1>5, <2>2, Counting DEF Significant
    <3>2. p.state[t] = "SPILL"
      BY <2>2, <3>1 DEF Counted, ListsMean, Listed, Precolored
    <3>3. PICK s : s = IF MoveRelated(p, t) THEN "FREEZE" ELSE "SIMPLIFY"
      OBVIOUS
    <3>4. (\A m \in Node : q.state[m] = IF m = t THEN s ELSE p.state[m]) /\ q.failed = p.failed
      BY <2>2, <3>2, <3>3 DEF Decrements
    <3> QED
      BY <2>2, <3>2, <3>3, <3>4 DEF Listed
  <2> QED
    BY <2>1, <2>2
<1>7. \A n \in Node : InGraph(q, n) <=> InGraph(p, n)
  <2>1. InGraph(q, t) /\ InGraph(p, t)
    BY <1>6 DEF InGraph, Listed
  <2> QED
    BY <1>6, <2>1 DEF InGraph
<1>8. DegreesOff(q, T \ {t})
  <2> SUFFICES ASSUME NEW n \in VNode, q.state[n] \in Listed
               PROVE  q.degree[n] = Cardinality(Live(q, n)) + (IF n \in T \ {t} THEN 1 ELSE 0)
    BY DEF DegreesOff
  <2>1. n \in Node /\ p.state[n] \in Listed /\ p.adjSet[n] \in SUBSET Node
    BY <1>6, VNodes DEF Pass
  <2>2. p.degree[n] = Cardinality(Live(p, n)) + (IF n \in T THEN 1 ELSE 0)
    BY <2>1 DEF Counted, DegreesOff
  <2>3. Live(q, n) = Live(p, n) /\ Live(p, n) \in SUBSET Node
    BY <1>1, <1>7, <2>1 DEF Live
  <2>4. Cardinality(Live(p, n)) \in Nat
    BY <2>3, Counting
  <2> QED
    BY <1>1, <1>4, <2>1, <2>2, <2>3, <2>4
<1>9. ListsMean(q, {}, X, Y)
  <2>1. \A n \in Node \ {t} : Significant(q, n) <=> Significant(p, n)
    BY <1>1 DEF Significant
  <2>2. q.state = p.state => (Significant(q, t) <=> Significant(p, t))
    <3> SUFFICES ASSUME q.state = p.state PROVE Significant(q, t) <=> Significant(p, t)
      OBVIOUS
    <3>1. CASE Precolored(p, t) \/ p.degree[t] # K
      BY <1>1, <1>5, <3>1, Counting DEF Significant
    <3>2. CASE ~Precolored(p, t) /\ p.degree[t] = K
      <4>1. Significant(p, t)
        BY <1>5, <3>2 DEF Significant
      <4>2. p.state[t] = "SPILL"
        BY <3>2, <4>1 DEF Counted, ListsMean, Listed, Precolored
      <4>3. q.state[t] = IF MoveRelated(p, t) THEN "FREEZE" ELSE "SIMPLIFY"
        BY <1>6, <3>2
      <4> QED
        BY <4>2, <4>3
    <3> QED
      BY <3>1, <3>2
  <2>3. ~Precolored(p, t) /\ p.degree[t] = K => ~Significant(q, t)
    BY <1>1, Counting DEF Significant
  <2>4. ASSUME NEW n \in Node
        PROVE  /\ q.state[n] = "FREEZE" => (n \in Y \/ ~Significant(q, n)) /\ (n \in X \/ MoveRelated(q, n))
               /\ q.state[n] = "SPILL" => Significant(q, n)
               /\ q.state[n] = "SIMPLIFY" => ~Significant(q, n)
    <3>1. /\ p.state[n] = "FREEZE" => (n \in Y \/ ~Significant(p, n)) /\ (n \in X \/ MoveRelated(p, n))
          /\ p.state[n] = "SPILL" => Significant(p, n)
          /\ p.state[n] = "SIMPLIFY" => ~Significant(p, n)
      BY DEF Counted, ListsMean
    <3>2. CASE q.state[n] = p.state[n] /\ (n # t \/ q.state = p.state)
      BY <1>3, <2>1, <2>2, <3>1, <3>2
    <3>3. CASE n = t /\ q.state # p.state
      BY <1>3, <1>6, <2>3, <3>3
    <3> QED
      BY <1>6, <3>2, <3>3
  <2> QED
    BY <2>4 DEF ListsMean
<1> QED
  BY <1>6, <1>8, <1>9 DEF Counted, Told

(* A neighbour of v that becomes one of u counts right, and so does u. *)
LEMMA RewiresCounted ==
  ASSUME NEW p \in Pass, HWOK(p), GraphOK(p), NEW u \in Node, NEW t \in Node, t # u,
         p.state[t] \in {"FREEZE", "SPILL", "PRECOLORED"}, p.state[u] \in {"FREEZE", "SPILL", "PRECOLORED"},
         NEW T, t \in T, NEW U, U = {u}, Counted(p, T, U, U), NEW q, Rewires(p, u, t, q)
  PROVE  Told(p, t, T, U, U, q)
<1>1. PICK l \in Pass, r \in Pass :
        /\ Links(p, t, u, l) /\ ListsOK(r)
        /\ IF ~Significant(p, t) /\ Significant(l, t)
           THEN /\ Relists(l, t, "SPILL", r)
                /\ r.failed = IF p.state[t] = "FREEZE" THEN p.failed ELSE p.failed \cup {"rewire"}
           ELSE r = l
        /\ Decrements(r, t, q)
  BY DEF Rewires
<1>2. /\ l.state = p.state /\ l.movArr = p.movArr /\ l.movState = p.movState /\ l.failed = p.failed
      /\ \A n \in Node : l.adjSet[n] = p.adjSet[n] \cup (IF n = t THEN {u} ELSE {}) \cup (IF n = u THEN {t} ELSE {})
      /\ \A n \in Node : l.degree[n] = IF n \in {t, u} /\ ~Precolored(p, n) /\ u \notin p.adjSet[t]
                                       THEN p.degree[n] + 1 ELSE p.degree[n]
  BY <1>1 DEF Links
<1>3. \A n \in Node : Precolored(p, n) <=> n \notin VNode
  BY VNodes DEF HWOK, Precolored
<1>4. \A n \in Node : p.adjSet[n] \in SUBSET Node /\ p.degree[n] \in Int /\ l.degree[n] \in Int
  BY <1>1 DEF Pass
<1>5. u \in p.adjSet[t] <=> t \in p.adjSet[u]
  BY DEF GraphOK
<1>6. \A n \in Node : MoveRelated(l, n) <=> MoveRelated(p, n)
  BY <1>2 DEF MoveRelated, MovPending
<1>7. DegreesOff(l, T)
  <2> SUFFICES ASSUME NEW n \in VNode, l.state[n] \in Listed
               PROVE  l.degree[n] = Cardinality(Live(l, n)) + (IF n \in T THEN 1 ELSE 0)
    BY DEF DegreesOff
  <2>1. n \in Node /\ ~Precolored(p, n) /\ p.degree[n] = Cardinality(Live(p, n)) + (IF n \in T THEN 1 ELSE 0)
    BY <1>2, <1>3, VNodes DEF Counted, DegreesOff
  <2>2. Live(p, n) \in SUBSET Node
    BY <1>4, <2>1 DEF Live
  <2>3. IsFiniteSet(Live(p, n)) /\ Cardinality(Live(p, n)) \in Nat
    BY <2>2, Counting
  <2>4. \A x \in Node : InGraph(l, x) <=> InGraph(p, x)
    BY <1>2 DEF InGraph
  <2>5. InGraph(p, t) /\ InGraph(p, u)
    BY DEF InGraph
  <2>6. CASE n \notin {t, u}
    <3>1. Live(l, n) = Live(p, n)
      BY <1>2, <1>4, <2>1, <2>4, <2>6 DEF Live
    <3> QED
      BY <1>2, <2>1, <2>6, <3>1
  <2>7. CASE n \in {t, u}
    <3>1. PICK x \in {t, u} : x # n
      BY <2>7
    <3>2. l.adjSet[n] = p.adjSet[n] \cup {x}
      BY <1>2, <2>1, <2>7, <3>1
    <3>3. Live(l, n) = Live(p, n) \cup {x}
      BY <1>4, <2>1, <2>4, <2>5, <3>1, <3>2 DEF Live
    <3>4. x \in Live(p, n) <=> u \in p.adjSet[t]
      BY <1>5, <2>5, <2>7, <3>1 DEF Live
    <3>5. Cardinality(Live(l, n)) = IF x \in Live(p, n) THEN Cardinality(Live(p, n)) ELSE Cardinality(Live(p, n)) + 1
      BY <2>3, <3>3, FS_AddElement
    <3>6. l.degree[n] = IF u \notin p.adjSet[t] THEN p.degree[n] + 1 ELSE p.degree[n]
      BY <1>2, <2>1, <2>7
    <3> QED
      BY <2>1, <2>3, <3>4, <3>5, <3>6
  <2> QED
    BY <2>6, <2>7
<1>8. /\ r.adjSet = l.adjSet /\ r.degree = l.degree /\ r.failed = p.failed
      /\ \A n \in Node : MoveRelated(r, n) <=> MoveRelated(p, n)
      /\ \A n \in Node \ {t} : r.state[n] = p.state[n]
      /\ r.state[t] = IF ~Significant(p, t) /\ Significant(l, t) THEN "SPILL" ELSE p.state[t]
  <2>1. CASE ~(~Significant(p, t) /\ Significant(l, t))
    BY <1>1, <1>2, <1>6, <2>1
  <2>2. CASE ~Significant(p, t) /\ Significant(l, t)
    <3>1. p.state[t] = "FREEZE"
      <4>1. p.state[t] # "SPILL"
        BY <2>2 DEF Counted, ListsMean
      <4>2. ~Precolored(p, t)
        <5>1. Precolored(p, t) => l.degree[t] = p.degree[t]
          BY <1>2
        <5> QED
          BY <2>2, <5>1 DEF Significant
      <4> QED
        BY <4>1, <4>2 DEF Precolored
    <3>2. Relists(l, t, "SPILL", r) /\ r.failed = p.failed
      BY <1>1, <2>2, <3>1
    <3>3. \A n \in Node : MoveRelated(r, n) <=> MoveRelated(l, n)
      BY <3>2 DEF Relists, MoveRelated, MovPending
    <3> QED
      BY <1>2, <1>6, <2>2, <3>2, <3>3 DEF Relists
  <2> QED
    BY <2>1, <2>2
<1>9. r.state[t] \in (Listed \ {"INITIAL"}) \cup {"PRECOLORED"} /\ (r.state[t] = "PRECOLORED" <=> p.state[t] = "PRECOLORED")
  <2>1. Precolored(p, t) => l.degree[t] = p.degree[t]
    BY <1>2
  <2> QED
    BY <1>8, <2>1 DEF Listed, Significant, Precolored
<1>10. HWOK(r)
  BY <1>8, <1>9 DEF HWOK
<1>11. \A n \in Node : /\ InGraph(r, n) <=> InGraph(l, n)
                       /\ r.state[n] \in Listed <=> l.state[n] \in Listed
  <2> TAKE n \in Node
  <2>1. CASE n = t
    BY <1>2, <1>8, <1>9, <2>1 DEF InGraph, Listed
  <2>2. CASE n # t
    BY <1>2, <1>8, <2>2 DEF InGraph
  <2> QED
    BY <2>1, <2>2
<1>12. DegreesOff(r, T)
  <2>1. \A n \in VNode : n \in Node /\ l.adjSet[n] \in SUBSET Node
    BY <1>1, VNodes DEF Pass
  <2>2. \A n \in VNode : Live(r, n) = Live(l, n)
    BY <1>8, <1>11, <2>1 DEF Live
  <2> QED
    BY <1>7, <1>8, <1>11, <2>1, <2>2 DEF DegreesOff
<1>13. ListsMean(r, {}, U, U)
  <2>1. ASSUME NEW n \in Node
        PROVE  /\ r.state[n] = "FREEZE" => (n \in U \/ ~Significant(r, n)) /\ (n \in U \/ MoveRelated(r, n))
               /\ r.state[n] = "SPILL" => Significant(r, n)
               /\ r.state[n] = "SIMPLIFY" => ~Significant(r, n)
    <3>1. /\ p.state[n] = "FREEZE" => (n \in U \/ ~Significant(p, n)) /\ (n \in U \/ MoveRelated(p, n))
          /\ p.state[n] = "SPILL" => Significant(p, n)
          /\ p.state[n] = "SIMPLIFY" => ~Significant(p, n)
      BY DEF Counted, ListsMean
    <3>2. r.degree[n] = l.degree[n] /\ p.degree[n] <= l.degree[n]
      BY <1>2, <1>4, <1>8
    <3>3. Significant(r, n) <=> Significant(l, n)
      BY <3>2 DEF Significant
    <3>4. Significant(p, n) => Significant(r, n)
      BY <1>4, <3>2, Counting DEF Significant
    <3>5. CASE n = t
      BY <1>8, <3>1, <3>3, <3>4, <3>5
    <3>6. CASE n = u
      BY <1>8, <3>1, <3>4, <3>6
    <3>7. CASE n \notin {t, u}
      <4>1. r.state[n] = p.state[n] /\ l.degree[n] = p.degree[n]
        BY <1>2, <1>8, <3>7
      <4>2. Significant(r, n) <=> Significant(p, n)
        BY <3>2, <4>1 DEF Significant
      <4> QED
        BY <1>8, <3>1, <4>1, <4>2
    <3> QED
      BY <3>5, <3>6, <3>7
  <2> QED
    BY <2>1 DEF ListsMean
<1>14. Counted(r, T, U, U)
  BY <1>12, <1>13 DEF Counted
<1>15. Told(r, t, T, U, U, q)
  <2>1. t \notin U
    OBVIOUS
  <2> QED
    BY <1>1, <1>9, <1>10, <1>14, <2>1, DecrementsCounted
<1> QED
  BY <1>8, <1>15 DEF Told

(* Once all neighbours are told that n has left, all counts are right. *)
LEMMA NeighboursCounted ==
  ASSUME MovsOK, NEW p \in Pass, ListsOK(p), Reducing(p), HWOK(p), \A m \in Node : p.state[m] # "INITIAL",
         NEW n \in Node, IsInjective(p.adjArr[n]), Counted(p, ToSet(p.adjArr[n]), {}, {})
  PROVE  /\ Counted(ForAdjacent(p, n, DecrementDegree), {}, {}, {})
         /\ ForAdjacent(p, n, DecrementDegree).failed = p.failed
<1> DEFINE V == {q \in Pass : Calm(p, q)}
           s == p.adjArr[n]
<1>1. s \in Seq(Node)
  BY DEF Pass
<1>2. /\ DOMAIN s = 1 .. Len(s) /\ Len(s) \in Nat /\ \A i \in 1 .. Len(s) : s[i] \in ToSet(s) /\ s[i] \in Node
      /\ \A x \in ToSet(s) : \E i \in 1 .. Len(s) : x = s[i]
  <2> HIDE DEF s
  <2> QED
    BY <1>1, ElementsOf
<1>3. p \in V
  BY CalmNone
<1>4. ASSUME NEW v \in V, NEW t \in Node
      PROVE  /\ DecrementAround(NULL, v, t) \in V
             /\ InGraph(v, t) => /\ v.state[t] \in (Listed \ {"INITIAL"}) \cup {"PRECOLORED"} /\ HWOK(v)
                                 /\ Decrements(v, t, DecrementAround(NULL, v, t))
  <2>1. CASE ~InGraph(v, t)
    BY <2>1 DEF DecrementAround
  <2>2. CASE InGraph(v, t)
    <3>1. Reducing(v) /\ ListsOK(v) /\ v \in Pass /\ Stays(p, v)
      BY StaysReducing DEF Calm, Stays
    <3>2. v.state[t] \in Listed \cup {"PRECOLORED"}
      BY <2>2, <3>1 DEF Reducing, InGraph
    <3>3. v.state[t] # "INITIAL" /\ HWOK(v)
      BY <3>1 DEF Stays, HWOK, Listed
    <3>4. Calm(v, DecrementDegree(v, t)) /\ DecrementDegree(v, t) \in Pass
      BY <3>1, <3>2, DecrementDegreeCalm
    <3>5. Calm(p, DecrementDegree(v, t))
      BY <3>4, CalmTwice
    <3>6. Decrements(v, t, DecrementDegree(v, t))
      BY <3>1, DecrementDegreeFacts
    <3> QED
      BY <2>2, <3>2, <3>3, <3>4, <3>5, <3>6 DEF DecrementAround
  <2> QED
    BY <2>1, <2>2
<1>5. PICK q : q = ForAdjacent(p, n, DecrementDegree)
  OBVIOUS
<1>6. q = DecrementLoop!Fold(NULL, p, s)
  BY <1>5 DEF ForAdjacent, DecrementAround, DecrementLoop!Fold, DecrementLoop!FoldLeft, FoldLeft,
         DecrementLoop!MapThenFoldSet, MapThenFoldSet, DecrementLoop!Max, Max
<1>7. IsInjective(s) /\ Counted(p, ToSet(s), {}, {})
  OBVIOUS
<1> HIDE DEF V, s
<1>8. DecrementLoop!Closed(V, NULL, s)
  BY <1>2, <1>4 DEF DecrementLoop!Closed
<1>9. PICK h : DecrementLoop!Trace(h, V, NULL, p, s)
  BY <1>1, <1>3, <1>8, DecrementLoop!FoldTrace
<1>10. PICK k \in Nat : k = Len(s)
  BY <1>2
<1>11. /\ h \in [0 .. k -> V] /\ q = h[k] /\ h[0] = p
       /\ \A i \in 1 .. k : h[i] = DecrementAround(NULL, h[i - 1], s[i])
  BY <1>2, <1>6, <1>9, <1>10 DEF DecrementLoop!Trace
<1>12. \A i, j \in 1 .. k : s[i] = s[j] => i = j
  BY <1>2, <1>7, <1>10 DEF IsInjective
<1> DEFINE Rest(i) == {s[j] : j \in i + 1 .. k}
           Kept == {i \in 0 .. k : Counted(h[i], Rest(i), {}, {}) /\ h[i].failed = p.failed}
<1>13. 0 \in Kept
  <2>1. Rest(0) = ToSet(s) /\ 0 \in 0 .. k
    BY <1>2, <1>10
  <2>2. h[0] = p
    BY <1>11
  <2> QED
    BY <1>7, <2>1, <2>2
<1>14. ASSUME NEW i \in 0 .. k - 1, i \in Kept PROVE i + 1 \in Kept
  <2>1. i + 1 \in 1 .. k /\ (i + 1) - 1 = i /\ i \in 0 .. k /\ i + 1 \in 0 .. k
    OBVIOUS
  <2>2. PICK t, v, w : t = s[i + 1] /\ v = h[i] /\ w = h[i + 1]
    OBVIOUS
  <2>3. PICK T, U : T = Rest(i) /\ U = Rest(i + 1)
    OBVIOUS
  <2>4. t \in Node /\ t \in T /\ U = T \ {t}
    <3>1. \A j : j \in i + 1 .. k <=> j = i + 1 \/ j \in (i + 1) + 1 .. k
      BY <2>1
    <3>2. \A j \in (i + 1) + 1 .. k : s[j] # t
      BY <1>12, <2>1, <2>2
    <3> QED
      BY <1>2, <1>10, <2>1, <2>2, <2>3, <3>1, <3>2
  <2>5. v \in V /\ w = DecrementAround(NULL, v, t) /\ v \in Pass
    BY <1>11, <2>1, <2>2 DEF V
  <2>6. Counted(v, T, {}, {}) /\ v.failed = p.failed
    BY <1>14, <2>2, <2>3
  <2>7. Counted(w, U, {}, {}) /\ w.failed = p.failed
    <3>1. CASE ~InGraph(v, t)
      BY <2>4, <2>5, <2>6, <3>1, GoneCounted DEF DecrementAround, Counted
    <3>2. CASE InGraph(v, t)
      <4>1. v.state[t] \in (Listed \ {"INITIAL"}) \cup {"PRECOLORED"} /\ HWOK(v) /\ Decrements(v, t, w)
        BY <1>4, <2>4, <2>5, <3>2
      <4>2. PICK X : X = {}
        OBVIOUS
      <4>3. Counted(v, T, X, X) /\ t \notin X
        BY <2>6, <4>2
      <4>4. Told(v, t, T, X, X, w)
        BY ONLY <2>4, <2>5, <4>1, <4>3, DecrementsCounted
      <4> QED
        BY <2>4, <2>6, <4>2, <4>4 DEF Told
    <3> QED
      BY <3>1, <3>2
  <2> QED
    BY <2>1, <2>2, <2>3, <2>7
<1>15. Rest(k) = {}
  BY <1>10
<1> HIDE DEF Kept
<1>16. 0 .. k \subseteq Kept
  BY <1>13, <1>14, DecrementLoop!PrefixInduction
<1>17. Counted(q, {}, {}, {}) /\ q.failed = p.failed
  <2>1. k \in Kept
    BY <1>16
  <2> QED
    BY <1>11, <1>15, <2>1 DEF Kept
<1> QED
  BY <1>5, <1>17

(* Once all neighbours of v are neighbours of u, all counts are right. *)
LEMMA MovedCounted ==
  ASSUME MovsOK, NEW p \in Pass, ListsOK(p), Reducing(p), HWOK(p), GraphOK(p),
         \A m \in Node : p.state[m] \notin {"INITIAL", "SIMPLIFY"},
         NEW u \in Node, p.state[u] \in {"FREEZE", "SPILL", "PRECOLORED"}, NEW v \in Node, IsInjective(p.adjArr[v]),
         u \notin ToSet(p.adjArr[v]), Counted(p, ToSet(p.adjArr[v]), {u}, {u})
  PROVE  /\ Counted(ForAdjacent(p, v, LAMBDA r, t : Rewire(r, u, t)), {}, {u}, {u})
         /\ ForAdjacent(p, v, LAMBDA r, t : Rewire(r, u, t)).failed = p.failed
         /\ ForAdjacent(p, v, LAMBDA r, t : Rewire(r, u, t)).state[u] = p.state[u]
<1> DEFINE V == {r \in Pass : Stays(p, r) /\ GraphOK(r)}
           s == p.adjArr[v]
<1>1. s \in Seq(Node)
  BY DEF Pass
<1>2. /\ DOMAIN s = 1 .. Len(s) /\ Len(s) \in Nat /\ \A i \in 1 .. Len(s) : s[i] \in ToSet(s) /\ s[i] \in Node
      /\ \A x \in ToSet(s) : \E i \in 1 .. Len(s) : x = s[i]
  <2> HIDE DEF s
  <2> QED
    BY <1>1, ElementsOf
<1>3. p \in V
  BY CalmNone DEF Calm
<1>4. ASSUME NEW r \in V, NEW t \in Node, t # u
      PROVE  /\ RewireAround(u, r, t) \in V /\ HWOK(r)
             /\ InGraph(r, t) => Rewires(r, u, t, RewireAround(u, r, t))
  <2>1. r \in Pass /\ Stays(p, r) /\ GraphOK(r) /\ ListsOK(r) /\ Reducing(r) /\ HWOK(r)
    <3>1. r \in Pass /\ Stays(p, r) /\ GraphOK(r)
      OBVIOUS
    <3>2. HWOK(r)
      BY <3>1 DEF Stays, HWOK, Listed
    <3> QED
      BY <3>1, <3>2, StaysReducing DEF Stays
  <2>2. CASE ~InGraph(r, t)
    BY <2>1, <2>2 DEF RewireAround
  <2>3. CASE InGraph(r, t)
    <3>1. r.state[t] \in Listed \cup {"PRECOLORED"}
      BY <2>1, <2>3 DEF Reducing, InGraph
    <3>2. PICK w : w = Rewire(r, u, t)
      OBVIOUS
    <3>3. Rewires(r, u, t, w)
      BY <1>4, <2>1, <3>2, RewireFacts
    <3>4. Rewired(r, u, {t}, Rewire(r, u, t))
      BY <1>4, <2>1, <3>1, RewireStays
    <3>5. Stays(r, w) /\ w \in Pass /\ GraphOK(w)
      BY <3>2, <3>4 DEF Rewired
    <3>6. Stays(p, w)
      BY <2>1, <3>5, StaysTwice
    <3> QED
      BY <2>1, <2>3, <3>2, <3>3, <3>5, <3>6 DEF RewireAround
  <2> QED
    BY <2>2, <2>3
<1>5. PICK q : q = ForAdjacent(p, v, LAMBDA r, t : Rewire(r, u, t))
  OBVIOUS
<1>6. q = RewireLoop!Fold(u, p, s)
  BY <1>5 DEF ForAdjacent, RewireAround, RewireLoop!Fold, RewireLoop!FoldLeft, FoldLeft,
         RewireLoop!MapThenFoldSet, MapThenFoldSet, RewireLoop!Max, Max
<1>7. IsInjective(s) /\ Counted(p, ToSet(s), {u}, {u}) /\ u \notin ToSet(s)
  OBVIOUS
<1> HIDE DEF V, s
<1>8. RewireLoop!Closed(V, u, s)
  BY <1>2, <1>4, <1>7 DEF RewireLoop!Closed
<1>9. PICK h : RewireLoop!Trace(h, V, u, p, s)
  BY <1>1, <1>3, <1>8, RewireLoop!FoldTrace
<1>10. PICK k \in Nat : k = Len(s)
  BY <1>2
<1>11. /\ h \in [0 .. k -> V] /\ q = h[k] /\ h[0] = p
       /\ \A i \in 1 .. k : h[i] = RewireAround(u, h[i - 1], s[i])
  BY <1>2, <1>6, <1>9, <1>10 DEF RewireLoop!Trace
<1>12. \A i, j \in 1 .. k : s[i] = s[j] => i = j
  BY <1>2, <1>7, <1>10 DEF IsInjective
<1> DEFINE Rest(i) == {s[j] : j \in i + 1 .. k}
           Seen(i) == {s[j] : j \in 1 .. i}
           Kept == {i \in 0 .. k : /\ Counted(h[i], Rest(i), {u}, {u}) /\ h[i].failed = p.failed
                                   /\ \A m \in Node \ Seen(i) : h[i].state[m] = p.state[m]}
<1>13. 0 \in Kept
  <2>1. Rest(0) = ToSet(s) /\ 0 \in 0 .. k
    BY <1>2, <1>10
  <2>2. h[0] = p
    BY <1>11
  <2> QED
    BY <1>7, <2>1, <2>2
<1>14. ASSUME NEW i \in 0 .. k - 1, i \in Kept PROVE i + 1 \in Kept
  <2>1. i + 1 \in 1 .. k /\ (i + 1) - 1 = i /\ i \in 0 .. k /\ i + 1 \in 0 .. k
    OBVIOUS
  <2>2. PICK t, r, w : t = s[i + 1] /\ r = h[i] /\ w = h[i + 1]
    OBVIOUS
  <2>3. PICK T, U, A, B : T = Rest(i) /\ U = Rest(i + 1) /\ A = Seen(i) /\ B = Seen(i + 1)
    OBVIOUS
  <2>4. t \in Node /\ t \in T /\ U = T \ {t} /\ t # u
    <3>1. \A j : j \in i + 1 .. k <=> j = i + 1 \/ j \in (i + 1) + 1 .. k
      BY <2>1
    <3>2. \A j \in (i + 1) + 1 .. k : s[j] # t
      BY <1>12, <2>1, <2>2
    <3> QED
      BY <1>2, <1>7, <1>10, <2>1, <2>2, <2>3, <3>1, <3>2
  <2>5. t \notin A /\ u \notin A /\ A \cup {t} = B
    <3>1. \A j : j \in 1 .. i + 1 <=> j = i + 1 \/ j \in 1 .. i
      BY <2>1
    <3>2. \A j \in 1 .. i : s[j] # t /\ s[j] # u
      BY <1>2, <1>7, <1>10, <1>12, <2>1, <2>2
    <3> QED
      BY <2>2, <2>3, <3>1, <3>2
  <2>6. r \in V /\ w = RewireAround(u, r, t) /\ r \in Pass /\ GraphOK(r)
    BY <1>11, <2>1, <2>2 DEF V
  <2>7. Counted(r, T, {u}, {u}) /\ r.failed = p.failed /\ \A m \in Node \ A : r.state[m] = p.state[m]
    BY <1>14, <2>2, <2>3
  <2>8. Counted(w, U, {u}, {u}) /\ w.failed = p.failed /\ \A m \in Node \ B : w.state[m] = p.state[m]
    <3>1. CASE ~InGraph(r, t)
      <4>1. w = r
        BY <2>6, <3>1 DEF RewireAround
      <4>2. DegreesOff(r, T \ {t})
        BY <2>4, <2>7, <3>1, GoneCounted DEF Counted
      <4> QED
        BY <2>4, <2>5, <2>7, <4>1, <4>2 DEF Counted
    <3>2. CASE InGraph(r, t)
      <4>1. HWOK(r) /\ Rewires(r, u, t, w)
        BY <1>4, <2>4, <2>6, <3>2
      <4>2. r.state[t] = p.state[t] /\ r.state[u] = p.state[u]
        BY <2>4, <2>5, <2>7
      <4>3. r.state[t] \in {"FREEZE", "SPILL", "PRECOLORED"} /\ r.state[u] \in {"FREEZE", "SPILL", "PRECOLORED"}
        <5>1. p.state[t] \in Listed \cup {"PRECOLORED"}
          BY <2>4, <3>2, <4>2 DEF Reducing, InGraph
        <5> QED
          BY <2>4, <4>2, <5>1 DEF Listed
      <4>4. PICK X : X = {u}
        OBVIOUS
      <4>5. Counted(r, T, X, X)
        BY <2>7, <4>4
      <4>6. Told(r, t, T, X, X, w)
        BY ONLY <2>4, <2>6, <4>1, <4>3, <4>4, <4>5, u \in Node, RewiresCounted
      <4> QED
        BY <2>4, <2>5, <2>7, <4>4, <4>6 DEF Told
    <3> QED
      BY <3>1, <3>2
  <2> QED
    BY <2>1, <2>2, <2>3, <2>8
<1>15. Rest(k) = {}
  BY <1>10
<1> HIDE DEF Kept
<1>16. 0 .. k \subseteq Kept
  BY <1>13, <1>14, RewireLoop!PrefixInduction
<1>17. Counted(q, {}, {u}, {u}) /\ q.failed = p.failed /\ q.state[u] = p.state[u]
  <2>1. k \in Kept
    BY <1>16
  <2>2. u \in Node \ Seen(k)
    BY <1>2, <1>7, <1>10
  <2> QED
    BY <1>11, <1>15, <2>1, <2>2 DEF Kept
<1> QED
  BY <1>5, <1>17

(* A node that changes worklists changes no count and no relation to moves. *)
LEMMA RelistsDegrees ==
  ASSUME NEW p \in Pass, NEW n \in Node, p.state[n] \in Listed, NEW s \in Listed, NEW q, Relists(p, n, s, q)
  PROVE  /\ \A T : DegreesOff(p, T) => DegreesOff(q, T)
         /\ \A m \in Node : (Significant(q, m) <=> Significant(p, m)) /\ (MoveRelated(q, m) <=> MoveRelated(p, m))
         /\ \A m \in Node : q.state[m] = IF m = n THEN s ELSE p.state[m]
<1>1. /\ \A m \in Node : q.state[m] = IF m = n THEN s ELSE p.state[m]
      /\ q.degree = p.degree /\ q.adjSet = p.adjSet /\ q.movArr = p.movArr /\ q.movState = p.movState
  BY DEF Relists
<1>2. \A m \in Node : /\ InGraph(q, m) <=> InGraph(p, m)
                      /\ q.state[m] \in Listed <=> p.state[m] \in Listed
  BY <1>1 DEF InGraph, Listed
<1>3. \A m \in Node : Live(q, m) = Live(p, m)
  <2>1. \A m \in Node : p.adjSet[m] \in SUBSET Node
    BY DEF Pass
  <2> QED
    BY <1>1, <1>2, <2>1 DEF Live
<1>4. \A T : DegreesOff(p, T) => DegreesOff(q, T)
  BY <1>1, <1>2, <1>3, VNodes DEF DegreesOff
<1>5. \A m \in Node : (Significant(q, m) <=> Significant(p, m)) /\ (MoveRelated(q, m) <=> MoveRelated(p, m))
  BY <1>1 DEF Significant, MoveRelated, MovPending
<1> QED
  BY <1>1, <1>4, <1>5

(* u takes over the moves of v: the neighbours of v have not noticed yet. *)
LEMMA TakeOverCounted ==
  ASSUME MovsOK, NEW p, ReduceInv(p), \A m \in Node : p.state[m] \notin {"INITIAL", "SIMPLIFY"},
         NEW u, NEW v, Mergeable(p, u, v), Counted(p, {}, {u, v}, {}), NEW f, TakesOver(p, u, v, f)
  PROVE  Counted(f, p.adjSet[v], {u}, {u}) /\ f.failed = p.failed
<1>1. /\ p \in Pass /\ GraphOK(p) /\ HWOK(p) /\ u \in Node /\ v \in Node /\ u # v
      /\ p.state[v] \in {"FREEZE", "SPILL"} /\ p.state[v] \in Listed
  BY DEF ReduceInv, Mergeable, Listed
<1>2. /\ \A n \in Node : f.state[n] = IF n = v THEN "COALESCED" ELSE p.state[n]
      /\ f.adjSet = p.adjSet /\ f.degree = p.degree /\ f.movState = p.movState
      /\ \A n \in Node \ {u} : f.movArr[n] = p.movArr[n]
      /\ f.failed = p.failed
  BY <1>1 DEF TakesOver
<1>3. DegreesOff(f, p.adjSet[v])
  <2>1. DegreesOff(p, {})
    BY DEF Counted
  <2>2. "COALESCED" \in {"SELECT", "COALESCED"}
    OBVIOUS
  <2> QED
    BY <1>1, <1>2, <2>1, <2>2, LeavesCounted
<1>4. ListsMean(f, {}, {u}, {u})
  <2>1. \A n \in Node : Significant(f, n) <=> Significant(p, n)
    BY <1>2 DEF Significant
  <2>2. \A n \in Node \ {u} : MoveRelated(f, n) <=> MoveRelated(p, n)
    BY <1>2 DEF MoveRelated, MovPending
  <2>3. ListsMean(p, {}, {u, v}, {})
    BY DEF Counted
  <2>4. ASSUME NEW n \in Node
        PROVE  /\ f.state[n] = "FREEZE" => (n \in {u} \/ ~Significant(f, n)) /\ (n \in {u} \/ MoveRelated(f, n))
               /\ f.state[n] = "SPILL" => Significant(f, n)
               /\ f.state[n] # "SIMPLIFY"
    BY <1>2, <2>1, <2>2, <2>3 DEF ListsMean
  <2> QED
    BY <2>4 DEF ListsMean
<1> QED
  BY <1>2, <1>3, <1>4 DEF Counted

(* combineNodes: all counts are right again; u may have lost its last move. *)
LEMMA CombineCounted ==
  ASSUME MovsOK, NEW p, ReduceInv(p), \A m \in Node : p.state[m] \notin {"INITIAL", "SIMPLIFY"},
         NEW u, NEW v, Mergeable(p, u, v), Counted(p, {}, {u, v}, {})
  PROVE  /\ Counted(Combine(p, u, v), {}, {u}, {}) /\ Combine(p, u, v).failed = p.failed
         /\ Combine(p, u, v).state[u] \in {"FREEZE", "SPILL", "PRECOLORED"}
<1>1. /\ p \in Pass /\ GraphOK(p) /\ HWOK(p) /\ u \in Node /\ v \in Node /\ u # v /\ v \notin p.adjSet[u]
      /\ p.state[v] \in Listed /\ p.state[u] \in {"FREEZE", "SPILL", "PRECOLORED"}
      /\ InGraph(p, u) /\ p.state[u] # "SIMPLIFY"
  BY DEF ReduceInv, Mergeable, Listed, InGraph
<1>2. PICK f : f = TakeOver(p, u, v)
  OBVIOUS
<1>3. TakesOver(p, u, v, f) /\ ReduceInv(f)
  BY <1>1, <1>2, TakeOverFacts
<1>4. Counted(f, p.adjSet[v], {u}, {u}) /\ f.failed = p.failed
  BY <1>3, TakeOverCounted
<1>5. /\ f \in Pass /\ ListsOK(f) /\ Reducing(f) /\ HWOK(f) /\ GraphOK(f)
      /\ \A n \in Node : f.state[n] = IF n = v THEN "COALESCED" ELSE p.state[n]
      /\ f.adjArr = p.adjArr
  BY <1>3 DEF ReduceInv, TakesOver
<1>6. ToSet(f.adjArr[v]) = p.adjSet[v] /\ IsInjective(f.adjArr[v]) /\ u \notin p.adjSet[v]
  <2>1. v \in VNode
    BY <1>1, VNodes DEF HWOK, Listed
  <2> QED
    BY <1>1, <1>5, <2>1 DEF GraphOK
<1>7. /\ \A m \in Node : f.state[m] \notin {"INITIAL", "SIMPLIFY"}
      /\ f.state[u] \in {"FREEZE", "SPILL", "PRECOLORED"}
  BY <1>1, <1>5
<1>8. PICK w : w = ForAdjacent(f, v, LAMBDA r, t : Rewire(r, u, t))
  OBVIOUS
<1>9. Counted(w, {}, {u}, {u}) /\ w.failed = p.failed /\ w.state[u] \in {"FREEZE", "SPILL", "PRECOLORED"}
  BY <1>1, <1>4, <1>5, <1>6, <1>7, <1>8, MovedCounted
<1>10. w \in Pass /\ ListsOK(w)
  <2>1. Rewired(f, u, Adjacent(f, v), w)
    BY <1>1, <1>5, <1>6, <1>8, RewireNeighbours
  <2> QED
    BY <2>1 DEF Rewired, Stays
<1>11. PICK q : q = SpillIfSignificant(w, u)
  OBVIOUS
<1>12. Counted(q, {}, {u}, {}) /\ q.failed = p.failed /\ q.state[u] \in {"FREEZE", "SPILL", "PRECOLORED"}
  <2>1. DegreesOff(w, {}) /\ ListsMean(w, {}, {u}, {u})
    BY <1>9 DEF Counted
  <2>2. CASE ~(Significant(w, u) /\ w.state[u] = "FREEZE")
    <3>1. q = w
      BY <1>11, <2>2 DEF SpillIfSignificant
    <3>2. ListsMean(w, {}, {u}, {})
      BY <2>1, <2>2 DEF ListsMean
    <3> QED
      BY <1>9, <2>1, <3>1, <3>2 DEF Counted
  <2>3. CASE Significant(w, u) /\ w.state[u] = "FREEZE"
    <3>1. "SPILL" \in NodeState /\ "SPILL" \in Listed /\ w.state[u] \in Listed
      BY <2>3 DEF NodeState, Listed
    <3>2. Relists(w, u, "SPILL", q) /\ q.failed = w.failed
      BY <1>1, <1>10, <1>11, <2>3, <3>1, NodeSetStateFacts DEF SpillIfSignificant
    <3>3. /\ DegreesOff(q, {})
          /\ \A m \in Node : (Significant(q, m) <=> Significant(w, m)) /\ (MoveRelated(q, m) <=> MoveRelated(w, m))
          /\ \A m \in Node : q.state[m] = IF m = u THEN "SPILL" ELSE w.state[m]
      BY ONLY <1>1, <1>10, <2>1, <3>1, <3>2, RelistsDegrees
    <3>4. ASSUME NEW n \in Node
          PROVE  /\ q.state[n] = "FREEZE" => ~Significant(q, n) /\ (n \in {u} \/ MoveRelated(q, n))
                 /\ q.state[n] = "SPILL" => Significant(q, n)
                 /\ q.state[n] = "SIMPLIFY" => ~Significant(q, n)
      BY <2>1, <2>3, <3>3 DEF ListsMean
    <3>5. ListsMean(q, {}, {u}, {})
      BY <3>4 DEF ListsMean
    <3> QED
      BY <1>1, <1>9, <3>2, <3>3, <3>5 DEF Counted
  <2> QED
    BY <2>2, <2>3
<1> QED
  BY <1>2, <1>8, <1>11, <1>12 DEF Combine, TakeOver

(* n has been looked at: it is no longer among those of X that may be idle,
   and only n may have changed worklists.                                  *)
Looked(p, n, X, name, q) ==
  /\ Counted(q, {}, X \ {n}, {}) /\ \A m \in Node \ {n} : q.state[m] = p.state[m]
  /\ q.state[n] \in {p.state[n], "SIMPLIFY"}
  /\ q.failed = p.failed \/ (p.state[n] = "SIMPLIFY" /\ q.failed = p.failed \cup {name})

(* A node that is found idle, or is not, is where it belongs. *)
LEMMA IdlesCounted ==
  ASSUME NEW p \in Pass, NEW n \in Node, p.state[n] \in (Listed \ {"INITIAL"}) \cup {"PRECOLORED"},
         NEW X, NEW E, E = {}, Counted(p, E, X, E), NEW name, NEW q, Idles(p, n, name, q)
  PROVE  Looked(p, n, X, name, q)
<1>1. DegreesOff(p, {}) /\ ListsMean(p, {}, X, {})
  BY DEF Counted
<1>2. CASE q = p /\ (Precolored(p, n) \/ MoveRelated(p, n) \/ Significant(p, n))
  <2>1. p.state[n] = "FREEZE" => MoveRelated(p, n)
    BY <1>1, <1>2 DEF ListsMean, Precolored
  <2>2. ListsMean(p, {}, X \ {n}, {})
    BY <1>1, <2>1 DEF ListsMean
  <2> QED
    BY <1>1, <1>2, <2>2 DEF Counted, Looked
<1>3. CASE /\ ~Precolored(p, n) /\ ~MoveRelated(p, n) /\ ~Significant(p, n)
           /\ Relists(p, n, "SIMPLIFY", q)
           /\ q.failed = IF p.state[n] = "FREEZE" THEN p.failed ELSE p.failed \cup {name}
  <2>1. p.state[n] \in Listed /\ "SIMPLIFY" \in Listed /\ p.state[n] \in {"FREEZE", "SPILL", "SIMPLIFY"}
    BY <1>3 DEF Listed, Precolored
  <2>2. p.state[n] # "SPILL"
    BY <1>1, <1>3 DEF ListsMean
  <2>3. /\ DegreesOff(q, {})
        /\ \A m \in Node : (Significant(q, m) <=> Significant(p, m)) /\ (MoveRelated(q, m) <=> MoveRelated(p, m))
        /\ \A m \in Node : q.state[m] = IF m = n THEN "SIMPLIFY" ELSE p.state[m]
    BY <1>1, <1>3, <2>1, RelistsDegrees
  <2>4. ASSUME NEW m \in Node
        PROVE  /\ q.state[m] = "FREEZE" => ~Significant(q, m) /\ (m \in X \ {n} \/ MoveRelated(q, m))
               /\ q.state[m] = "SPILL" => Significant(q, m)
               /\ q.state[m] = "SIMPLIFY" => ~Significant(q, m)
    BY <1>1, <1>3, <2>3 DEF ListsMean
  <2>5. ListsMean(q, {}, X \ {n}, {})
    BY <2>4 DEF ListsMean
  <2> QED
    BY <1>3, <2>1, <2>2, <2>3, <2>5 DEF Counted, Looked
<1> QED
  BY <1>2, <1>3 DEF Idles

(* A move that is decided may be the last one of its ends. *)
LEMMA DecidedCounted ==
  ASSUME MovsOK, NEW p \in Pass, MovesBelong(p), NEW m \in Mov, NEW s, NEW q, RelistsMove(p, m, s, q),
         NEW X, Counted(p, {}, X, {})
  PROVE  /\ Counted(q, {}, X \cup {GetAlias(p, movs[m].dst), GetAlias(p, movs[m].src)}, {})
         /\ MovPending(p, m) /\ s = "ACTIVE" => Counted(q, {}, X, {})
<1>1. /\ q.state = p.state /\ q.degree = p.degree /\ q.adjSet = p.adjSet /\ q.movArr = p.movArr
      /\ \A x \in Mov : q.movState[x] = IF x = m THEN s ELSE p.movState[x]
  BY DEF RelistsMove
<1>2. DegreesOff(q, {})
  BY <1>1 DEF Counted, DegreesOff, Live, InGraph
<1>3. \A n \in Node : Significant(q, n) <=> Significant(p, n)
  BY <1>1 DEF Significant
<1>4. \A n \in Node : p.movArr[n] \in Seq(Mov)
  BY DEF Pass
<1>5. \A n \in Node : ToSet(p.movArr[n]) \subseteq Mov
  <2> TAKE n \in Node
  <2> QED
    BY <1>4, ElementsOf
<1>6. \A n \in Node : InGraph(p, n) /\ MoveRelated(p, n) =>
        MoveRelated(q, n) \/ n \in {GetAlias(p, movs[m].dst), GetAlias(p, movs[m].src)}
  BY <1>1, <1>5 DEF MoveRelated, MovPending, MovesBelong
<1>7. \A n \in Node : p.state[n] = "FREEZE" => InGraph(p, n)
  BY DEF InGraph
<1>8. ListsMean(p, {}, X, {})
  BY DEF Counted
<1>9. PICK E : E = {GetAlias(p, movs[m].dst), GetAlias(p, movs[m].src)}
  OBVIOUS
<1>10. ListsMean(q, {}, X \cup E, {})
  BY <1>1, <1>3, <1>6, <1>7, <1>8, <1>9 DEF ListsMean
<1>11. MovPending(p, m) /\ s = "ACTIVE" => ListsMean(q, {}, X, {})
  <2> SUFFICES ASSUME MovPending(p, m), s = "ACTIVE" PROVE ListsMean(q, {}, X, {})
    OBVIOUS
  <2>1. \A n \in Node : MoveRelated(p, n) => MoveRelated(q, n)
    BY <1>1, <1>5 DEF MoveRelated, MovPending
  <2> QED
    BY <1>1, <1>3, <1>8, <2>1 DEF ListsMean
<1> QED
  BY <1>2, <1>9, <1>10, <1>11 DEF Counted

=============================================================================

--------------------------- MODULE RegAllocSteps ---------------------------
(***************************************************************************)
(* What each operator of RegAlloc does to the pass, as the proofs use it:  *)
(* which fields it changes and how, for any pass and not only a reachable  *)
(* one; what the loops of RegAlloc keep, one turn after another; and what   *)
(* building the graph and combining two of its nodes do to the edges, the  *)
(* moves and the aliases.                                                  *)
(***************************************************************************)
EXTENDS RegAllocInv, SequenceTheorems, FiniteSetTheorems, TLAPS

WakeLoop == INSTANCE FoldLemmas WITH Op <- WakeMove
WakeAroundLoop == INSTANCE FoldLemmas WITH Op <- WakeAround
DecrementLoop == INSTANCE FoldLemmas WITH Op <- DecrementAround
FreezeLoop == INSTANCE FoldLemmas WITH Op <- GiveUp
GatherLoop == INSTANCE FoldLemmas WITH Op <- TakeMove
RewireLoop == INSTANCE FoldLemmas WITH Op <- RewireAround
EdgeLoop == INSTANCE FoldLemmas WITH Op <- AddPair
AllocLoop == INSTANCE FoldLemmas WITH Op <- AllocMove
PlaceLoop == INSTANCE FoldLemmas WITH Op <- PlaceNode

-----------------------------------------------------------------------------
(* The operators *)

(* Unlinking a node from a list takes away just that node. *)
LEMMA Unlink ==
  ASSUME NEW E, NEW s \in Seq(E), NEW e, IsInjective(s)
  PROVE  /\ RemoveFirst(s, e) \in Seq(E)
         /\ IsInjective(RemoveFirst(s, e))
         /\ ToSet(RemoveFirst(s, e)) = ToSet(s) \ {e}
<1>1. CASE \E i \in 1 .. Len(s) : s[i] = e
  <2>1. PICK i \in 1 .. Len(s) : s[i] = e
    BY <1>1
  <2> DEFINE I == {j \in 1 .. Len(s) : s[j] = e}
  <2>2. I = {i}
    BY <2>1 DEF IsInjective
  <2>3. SelectInSeq(s, LAMBDA v : v = e) = i
    <3>1. Min({i}) = i
      BY DEF Min
    <3>2. SelectInSeq(s, LAMBDA v : v = e) = Min(I)
      BY <2>2 DEF SelectInSeq
    <3> QED
      BY <2>2, <3>1, <3>2
  <2>4. RemoveFirst(s, e) = SubSeq(s, 1, i - 1) \o SubSeq(s, i + 1, Len(s))
    BY <1>1, <2>3 DEF RemoveFirst, RemoveAt
  <2> DEFINE t == [j \in 1 .. Len(s) - 1 |-> IF j < i THEN s[j] ELSE s[j + 1]]
  <2>5. RemoveFirst(s, e) = t
    <3> DEFINE a == SubSeq(s, 1, i - 1)
               b == SubSeq(s, i + 1, Len(s))
    <3>1. a \in Seq(E) /\ Len(a) = i - 1 /\ \A j \in 1 .. i - 1 : a[j] = s[j]
      OBVIOUS
    <3>2. b \in Seq(E) /\ Len(b) = Len(s) - i /\ \A j \in 1 .. Len(s) - i : b[j] = s[j + i]
      OBVIOUS
    <3> HIDE DEF a, b
    <3>3. a \o b \in Seq(E) /\ Len(a \o b) = Len(s) - 1
      <4>1. a \o b \in Seq(E) /\ Len(a \o b) = Len(a) + Len(b)
        BY <3>1, <3>2, ConcatProperties
      <4>2. Len(s) \in Int /\ i \in Int
        OBVIOUS
      <4> QED
        BY <4>1, <4>2, <3>1, <3>2
    <3>4. \A j \in 1 .. Len(s) - 1 : (a \o b)[j] = t[j]
      BY <3>1, <3>2
    <3>5. a \o b = t
      <4>1. DOMAIN (a \o b) = 1 .. Len(s) - 1 /\ a \o b = [j \in DOMAIN (a \o b) |-> (a \o b)[j]]
        BY <3>3, LenProperties
      <4> QED
        BY <3>4, <4>1
    <3> QED
      BY <2>4, <3>5 DEF a, b
  <2>6. t \in Seq(E) /\ DOMAIN t = 1 .. Len(s) - 1
    OBVIOUS
  <2>7. \A j \in 1 .. Len(s) : j # i => IF j < i THEN j \in 1 .. Len(s) - 1 /\ t[j] = s[j]
                                        ELSE j - 1 \in 1 .. Len(s) - 1 /\ t[j - 1] = s[j]
    OBVIOUS
  <2>8. IsInjective(t)
    BY <2>6 DEF IsInjective
  <2>9. ToSet(t) = ToSet(s) \ {e}
    <3>1. \A j \in 1 .. Len(s) - 1 : t[j] \in ToSet(s) \ {e}
      BY <2>1 DEF IsInjective, ToSet
    <3>2. \A j \in 1 .. Len(s) : s[j] # e => s[j] \in ToSet(t)
      BY <2>1, <2>6, <2>7 DEF ToSet
    <3>3. \A x : x \in ToSet(t) <=> x \in ToSet(s) /\ x # e
      <4>1. \A x \in ToSet(t) : \E j \in 1 .. Len(s) - 1 : x = t[j]
        BY <2>6 DEF ToSet
      <4>2. \A x \in ToSet(s) : \E j \in 1 .. Len(s) : x = s[j]
        BY DEF ToSet
      <4> HIDE DEF t
      <4> QED
        BY <3>1, <3>2, <4>1, <4>2
    <3> QED
      BY <3>3
  <2> QED
    BY <2>5, <2>6, <2>8, <2>9
<1>2. CASE ~\E i \in 1 .. Len(s) : s[i] = e
  <2>1. RemoveFirst(s, e) = s
    BY <1>2 DEF RemoveFirst
  <2> QED
    BY <1>2, <2>1 DEF ToSet
<1> QED
  BY <1>1, <1>2

(* The head of a list is unlinked by taking the tail. *)
LEMMA UnlinkHead ==
  ASSUME NEW E, NEW s \in Seq(E), s # <<>>
  PROVE  RemoveFirst(s, Head(s)) = Tail(s)
<1>1. 1 \in 1 .. Len(s) /\ s[1] = Head(s)
  OBVIOUS
<1> DEFINE e == Head(s)
           I == {j \in 1 .. Len(s) : s[j] = e}
<1>2. Min(I) = 1
  <2>1. 1 \in I /\ \A j \in I : 1 <= j
    BY <1>1
  <2>2. \A x \in I : (\A y \in I : x <= y) => x = 1
    BY <2>1
  <2> HIDE DEF I
  <2> QED
    BY <2>1, <2>2 DEF Min
<1>3. SelectInSeq(s, LAMBDA v : v = e) = 1
  BY <1>1, <1>2 DEF SelectInSeq
<1>4. RemoveFirst(s, e) = SubSeq(s, 1, 1 - 1) \o SubSeq(s, 1 + 1, Len(s))
  <2>1. \E i \in 1 .. Len(s) : s[i] = e
    BY <1>1
  <2> HIDE DEF e
  <2> QED
    BY <2>1, <1>3 DEF RemoveFirst, RemoveAt
<1>5. SubSeq(s, 1, 1 - 1) = <<>> /\ SubSeq(s, 1 + 1, Len(s)) = Tail(s)
  OBVIOUS
<1>6. Tail(s) \in Seq(E)
  OBVIOUS
<1> QED
  BY <1>4, <1>5, <1>6

(* Linking it at the head of another adds just that node. *)
LEMMA Link ==
  ASSUME NEW E, NEW s \in Seq(E), NEW e \in E, IsInjective(s), e \notin ToSet(s)
  PROVE  /\ <<e>> \o s \in Seq(E)
         /\ IsInjective(<<e>> \o s)
         /\ ToSet(<<e>> \o s) = ToSet(s) \cup {e}
         /\ Len(<<e>> \o s) = Len(s) + 1
         /\ (<<e>> \o s)[1] = e
         /\ \A i \in 1 .. Len(s) : (<<e>> \o s)[i + 1] = s[i]
<1> DEFINE t == <<e>> \o s
<1>1. <<e>> \in Seq(E) /\ Len(<<e>>) = 1 /\ <<e>>[1] = e
  OBVIOUS
<1>2. /\ t \in Seq(E) /\ Len(t) = Len(s) + 1
      /\ \A i \in 1 .. Len(s) + 1 : t[i] = IF i <= 1 THEN e ELSE s[i - 1]
  <2>1. /\ t \in Seq(E) /\ Len(t) = Len(<<e>>) + Len(s)
        /\ \A i \in 1 .. Len(<<e>>) + Len(s) : t[i] = IF i <= Len(<<e>>) THEN <<e>>[i] ELSE s[i - Len(<<e>>)]
    BY <1>1, ConcatProperties
  <2>2. Len(s) \in Nat
    OBVIOUS
  <2> QED
    BY <1>1, <2>1, <2>2
<1> HIDE DEF t
<1>3. DOMAIN t = 1 .. Len(s) + 1 /\ DOMAIN s = 1 .. Len(s) /\ Len(s) \in Nat
  BY <1>2, LenProperties
<1>4. t[1] = e /\ \A i \in 1 .. Len(s) : t[i + 1] = s[i]
  BY <1>2, <1>3
<1>5. \A i \in 1 .. Len(s) + 1 : i = 1 \/ (i - 1 \in 1 .. Len(s) /\ t[i] = s[i - 1])
  BY <1>2, <1>3
<1>6. IsInjective(t)
  <2>1. \A i \in 1 .. Len(s) : s[i] # e
    BY <1>3 DEF ToSet
  <2>2. \A i, j \in 1 .. Len(s) : s[i] = s[j] => i = j
    BY <1>3 DEF IsInjective
  <2> QED
    BY <1>3, <1>4, <1>5, <2>1, <2>2 DEF IsInjective
<1>7. ToSet(t) = ToSet(s) \cup {e}
  <2>1. \A x : x \in ToSet(t) <=> \E i \in 1 .. Len(s) + 1 : x = t[i]
    BY <1>3 DEF ToSet
  <2>2. \A x : x \in ToSet(s) <=> \E i \in 1 .. Len(s) : x = s[i]
    BY <1>3 DEF ToSet
  <2>3. \A i \in 1 .. Len(s) : i + 1 \in 1 .. Len(s) + 1
    BY <1>3
  <2>4. \A x : x \in ToSet(t) <=> x \in ToSet(s) \/ x = e
    BY <1>3, <1>4, <1>5, <2>1, <2>2, <2>3
  <2> QED
    BY <2>4
<1> QED
  BY <1>2, <1>4, <1>6, <1>7 DEF t

(* nodeSetState moves a node from the list of its state to the head of another
   and changes nothing else.                                                *)
LEMMA NodeSetStateFacts ==
  ASSUME NEW p \in Pass, ListsOK(p), NEW n \in Node, NEW s \in NodeState
  PROVE  Relists(p, n, s, NodeSetState(p, n, s)) /\ NodeSetState(p, n, s).failed = p.failed
<1>0. PICK q : q = NodeSetState(p, n, s)
  OBVIOUS
<1> DEFINE old == p.state[n]
           cut == RemoveFirst(p.list[old], n)
           rest == IF s = old THEN cut ELSE p.list[s]
           list == [r \in NodeState |-> IF r = s THEN <<n>> \o rest ELSE IF r = old THEN cut ELSE p.list[r]]
<1>1. old \in NodeState /\ p.list \in [NodeState -> Seq(Node)] /\ p.state \in [Node -> NodeState]
  BY DEF Pass
<1>2. \A r \in NodeState : p.list[r] \in Seq(Node) /\ IsInjective(p.list[r])
                            /\ ToSet(p.list[r]) = {m \in Node : p.state[m] = r}
  BY <1>1 DEF ListsOK
<1>3. cut \in Seq(Node) /\ IsInjective(cut) /\ ToSet(cut) = {m \in Node : p.state[m] = old} \ {n}
  BY <1>1, <1>2, Unlink
<1>4. rest \in Seq(Node) /\ IsInjective(rest) /\ ToSet(rest) = {m \in Node : p.state[m] = s} \ {n}
  BY <1>2, <1>3
<1>5. /\ <<n>> \o rest \in Seq(Node) /\ IsInjective(<<n>> \o rest)
      /\ ToSet(<<n>> \o rest) = {m \in Node : p.state[m] = s} \cup {n}
  <2>1. n \notin ToSet(rest)
    BY <1>4
  <2> HIDE DEF rest
  <2>2. /\ <<n>> \o rest \in Seq(Node) /\ IsInjective(<<n>> \o rest)
        /\ ToSet(<<n>> \o rest) = ToSet(rest) \cup {n}
    BY <1>4, <2>1, Link
  <2> QED
    BY <2>2, <1>4
<1> HIDE DEF cut
<1>6. q = [p EXCEPT !.state = [p.state EXCEPT ![n] = s], !.list = list]
  <2>1. q = [p EXCEPT !.state[n] = s,
                      !.list = [[p.list EXCEPT ![old] = cut] EXCEPT ![s] = <<n>> \o @]]
    BY <1>0 DEF NodeSetState, cut
  <2>2. [[p.list EXCEPT ![old] = cut] EXCEPT ![s] = <<n>> \o @] = list
    BY <1>1
  <2> HIDE DEF list
  <2> QED
    BY <2>1, <2>2
<1>7. list \in [NodeState -> Seq(Node)]
  BY <1>1, <1>2, <1>3, <1>5
<1> HIDE DEF list
<1>8. q \in Pass /\ q.state = [p.state EXCEPT ![n] = s] /\ q.list = list
  <2> DEFINE st == [p.state EXCEPT ![n] = s]
  <2>1. st \in [Node -> NodeState]
    BY <1>1
  <2> HIDE DEF st
  <2>2. q = [p EXCEPT !.state = st, !.list = list]
    BY <1>6 DEF st
  <2>3. q.state = st /\ q.list = list
    BY <2>2 DEF Pass
  <2>4. q \in Pass
    BY <2>1, <2>2, <1>7 DEF Pass
  <2> QED
    BY <2>3, <2>4 DEF st
<1>9. ListsOK(q)
  <2>1. ASSUME NEW r \in NodeState
        PROVE  ToSet(list[r]) = {m \in Node : q.state[m] = r} /\ IsInjective(list[r])
    BY <1>1, <1>2, <1>3, <1>5, <1>8 DEF list
  <2> QED
    BY <1>8, <2>1 DEF ListsOK
<1>10. /\ q.degree = p.degree /\ q.adjSet = p.adjSet /\ q.adjArr = p.adjArr /\ q.movArr = p.movArr
       /\ q.alias = p.alias /\ q.color = p.color /\ q.movState = p.movState /\ q.movNext = p.movNext
       /\ q.movList = p.movList /\ q.failed = p.failed
  BY <1>6 DEF Pass
<1>11. /\ \A r \in NodeState \ {s, p.state[n]} : q.list[r] = p.list[r]
       /\ p.state[n] # s => q.list[s] = <<n>> \o p.list[s]
  BY <1>8 DEF list
<1>12. \A m \in Node : q.state[m] = IF m = n THEN s ELSE p.state[m]
  BY <1>1, <1>8
<1>13. p.state[n] # s /\ p.list[old] # <<>> /\ n = Head(p.list[old]) => q.list[old] = Tail(p.list[old])
  <2>1. p.list[old] # <<>> /\ n = Head(p.list[old]) => cut = Tail(p.list[old])
    BY <1>1, <1>2, UnlinkHead DEF cut
  <2> QED
    BY <1>1, <1>8, <2>1 DEF list
<1> QED
  BY <1>0, <1>8, <1>9, <1>10, <1>11, <1>12, <1>13 DEF Relists

-----------------------------------------------------------------------------
(* The range of a sequence. *)
LEMMA ElementsOf ==
  ASSUME NEW E, NEW s \in Seq(E)
  PROVE  /\ ToSet(s) \subseteq E /\ DOMAIN s = 1 .. Len(s) /\ Len(s) \in Nat
         /\ \A i \in 1 .. Len(s) : s[i] \in ToSet(s)
         /\ \A x \in ToSet(s) : \E i \in 1 .. Len(s) : x = s[i]
<1>1. DOMAIN s = 1 .. Len(s) /\ Len(s) \in Nat /\ \A i \in 1 .. Len(s) : s[i] \in E
  OBVIOUS
<1>2. \A x : x \in ToSet(s) <=> \E i \in 1 .. Len(s) : x = s[i]
  BY <1>1 DEF ToSet
<1>3. ToSet(s) \subseteq E
  BY <1>1, <1>2
<1>4. \A i \in 1 .. Len(s) : s[i] \in ToSet(s)
  BY <1>2
<1>5. \A x \in ToSet(s) : \E i \in 1 .. Len(s) : x = s[i]
  BY <1>2
<1> QED
  BY <1>1, <1>3, <1>4, <1>5

(* A failed check leaves a note and nothing else. *)
LEMMA CheckFacts ==
  ASSUME NEW p \in Pass, NEW name \in CheckName
  PROVE  /\ Notes(p, [p EXCEPT !.failed = @ \cup {name}])
         /\ [p EXCEPT !.failed = @ \cup {name}].failed = p.failed \cup {name}
         /\ Notes(p, p)
BY DEF Notes, Pass

(* Moving a move to another list. *)
LEMMA MovSetStateFacts ==
  ASSUME NEW p \in Pass, NEW m \in Mov, NEW s \in MovState
  PROVE  RelistsMove(p, m, s, MovSetState(p, m, s)) /\ MovSetState(p, m, s).failed = p.failed
<1>a. PICK q : q = MovSetState(p, m, s)
  OBVIOUS
<1> DEFINE old == p.movState[m]
           popped == IF p.movList[old] = m THEN [p.movList EXCEPT ![old] = p.movNext[m]] ELSE p.movList
           ms == [p.movState EXCEPT ![m] = s]
           mn == [p.movNext EXCEPT ![m] = popped[s]]
           ml == [popped EXCEPT ![s] = m]
<1>0. /\ p.movState \in [Mov -> MovState] /\ p.movNext \in [Mov -> Mov \cup {NULL}]
      /\ p.movList \in [MovState -> Mov \cup {NULL}] /\ old \in MovState
  BY DEF Pass
<1>1. popped \in [MovState -> Mov \cup {NULL}] /\ \A r \in MovState : popped[r] = Popped(p, m, r)
  BY <1>0 DEF Popped
<1>2. q = [p EXCEPT !.movState = ms, !.movNext = mn, !.movList = ml]
  BY <1>a DEF MovSetState
<1> HIDE DEF popped
<1>3. ms \in [Mov -> MovState] /\ mn \in [Mov -> Mov \cup {NULL}] /\ ml \in [MovState -> Mov \cup {NULL}]
  BY <1>0, <1>1
<1>4. /\ \A x \in Mov : ms[x] = IF x = m THEN s ELSE p.movState[x]
      /\ \A x \in Mov : mn[x] = IF x = m THEN Popped(p, m, s) ELSE p.movNext[x]
      /\ \A r \in MovState : ml[r] = IF r = s THEN m ELSE Popped(p, m, r)
  BY <1>0, <1>1
<1> HIDE DEF ms, mn, ml
<1>5. q.movState = ms /\ q.movNext = mn /\ q.movList = ml
  BY <1>2 DEF Pass
<1>6. q \in Pass
  BY <1>2, <1>3 DEF Pass
<1>7. /\ q.state = p.state /\ q.list = p.list /\ q.degree = p.degree /\ q.adjSet = p.adjSet
      /\ q.adjArr = p.adjArr /\ q.movArr = p.movArr /\ q.alias = p.alias /\ q.color = p.color
      /\ q.failed = p.failed
  BY <1>2 DEF Pass
<1> QED
  BY <1>a, <1>4, <1>5, <1>6, <1>7 DEF RelistsMove

-----------------------------------------------------------------------------
(* The linked list of moves is one as long as only its head leaves it. *)
LEMMA MovSetStateList ==
  ASSUME MovsOK, NEW p \in Pass, NEW m \in Mov, NEW s \in MovState, MoveListOK(p),
         p.movState[m] # "WORKLIST" \/ (m = p.movList["WORKLIST"] /\ s # "WORKLIST")
  PROVE  MoveListOK(MovSetState(p, m, s))
<1> DEFINE old == p.movState[m]
<1>0. PICK q : q = MovSetState(p, m, s)
  OBVIOUS
<1>1. /\ q \in Pass
      /\ \A x \in Mov : q.movState[x] = IF x = m THEN s ELSE p.movState[x]
      /\ \A x \in Mov : q.movNext[x] = IF x = m THEN Popped(p, m, s) ELSE p.movNext[x]
      /\ \A r \in MovState : q.movList[r] = IF r = s THEN m ELSE Popped(p, m, r)
  BY <1>0, MovSetStateFacts DEF RelistsMove
<1>2. PICK w \in Seq(Mov) : Spells(p, w)
  BY DEF MoveListOK
<1>3. /\ DOMAIN w = 1 .. Len(w) /\ Len(w) \in Nat /\ \A i \in 1 .. Len(w) : w[i] \in ToSet(w)
      /\ \A x \in ToSet(w) : \E i \in 1 .. Len(w) : x = w[i]
  BY <1>2, ElementsOf
<1>4. PICK k \in Nat : k = Len(w)
  BY <1>3
<1>5. IsInjective(w) /\ ToSet(w) = {x \in Mov : p.movState[x] = "WORKLIST"}
  BY <1>2 DEF Spells
<1>6. \A i \in 1 .. k : w[i] \in Mov /\ p.movState[w[i]] = "WORKLIST"
  BY <1>3, <1>4, <1>5
<1>7. \A x \in Mov : p.movState[x] = "WORKLIST" => \E i \in 1 .. k : x = w[i]
  BY <1>3, <1>4, <1>5
<1>8. \A i, j \in 1 .. k : w[i] = w[j] => i = j
  BY <1>3, <1>4, <1>5 DEF IsInjective
<1>9. p.movList["WORKLIST"] = IF k = 0 THEN NULL ELSE w[1]
  BY <1>2, <1>4 DEF Spells
<1>10. \A i \in 1 .. k : p.movNext[w[i]] = IF i = k THEN NULL ELSE w[i + 1]
  BY <1>2, <1>4 DEF Spells
<1>11. NULL \notin Mov
  <2>1. Mov \subseteq Nat
    BY DEF Mov, MovsOK
  <2> QED
    BY <2>1, InputAssumption
<1>12. ASSUME NEW v \in Seq(Mov), NEW l \in Nat, Len(v) = l,
              \A i, j \in 1 .. l : v[i] = v[j] => i = j,
              \A i \in 1 .. l : v[i] \in Mov /\ q.movState[v[i]] = "WORKLIST",
              \A x \in Mov : q.movState[x] = "WORKLIST" => \E i \in 1 .. l : x = v[i],
              q.movList["WORKLIST"] = IF l = 0 THEN NULL ELSE v[1],
              \A i \in 1 .. l : q.movNext[v[i]] = IF i = l THEN NULL ELSE v[i + 1]
       PROVE  MoveListOK(q)
  <2>1. /\ DOMAIN v = 1 .. l /\ \A i \in 1 .. l : v[i] \in ToSet(v)
        /\ \A x \in ToSet(v) : \E i \in 1 .. l : x = v[i]
    BY <1>12, ElementsOf
  <2>2. IsInjective(v)
    BY <1>12, <2>1 DEF IsInjective
  <2>3. ToSet(v) = {x \in Mov : q.movState[x] = "WORKLIST"}
    BY <1>12, <2>1
  <2>4. Spells(q, v)
    BY <1>12, <2>2, <2>3 DEF Spells
  <2> QED
    BY <2>4 DEF MoveListOK
<1>13. CASE old # "WORKLIST" /\ s = "WORKLIST"
  <2> DEFINE v == <<m>> \o w
  <2>1. /\ v \in Seq(Mov) /\ Len(v) = Len(w) + 1
        /\ v[1] = m /\ \A i \in 1 .. Len(w) : v[i + 1] = w[i]
    <3>1. m \notin ToSet(w)
      BY <1>5, <1>13
    <3> QED
      BY <1>5, <3>1, Link
  <2> HIDE DEF v
  <2>2. v \in Seq(Mov) /\ Len(v) = k + 1 /\ v[1] = m /\ \A i \in 1 .. k : v[i + 1] = w[i]
    BY <1>4, <2>1
  <2>3. \A i \in 1 .. k + 1 : i = 1 \/ (i - 1 \in 1 .. k /\ v[i] = w[i - 1])
    <3>1. \A i \in 1 .. k + 1 : i = 1 \/ (i - 1 \in 1 .. k /\ (i - 1) + 1 = i)
      OBVIOUS
    <3> QED
      BY <2>2, <3>1
  <2>4. \A i \in 1 .. k : w[i] # m
    BY <1>6, <1>13
  <2>5. \A i, j \in 1 .. k + 1 : v[i] = v[j] => i = j
    BY <1>8, <2>2, <2>3, <2>4
  <2>6. q.movState[m] = "WORKLIST" /\ \A x \in Mov \ {m} : q.movState[x] = p.movState[x]
    BY <1>1, <1>13
  <2>7. ASSUME NEW i \in 1 .. k + 1 PROVE v[i] \in Mov /\ q.movState[v[i]] = "WORKLIST"
    <3>1. CASE i = 1
      BY <3>1, <2>2, <2>6
    <3>2. CASE i # 1
      <4>1. i - 1 \in 1 .. k /\ v[i] = w[i - 1]
        BY <3>2, <2>3
      <4>2. w[i - 1] \in Mov /\ w[i - 1] # m /\ p.movState[w[i - 1]] = "WORKLIST"
        BY <4>1, <1>6, <2>4
      <4> QED
        BY <4>1, <4>2, <2>6
    <3> QED
      BY <3>1, <3>2
  <2>8. ASSUME NEW x \in Mov, q.movState[x] = "WORKLIST" PROVE \E i \in 1 .. k + 1 : x = v[i]
    <3>1. CASE x = m
      <4>1. 1 \in 1 .. k + 1
        OBVIOUS
      <4> QED
        BY <3>1, <4>1, <2>2
    <3>2. CASE x # m
      <4>1. PICK i \in 1 .. k : x = w[i]
        BY <3>2, <2>6, <2>8, <1>7
      <4>2. i + 1 \in 1 .. k + 1 /\ v[i + 1] = w[i]
        BY <2>2
      <4> QED
        BY <4>1, <4>2
    <3> QED
      BY <3>1, <3>2
  <2>9. q.movList["WORKLIST"] = v[1]
    BY <1>1, <1>13, <2>2
  <2>10. q.movNext[m] = IF k = 0 THEN NULL ELSE w[1]
    BY <1>1, <1>9, <1>13 DEF Popped
  <2>11. \A i \in 1 .. k : q.movNext[w[i]] = IF i = k THEN NULL ELSE w[i + 1]
    BY <1>1, <1>6, <1>10, <2>4
  <2>12. ASSUME NEW i \in 1 .. k + 1 PROVE q.movNext[v[i]] = IF i = k + 1 THEN NULL ELSE v[i + 1]
    <3>1. CASE i = 1
      <4>1. k # 0 => 1 \in 1 .. k /\ v[1 + 1] = w[1]
        BY <2>2
      <4> QED
        BY <3>1, <4>1, <2>2, <2>10
    <3>2. CASE i # 1
      <4>1. i - 1 \in 1 .. k /\ v[i] = w[i - 1] /\ (i - 1) + 1 = i
        BY <3>2, <2>3
      <4>2. i # k + 1 => i \in 1 .. k /\ v[i + 1] = w[i]
        BY <2>2
      <4>3. q.movNext[w[i - 1]] = IF i - 1 = k THEN NULL ELSE w[i]
        BY <4>1, <2>11
      <4> QED
        BY <4>1, <4>2, <4>3
    <3> QED
      BY <3>1, <3>2
  <2>13. k + 1 \in Nat /\ k + 1 # 0
    OBVIOUS
  <2>14. MoveListOK(q)
    BY <1>12, <2>2, <2>5, <2>7, <2>8, <2>9, <2>12, <2>13
  <2> QED
    BY <1>0, <2>14
<1>14. CASE old # "WORKLIST" /\ s # "WORKLIST"
  <2>1. \A i \in 1 .. k : w[i] # m
    BY <1>6, <1>14
  <2>2. q.movList["WORKLIST"] = p.movList["WORKLIST"]
    BY <1>1, <1>14 DEF MovState, Popped
  <2>3. \A i \in 1 .. k : q.movNext[w[i]] = p.movNext[w[i]]
    BY <1>1, <1>6, <2>1
  <2>4. \A x \in Mov : q.movState[x] = "WORKLIST" <=> p.movState[x] = "WORKLIST"
    BY <1>1, <1>14
  <2>5. /\ \A i \in 1 .. k : w[i] \in Mov /\ q.movState[w[i]] = "WORKLIST"
        /\ \A x \in Mov : q.movState[x] = "WORKLIST" => \E i \in 1 .. k : x = w[i]
    BY <1>6, <1>7, <2>4
  <2>6. /\ q.movList["WORKLIST"] = IF k = 0 THEN NULL ELSE w[1]
        /\ \A i \in 1 .. k : q.movNext[w[i]] = IF i = k THEN NULL ELSE w[i + 1]
    BY <1>9, <1>10, <2>2, <2>3
  <2>7. MoveListOK(q)
    BY <1>4, <1>8, <1>12, <2>5, <2>6
  <2> QED
    BY <1>0, <2>7
<1>15. CASE old = "WORKLIST" /\ m = p.movList["WORKLIST"] /\ s # "WORKLIST"
  <2> DEFINE v == Tail(w)
  <2>1. k # 0 /\ w[1] = m
    BY <1>9, <1>11, <1>15
  <2>2. /\ v \in Seq(Mov) /\ Len(v) = k - 1 /\ k - 1 \in Nat
        /\ \A i \in 1 .. k - 1 : v[i] = w[i + 1]
    <3>1. w # <<>>
      BY <1>4, <2>1
    <3>2. v \in Seq(Mov) /\ Len(v) = Len(w) - 1 /\ \A i \in 1 .. Len(v) : v[i] = w[i + 1]
      BY <3>1, HeadTailProperties
    <3> QED
      BY <1>4, <2>1, <3>2
  <2> HIDE DEF v
  <2>3. \A i \in 1 .. k - 1 : i + 1 \in 1 .. k /\ i \in 1 .. k /\ i + 1 # 1
    OBVIOUS
  <2>4. \A i \in 1 .. k - 1 : v[i] = w[i + 1] /\ v[i] # m
    BY <1>8, <2>1, <2>2, <2>3
  <2>5. \A i, j \in 1 .. k - 1 : v[i] = v[j] => i = j
    <3>1. \A i, j \in 1 .. k - 1 : v[i] = v[j] => i + 1 = j + 1
      BY <1>8, <2>2, <2>3
    <3> QED
      BY <3>1
  <2>6. q.movState[m] # "WORKLIST" /\ \A x \in Mov \ {m} : q.movState[x] = p.movState[x]
    BY <1>1, <1>15
  <2>7. \A i \in 1 .. k - 1 : v[i] \in Mov /\ q.movState[v[i]] = "WORKLIST"
    BY <1>6, <2>3, <2>4, <2>6
  <2>8. ASSUME NEW x \in Mov, q.movState[x] = "WORKLIST" PROVE \E i \in 1 .. k - 1 : x = v[i]
    <3>1. x # m /\ p.movState[x] = "WORKLIST"
      BY <2>6, <2>8
    <3>2. PICK i \in 1 .. k : x = w[i]
      BY <1>7, <3>1
    <3>3. i # 1
      BY <2>1, <3>1, <3>2
    <3>4. i - 1 \in 1 .. k - 1 /\ (i - 1) + 1 = i
      BY <3>3
    <3>5. v[i - 1] = w[i]
      BY <2>2, <3>4
    <3> QED
      BY <3>2, <3>4, <3>5
  <2>9. q.movList["WORKLIST"] = IF k - 1 = 0 THEN NULL ELSE v[1]
    <3>1. q.movList["WORKLIST"] = p.movNext[m]
      BY <1>1, <1>15 DEF MovState, Popped
    <3>2. 1 \in 1 .. k /\ p.movNext[m] = IF 1 = k THEN NULL ELSE w[1 + 1]
      BY <1>10, <2>1
    <3>3. k # 1 => 1 \in 1 .. k - 1 /\ v[1] = w[1 + 1]
      BY <2>1, <2>2
    <3> QED
      BY <3>1, <3>2, <3>3
  <2>10. ASSUME NEW i \in 1 .. k - 1 PROVE q.movNext[v[i]] = IF i = k - 1 THEN NULL ELSE v[i + 1]
    <3>1. q.movNext[w[i + 1]] = p.movNext[w[i + 1]]
      BY <1>1, <1>6, <2>3, <2>4
    <3>2. p.movNext[w[i + 1]] = IF i + 1 = k THEN NULL ELSE w[(i + 1) + 1]
      BY <1>10, <2>3
    <3>3. i # k - 1 => i + 1 \in 1 .. k - 1 /\ v[i + 1] = w[(i + 1) + 1]
      BY <2>2
    <3> QED
      BY <3>1, <3>2, <3>3, <2>4
  <2>11. MoveListOK(q)
    BY <1>12, <2>2, <2>5, <2>7, <2>8, <2>9, <2>10
  <2> QED
    BY <1>0, <2>11
<1> QED
  BY <1>13, <1>14, <1>15

-----------------------------------------------------------------------------
(* Waking moves *)

(* Nothing is woken by doing nothing. *)
LEMMA WakesNone ==
  ASSUME NEW p \in Pass
  PROVE  Wakes(p, p)
BY DEF Wakes

(* Waking twice is waking. *)
LEMMA WakesTwice ==
  ASSUME NEW p \in Pass, NEW q \in Pass, NEW r \in Pass, Wakes(p, q), Wakes(q, r)
  PROVE  Wakes(p, r)
<1>1. \A m \in Mov : r.movState[m] = p.movState[m] \/ (p.movState[m] = "ACTIVE" /\ r.movState[m] = "WORKLIST")
  BY DEF Wakes
<1> QED
  BY <1>1 DEF Wakes

(* One turn of enableMove. *)
LEMMA WakeMoveWakes ==
  ASSUME MovsOK, NEW p \in Pass, NEW m \in Mov
  PROVE  Wakes(p, WakeMove(NULL, p, m))
<1>1. CASE p.movState[m] # "ACTIVE"
  <2>1. WakeMove(NULL, p, m) = p
    BY <1>1 DEF WakeMove
  <2> QED
    BY <2>1, WakesNone
<1>2. CASE p.movState[m] = "ACTIVE"
  <2>1. PICK q : q = MovSetState(p, m, "WORKLIST")
    OBVIOUS
  <2>2. "WORKLIST" \in MovState
    BY DEF MovState
  <2>3. /\ q \in Pass
        /\ \A x \in Mov : q.movState[x] = IF x = m THEN "WORKLIST" ELSE p.movState[x]
        /\ q.state = p.state /\ q.list = p.list /\ q.degree = p.degree /\ q.adjSet = p.adjSet
        /\ q.adjArr = p.adjArr /\ q.movArr = p.movArr /\ q.alias = p.alias /\ q.color = p.color
        /\ q.failed = p.failed
    BY <2>1, <2>2, MovSetStateFacts DEF RelistsMove
  <2>4. MoveListOK(p) => MoveListOK(q)
    BY <1>2, <2>1, <2>2, MovSetStateList
  <2>5. Wakes(p, q)
    BY <1>2, <2>3, <2>4 DEF Wakes
  <2> QED
    BY <1>2, <2>1, <2>5 DEF WakeMove
<1> QED
  BY <1>1, <1>2

(* enableMove wakes moves and does nothing else. *)
LEMMA EnableMoveWakes ==
  ASSUME MovsOK, NEW p \in Pass, NEW n \in Node
  PROVE  Wakes(p, EnableMove(p, n)) /\ EnableMove(p, n) \in Pass
<1> DEFINE V == {q \in Pass : Wakes(p, q)}
           s == p.movArr[n]
<1>1. s \in Seq(Mov)
  BY DEF Pass
<1>2. p \in V
  BY WakesNone
<1>3. WakeLoop!Closed(V, NULL, s)
  <2>1. ASSUME NEW i \in DOMAIN s, NEW v \in V PROVE WakeMove(NULL, v, s[i]) \in V
    <3>1. s[i] \in Mov
      BY <1>1
    <3>2. Wakes(v, WakeMove(NULL, v, s[i]))
      BY <3>1, WakeMoveWakes
    <3>3. WakeMove(NULL, v, s[i]) \in Pass
      BY <3>2 DEF Wakes
    <3> QED
      BY <3>2, <3>3, WakesTwice
  <2> QED
    BY <2>1 DEF WakeLoop!Closed
<1>4. EnableMove(p, n) = WakeLoop!Fold(NULL, p, s)
  BY DEF EnableMove, WakeMove, WakeLoop!Fold, WakeLoop!FoldLeft, FoldLeft,
         WakeLoop!MapThenFoldSet, MapThenFoldSet, WakeLoop!Max, Max
<1> HIDE DEF V, s
<1>5. WakeLoop!Fold(NULL, p, s) \in V
  BY <1>1, <1>2, <1>3, WakeLoop!FoldInvariant
<1> QED
  BY <1>4, <1>5 DEF V

(* So does waking the moves of the neighbours. *)
LEMMA ForAdjacentWakes ==
  ASSUME MovsOK, NEW p \in Pass, NEW n \in Node
  PROVE  Wakes(p, ForAdjacent(p, n, EnableMove)) /\ ForAdjacent(p, n, EnableMove) \in Pass
<1> DEFINE V == {q \in Pass : Wakes(p, q)}
           s == p.adjArr[n]
<1>1. s \in Seq(Node)
  BY DEF Pass
<1>2. p \in V
  BY WakesNone
<1>3. WakeAroundLoop!Closed(V, NULL, s)
  <2>1. ASSUME NEW i \in DOMAIN s, NEW v \in V PROVE WakeAround(NULL, v, s[i]) \in V
    <3>1. s[i] \in Node
      BY <1>1
    <3>2. Wakes(v, EnableMove(v, s[i])) /\ EnableMove(v, s[i]) \in Pass
      BY <3>1, EnableMoveWakes
    <3>3. Wakes(p, EnableMove(v, s[i]))
      BY <3>2, WakesTwice
    <3> QED
      BY <3>2, <3>3 DEF WakeAround
  <2> QED
    BY <2>1 DEF WakeAroundLoop!Closed
<1>4. ForAdjacent(p, n, EnableMove) = WakeAroundLoop!Fold(NULL, p, s)
  BY DEF ForAdjacent, WakeAround, WakeAroundLoop!Fold, WakeAroundLoop!FoldLeft, FoldLeft,
         WakeAroundLoop!MapThenFoldSet, MapThenFoldSet, WakeAroundLoop!Max, Max
<1> HIDE DEF V, s
<1>5. WakeAroundLoop!Fold(NULL, p, s) \in V
  BY <1>1, <1>2, <1>3, WakeAroundLoop!FoldInvariant
<1> QED
  BY <1>4, <1>5 DEF V

-----------------------------------------------------------------------------
(* A move is pending or not whether or not it was woken. *)
LEMMA WakesRelated ==
  ASSUME NEW p \in Pass, NEW q \in Pass, NEW n \in Node, q.movArr = p.movArr,
         \A m \in Mov : MovPending(q, m) <=> MovPending(p, m)
  PROVE  MoveRelated(q, n) <=> MoveRelated(p, n)
<1>1. ToSet(p.movArr[n]) \subseteq Mov
  <2>1. p.movArr[n] \in Seq(Mov)
    BY DEF Pass
  <2> QED
    BY <2>1, ElementsOf
<1> QED
  BY <1>1 DEF MoveRelated

(* nodeDecrementDegree. *)
LEMMA DecrementDegreeFacts ==
  ASSUME MovsOK, NEW p \in Pass, ListsOK(p), NEW n \in Node
  PROVE  Decrements(p, n, DecrementDegree(p, n))
<1>1. PICK q : q = DecrementDegree(p, n)
  OBVIOUS
<1>2. CASE Precolored(p, n)
  <2>1. q = p
    BY <1>1, <1>2 DEF DecrementDegree
  <2> QED
    BY <1>1, <1>2, <2>1 DEF Decrements
<1>3. PICK dec : dec = [p EXCEPT !.degree[n] = @ - 1]
  OBVIOUS
<1>4. /\ dec \in Pass /\ dec.state = p.state /\ dec.list = p.list /\ dec.adjSet = p.adjSet /\ dec.adjArr = p.adjArr
      /\ dec.movArr = p.movArr /\ dec.alias = p.alias /\ dec.color = p.color /\ dec.failed = p.failed
      /\ dec.movState = p.movState /\ dec.movNext = p.movNext /\ dec.movList = p.movList
      /\ \A m \in Node : dec.degree[m] = IF m = n THEN p.degree[m] - 1 ELSE p.degree[m]
  <2> DEFINE d == [p.degree EXCEPT ![n] = @ - 1]
  <2>1. p.degree \in [Node -> Int]
    BY DEF Pass
  <2>2. d \in [Node -> Int] /\ \A m \in Node : d[m] = IF m = n THEN p.degree[m] - 1 ELSE p.degree[m]
    BY <2>1
  <2>3. dec = [p EXCEPT !.degree = d]
    BY <1>3
  <2> HIDE DEF d
  <2>4. dec.degree = d
    BY <2>3 DEF Pass
  <2>5. dec \in Pass
    BY <2>2, <2>3 DEF Pass
  <2>6. /\ dec.state = p.state /\ dec.list = p.list /\ dec.adjSet = p.adjSet /\ dec.adjArr = p.adjArr
        /\ dec.movArr = p.movArr /\ dec.alias = p.alias /\ dec.color = p.color /\ dec.failed = p.failed
        /\ dec.movState = p.movState /\ dec.movNext = p.movNext /\ dec.movList = p.movList
    BY <2>3 DEF Pass
  <2> QED
    BY <2>2, <2>4, <2>5, <2>6
<1>5. MoveListOK(p) => MoveListOK(dec)
  BY <1>4 DEF MoveListOK, Spells
<1>6. ListsOK(dec)
  BY <1>4 DEF ListsOK
<1>7. CASE ~Precolored(p, n) /\ p.degree[n] # K
  <2>1. q = dec
    BY <1>1, <1>3, <1>7 DEF DecrementDegree
  <2> QED
    BY <1>1, <1>4, <1>5, <1>6, <1>7, <2>1 DEF Decrements
<1>8. CASE ~Precolored(p, n) /\ p.degree[n] = K
  <2>1. PICK woke \in Pass : woke = EnableMove(dec, n) /\ Wakes(dec, woke)
    BY <1>4, EnableMoveWakes
  <2>2. PICK woken \in Pass : woken = ForAdjacent(woke, n, EnableMove) /\ Wakes(woke, woken)
    BY <2>1, ForAdjacentWakes
  <2>3. Wakes(dec, woken)
    BY <1>4, <2>1, <2>2, WakesTwice
  <2>4. PICK checked : checked = Check(woken, "decrement", woken.state[n] = "SPILL")
    OBVIOUS
  <2>5. /\ checked \in Pass
        /\ checked.failed = IF woken.state[n] = "SPILL" THEN woken.failed ELSE woken.failed \cup {"decrement"}
        /\ checked.state = woken.state /\ checked.list = woken.list /\ checked.degree = woken.degree
        /\ checked.adjSet = woken.adjSet /\ checked.adjArr = woken.adjArr /\ checked.movArr = woken.movArr
        /\ checked.alias = woken.alias /\ checked.color = woken.color
        /\ checked.movState = woken.movState /\ checked.movNext = woken.movNext /\ checked.movList = woken.movList
    <3>1. "decrement" \in CheckName
      BY DEF CheckName
    <3>2. Notes(woken, checked)
      BY <2>4, <3>1, CheckFacts DEF Check
    <3>3. checked.failed = IF woken.state[n] = "SPILL" THEN woken.failed ELSE woken.failed \cup {"decrement"}
      BY <2>4, <3>1, CheckFacts DEF Check
    <3> QED
      BY <3>2, <3>3 DEF Notes
  <2>6. /\ checked.state = p.state /\ checked.list = p.list /\ checked.adjSet = p.adjSet /\ checked.adjArr = p.adjArr
        /\ checked.movArr = p.movArr /\ checked.alias = p.alias /\ checked.color = p.color
        /\ checked.degree = dec.degree
        /\ checked.failed = IF p.state[n] = "SPILL" THEN p.failed ELSE p.failed \cup {"decrement"}
    BY <1>4, <2>3, <2>5 DEF Wakes
  <2>7. \A m \in Mov : checked.movState[m] = p.movState[m]
                       \/ (p.movState[m] = "ACTIVE" /\ checked.movState[m] = "WORKLIST")
    BY <1>4, <2>3, <2>5 DEF Wakes
  <2>8. MoveListOK(p) => MoveListOK(checked)
    <3>1. MoveListOK(woken) => MoveListOK(checked)
      BY <2>5 DEF MoveListOK, Spells
    <3> QED
      BY <1>5, <2>3, <3>1 DEF Wakes
  <2>9. MoveRelated(checked, n) <=> MoveRelated(p, n)
    <3>1. \A m \in Mov : MovPending(checked, m) <=> MovPending(p, m)
      BY <2>7 DEF MovPending
    <3> QED
      BY <2>5, <2>6, <3>1, WakesRelated
  <2>10. PICK s : s = IF MoveRelated(p, n) THEN "FREEZE" ELSE "SIMPLIFY"
    OBVIOUS
  <2>11. s \in NodeState
    BY <2>10 DEF NodeState
  <2>12. q = NodeSetState(checked, n, s)
    BY <1>1, <1>3, <1>8, <2>1, <2>2, <2>4, <2>9, <2>10 DEF DecrementDegree
  <2>13. ListsOK(checked)
    BY <2>6 DEF ListsOK
  <2>14. /\ q \in Pass /\ ListsOK(q)
         /\ \A m \in Node : q.state[m] = IF m = n THEN s ELSE checked.state[m]
         /\ q.degree = checked.degree /\ q.adjSet = checked.adjSet /\ q.adjArr = checked.adjArr
         /\ q.movArr = checked.movArr /\ q.alias = checked.alias /\ q.color = checked.color
         /\ q.movState = checked.movState /\ q.movNext = checked.movNext /\ q.movList = checked.movList
         /\ q.failed = checked.failed
         /\ \A r \in NodeState \ {s, checked.state[n]} : q.list[r] = checked.list[r]
    <3>1. checked \in Pass
      BY <2>5
    <3>2. Relists(checked, n, s, q) /\ q.failed = checked.failed
      BY <2>11, <2>12, <2>13, <3>1, NodeSetStateFacts
    <3> QED
      BY <3>2 DEF Relists
  <2>15. MoveListOK(p) => MoveListOK(q)
    BY <2>8, <2>14 DEF MoveListOK, Spells
  <2>16. /\ \A m \in Node : q.state[m] = IF m = n THEN s ELSE p.state[m]
         /\ \A r \in NodeState \ {s, p.state[n]} : q.list[r] = p.list[r]
         /\ q.failed = IF p.state[n] = "SPILL" THEN p.failed ELSE p.failed \cup {"decrement"}
    BY <2>6, <2>14
  <2>17. /\ q.adjSet = p.adjSet /\ q.adjArr = p.adjArr /\ q.movArr = p.movArr /\ q.alias = p.alias
         /\ q.color = p.color
         /\ \A m \in Node : q.degree[m] = IF m = n THEN p.degree[m] - 1 ELSE p.degree[m]
         /\ \A m \in Mov : q.movState[m] = p.movState[m] \/ (p.movState[m] = "ACTIVE" /\ q.movState[m] = "WORKLIST")
    BY <1>4, <2>6, <2>7, <2>14
  <2> QED
    BY <1>1, <1>8, <2>10, <2>14, <2>15, <2>16, <2>17 DEF Decrements
<1> QED
  BY <1>2, <1>7, <1>8

-----------------------------------------------------------------------------
(* Nodes and moves change lists *)

(* The list of moves is as it was if its fields are. *)
LEMMA SameMoveList ==
  ASSUME NEW p, NEW q, q.movState = p.movState, q.movNext = p.movNext, q.movList = p.movList
  PROVE  MoveListOK(p) => MoveListOK(q)
BY DEF MoveListOK, Spells

(* Doing nothing is calm. *)
LEMMA CalmNone ==
  ASSUME NEW p \in Pass, ListsOK(p)
  PROVE  Calm(p, p)
BY DEF Calm, Stays

(* What stays through two parts of a step stays through both. *)
LEMMA StaysTwice ==
  ASSUME NEW p \in Pass, NEW q \in Pass, NEW r \in Pass, Stays(p, q), Stays(q, r)
  PROVE  Stays(p, r)
<1>1. \A m \in Mov : r.movState[m] = p.movState[m] \/ (MovPending(p, m) /\ r.movState[m] # "ALLOCATED")
  BY DEF Stays, MovPending
<1>2. \A m \in Mov : MovPending(r, m) => MovPending(q, m)
  BY DEF Stays, MovPending
<1>3. \A n \in Node : MoveRelated(r, n) => MoveRelated(q, n)
  <2>1. \A n \in Node : ToSet(q.movArr[n]) \subseteq Mov
    <3>1. \A n \in Node : q.movArr[n] \in Seq(Mov)
      BY DEF Pass
    <3> QED
      BY <3>1, ElementsOf
  <2>2. r.movArr = q.movArr
    BY DEF Stays
  <2> QED
    BY <1>2, <2>1, <2>2 DEF MoveRelated
<1>4. \A n \in Node : r.state[n] = "SIMPLIFY" => p.state[n] = "SIMPLIFY" \/ ~MoveRelated(r, n)
  BY <1>3 DEF Stays
<1>5. \A n \in Node : IF p.state[n] \in Listed
                      THEN r.state[n] \in Listed /\ (r.state[n] = "INITIAL" => p.state[n] = "INITIAL")
                      ELSE r.state[n] = p.state[n]
  BY DEF Stays
<1> QED
  BY <1>1, <1>4, <1>5 DEF Stays

(* The same for what is calm. *)
LEMMA CalmTwice ==
  ASSUME NEW p \in Pass, NEW q \in Pass, NEW r \in Pass, Calm(p, q), Calm(q, r)
  PROVE  Calm(p, r)
BY StaysTwice DEF Calm

(* While the graph is reduced it is reduced whatever stays. *)
LEMMA StaysReducing ==
  ASSUME NEW p, NEW q, Stays(p, q), Reducing(p)
  PROVE  Reducing(q)
BY DEF Stays, Reducing, Listed

(* A node that is in the graph changes lists. *)
LEMMA RelistsCalm ==
  ASSUME NEW p \in Pass, ListsOK(p), NEW n \in Node, NEW s \in Listed \ {"INITIAL"}, NEW q,
         Relists(p, n, s, q), p.state[n] \in Listed,
         s = "SIMPLIFY" => p.state[n] = "SIMPLIFY" \/ ~MoveRelated(p, n)
  PROVE  Calm(p, q) /\ q \in Pass
<1>1. q \in Pass /\ ListsOK(q)
  BY DEF Relists
<1>2. \A m \in Mov : MovPending(q, m) <=> MovPending(p, m)
  BY DEF Relists, MovPending
<1>3. MoveRelated(q, n) <=> MoveRelated(p, n)
  BY <1>1, <1>2, WakesRelated DEF Relists
<1>4. \A m \in Node : q.state[m] = "SIMPLIFY" => p.state[m] = "SIMPLIFY" \/ ~MoveRelated(q, m)
  BY <1>3 DEF Relists
<1>5. \A r \in NodeState \ Listed : q.list[r] = p.list[r]
  BY DEF Relists
<1>6. \A m \in Node : IF p.state[m] \in Listed
                      THEN q.state[m] \in Listed /\ (q.state[m] = "INITIAL" => p.state[m] = "INITIAL")
                      ELSE q.state[m] = p.state[m]
  BY DEF Relists
<1>7. /\ q.movArr = p.movArr /\ q.alias = p.alias /\ q.color = p.color /\ q.movState = p.movState
      /\ q.adjSet = p.adjSet /\ q.adjArr = p.adjArr
  BY DEF Relists
<1>8. MoveListOK(p) => MoveListOK(q)
  <2>1. q.movState = p.movState /\ q.movNext = p.movNext /\ q.movList = p.movList
    BY DEF Relists
  <2> QED
    BY <2>1, SameMoveList
<1> QED
  BY <1>1, <1>4, <1>5, <1>6, <1>7, <1>8 DEF Calm, Stays

(* A note first makes no difference to the node that changes lists. *)
LEMMA NotesRelists ==
  ASSUME NEW p \in Pass, NEW r, Notes(p, r), NEW n \in Node, NEW s \in NodeState, NEW q, Relists(r, n, s, q)
  PROVE  Relists(p, n, s, q)
BY DEF Notes, Relists

(* nodeAddWorklist and the end of nodeFreezeMoves. *)
LEMMA SimplifyIfIdleFacts ==
  ASSUME NEW p \in Pass, ListsOK(p), NEW n \in Node, NEW name \in CheckName
  PROVE  Idles(p, n, name, SimplifyIfIdle(p, n, name))
<1>0. PICK q : q = SimplifyIfIdle(p, n, name)
  OBVIOUS
<1>1. CASE Precolored(p, n) \/ MoveRelated(p, n) \/ Significant(p, n)
  BY <1>0, <1>1 DEF SimplifyIfIdle, Idles
<1>2. CASE ~(Precolored(p, n) \/ MoveRelated(p, n) \/ Significant(p, n))
  <2>1. PICK r : r = IF p.state[n] = "FREEZE" THEN p ELSE [p EXCEPT !.failed = @ \cup {name}]
    OBVIOUS
  <2>2. q = NodeSetState(r, n, "SIMPLIFY")
    BY <1>0, <1>2, <2>1 DEF SimplifyIfIdle, Check
  <2>3. Notes(p, r) /\ r.failed = IF p.state[n] = "FREEZE" THEN p.failed ELSE p.failed \cup {name}
    BY <2>1, CheckFacts
  <2>4. r \in Pass /\ ListsOK(r)
    BY <2>3 DEF Notes, ListsOK
  <2>5. "SIMPLIFY" \in NodeState
    BY DEF NodeState
  <2>6. Relists(r, n, "SIMPLIFY", q) /\ q.failed = r.failed
    BY <2>2, <2>4, <2>5, NodeSetStateFacts
  <2>7. Relists(p, n, "SIMPLIFY", q)
    BY <2>3, <2>5, <2>6, NotesRelists
  <2> QED
    BY <1>0, <1>2, <2>3, <2>6, <2>7 DEF Idles
<1> QED
  BY <1>1, <1>2

(* A node that is in the graph is simplified if it can be. *)
LEMMA SimplifyIfIdleCalm ==
  ASSUME NEW p \in Pass, ListsOK(p), NEW n \in Node, NEW name \in CheckName,
         p.state[n] \in Listed \cup {"PRECOLORED"}
  PROVE  Calm(p, SimplifyIfIdle(p, n, name)) /\ SimplifyIfIdle(p, n, name) \in Pass
<1>1. PICK q : q = SimplifyIfIdle(p, n, name)
  OBVIOUS
<1>2. CASE q = p
  BY <1>1, <1>2, CalmNone
<1>3. CASE q # p
  <2>1. ~Precolored(p, n) /\ ~MoveRelated(p, n) /\ Relists(p, n, "SIMPLIFY", q)
    BY <1>1, <1>3, SimplifyIfIdleFacts DEF Idles
  <2>2. "SIMPLIFY" \in Listed \ {"INITIAL"} /\ p.state[n] \in Listed
    BY <2>1 DEF Listed, Precolored
  <2>3. Calm(p, q) /\ q \in Pass
    BY <2>1, <2>2, RelistsCalm
  <2> QED
    BY <1>1, <2>3
<1> QED
  BY <1>2, <1>3

(* A node that is in the graph loses a neighbour. *)
LEMMA DecrementDegreeCalm ==
  ASSUME MovsOK, NEW p \in Pass, ListsOK(p), NEW n \in Node, p.state[n] \in Listed \cup {"PRECOLORED"}
  PROVE  Calm(p, DecrementDegree(p, n)) /\ DecrementDegree(p, n) \in Pass
<1>1. PICK q : q = DecrementDegree(p, n)
  OBVIOUS
<1>2. Decrements(p, n, q)
  BY <1>1, DecrementDegreeFacts
<1>3. /\ q \in Pass /\ ListsOK(q) /\ q.adjSet = p.adjSet /\ q.adjArr = p.adjArr /\ q.movArr = p.movArr
      /\ q.alias = p.alias /\ q.color = p.color /\ (MoveListOK(p) => MoveListOK(q))
  BY <1>2 DEF Decrements
<1>4. \A m \in Mov : q.movState[m] = p.movState[m] \/ (p.movState[m] = "ACTIVE" /\ q.movState[m] = "WORKLIST")
  BY <1>2 DEF Decrements
<1>5. \A m \in Mov : MovPending(q, m) <=> MovPending(p, m)
  BY <1>4 DEF MovPending
<1>6. \A m \in Mov : q.movState[m] = p.movState[m] \/ (MovPending(p, m) /\ q.movState[m] # "ALLOCATED")
  BY <1>4 DEF MovPending
<1>7. MoveRelated(q, n) <=> MoveRelated(p, n)
  BY <1>3, <1>5, WakesRelated
<1>8. CASE Precolored(p, n) \/ p.degree[n] # K
  <2>1. q.state = p.state /\ q.list = p.list
    BY <1>2, <1>8 DEF Decrements
  <2>2. Calm(p, q)
    BY <1>3, <1>6, <2>1 DEF Calm, Stays
  <2> QED
    BY <1>1, <1>3, <2>2
<1>9. CASE ~(Precolored(p, n) \/ p.degree[n] # K)
  <2>1. PICK s : s = IF MoveRelated(p, n) THEN "FREEZE" ELSE "SIMPLIFY"
    OBVIOUS
  <2>2. /\ \A m \in Node : q.state[m] = IF m = n THEN s ELSE p.state[m]
        /\ \A r \in NodeState \ {s, p.state[n]} : q.list[r] = p.list[r]
    BY <1>2, <1>9, <2>1 DEF Decrements
  <2>3. s \in Listed /\ s # "INITIAL" /\ p.state[n] \in Listed
    BY <1>9, <2>1 DEF Listed, Precolored
  <2>4. \A m \in Node : q.state[m] = "SIMPLIFY" => p.state[m] = "SIMPLIFY" \/ ~MoveRelated(q, m)
    BY <1>7, <2>1, <2>2
  <2>5. \A r \in NodeState \ Listed : q.list[r] = p.list[r]
    BY <2>2, <2>3
  <2>6. \A m \in Node : IF p.state[m] \in Listed
                        THEN q.state[m] \in Listed /\ (q.state[m] = "INITIAL" => p.state[m] = "INITIAL")
                        ELSE q.state[m] = p.state[m]
    BY <2>2, <2>3
  <2>7. Calm(p, q)
    BY <1>3, <1>6, <2>4, <2>5, <2>6 DEF Calm, Stays
  <2> QED
    BY <1>1, <1>3, <2>7
<1> QED
  BY <1>8, <1>9

(* All the neighbours of a node lose it. *)
LEMMA DecrementNeighboursCalm ==
  ASSUME MovsOK, NEW p \in Pass, ListsOK(p), Reducing(p), NEW n \in Node
  PROVE  Calm(p, ForAdjacent(p, n, DecrementDegree)) /\ ForAdjacent(p, n, DecrementDegree) \in Pass
<1> DEFINE V == {q \in Pass : Calm(p, q)}
           s == p.adjArr[n]
<1>1. s \in Seq(Node)
  BY DEF Pass
<1>2. p \in V
  BY CalmNone
<1>3. DecrementLoop!Closed(V, NULL, s)
  <2>1. ASSUME NEW i \in DOMAIN s, NEW v \in V PROVE DecrementAround(NULL, v, s[i]) \in V
    <3>1. s[i] \in Node
      BY <1>1
    <3>2. CASE ~InGraph(v, s[i])
      BY <3>2 DEF DecrementAround
    <3>3. CASE InGraph(v, s[i])
      <4>1. Reducing(v) /\ ListsOK(v)
        BY StaysReducing DEF Calm, Stays
      <4>2. v.state[s[i]] \in Listed \cup {"PRECOLORED"}
        BY <3>1, <3>3, <4>1 DEF Reducing, InGraph
      <4>3. Calm(v, DecrementDegree(v, s[i])) /\ DecrementDegree(v, s[i]) \in Pass
        BY <3>1, <4>1, <4>2, DecrementDegreeCalm
      <4>4. Calm(p, DecrementDegree(v, s[i]))
        BY <4>3, CalmTwice
      <4> QED
        BY <3>3, <4>3, <4>4 DEF DecrementAround
    <3> QED
      BY <3>2, <3>3
  <2> QED
    BY <2>1 DEF DecrementLoop!Closed
<1>4. ForAdjacent(p, n, DecrementDegree) = DecrementLoop!Fold(NULL, p, s)
  BY DEF ForAdjacent, DecrementAround, DecrementLoop!Fold, DecrementLoop!FoldLeft, FoldLeft,
         DecrementLoop!MapThenFoldSet, MapThenFoldSet, DecrementLoop!Max, Max
<1> HIDE DEF V, s
<1>5. DecrementLoop!Fold(NULL, p, s) \in V
  BY <1>1, <1>2, <1>3, DecrementLoop!FoldInvariant
<1> QED
  BY <1>4, <1>5 DEF V

-----------------------------------------------------------------------------
(* Aliases *)

(* Two ways to follow the aliases to where they end agree. *)
LEMMA AliasUnique ==
  ASSUME NEW alias, Acyclic(alias), NEW Stop, NEW f, NEW g, Follows(f, alias, Stop), Follows(g, alias, Stop)
  PROVE  \A m \in Node : f[m] = g[m]
<1> DEFINE S == {m \in Node : f[m] # g[m]}
<1> SUFFICES ASSUME S # {} PROVE FALSE
  OBVIOUS
<1>1. PICK n \in S : alias[n] \notin S
  BY DEF Acyclic
<1>2. n \notin Stop
  BY DEF Follows
<1>3. f[alias[n]] = g[alias[n]]
  BY <1>1, <1>2 DEF Follows
<1> QED
  BY <1>2, <1>3 DEF Follows

(* GetAlias follows the aliases of coalesced nodes to their end. *)
LEMMA GetAliasIs ==
  ASSUME NEW p \in Pass, Acyclic(p.alias), \A n \in Node : p.state[n] = "COALESCED" => p.alias[n] # NULL,
         NEW g, AliasMap(p, g)
  PROVE  \A n \in Node : GetAlias(p, n) = g[n]
<1> DEFINE It(f) == f = [m \in Node |-> IF p.state[m] = "COALESCED" THEN f[p.alias[m]] ELSE m]
           f0 == CHOOSE f : It(f)
           Stop == {m \in Node : p.state[m] # "COALESCED"}
<1>1. \A n : GetAlias(p, n) = f0[n]
  BY DEF GetAlias
<1>2. It(g)
  BY DEF AliasMap
<1>3. It(f0)
  <2> HIDE DEF It
  <2> QED
    BY <1>2
<1> HIDE DEF f0
<1>4. \A m \in Node : f0[m] = IF m \in Stop THEN m ELSE f0[p.alias[m]]
  BY <1>3
<1>5. \A m \in Node : g[m] = IF m \in Stop THEN m ELSE g[p.alias[m]]
  BY DEF AliasMap
<1>6. \A m \in Node : m \notin Stop => p.alias[m] \in Node
  BY DEF Pass
<1>7. Follows(f0, p.alias, Stop) /\ Follows(g, p.alias, Stop)
  BY <1>4, <1>5, <1>6 DEF Follows
<1> HIDE DEF Stop
<1>8. \A m \in Node : f0[m] = g[m]
  BY <1>7, AliasUnique
<1> QED
  BY <1>1, <1>8

(* While the graph is reduced, that is where every alias leads. *)
LEMMA ReducingAlias ==
  ASSUME NEW p \in Pass, AliasOK(p), NEW g, RootMap(p.alias, g)
  PROVE  /\ AliasMap(p, g)
         /\ \A n \in Node : GetAlias(p, n) = g[n] /\ g[n] \in Node /\ p.state[g[n]] # "COALESCED"
<1>1. AliasMap(p, g)
  BY DEF AliasOK, RootMap, AliasMap
<1>2. \A n \in Node : GetAlias(p, n) = g[n]
  BY <1>1, GetAliasIs DEF AliasOK
<1>3. \A n \in Node : p.state[g[n]] # "COALESCED"
  <2> DEFINE S == {m \in Node : p.state[g[m]] = "COALESCED"}
  <2> SUFFICES ASSUME S # {} PROVE FALSE
    OBVIOUS
  <2>1. PICK n \in S : p.alias[n] \notin S
    BY DEF AliasOK, Acyclic
  <2>2. p.state[n] = "COALESCED" /\ g[n] = g[p.alias[n]]
    BY <1>1 DEF AliasMap
  <2>3. p.alias[n] \in Node
    BY <2>2 DEF AliasOK, Pass
  <2> QED
    BY <2>1, <2>2, <2>3
<1> QED
  BY <1>1, <1>2, <1>3 DEF AliasMap

(* What stays keeps its alias. *)
LEMMA StaysAlias ==
  ASSUME NEW p \in Pass, AliasOK(p), NEW q \in Pass, Stays(p, q)
  PROVE  AliasOK(q) /\ \A n \in Node : GetAlias(q, n) = GetAlias(p, n) /\ GetAlias(p, n) \in Node
<1>1. q.alias = p.alias /\ \A n \in Node : q.state[n] = "COALESCED" <=> p.state[n] = "COALESCED"
  BY DEF Stays, Listed
<1>2. AliasOK(q)
  BY <1>1 DEF AliasOK
<1>3. PICK g : RootMap(p.alias, g)
  BY DEF AliasOK
<1>4. \A n \in Node : GetAlias(p, n) = g[n] /\ g[n] \in Node
  BY <1>3, ReducingAlias
<1>5. \A n \in Node : GetAlias(q, n) = g[n]
  BY <1>1, <1>2, <1>3, ReducingAlias
<1> QED
  BY <1>2, <1>4, <1>5

(* The ends of a move are nodes. *)
LEMMA MovEnds ==
  ASSUME MovsOK, NEW m \in Mov
  PROVE  movs[m].dst \in Node /\ movs[m].src \in Node
<1> DEFINE E == [dst : Node, src : Node]
<1>1. movs[m] \in E
  <2>1. movs \in Seq(E) /\ m \in DOMAIN movs
    BY DEF MovsOK, Mov
  <2> HIDE DEF E
  <2> QED
    BY <2>1
<1> QED
  BY <1>1

(* What stays keeps what is known of the moves. *)
LEMMA StaysMoves ==
  ASSUME MovsOK, NEW p \in Pass, NEW q \in Pass, Stays(p, q), AliasOK(p)
  PROVE  /\ MovesKnown(p) => MovesKnown(q)
         /\ Unrelated(p, "SELECT") => Unrelated(q, "SELECT")
         /\ Unrelated(p, "SIMPLIFY") => Unrelated(q, "SIMPLIFY")
         /\ \A n \in Node : MoveRelated(q, n) => MoveRelated(p, n)
         /\ \A m \in Mov : MovPending(q, m) => MovPending(p, m)
         /\ (\A m \in Mov : p.movState[m] # "ALLOCATED") => \A m \in Mov : q.movState[m] # "ALLOCATED"
<1>1. \A m \in Mov : MovPending(q, m) => MovPending(p, m)
  BY DEF Stays, MovPending
<1>2. q.movArr = p.movArr
  BY DEF Stays
<1>3. \A n \in Node : MoveRelated(q, n) => MoveRelated(p, n)
  <2>1. \A n \in Node : ToSet(q.movArr[n]) \subseteq Mov
    <3>1. \A n \in Node : q.movArr[n] \in Seq(Mov)
      BY DEF Pass
    <3> QED
      BY <3>1, ElementsOf
  <2> QED
    BY <1>1, <1>2, <2>1 DEF MoveRelated
<1>4. \A n \in Node : q.state[n] = "SELECT" => p.state[n] = "SELECT"
  BY DEF Stays, Listed
<1>5. Unrelated(p, "SELECT") => Unrelated(q, "SELECT")
  BY <1>3, <1>4 DEF Unrelated
<1>6. Unrelated(p, "SIMPLIFY") => Unrelated(q, "SIMPLIFY")
  <2>1. \A n \in Node : q.state[n] = "SIMPLIFY" => p.state[n] = "SIMPLIFY" \/ ~MoveRelated(q, n)
    BY DEF Stays
  <2> QED
    BY <1>3, <2>1 DEF Unrelated
<1>7. ASSUME MovesKnown(p) PROVE MovesKnown(q)
  <2>1. \A n \in Node : GetAlias(q, n) = GetAlias(p, n)
    BY StaysAlias
  <2> SUFFICES ASSUME NEW m \in Mov, MovPending(q, m), movs[m].dst \in Node, movs[m].src \in Node
               PROVE  /\ m \in ToSet(q.movArr[GetAlias(q, movs[m].dst)])
                      /\ m \in ToSet(q.movArr[GetAlias(q, movs[m].src)])
    BY MovEnds DEF MovesKnown
  <2> QED
    BY <1>1, <1>2, <1>7, <2>1 DEF MovesKnown
<1>8. (\A m \in Mov : p.movState[m] # "ALLOCATED") => \A m \in Mov : q.movState[m] # "ALLOCATED"
  BY DEF Stays
<1> QED
  BY <1>1, <1>3, <1>5, <1>6, <1>7, <1>8

(* What stays keeps the invariant, if the graph is one. *)
LEMMA StaysReduceInv ==
  ASSUME MovsOK, NEW p, NEW q, ReduceInv(p), Stays(p, q), GraphOK(q)
  PROVE  ReduceInv(q)
<1>1. p \in Pass /\ q \in Pass
  BY DEF ReduceInv, Stays
<1>2. ListsOK(q) /\ Reducing(q)
  BY <1>1, StaysReducing DEF ReduceInv, Stays
<1>3. HWOK(q)
  BY <1>1 DEF ReduceInv, HWOK, Stays, Listed
<1>4. AliasOK(q)
  BY <1>1, StaysAlias DEF ReduceInv
<1>5. /\ MovesKnown(q) /\ Unrelated(q, "SELECT") /\ Unrelated(q, "SIMPLIFY")
      /\ \A m \in Mov : q.movState[m] # "ALLOCATED"
  BY <1>1, StaysMoves DEF ReduceInv
<1> QED
  BY <1>1, <1>2, <1>3, <1>4, <1>5 DEF ReduceInv

(* The same for what is calm. *)
LEMMA CalmReduceInv ==
  ASSUME MovsOK, NEW p, NEW q, ReduceInv(p), Calm(p, q)
  PROVE  ReduceInv(q)
<1>1. GraphOK(q) /\ Stays(p, q)
  BY DEF ReduceInv, GraphOK, Calm
<1> QED
  BY <1>1, StaysReduceInv

-----------------------------------------------------------------------------
(* Giving up moves *)

(* Another list for a move that may still be coalesced is calm. *)
LEMMA RelistsMoveCalm ==
  ASSUME NEW p \in Pass, ListsOK(p), NEW m \in Mov, NEW s \in MovState, NEW q,
         RelistsMove(p, m, s, q), MovPending(p, m), s # "ALLOCATED", MoveListOK(p) => MoveListOK(q)
  PROVE  Calm(p, q) /\ q \in Pass /\ ListsOK(q)
<1>1. ListsOK(q)
  BY DEF RelistsMove, ListsOK
<1>2. \A x \in Mov : q.movState[x] = p.movState[x] \/ (MovPending(p, x) /\ q.movState[x] # "ALLOCATED")
  BY DEF RelistsMove
<1> QED
  BY <1>1, <1>2 DEF Calm, Stays, RelistsMove

(* The other end of a move is in the graph. *)
LEMMA AcrossInGraph ==
  ASSUME MovsOK, NEW q \in Pass, Reducing(q), AliasOK(q), MovesKnown(q), Unrelated(q, "SELECT"),
         NEW u \in Node, NEW m \in Mov, MovPending(q, m)
  PROVE  Across(q, u, m) \in Node /\ q.state[Across(q, u, m)] \in Listed \cup {"PRECOLORED"}
<1>1. movs[m].dst \in Node /\ movs[m].src \in Node
  BY MovEnds
<1>2. PICK g : RootMap(q.alias, g)
  BY DEF AliasOK
<1>3. \A n \in Node : GetAlias(q, n) = g[n] /\ g[n] \in Node /\ q.state[g[n]] # "COALESCED"
  BY <1>2, ReducingAlias
<1>4. PICK v : v = Across(q, u, m)
  OBVIOUS
<1>5. v \in Node /\ q.state[v] # "COALESCED" /\ m \in ToSet(q.movArr[v])
  BY <1>1, <1>3, <1>4 DEF MovesKnown, Across
<1>6. MoveRelated(q, v)
  BY <1>5 DEF MoveRelated
<1>7. q.state[v] # "SELECT"
  BY <1>5, <1>6 DEF Unrelated
<1> QED
  BY <1>4, <1>5, <1>7 DEF Reducing

(* One turn of nodeFreezeMoves. *)
LEMMA GiveUpFacts ==
  ASSUME MovsOK, NEW q \in Pass, ListsOK(q), NEW u \in Node, NEW m \in Mov, Across(q, u, m) \in Node
  PROVE  GivesUp(u, q, m, GiveUp(u, q, m))
<1>1. CASE ~MovPending(q, m)
  BY <1>1 DEF GiveUp, GivesUp
<1>2. CASE MovPending(q, m)
  <2>1. PICK v \in Node : v = Across(q, u, m)
    OBVIOUS
  <2>2. PICK c : c = Check(q, "freezeActive", q.movState[m] = "ACTIVE")
    OBVIOUS
  <2>3. /\ Notes(q, c) /\ "freezeActive" \in CheckName /\ "freezeNode" \in CheckName
        /\ c.failed = IF q.movState[m] = "ACTIVE" THEN q.failed ELSE q.failed \cup {"freezeActive"}
    BY <2>2, CheckFacts DEF Check, CheckName
  <2>4. c \in Pass /\ "FROZEN" \in MovState
    BY <2>3 DEF Notes, MovState
  <2>5. PICK w : w = MovSetState(c, m, "FROZEN")
    OBVIOUS
  <2>6. RelistsMove(c, m, "FROZEN", w) /\ w.failed = c.failed
    BY <2>4, <2>5, MovSetStateFacts
  <2>7. RelistsMove(q, m, "FROZEN", w)
    <3>1. \A x \in MovState : Popped(c, m, x) = Popped(q, m, x)
      BY <2>3 DEF Notes, Popped
    <3>3. w \in Pass /\ \A x \in Mov : w.movState[x] = IF x = m THEN "FROZEN" ELSE q.movState[x]
      BY <2>3, <2>6 DEF RelistsMove, Notes
    <3>4. \A x \in Mov : w.movNext[x] = IF x = m THEN Popped(q, m, "FROZEN") ELSE q.movNext[x]
      BY <2>3, <2>4, <2>6, <3>1 DEF RelistsMove, Notes
    <3>5. \A x \in MovState : w.movList[x] = IF x = "FROZEN" THEN m ELSE Popped(q, m, x)
      BY <2>3, <2>4, <2>6, <3>1 DEF RelistsMove, Notes
    <3>6. /\ w.state = q.state /\ w.list = q.list /\ w.degree = q.degree /\ w.adjSet = q.adjSet
          /\ w.adjArr = q.adjArr /\ w.movArr = q.movArr /\ w.alias = q.alias /\ w.color = q.color
      BY <2>3, <2>6 DEF RelistsMove, Notes
    <3> QED
      BY <3>3, <3>4, <3>5, <3>6 DEF RelistsMove
  <2>8. w \in Pass /\ ListsOK(w)
    BY <2>7 DEF RelistsMove, ListsOK
  <2>9. q.movState[m] # "WORKLIST" /\ MoveListOK(q) => MoveListOK(w)
    <3>1. c.movState = q.movState /\ c.movNext = q.movNext /\ c.movList = q.movList
      BY <2>3 DEF Notes
    <3>2. MoveListOK(q) => MoveListOK(c)
      BY <3>1, SameMoveList
    <3>3. q.movState[m] # "WORKLIST" /\ MoveListOK(c) => MoveListOK(w)
      BY <2>4, <2>5, <3>1, MovSetStateList
    <3> QED
      BY <3>2, <3>3
  <2>10. PICK r : r = SimplifyIfIdle(w, v, "freezeNode")
    OBVIOUS
  <2>11. Idles(w, v, "freezeNode", r)
    BY <2>3, <2>8, <2>10, SimplifyIfIdleFacts
  <2>12. r = GiveUp(u, q, m)
    BY <1>2, <2>1, <2>2, <2>5, <2>10 DEF GiveUp, Across
  <2> QED
    BY <1>2, <2>1, <2>3, <2>6, <2>7, <2>8, <2>9, <2>11, <2>12 DEF GivesUp
<1> QED
  BY <1>1, <1>2

(* What it simplifies is still in the graph. *)
LEMMA GiveUpCalm ==
  ASSUME MovsOK, NEW q \in Pass, ListsOK(q), Reducing(q), AliasOK(q), MovesKnown(q), Unrelated(q, "SELECT"),
         NoneWaiting(q), NEW u \in Node, NEW m \in Mov
  PROVE  /\ Calm(q, GiveUp(u, q, m)) /\ GiveUp(u, q, m) \in Pass /\ Frees(q, m, GiveUp(u, q, m))
         /\ GivesUp(u, q, m, GiveUp(u, q, m))
<1>1. CASE ~MovPending(q, m)
  BY <1>1, CalmNone DEF GiveUp, GivesUp, Frees
<1>2. CASE MovPending(q, m)
  <2>1. PICK v \in Node : v = Across(q, u, m) /\ q.state[v] \in Listed \cup {"PRECOLORED"}
    BY <1>2, AcrossInGraph
  <2>2. PICK r : r = GiveUp(u, q, m)
    OBVIOUS
  <2>3. GivesUp(u, q, m, r)
    BY <2>1, <2>2, GiveUpFacts
  <2>4. PICK w \in Pass : /\ RelistsMove(q, m, "FROZEN", w) /\ ListsOK(w)
                          /\ q.movState[m] # "WORKLIST" /\ MoveListOK(q) => MoveListOK(w)
                          /\ Idles(w, v, "freezeNode", r)
    BY <1>2, <2>1, <2>3 DEF GivesUp
  <2>5. Calm(q, w)
    <3>1. "FROZEN" \in MovState /\ "FROZEN" # "ALLOCATED" /\ q.movState[m] # "WORKLIST"
      BY DEF MovState, NoneWaiting
    <3> QED
      BY <1>2, <2>4, <3>1, RelistsMoveCalm
  <2>6. Calm(w, r) /\ r \in Pass
    <3>1. CASE r = w
      BY <2>4, <3>1, CalmNone
    <3>2. CASE r # w
      <4>1. ~Precolored(w, v) /\ ~MoveRelated(w, v) /\ Relists(w, v, "SIMPLIFY", r)
        BY <2>4, <3>2 DEF Idles
      <4>2. "SIMPLIFY" \in Listed \ {"INITIAL"} /\ w.state[v] \in Listed
        BY <2>1, <2>4, <4>1 DEF Listed, Precolored, RelistsMove
      <4> QED
        BY <2>4, <4>1, <4>2, RelistsCalm
    <3> QED
      BY <3>1, <3>2
  <2>7. Calm(q, r)
    BY <2>4, <2>5, <2>6, CalmTwice
  <2>8. r.movState = w.movState
    BY <2>4 DEF Idles, Relists
  <2>9. Frees(q, m, r)
    BY <1>2, <2>4, <2>8 DEF Frees, RelistsMove
  <2> QED
    BY <2>2, <2>3, <2>6, <2>7, <2>9
<1> QED
  BY <1>1, <1>2

(* nodeFreezeMoves: u has no move left that may still be coalesced. *)
LEMMA FreezeMovesCalm ==
  ASSUME MovsOK, NEW p \in Pass, ListsOK(p), Reducing(p), AliasOK(p), MovesKnown(p), Unrelated(p, "SELECT"),
         NoneWaiting(p), NEW u \in Node
  PROVE  Calm(p, FreezeMoves(p, u)) /\ FreezeMoves(p, u) \in Pass /\ ~MoveRelated(FreezeMoves(p, u), u)
<1> DEFINE V == {q \in Pass : Calm(p, q) /\ NoneWaiting(q)}
           s == p.movArr[u]
<1>1. s \in Seq(Mov) /\ DOMAIN s = 1 .. Len(s) /\ Len(s) \in Nat
      /\ \A x \in ToSet(s) : \E i \in 1 .. Len(s) : x = s[i]
  <2>1. s \in Seq(Mov)
    BY DEF Pass
  <2> HIDE DEF s
  <2> QED
    BY <2>1, ElementsOf
<1>2. p \in V
  BY CalmNone
<1>3. ASSUME NEW v \in V, NEW m \in Mov
      PROVE  GiveUp(u, v, m) \in V /\ Frees(v, m, GiveUp(u, v, m)) 
  <2>1. Stays(p, v) /\ v \in Pass /\ ListsOK(v) /\ NoneWaiting(v)
    BY DEF Calm, Stays
  <2>2. Reducing(v) /\ AliasOK(v) /\ MovesKnown(v) /\ Unrelated(v, "SELECT")
    BY <2>1, StaysReducing, StaysAlias, StaysMoves
  <2>3. /\ Calm(v, GiveUp(u, v, m)) /\ GiveUp(u, v, m) \in Pass
        /\ Frees(v, m, GiveUp(u, v, m))
    BY <2>1, <2>2, GiveUpCalm
  <2>4. Calm(p, GiveUp(u, v, m))
    BY <2>1, <2>3, CalmTwice
  <2>5. NoneWaiting(GiveUp(u, v, m))
    BY <2>1, <2>3 DEF NoneWaiting, Frees
  <2> QED
    BY <2>3, <2>4, <2>5
<1>4. FreezeLoop!Closed(V, u, s)
  <2>1. \A i \in DOMAIN s : s[i] \in Mov
    BY <1>1
  <2> HIDE DEF V, s
  <2> QED
    BY <1>3, <2>1 DEF FreezeLoop!Closed
<1>5. FreezeMoves(p, u) = FreezeLoop!Fold(u, p, s)
  BY DEF FreezeMoves, GiveUp, FreezeLoop!Fold, FreezeLoop!FoldLeft, FoldLeft,
         FreezeLoop!MapThenFoldSet, MapThenFoldSet, FreezeLoop!Max, Max
<1> HIDE DEF V, s
<1>6. PICK h : FreezeLoop!Trace(h, V, u, p, s)
  BY <1>1, <1>2, <1>4, FreezeLoop!FoldTrace
<1>7. PICK k \in Nat : k = Len(s)
  BY <1>1
<1>8. /\ h \in [0 .. k -> V] /\ FreezeMoves(p, u) = h[k]
      /\ \A i \in 1 .. k : h[i] = GiveUp(u, h[i - 1], s[i])
  BY <1>1, <1>5, <1>6, <1>7 DEF FreezeLoop!Trace
<1>9. \A i \in 1 .. k : s[i] \in Mov
  BY <1>1, <1>7
<1> DEFINE T == {i \in 0 .. k : \A j \in 1 .. i : ~MovPending(h[i], s[j])}
<1>10. 0 \in T
  OBVIOUS
<1>11. ASSUME NEW i \in 0 .. k - 1, i \in T PROVE i + 1 \in T
  <2>1. i + 1 \in 1 .. k /\ (i + 1) - 1 = i /\ i \in 0 .. k /\ i + 1 \in 0 .. k
    OBVIOUS
  <2>2. h[i] \in V /\ s[i + 1] \in Mov /\ h[i + 1] = GiveUp(u, h[i], s[i + 1])
    BY <1>8, <1>9, <2>1
  <2>3. Frees(h[i], s[i + 1], h[i + 1])
    BY <1>3, <2>2
  <2>4. ~MovPending(h[i + 1], s[i + 1])
    BY <2>2, <2>3 DEF Frees, MovPending
  <2>5. ASSUME NEW j \in 1 .. i PROVE ~MovPending(h[i + 1], s[j])
    <3>1. ~MovPending(h[i], s[j]) /\ s[j] \in Mov
      BY <1>9, <1>11
    <3> QED
      BY <2>3, <3>1 DEF Frees, MovPending
  <2>6. \A j \in 1 .. i + 1 : j = i + 1 \/ j \in 1 .. i
    OBVIOUS
  <2> QED
    BY <2>1, <2>4, <2>5, <2>6
<1> HIDE DEF T
<1>12. 0 .. k \subseteq T
  BY <1>10, <1>11, FreezeLoop!PrefixInduction
<1>13. \A j \in 1 .. k : ~MovPending(h[k], s[j])
  BY <1>12 DEF T
<1>14. h[k] \in V
  BY <1>8
<1>15. Calm(p, h[k]) /\ h[k] \in Pass /\ h[k].movArr[u] = s
  <2>1. Calm(p, h[k]) /\ h[k] \in Pass
    BY <1>14 DEF V
  <2> QED
    BY <2>1 DEF s, Calm, Stays
<1>16. ~MoveRelated(h[k], u)
  BY <1>1, <1>7, <1>13, <1>15 DEF MoveRelated
<1> QED
  BY <1>8, <1>15, <1>16

-----------------------------------------------------------------------------
(* Edges *)

(* A register is a hardware register or a virtual one. *)
LEMMA VNodes ==
  /\ VNode \subseteq Node /\ HWNode \subseteq Node
  /\ \A n \in Node : n \in VNode <=> n \notin HWNode
BY InputAssumption DEF Node, VNode, HWNode

(* There are finitely many nodes. *)
LEMMA NodesFinite == IsFiniteSet(Node) /\ \A S \in SUBSET Node : IsFiniteSet(S)
<1>1. IsFiniteSet(HWNode) /\ IsFiniteSet(VNode)
  BY InputAssumption, FS_Interval DEF HWNode, VNode
<1>2. IsFiniteSet(Node)
  BY <1>1, FS_Union DEF Node
<1> QED
  BY <1>2, FS_Subset

(* What is appended to an array is added to what it holds. *)
LEMMA Appended ==
  ASSUME NEW E, NEW s \in Seq(E), NEW e \in E
  PROVE  /\ Append(s, e) \in Seq(E) /\ ToSet(Append(s, e)) = ToSet(s) \cup {e}
         /\ IsInjective(s) /\ e \notin ToSet(s) => IsInjective(Append(s, e))
<1> DEFINE t == Append(s, e)
<1>1. PICK k \in Nat : k = Len(s)
  OBVIOUS
<1>2. t \in Seq(E) /\ Len(t) = k + 1 /\ t[k + 1] = e /\ \A i \in 1 .. k : t[i] = s[i]
  BY <1>1
<1> HIDE DEF t
<1>3. /\ DOMAIN s = 1 .. k /\ \A i \in 1 .. k : s[i] \in ToSet(s)
      /\ \A x \in ToSet(s) : \E i \in 1 .. k : x = s[i]
  BY <1>1, ElementsOf
<1>4. /\ DOMAIN t = 1 .. k + 1 /\ \A i \in 1 .. k + 1 : t[i] \in ToSet(t)
      /\ \A x \in ToSet(t) : \E i \in 1 .. k + 1 : x = t[i]
  BY <1>2, ElementsOf
<1>5. \A i \in 1 .. k + 1 : i = k + 1 \/ i \in 1 .. k
  OBVIOUS
<1>6. k + 1 \in 1 .. k + 1 /\ \A i \in 1 .. k : i \in 1 .. k + 1
  OBVIOUS
<1>7. \A x : x \in ToSet(t) <=> x \in ToSet(s) \/ x = e
  BY <1>2, <1>3, <1>4, <1>5, <1>6
<1>8. ASSUME IsInjective(s), e \notin ToSet(s) PROVE IsInjective(t)
  <2>1. \A i, j \in 1 .. k : s[i] = s[j] => i = j
    BY <1>3, <1>8 DEF IsInjective
  <2>2. \A i \in 1 .. k : s[i] # e
    BY <1>3, <1>8
  <2>3. \A i, j \in 1 .. k + 1 : t[i] = t[j] => i = j
    BY <1>2, <1>5, <2>1, <2>2
  <2> QED
    BY <1>4, <2>3 DEF IsInjective
<1>9. ToSet(t) = ToSet(s) \cup {e}
  BY <1>7
<1> QED
  BY <1>2, <1>8, <1>9 DEF t

(* addEdge: one of the two nodes is told about the other. *)
LEMMA CountNeighbourFacts ==
  ASSUME NEW p \in Pass, NEW a \in Node, NEW b \in Node
  PROVE  Counts(p, a, b, CountNeighbour(p, a, b))
<1>1. CASE Precolored(p, a)
  <2>1. CountNeighbour(p, a, b) = p
    BY <1>1 DEF CountNeighbour
  <2> QED
    BY <1>1, <2>1 DEF Counts
<1>2. CASE ~Precolored(p, a)
  <2> DEFINE arr == [p.adjArr EXCEPT ![a] = Append(@, b)]
             deg == [p.degree EXCEPT ![a] = @ + 1]
  <2>1. p.adjArr \in [Node -> Seq(Node)] /\ p.degree \in [Node -> Int]
    BY DEF Pass
  <2>2. Append(p.adjArr[a], b) \in Seq(Node)
    BY <2>1
  <2>3. arr \in [Node -> Seq(Node)] /\ \A n \in Node : arr[n] = IF n = a THEN Append(p.adjArr[a], b) ELSE p.adjArr[n]
    BY <2>1, <2>2
  <2>4. deg \in [Node -> Int] /\ \A n \in Node : deg[n] = IF n = a THEN p.degree[a] + 1 ELSE p.degree[n]
    BY <2>1
  <2>5. PICK q : q = CountNeighbour(p, a, b)
    OBVIOUS
  <2>6. q = [p EXCEPT !.adjArr = arr, !.degree = deg]
    BY <1>2, <2>5 DEF CountNeighbour
  <2> HIDE DEF arr, deg
  <2>7. q \in Pass
    BY <2>3, <2>4, <2>6 DEF Pass
  <2>8. q.adjArr = arr /\ q.degree = deg
    BY <2>6 DEF Pass
  <2>9. /\ q.state = p.state /\ q.list = p.list /\ q.adjSet = p.adjSet /\ q.movArr = p.movArr
        /\ q.alias = p.alias /\ q.color = p.color /\ q.movState = p.movState /\ q.movNext = p.movNext
        /\ q.movList = p.movList /\ q.failed = p.failed
    BY <2>6 DEF Pass
  <2>10. \A n \in Node : q.adjArr[n] = IF n = a /\ ~Precolored(p, a) THEN Append(p.adjArr[a], b) ELSE p.adjArr[n]
    BY <1>2, <2>3, <2>8
  <2>11. \A n \in Node : q.degree[n] = IF n = a /\ ~Precolored(p, a) THEN p.degree[a] + 1 ELSE p.degree[n]
    BY <1>2, <2>4, <2>8
  <2> QED
    BY <2>5, <2>7, <2>9, <2>10, <2>11 DEF Counts
<1> QED
  BY <1>1, <1>2

(* addEdge keeps the graph one. *)
LEMMA AddEdgeFacts ==
  ASSUME NEW p \in Pass, HWOK(p), GraphOK(p), NEW a \in Node, NEW b \in Node, a # b
  PROVE  Links(p, a, b, AddEdge(p, a, b))
<1>0. p.adjSet \in [Node -> SUBSET Node] /\ p.adjArr \in [Node -> Seq(Node)]
  BY DEF Pass
<1>1. CASE b \in p.adjSet[a]
  <2>1. AddEdge(p, a, b) = p
    BY <1>1 DEF AddEdge
  <2>2. a \in p.adjSet[b]
    BY <1>1 DEF GraphOK
  <2>3. \A n \in Node : p.adjSet[n] = p.adjSet[n] \cup (IF n = a THEN {b} ELSE {}) \cup (IF n = b THEN {a} ELSE {})
    BY <1>1, <2>2
  <2> QED
    BY <1>1, <2>1, <2>3 DEF Links
<1>2. CASE b \notin p.adjSet[a]
  <2> DEFINE adj == [[p.adjSet EXCEPT ![a] = @ \cup {b}] EXCEPT ![b] = @ \cup {a}]
  <2>1. PICK set : set = [p EXCEPT !.adjSet[a] = @ \cup {b}, !.adjSet[b] = @ \cup {a}]
    OBVIOUS
  <2>2. adj \in [Node -> SUBSET Node]
        /\ \A n \in Node : adj[n] = p.adjSet[n] \cup (IF n = a THEN {b} ELSE {}) \cup (IF n = b THEN {a} ELSE {})
    BY <1>0
  <2>3. set = [p EXCEPT !.adjSet = adj]
    BY <1>0, <2>1
  <2> HIDE DEF adj
  <2>4. set \in Pass
    BY <2>2, <2>3 DEF Pass
  <2>5. /\ set.adjSet = adj
        /\ set.state = p.state /\ set.list = p.list /\ set.adjArr = p.adjArr /\ set.movArr = p.movArr
        /\ set.alias = p.alias /\ set.color = p.color /\ set.movState = p.movState /\ set.movNext = p.movNext
        /\ set.movList = p.movList /\ set.failed = p.failed /\ set.degree = p.degree
    BY <2>3 DEF Pass
  <2>6. PICK one : one = CountNeighbour(set, a, b)
    OBVIOUS
  <2>7. Counts(set, a, b, one)
    BY <2>4, <2>6, CountNeighbourFacts
  <2>8. one \in Pass
    BY <2>7 DEF Counts
  <2>9. PICK q : q = CountNeighbour(one, b, a)
    OBVIOUS
  <2>10. Counts(one, b, a, q)
    BY <2>8, <2>9, CountNeighbourFacts
  <2>11. q = AddEdge(p, a, b)
    BY <1>2, <2>1, <2>6, <2>9 DEF AddEdge, CountNeighbour
  <2>12. /\ q \in Pass /\ q.adjSet = adj
         /\ q.state = p.state /\ q.list = p.list /\ q.movArr = p.movArr /\ q.alias = p.alias /\ q.color = p.color
         /\ q.movState = p.movState /\ q.movNext = p.movNext /\ q.movList = p.movList /\ q.failed = p.failed
    BY <2>5, <2>7, <2>10 DEF Counts
  <2>13. \A n \in Node : Precolored(set, n) = Precolored(p, n) /\ Precolored(one, n) = Precolored(p, n)
    BY <2>5, <2>7 DEF Counts, Precolored
  <2>14. \A n \in Node : q.degree[n] = IF n \in {a, b} /\ ~Precolored(p, n) THEN p.degree[n] + 1 ELSE p.degree[n]
    BY <2>5, <2>7, <2>10, <2>13 DEF Counts
  <2>15. \A n \in Node : q.adjArr[n] = IF n = a /\ ~Precolored(p, n) THEN Append(p.adjArr[n], b)
                                       ELSE IF n = b /\ ~Precolored(p, n) THEN Append(p.adjArr[n], a)
                                       ELSE p.adjArr[n]
    BY <2>5, <2>7, <2>10, <2>13 DEF Counts
  <2>16. \A n \in Node : q.adjSet[n] = p.adjSet[n] \cup (IF n = a THEN {b} ELSE {}) \cup (IF n = b THEN {a} ELSE {})
    BY <2>2, <2>12
  <2>17. /\ \A n, m \in Node : m \in p.adjSet[n] => n \in p.adjSet[m]
         /\ \A n \in Node : n \notin p.adjSet[n]
    BY DEF GraphOK
  <2>18. \A n, m \in Node : m \in q.adjSet[n] => n \in q.adjSet[m]
    BY <2>16, <2>17
  <2>19. \A n \in Node : n \notin q.adjSet[n]
    BY <2>16, <2>17
  <2>20. \A n \in VNode : n \in Node /\ ~Precolored(p, n)
    BY VNodes DEF HWOK, Precolored
  <2>21. \A n \in HWNode : n \in Node /\ Precolored(p, n)
    BY VNodes DEF HWOK, Precolored
  <2>22. ASSUME NEW n \in VNode PROVE ToSet(q.adjArr[n]) = q.adjSet[n] /\ IsInjective(q.adjArr[n])
    <3>1. n \in Node /\ ~Precolored(p, n) /\ ToSet(p.adjArr[n]) = p.adjSet[n] /\ IsInjective(p.adjArr[n])
          /\ p.adjArr[n] \in Seq(Node)
      BY <1>0, <2>20 DEF GraphOK
    <3>2. a \notin p.adjSet[b]
      BY <1>2, <2>17
    <3>3. CASE n = a
      <4>1. q.adjArr[n] = Append(p.adjArr[n], b) /\ q.adjSet[n] = p.adjSet[n] \cup {b}
        BY <2>15, <2>16, <3>1, <3>3
      <4>2. b \notin ToSet(p.adjArr[n])
        BY <1>2, <3>1, <3>3
      <4> QED
        BY <3>1, <4>1, <4>2, Appended
    <3>4. CASE n = b
      <4>1. q.adjArr[n] = Append(p.adjArr[n], a) /\ q.adjSet[n] = p.adjSet[n] \cup {a}
        BY <2>15, <2>16, <3>1, <3>4
      <4>2. a \notin ToSet(p.adjArr[n])
        BY <3>1, <3>2, <3>4
      <4> QED
        BY <3>1, <4>1, <4>2, Appended
    <3>5. CASE n # a /\ n # b
      BY <2>15, <2>16, <3>1, <3>5
    <3> QED
      BY <3>3, <3>4, <3>5
  <2>23. \A n \in HWNode : q.adjArr[n] = <<>>
    BY <2>15, <2>21 DEF GraphOK
  <2>24. GraphOK(q)
    BY <2>18, <2>19, <2>22, <2>23 DEF GraphOK
  <2> QED
    BY <1>2, <2>11, <2>12, <2>14, <2>16, <2>24 DEF Links
<1> QED
  BY <1>1, <1>2

-----------------------------------------------------------------------------
(* Move arrays *)

(* addMoves: the moves of src are added to those of dst, none is lost. *)
LEMMA AddMovesFromFacts ==
  ASSUME NEW p \in Pass, NEW dst \in Node, NEW src \in Node
  PROVE  /\ Gathers(p, dst, AddMovesFrom(p, dst, src))
         /\ ToSet(AddMovesFrom(p, dst, src).movArr[dst]) = ToSet(p.movArr[dst]) \cup ToSet(p.movArr[src])
<1> DEFINE s == p.movArr[src]
           V == {q \in Pass : Gathers(p, dst, q)
                              /\ ToSet(q.movArr[dst]) \subseteq ToSet(p.movArr[dst]) \cup ToSet(s)}
<1>0. p.movArr[dst] \in Seq(Mov) /\ s \in Seq(Mov)
  BY DEF Pass
<1>1. /\ s \in Seq(Mov) /\ DOMAIN s = 1 .. Len(s) /\ Len(s) \in Nat
      /\ \A i \in 1 .. Len(s) : s[i] \in ToSet(s) /\ s[i] \in Mov
      /\ \A x \in ToSet(s) : \E i \in 1 .. Len(s) : x = s[i]
  <2> HIDE DEF s
  <2> QED
    BY <1>0, ElementsOf
<1> HIDE DEF s
<1>2. p \in V
  BY DEF Gathers
<1>3. ASSUME NEW q \in V, NEW i \in 1 .. Len(s)
      PROVE  TakeMove(dst, q, s[i]) \in V /\ s[i] \in ToSet(TakeMove(dst, q, s[i]).movArr[dst])
             /\ ToSet(q.movArr[dst]) \subseteq ToSet(TakeMove(dst, q, s[i]).movArr[dst])
  <2>1. PICK m : m = s[i]
    OBVIOUS
  <2>2. m \in Mov /\ m \in ToSet(s)
    BY <1>1, <2>1
  <2>3. CASE m \in ToSet(q.movArr[dst])
    BY <2>1, <2>3 DEF TakeMove
  <2>4. CASE m \notin ToSet(q.movArr[dst])
    <3> DEFINE arr == [q.movArr EXCEPT ![dst] = Append(@, m)]
    <3>1. q.movArr \in [Node -> Seq(Mov)] /\ q \in Pass
      BY DEF Pass
    <3>2. /\ Append(q.movArr[dst], m) \in Seq(Mov)
          /\ ToSet(Append(q.movArr[dst], m)) = ToSet(q.movArr[dst]) \cup {m}
      BY <2>2, <3>1, Appended
    <3>3. arr \in [Node -> Seq(Mov)] /\ arr[dst] = Append(q.movArr[dst], m) /\ \A n \in Node \ {dst} : arr[n] = q.movArr[n]
      BY <3>1, <3>2
    <3>4. PICK r : r = TakeMove(dst, q, m)
      OBVIOUS
    <3>5. r = [q EXCEPT !.movArr = arr]
      BY <2>4, <3>4 DEF TakeMove
    <3> HIDE DEF arr
    <3>6. r \in Pass
      BY <3>1, <3>3, <3>5 DEF Pass
    <3>7. /\ r.movArr = arr /\ r.state = q.state /\ r.list = q.list /\ r.degree = q.degree /\ r.adjSet = q.adjSet
          /\ r.adjArr = q.adjArr /\ r.alias = q.alias /\ r.color = q.color /\ r.movState = q.movState
          /\ r.movNext = q.movNext /\ r.movList = q.movList /\ r.failed = q.failed
      BY <3>1, <3>5 DEF Pass
    <3>8. Gathers(p, dst, q) /\ ToSet(q.movArr[dst]) \subseteq ToSet(p.movArr[dst]) \cup ToSet(s)
      OBVIOUS
    <3>9. ToSet(r.movArr[dst]) = ToSet(q.movArr[dst]) \cup {m}
      BY <3>2, <3>3, <3>7
    <3>10. Gathers(p, dst, r)
      BY <3>3, <3>6, <3>7, <3>8, <3>9 DEF Gathers
    <3> QED
      BY <2>1, <2>2, <3>4, <3>6, <3>8, <3>9, <3>10
  <2> QED
    BY <2>3, <2>4
<1> HIDE DEF V
<1>4. GatherLoop!Closed(V, dst, s)
  BY <1>1, <1>3 DEF GatherLoop!Closed
<1>5. AddMovesFrom(p, dst, src) = GatherLoop!Fold(dst, p, s)
  BY DEF AddMovesFrom, TakeMove, GatherLoop!Fold, GatherLoop!FoldLeft, FoldLeft,
         GatherLoop!MapThenFoldSet, MapThenFoldSet, GatherLoop!Max, Max, s
<1>6. PICK h : GatherLoop!Trace(h, V, dst, p, s)
  BY <1>1, <1>2, <1>4, GatherLoop!FoldTrace
<1>7. PICK k \in Nat : k = Len(s)
  BY <1>1
<1>8. /\ h \in [0 .. k -> V] /\ AddMovesFrom(p, dst, src) = h[k]
      /\ \A i \in 1 .. k : h[i] = TakeMove(dst, h[i - 1], s[i])
  BY <1>1, <1>5, <1>6, <1>7 DEF GatherLoop!Trace
<1> DEFINE T == {i \in 0 .. k : \A j \in 1 .. i : s[j] \in ToSet(h[i].movArr[dst])}
<1>9. 0 \in T
  OBVIOUS
<1>10. ASSUME NEW i \in 0 .. k - 1, i \in T PROVE i + 1 \in T
  <2>1. i + 1 \in 1 .. k /\ (i + 1) - 1 = i /\ i \in 0 .. k /\ i + 1 \in 0 .. k
    OBVIOUS
  <2>2. h[i] \in V /\ h[i + 1] = TakeMove(dst, h[i], s[i + 1])
    BY <1>8, <2>1
  <2>3. /\ s[i + 1] \in ToSet(h[i + 1].movArr[dst])
        /\ ToSet(h[i].movArr[dst]) \subseteq ToSet(h[i + 1].movArr[dst])
    BY <1>3, <1>7, <2>1, <2>2
  <2>4. \A j \in 1 .. i + 1 : j = i + 1 \/ j \in 1 .. i
    OBVIOUS
  <2> QED
    BY <1>10, <2>1, <2>3, <2>4
<1> HIDE DEF T
<1>11. 0 .. k \subseteq T
  BY <1>9, <1>10, GatherLoop!PrefixInduction
<1>12. \A j \in 1 .. k : s[j] \in ToSet(h[k].movArr[dst])
  BY <1>11 DEF T
<1>13. ToSet(s) \subseteq ToSet(h[k].movArr[dst])
  BY <1>1, <1>7, <1>12
<1>14. h[k] \in V
  BY <1>8
<1>15. Gathers(p, dst, h[k]) /\ ToSet(h[k].movArr[dst]) \subseteq ToSet(p.movArr[dst]) \cup ToSet(s)
  BY <1>14 DEF V
<1>16. ToSet(p.movArr[dst]) \subseteq ToSet(h[k].movArr[dst])
  BY <1>15 DEF Gathers
<1>17. ToSet(h[k].movArr[dst]) = ToSet(p.movArr[dst]) \cup ToSet(s)
  BY <1>13, <1>15, <1>16
<1> QED
  BY <1>8, <1>15, <1>17 DEF s

-----------------------------------------------------------------------------
(* Combining *)

(* One neighbour of the coalesced node is rewired. *)
LEMMA RewireFacts ==
  ASSUME MovsOK, NEW p \in Pass, ListsOK(p), HWOK(p), GraphOK(p), NEW u \in Node, NEW t \in Node, t # u
  PROVE  Rewires(p, u, t, Rewire(p, u, t))
<1>1. PICK linked : linked = AddEdge(p, t, u)
  OBVIOUS
<1>2. Links(p, t, u, linked) /\ linked \in Pass /\ ListsOK(linked) /\ linked.failed = p.failed
      /\ linked.state = p.state
  <2>1. Links(p, t, u, linked)
    BY <1>1, AddEdgeFacts
  <2> QED
    BY <2>1 DEF Links, ListsOK
<1>3. PICK grown : grown = IF ~Significant(p, t) /\ Significant(linked, t)
                           THEN NodeSetState(Check(linked, "rewire", linked.state[t] = "FREEZE"), t, "SPILL")
                           ELSE linked
  OBVIOUS
<1>4. Rewire(p, u, t) = DecrementDegree(grown, t)
  BY <1>1, <1>3 DEF Rewire
<1>5. CASE ~(~Significant(p, t) /\ Significant(linked, t))
  <2>1. grown = linked
    BY <1>3, <1>5
  <2>2. Decrements(grown, t, DecrementDegree(grown, t))
    BY <1>2, <2>1, DecrementDegreeFacts
  <2> QED
    BY <1>2, <1>4, <1>5, <2>1, <2>2 DEF Rewires
<1>6. CASE ~Significant(p, t) /\ Significant(linked, t)
  <2>1. PICK c : c = IF p.state[t] = "FREEZE" THEN linked ELSE [linked EXCEPT !.failed = @ \cup {"rewire"}]
    OBVIOUS
  <2>2. grown = NodeSetState(c, t, "SPILL")
    BY <1>2, <1>3, <1>6, <2>1 DEF Check
  <2>3. Notes(linked, c) /\ c.failed = IF p.state[t] = "FREEZE" THEN p.failed ELSE p.failed \cup {"rewire"}
    <3>1. "rewire" \in CheckName
      BY DEF CheckName
    <3> QED
      BY <1>2, <2>1, <3>1, CheckFacts
  <2>4. c \in Pass /\ ListsOK(c)
    BY <1>2, <2>3 DEF Notes, ListsOK
  <2>5. "SPILL" \in NodeState
    BY DEF NodeState
  <2>6. Relists(c, t, "SPILL", grown) /\ grown.failed = c.failed
    BY <2>2, <2>4, <2>5, NodeSetStateFacts
  <2>7. Relists(linked, t, "SPILL", grown)
    BY <1>2, <2>3, <2>5, <2>6, NotesRelists
  <2>8. grown \in Pass /\ ListsOK(grown)
    BY <2>7 DEF Relists
  <2>9. Decrements(grown, t, DecrementDegree(grown, t))
    BY <2>8, DecrementDegreeFacts
  <2> QED
    BY <1>2, <1>4, <1>6, <2>3, <2>6, <2>7, <2>8, <2>9 DEF Rewires
<1> QED
  BY <1>5, <1>6

(* It stays where it is or goes to another list of the graph. *)
LEMMA RewireStays ==
  ASSUME MovsOK, NEW p \in Pass, ListsOK(p), HWOK(p), GraphOK(p), NEW u \in Node, NEW t \in Node, t # u,
         p.state[t] \in Listed \cup {"PRECOLORED"}
  PROVE  Rewired(p, u, {t}, Rewire(p, u, t))
<1>1. PICK linked : linked = AddEdge(p, t, u)
  OBVIOUS
<1>2. Links(p, t, u, linked)
  BY <1>1, AddEdgeFacts
<1>3. /\ linked \in Pass /\ ListsOK(linked) /\ GraphOK(linked)
      /\ \A n \in Node : linked.adjSet[n] = p.adjSet[n] \cup (IF n = t THEN {u} ELSE {}) \cup (IF n = u THEN {t} ELSE {})
      /\ linked.state = p.state /\ linked.list = p.list /\ linked.movArr = p.movArr
      /\ linked.alias = p.alias /\ linked.color = p.color /\ linked.movState = p.movState
      /\ linked.movNext = p.movNext /\ linked.movList = p.movList
  BY <1>2 DEF Links, ListsOK
<1>4. Stays(p, linked)
  BY <1>3, SameMoveList DEF Stays
<1>5. PICK grown : grown = IF ~Significant(p, t) /\ Significant(linked, t)
                           THEN NodeSetState(Check(linked, "rewire", linked.state[t] = "FREEZE"), t, "SPILL")
                           ELSE linked
  OBVIOUS
<1>6. Calm(linked, grown) /\ grown \in Pass
  <2>1. CASE ~(~Significant(p, t) /\ Significant(linked, t))
    BY <1>3, <1>5, <2>1, CalmNone
  <2>2. CASE ~Significant(p, t) /\ Significant(linked, t)
    <3>1. PICK c : c = IF p.state[t] = "FREEZE" THEN linked ELSE [linked EXCEPT !.failed = @ \cup {"rewire"}]
      OBVIOUS
    <3>2. grown = NodeSetState(c, t, "SPILL")
      BY <1>3, <1>5, <2>2, <3>1 DEF Check
    <3>3. Notes(linked, c)
      <4>1. "rewire" \in CheckName
        BY DEF CheckName
      <4> QED
        BY <1>3, <3>1, <4>1, CheckFacts
    <3>4. c \in Pass /\ ListsOK(c)
      BY <1>3, <3>3 DEF Notes, ListsOK
    <3>5. "SPILL" \in NodeState /\ "SPILL" \in Listed \ {"INITIAL"}
      BY DEF NodeState, Listed
    <3>6. Relists(c, t, "SPILL", grown)
      BY <3>2, <3>4, <3>5, NodeSetStateFacts
    <3>7. Relists(linked, t, "SPILL", grown)
      BY <1>3, <3>3, <3>5, <3>6, NotesRelists
    <3>8. ~Precolored(p, t)
      BY <1>2, <2>2 DEF Links, Significant, Pass
    <3>9. linked.state[t] \in Listed
      BY <1>3, <3>8 DEF Precolored
    <3> QED
      BY <1>3, <3>5, <3>7, <3>9, RelistsCalm
  <2> QED
    BY <2>1, <2>2
<1>7. grown.state[t] \in Listed \cup {"PRECOLORED"} /\ ListsOK(grown)
  BY <1>3, <1>6 DEF Calm, Stays
<1>8. PICK q : q = DecrementDegree(grown, t)
  OBVIOUS
<1>9. Calm(grown, q) /\ q \in Pass
  BY <1>6, <1>7, <1>8, DecrementDegreeCalm
<1>10. Calm(linked, q)
  BY <1>3, <1>6, <1>9, CalmTwice
<1>11. Stays(p, q)
  BY <1>3, <1>4, <1>9, <1>10, StaysTwice DEF Calm
<1>12. GraphOK(q) /\ q.adjSet = linked.adjSet
  BY <1>3, <1>10 DEF GraphOK, Calm
<1>13. q = Rewire(p, u, t)
  BY <1>1, <1>5, <1>8 DEF Rewire
<1>14. \A n \in Node : q.adjSet[n] = p.adjSet[n] \cup (IF n \in {t} THEN {u} ELSE {}) \cup (IF n = u THEN {t} ELSE {})
  BY <1>3, <1>12
<1> QED
  BY <1>9, <1>11, <1>12, <1>13, <1>14 DEF Rewired

(* All the neighbours of v that are still in the graph become neighbours of u. *)
LEMMA RewireNeighbours ==
  ASSUME MovsOK, NEW p \in Pass, ListsOK(p), HWOK(p), GraphOK(p), Reducing(p), NEW u \in Node, NEW v \in Node,
         u \notin ToSet(p.adjArr[v])
  PROVE  Rewired(p, u, Adjacent(p, v), ForAdjacent(p, v, LAMBDA r, t : Rewire(r, u, t)))
<1> DEFINE s == p.adjArr[v]
           V == {r \in Pass : Stays(p, r) /\ GraphOK(r)}
<1>0. s \in Seq(Node)
  BY DEF Pass
<1>1. /\ DOMAIN s = 1 .. Len(s) /\ Len(s) \in Nat
      /\ \A i \in 1 .. Len(s) : s[i] \in ToSet(s) /\ s[i] \in Node
      /\ \A x \in ToSet(s) : \E i \in 1 .. Len(s) : x = s[i]
  <2> HIDE DEF s
  <2> QED
    BY <1>0, ElementsOf
<1>2. p \in V
  BY CalmNone DEF Calm
<1>3. \A i \in 1 .. Len(s) : s[i] # u
  BY <1>1
<1> HIDE DEF s
<1>4. ASSUME NEW r \in V, NEW i \in 1 .. Len(s)
      PROVE  /\ RewireAround(u, r, s[i]) \in V
             /\ \A n \in Node : RewireAround(u, r, s[i]).adjSet[n]
                                = r.adjSet[n] \cup (IF n = s[i] /\ InGraph(p, n) THEN {u} ELSE {})
                                              \cup (IF n = u /\ InGraph(p, s[i]) THEN {s[i]} ELSE {})
  <2>1. r \in Pass /\ Stays(p, r) /\ GraphOK(r)
    OBVIOUS
  <2>2. PICK t \in Node : t = s[i] /\ t # u
    BY <1>1, <1>3
  <2>3. InGraph(r, t) <=> InGraph(p, t)
    BY <2>1 DEF Stays, InGraph, Listed
  <2>4. CASE ~InGraph(p, t)
    BY <2>1, <2>2, <2>3, <2>4 DEF RewireAround
  <2>5. CASE InGraph(p, t)
    <3>1. ListsOK(r) /\ Reducing(r) /\ HWOK(r)
      <4>1. HWOK(r)
        BY <2>1 DEF Stays, HWOK, Listed
      <4> QED
        BY <2>1, <4>1, StaysReducing DEF Stays
    <3>2. r.state[t] \in Listed \cup {"PRECOLORED"}
      BY <2>3, <2>5, <3>1 DEF Reducing, InGraph
    <3>3. PICK w : w = Rewire(r, u, t)
      OBVIOUS
    <3>4. Rewired(r, u, {t}, w)
      BY <2>1, <2>2, <3>1, <3>2, <3>3, RewireStays
    <3>5. /\ Stays(r, w) /\ w \in Pass /\ GraphOK(w)
          /\ \A n \in Node : w.adjSet[n] = r.adjSet[n] \cup (IF n = t THEN {u} ELSE {}) \cup (IF n = u THEN {t} ELSE {})
      BY <3>4 DEF Rewired
    <3>6. Stays(p, w)
      BY <2>1, <3>5, StaysTwice
    <3>7. w = RewireAround(u, r, s[i])
      BY <2>2, <2>3, <2>5, <3>3 DEF RewireAround
    <3> QED
      BY <2>2, <2>5, <3>5, <3>6, <3>7
  <2> QED
    BY <2>4, <2>5
<1>15. PICK q : q = ForAdjacent(p, v, LAMBDA r, t : Rewire(r, u, t))
  OBVIOUS
<1> HIDE DEF V
<1>5. RewireLoop!Closed(V, u, s)
  BY <1>1, <1>4 DEF RewireLoop!Closed
<1>6. q = RewireLoop!Fold(u, p, s)
  BY <1>15 DEF ForAdjacent, RewireAround, RewireLoop!Fold, RewireLoop!FoldLeft, FoldLeft,
         RewireLoop!MapThenFoldSet, MapThenFoldSet, RewireLoop!Max, Max, s
<1>7. PICK h : RewireLoop!Trace(h, V, u, p, s)
  BY <1>0, <1>2, <1>5, RewireLoop!FoldTrace
<1>8. PICK k \in Nat : k = Len(s)
  BY <1>1
<1>9. /\ h \in [0 .. k -> V] /\ q = h[k] /\ h[0] = p
      /\ \A i \in 1 .. k : h[i] = RewireAround(u, h[i - 1], s[i])
  BY <1>1, <1>6, <1>7, <1>8 DEF RewireLoop!Trace
<1>10. \A i \in 0 .. k : h[i] \in V
  BY <1>9
<1>11. \A i \in 0 .. k : h[i] \in Pass /\ Stays(p, h[i]) /\ GraphOK(h[i])
  BY <1>10 DEF V
<1> DEFINE Kept == {i \in 0 .. k : Rewired(p, u, LiveAmong(p, s, i), h[i])}
<1>12. 0 \in Kept
  <2>1. \A n \in Node : n \notin LiveAmong(p, s, 0)
    BY DEF LiveAmong
  <2>2. LiveAmong(p, s, 0) = {}
    BY DEF LiveAmong
  <2>3. Rewired(p, u, {}, p)
    BY <1>2 DEF Rewired, V
  <2>4. Rewired(p, u, LiveAmong(p, s, 0), h[0])
    BY <1>9, <2>2, <2>3
  <2>5. 0 \in 0 .. k
    BY <1>8
  <2> QED
    BY <2>4, <2>5
<1>13. ASSUME NEW i \in 0 .. k - 1, i \in Kept PROVE i + 1 \in Kept
  <2>1. i + 1 \in 1 .. k /\ (i + 1) - 1 = i /\ i \in 0 .. k /\ i + 1 \in 0 .. k
    BY <1>8
  <2> DEFINE A == LiveAmong(p, s, i)
             B == LiveAmong(p, s, i + 1)
             x == s[i + 1]
  <2>2. h[i] \in V /\ h[i + 1] = RewireAround(u, h[i], x)
    BY <1>9, <1>10, <2>1
  <2>3. x \in Node
    BY <1>1, <1>8, <2>1
  <2>4. \A n \in Node : h[i + 1].adjSet[n]
                        = h[i].adjSet[n] \cup (IF n = x /\ InGraph(p, n) THEN {u} ELSE {})
                                         \cup (IF n = u /\ InGraph(p, x) THEN {x} ELSE {})
    BY <1>4, <1>8, <2>1, <2>2
  <2>5. B = A \cup (IF InGraph(p, x) THEN {x} ELSE {})
    <3>1. \A j : j \in 1 .. i + 1 <=> j = i + 1 \/ j \in 1 .. i
      BY <2>1
    <3>2. \A t : (\E j \in 1 .. i + 1 : t = s[j]) <=> t = x \/ \E j \in 1 .. i : t = s[j]
      BY <3>1
    <3> QED
      BY <2>3, <3>2 DEF LiveAmong
  <2>6. Rewired(p, u, A, h[i])
    BY <1>13
  <2> HIDE DEF A, B, x
  <2>7. \A n \in Node : h[i].adjSet[n] = p.adjSet[n] \cup (IF n \in A THEN {u} ELSE {}) \cup (IF n = u THEN A ELSE {})
    BY <2>6 DEF Rewired
  <2>8. \A n \in Node : h[i + 1].adjSet[n]
                        = p.adjSet[n] \cup (IF n \in B THEN {u} ELSE {}) \cup (IF n = u THEN B ELSE {})
    BY <2>3, <2>4, <2>5, <2>7
  <2>9. Rewired(p, u, B, h[i + 1])
    BY <1>11, <2>1, <2>8 DEF Rewired
  <2> QED
    BY <2>1, <2>9 DEF B
<1> HIDE DEF Kept
<1>14. 0 .. k \subseteq Kept
  BY <1>12, <1>13, RewireLoop!PrefixInduction
<1>16. k \in Kept
  BY <1>14
<1>17. Rewired(p, u, LiveAmong(p, s, k), q)
  BY <1>9, <1>16 DEF Kept
<1>18. LiveAmong(p, s, k) = Adjacent(p, v)
  BY <1>0, <1>1, <1>8 DEF Adjacent, LiveAmong, s
<1> QED
  BY <1>15, <1>17, <1>18

(* The aliases stay acyclic when a node that has none gets one. *)
LEMMA MergeAlias ==
  ASSUME NEW alias \in [Node -> Node \cup {NULL}], Acyclic(alias), NEW g, RootMap(alias, g),
         NEW u \in Node, NEW v \in Node, u # v, alias[u] = NULL, alias[v] = NULL,
         NEW new \in [Node -> Node \cup {NULL}], \A n \in Node : new[n] = IF n = v THEN u ELSE alias[n]
  PROVE  Acyclic(new) /\ RootMap(new, Redirected(g, u, v))
<1>0. NULL \notin Node
  BY InputAssumption DEF Node, HWNode, VNode
<1>1. ASSUME NEW S \in SUBSET Node, S # {} PROVE \E n \in S : new[n] \notin S
  <2>1. CASE v \in S
    <3>1. new[v] = u
      OBVIOUS
    <3>2. CASE u \in S
      <4>1. new[u] = NULL
        OBVIOUS
      <4> QED
        BY <1>0, <3>2, <4>1
    <3> QED
      BY <2>1, <3>1, <3>2
  <2>2. CASE v \notin S
    <3>1. PICK n \in S : alias[n] \notin S
      BY <1>1 DEF Acyclic
    <3> QED
      BY <2>2, <3>1
  <2> QED
    BY <2>1, <2>2
<1>2. g \in [Node -> Node] /\ \A m \in Node : g[m] = IF alias[m] = NULL THEN m ELSE g[alias[m]]
  BY DEF RootMap
<1>3. PICK f : f = Redirected(g, u, v)
  OBVIOUS
<1>4. f \in [Node -> Node] /\ \A m \in Node : f[m] = IF g[m] = v THEN u ELSE g[m]
  BY <1>2, <1>3 DEF Redirected
<1>5. ASSUME NEW m \in Node PROVE f[m] = IF new[m] = NULL THEN m ELSE f[new[m]]
  <2>1. g[u] = u /\ g[v] = v /\ f[u] = u /\ f[v] = u
    BY <1>2, <1>4
  <2>2. CASE m = v
    <3>1. new[m] = u /\ u # NULL
      BY <1>0, <2>2
    <3> QED
      BY <2>1, <2>2, <3>1
  <2>3. CASE m # v /\ alias[m] = NULL
    <3>1. new[m] = NULL /\ g[m] = m
      BY <1>2, <2>3
    <3> QED
      BY <1>4, <2>3, <3>1
  <2>4. CASE m # v /\ alias[m] # NULL
    <3>1. new[m] = alias[m] /\ alias[m] \in Node /\ g[m] = g[alias[m]]
      BY <1>2, <2>4
    <3>2. f[m] = f[alias[m]]
      BY <1>4, <3>1
    <3> QED
      BY <2>4, <3>1, <3>2
  <2> QED
    BY <2>2, <2>3, <2>4
<1>6. Acyclic(new)
  BY <1>1 DEF Acyclic
<1>7. RootMap(new, f)
  BY <1>4, <1>5 DEF RootMap
<1> QED
  BY <1>3, <1>6, <1>7

(* Once v is merged into u, and before its neighbours are told, u stands for
   v wherever v stood for something.                                       *)
LEMMA TakenOver ==
  ASSUME MovsOK, NEW p, ReduceInv(p), NEW u \in Node, NEW v \in Node, u # v, InGraph(p, u), p.state[u] # "SIMPLIFY",
         p.state[v] \in Listed, NEW q \in Pass, ListsOK(q),
         \A n \in Node : q.state[n] = IF n = v THEN "COALESCED" ELSE p.state[n],
         \A n \in Node : q.alias[n] = IF n = v THEN u ELSE p.alias[n],
         q.adjSet = p.adjSet, q.adjArr = p.adjArr, q.movState = p.movState,
         \A n \in Node \ {u} : q.movArr[n] = p.movArr[n],
         ToSet(p.movArr[u]) \cup ToSet(p.movArr[v]) \subseteq ToSet(q.movArr[u])
  PROVE  ReduceInv(q)
<1>1. p \in Pass /\ Acyclic(p.alias) /\ AliasOK(p) /\ p.alias \in [Node -> Node \cup {NULL}]
      /\ q.alias \in [Node -> Node \cup {NULL}]
  BY DEF ReduceInv, AliasOK, Pass
<1>2. PICK g : RootMap(p.alias, g)
  BY <1>1 DEF AliasOK
<1>3. PICK f : f = Redirected(g, u, v)
  OBVIOUS
<1>4. p.alias[u] = NULL /\ p.alias[v] = NULL
  BY <1>1 DEF AliasOK, InGraph, Listed
<1>5. Acyclic(q.alias) /\ RootMap(q.alias, f)
  BY <1>1, <1>2, <1>3, <1>4, MergeAlias
<1>6. u # NULL
  BY InputAssumption DEF Node, HWNode, VNode
<1>7. AliasOK(q)
  BY <1>1, <1>5, <1>6 DEF AliasOK
<1>8. HWOK(q) /\ GraphOK(q) /\ Reducing(q)
  BY DEF ReduceInv, HWOK, GraphOK, Reducing, Listed
<1>9. \A n \in Node : GetAlias(p, n) = g[n] /\ GetAlias(q, n) = f[n] /\ g[n] \in Node
  BY <1>1, <1>2, <1>5, <1>7, ReducingAlias
<1>10. \A n \in Node : f[n] = IF g[n] = v THEN u ELSE g[n]
  BY <1>3 DEF Redirected
<1>11. \A n \in Node : ToSet(p.movArr[n]) \subseteq ToSet(q.movArr[IF n = v THEN u ELSE n])
  OBVIOUS
<1>12. MovesKnown(q)
  <2> SUFFICES ASSUME NEW m \in Mov, MovPending(q, m)
               PROVE  /\ m \in ToSet(q.movArr[GetAlias(q, movs[m].dst)])
                      /\ m \in ToSet(q.movArr[GetAlias(q, movs[m].src)])
    BY DEF MovesKnown
  <2>1. MovPending(p, m)
    BY DEF MovPending
  <2>2. /\ m \in ToSet(p.movArr[GetAlias(p, movs[m].dst)])
        /\ m \in ToSet(p.movArr[GetAlias(p, movs[m].src)])
    BY <2>1 DEF ReduceInv, MovesKnown
  <2>3. movs[m].dst \in Node /\ movs[m].src \in Node
    BY MovEnds
  <2> QED
    BY <1>9, <1>10, <1>11, <2>2, <2>3
<1>13. ASSUME NEW n \in Node, q.state[n] \in {"SIMPLIFY", "SELECT"} PROVE ~MoveRelated(q, n)
  <2>1. n # u /\ n # v /\ p.state[n] = q.state[n]
    BY <1>13 DEF InGraph
  <2>2. ~MoveRelated(p, n)
    BY <1>13, <2>1 DEF ReduceInv, Unrelated
  <2> QED
    BY <2>1, <2>2 DEF MoveRelated, MovPending
<1>14. Unrelated(q, "SIMPLIFY") /\ Unrelated(q, "SELECT")
  BY <1>13 DEF Unrelated
<1>15. \A m \in Mov : q.movState[m] # "ALLOCATED"
  BY DEF ReduceInv
<1> QED
  BY <1>7, <1>8, <1>12, <1>14, <1>15 DEF ReduceInv

(* combineNodes before the neighbours of v are told. *)
LEMMA TakeOverFacts ==
  ASSUME MovsOK, NEW p, ReduceInv(p), NEW u \in Node, NEW v \in Node, u # v, InGraph(p, u), p.state[u] # "SIMPLIFY",
         p.state[v] \in Listed, v \notin p.adjSet[u]
  PROVE  TakesOver(p, u, v, TakeOver(p, u, v)) /\ ReduceInv(TakeOver(p, u, v))
<1>1. p \in Pass /\ ListsOK(p) /\ HWOK(p) /\ GraphOK(p) /\ Reducing(p)
  BY DEF ReduceInv
<1>2. PICK c : c = Check(p, "combine", p.state[v] \in {"FREEZE", "SPILL"})
  OBVIOUS
<1>3. Notes(p, c) /\ c.failed = IF p.state[v] \in {"FREEZE", "SPILL"} THEN p.failed ELSE p.failed \cup {"combine"}
  <2>1. "combine" \in CheckName
    BY DEF CheckName
  <2> QED
    BY <1>1, <1>2, <2>1, CheckFacts DEF Check
<1>4. c \in Pass /\ ListsOK(c)
  BY <1>1, <1>3 DEF Notes, ListsOK
<1>5. PICK d : d = NodeSetState(c, v, "COALESCED")
  OBVIOUS
<1>6. Relists(p, v, "COALESCED", d) /\ d.failed = c.failed
  <2>1. "COALESCED" \in NodeState
    BY DEF NodeState
  <2> QED
    BY <1>1, <1>3, <1>4, <1>5, <2>1, NodeSetStateFacts, NotesRelists
<1>7. PICK e : e = [d EXCEPT !.alias[v] = u]
  OBVIOUS
<1>8. /\ e \in Pass /\ ListsOK(e) /\ e.alias \in [Node -> Node \cup {NULL}]
      /\ \A n \in Node : e.state[n] = IF n = v THEN "COALESCED" ELSE p.state[n]
      /\ \A n \in Node : e.alias[n] = IF n = v THEN u ELSE p.alias[n]
      /\ e.adjSet = p.adjSet /\ e.adjArr = p.adjArr /\ e.movState = p.movState /\ e.movArr = p.movArr
      /\ e.color = p.color /\ e.list["SELECT"] = p.list["SELECT"] /\ e.movNext = p.movNext /\ e.movList = p.movList
      /\ e.degree = p.degree /\ e.failed = c.failed
  <2>1. d \in Pass /\ ListsOK(d) /\ d.alias = p.alias
    BY <1>6 DEF Relists
  <2> DEFINE al == [d.alias EXCEPT ![v] = u]
  <2>2. al \in [Node -> Node \cup {NULL}] /\ \A n \in Node : al[n] = IF n = v THEN u ELSE p.alias[n]
    BY <2>1 DEF Pass
  <2>3. e = [d EXCEPT !.alias = al]
    BY <1>7, <2>1 DEF Pass
  <2> HIDE DEF al
  <2>4. e \in Pass
    BY <2>1, <2>2, <2>3 DEF Pass
  <2>5. /\ e.alias = al /\ e.state = d.state /\ e.list = d.list /\ e.adjSet = d.adjSet /\ e.adjArr = d.adjArr
        /\ e.movState = d.movState /\ e.movArr = d.movArr /\ e.color = d.color
        /\ e.movNext = d.movNext /\ e.movList = d.movList /\ e.degree = d.degree /\ e.failed = d.failed
    BY <2>1, <2>3 DEF Pass
  <2>6. "SELECT" \in NodeState \ {"COALESCED", p.state[v]}
    BY DEF NodeState, Listed
  <2>7. ListsOK(e)
    BY <2>1, <2>5 DEF ListsOK
  <2>8. d.list["SELECT"] = p.list["SELECT"]
    BY <1>6, <2>6 DEF Relists
  <2> QED
    BY <1>6, <2>2, <2>4, <2>5, <2>7, <2>8 DEF Relists
<1>9. PICK f : f = AddMovesFrom(e, u, v)
  OBVIOUS
<1>10. Gathers(e, u, f) /\ ToSet(f.movArr[u]) = ToSet(p.movArr[u]) \cup ToSet(p.movArr[v])
  BY <1>8, <1>9, AddMovesFromFacts
<1>11. TakesOver(p, u, v, f)
  <2>1. /\ f \in Pass /\ ListsOK(f) /\ f.state = e.state /\ f.alias = e.alias /\ f.adjSet = p.adjSet
        /\ f.adjArr = p.adjArr /\ f.movState = p.movState /\ f.movNext = p.movNext /\ f.movList = p.movList
        /\ f.color = p.color /\ f.list["SELECT"] = p.list["SELECT"] /\ f.degree = p.degree /\ f.failed = c.failed
        /\ \A n \in Node \ {u} : f.movArr[n] = p.movArr[n]
    BY <1>8, <1>10 DEF Gathers, ListsOK
  <2>2. \A n \in Node : ToSet(f.movArr[n]) = ToSet(p.movArr[n]) \cup (IF n = u THEN ToSet(p.movArr[v]) ELSE {})
    <3> TAKE n \in Node
    <3>1. CASE n = u
      BY <1>10, <3>1
    <3>2. CASE n # u
      BY <2>1, <3>2
    <3> QED
      BY <3>1, <3>2
  <2> QED
    BY <1>3, <1>8, <2>1, <2>2 DEF TakesOver
<1>12. ReduceInv(f)
  <2>1. ToSet(p.movArr[u]) \cup ToSet(p.movArr[v]) \subseteq ToSet(f.movArr[u])
    BY <1>10
  <2> QED
    BY <1>11, <2>1, TakenOver DEF TakesOver
<1> QED
  BY <1>2, <1>5, <1>7, <1>9, <1>11, <1>12 DEF TakeOver

(* combineNodes. *)
LEMMA CombineMerges ==
  ASSUME MovsOK, NEW p, ReduceInv(p), NEW u \in Node, NEW v \in Node, u # v, InGraph(p, u), p.state[u] # "SIMPLIFY",
         p.state[v] \in Listed, v \notin p.adjSet[u]
  PROVE  Merges(p, u, v, Combine(p, u, v)) /\ ReduceInv(Combine(p, u, v))
<1>1. p \in Pass /\ ListsOK(p) /\ HWOK(p) /\ GraphOK(p) /\ Reducing(p)
  BY DEF ReduceInv
<1>2. PICK f : f = TakeOver(p, u, v)
  OBVIOUS
<1>10. TakesOver(p, u, v, f) /\ ReduceInv(f)
  BY <1>2, TakeOverFacts
<1>11. /\ f \in Pass /\ ListsOK(f) /\ f.color = p.color /\ f.list["SELECT"] = p.list["SELECT"]
       /\ \A n \in Node : f.state[n] = IF n = v THEN "COALESCED" ELSE p.state[n]
       /\ \A n \in Node : f.alias[n] = IF n = v THEN u ELSE p.alias[n]
       /\ f.adjSet = p.adjSet /\ f.adjArr = p.adjArr /\ f.movState = p.movState
       /\ \A n \in Node : ToSet(f.movArr[n]) = ToSet(p.movArr[n]) \cup (IF n = u THEN ToSet(p.movArr[v]) ELSE {})
       /\ f.movNext = p.movNext /\ f.movList = p.movList
  BY <1>10 DEF TakesOver
<1>12. ReduceInv(f)
  BY <1>10
<1>13. PICK w : w = ForAdjacent(f, v, LAMBDA r, t : Rewire(r, u, t))
  OBVIOUS
<1>14. v \in VNode /\ ToSet(p.adjArr[v]) = p.adjSet[v] /\ u \notin p.adjSet[v] /\ v \notin p.adjSet[v]
  <2>1. v \in VNode
    BY <1>1, VNodes DEF HWOK, Listed
  <2> QED
    BY <1>1, <2>1 DEF GraphOK
<1> DEFINE moved == {t \in p.adjSet[v] : InGraph(p, t)}
<1>15. Adjacent(f, v) = moved
  <2>1. p.adjSet[v] \subseteq Node
    BY <1>1 DEF Pass
  <2>2. \A t \in p.adjSet[v] : InGraph(f, t) <=> InGraph(p, t)
    BY <1>11, <1>14, <2>1 DEF InGraph
  <2> QED
    BY <1>11, <1>14, <2>2 DEF Adjacent
<1> HIDE DEF moved
<1>16. Rewired(f, u, moved, w)
  <2>1. HWOK(f) /\ GraphOK(f) /\ Reducing(f)
    BY <1>12 DEF ReduceInv
  <2> QED
    BY <1>11, <1>13, <1>14, <1>15, <2>1, RewireNeighbours
<1>17. w \in Pass /\ Stays(f, w) /\ GraphOK(w) /\ ReduceInv(w)
  <2>1. w \in Pass /\ Stays(f, w) /\ GraphOK(w)
    BY <1>16 DEF Rewired
  <2> QED
    BY <1>12, <2>1, StaysReduceInv
<1>18. PICK q : q = SpillIfSignificant(w, u)
  OBVIOUS
<1>19. Calm(w, q)
  <2>1. ListsOK(w)
    BY <1>17 DEF ReduceInv
  <2>2. CASE ~(Significant(w, u) /\ w.state[u] = "FREEZE")
    BY <1>17, <1>18, <2>1, <2>2, CalmNone DEF SpillIfSignificant
  <2>3. CASE Significant(w, u) /\ w.state[u] = "FREEZE"
    <3>1. "SPILL" \in NodeState /\ "SPILL" \in Listed \ {"INITIAL"} /\ w.state[u] \in Listed
      BY <2>3 DEF NodeState, Listed
    <3>2. Relists(w, u, "SPILL", q)
      BY <1>17, <1>18, <2>1, <2>3, <3>1, NodeSetStateFacts DEF SpillIfSignificant
    <3> QED
      BY <1>17, <2>1, <3>1, <3>2, RelistsCalm
  <2> QED
    BY <2>2, <2>3
<1>20. ReduceInv(q) /\ q \in Pass
  BY <1>17, <1>19, CalmReduceInv DEF ReduceInv
<1>21. Stays(f, q) /\ q.adjSet = w.adjSet
  BY <1>11, <1>17, <1>19, <1>20, StaysTwice DEF Calm
<1>22. q.color = p.color /\ q.list["SELECT"] = p.list["SELECT"]
  <2>1. "SELECT" \in NodeState \ Listed
    BY DEF NodeState, Listed
  <2> QED
    BY <1>11, <1>21, <2>1 DEF Stays
<1>23. \A n \in Node : q.alias[n] = IF n = v THEN u ELSE p.alias[n]
  BY <1>11, <1>21 DEF Stays
<1>24. ASSUME NEW n \in Node
       PROVE  IF n = v THEN q.state[n] = "COALESCED"
              ELSE IF p.state[n] \in Listed THEN q.state[n] \in Listed /\ (q.state[n] = "INITIAL" => p.state[n] = "INITIAL")
              ELSE q.state[n] = p.state[n]
  <2>1. f.state[n] = IF n = v THEN "COALESCED" ELSE p.state[n]
    BY <1>11
  <2>2. "COALESCED" \notin Listed
    BY DEF Listed
  <2> QED
    BY <1>21, <2>1, <2>2 DEF Stays
<1>25. \A m \in Mov : q.movState[m] = p.movState[m] \/ (MovPending(p, m) /\ q.movState[m] # "ALLOCATED")
  BY <1>11, <1>21 DEF Stays, MovPending
<1>26. \A n \in Node : q.adjSet[n] = p.adjSet[n] \cup (IF n \in moved THEN {u} ELSE {})
                                                 \cup (IF n = u THEN moved ELSE {})
  BY <1>11, <1>16, <1>21 DEF Rewired
<1>28. MoveListOK(p) => MoveListOK(q)
  <2>1. MoveListOK(p) => MoveListOK(f)
    BY <1>11, SameMoveList
  <2> QED
    BY <1>21, <2>1 DEF Stays
<1>27. q = Combine(p, u, v)
  BY <1>2, <1>13, <1>18 DEF Combine, TakeOver
<1>29. \A n \in Node : ToSet(q.movArr[n]) = ToSet(p.movArr[n]) \cup (IF n = u THEN ToSet(p.movArr[v]) ELSE {})
  BY <1>11, <1>21 DEF Stays
<1> QED
  BY <1>20, <1>22, <1>23, <1>24, <1>25, <1>26, <1>27, <1>28, <1>29 DEF Merges, moved

-----------------------------------------------------------------------------
(* Building *)

(* The nodes first .. first + len - 1, each put in front of the one before. *)
LEMMA PushedFacts ==
  ASSUME NEW first \in Nat, NEW len \in Nat, first .. first + len - 1 \subseteq Node
  PROVE  LET s == [i \in 1 .. len |-> first + len - i]
         IN  s \in Seq(Node) /\ ToSet(s) = first .. first + len - 1 /\ IsInjective(s)
<1> DEFINE s == [i \in 1 .. len |-> first + len - i]
<1>1. \A i \in 1 .. len : first + len - i \in first .. first + len - 1
  OBVIOUS
<1>2. s \in Seq(Node) /\ DOMAIN s = 1 .. len
  BY <1>1
<1>3. \A i \in 1 .. len : s[i] = first + len - i
  OBVIOUS
<1> HIDE DEF s
<1>4. \A x \in first .. first + len - 1 : first + len - x \in 1 .. len /\ first + len - (first + len - x) = x
  OBVIOUS
<1>5. \A x : x \in ToSet(s) <=> x \in first .. first + len - 1
  <2>1. \A x : x \in ToSet(s) <=> \E i \in 1 .. len : x = first + len - i
    BY <1>2, <1>3 DEF ToSet
  <2> QED
    BY <1>1, <1>4, <2>1
<1>6. IsInjective(s)
  BY <1>2, <1>3 DEF IsInjective
<1>7. ToSet(s) = first .. first + len - 1
  BY <1>5
<1> QED
  BY <1>2, <1>6, <1>7 DEF s

(* Before there are edges and moves. *)
LEMMA EmptyPassFacts ==
  ASSUME MovsOK
  PROVE  /\ EmptyPass(movs) \in Pass /\ ListsOK(EmptyPass(movs)) /\ HWOK(EmptyPass(movs))
         /\ GraphOK(EmptyPass(movs))
         /\ \A n \in Node : /\ EmptyPass(movs).state[n] = IF n \in HWNode THEN "PRECOLORED" ELSE "INITIAL"
                            /\ EmptyPass(movs).adjSet[n] = {} /\ EmptyPass(movs).alias[n] = NULL
                            /\ EmptyPass(movs).degree[n] = 0
                            /\ EmptyPass(movs).color[n] = IF n \in HWNode THEN HWColor[n] ELSE NoColor
         /\ \A m \in Mov : EmptyPass(movs).movState[m] = "ALLOCATED"
         /\ EmptyPass(movs).movList["WORKLIST"] = NULL /\ EmptyPass(movs).failed = {}
         /\ EmptyPass(movs).list["SELECT"] = <<>> /\ \A n \in Node : EmptyPass(movs).movArr[n] = <<>>
<1> DEFINE hw == [i \in 1 .. NumHW |-> 1 + NumHW - i]
           virtual == [i \in 1 .. NumVirtual |-> NumHW + 1 + NumVirtual - i]
<1>0. PICK p : p = EmptyPass(movs)
  OBVIOUS
<1>1. NumHW \in Nat /\ NumVirtual \in Nat /\ HWNode = 1 .. 1 + NumHW - 1
      /\ VNode = NumHW + 1 .. NumHW + 1 + NumVirtual - 1
  BY InputAssumption DEF HWNode, VNode
<1>2. hw \in Seq(Node) /\ ToSet(hw) = HWNode /\ IsInjective(hw)
  BY <1>1, VNodes, PushedFacts
<1>3. virtual \in Seq(Node) /\ ToSet(virtual) = VNode /\ IsInjective(virtual)
  <2>1. PICK first \in Nat : first = NumHW + 1
    BY <1>1
  <2>2. VNode = first .. first + NumVirtual - 1 /\ first .. first + NumVirtual - 1 \subseteq Node
    BY <1>1, <2>1, VNodes
  <2>3. virtual = [i \in 1 .. NumVirtual |-> first + NumVirtual - i]
    BY <2>1
  <2> HIDE DEF virtual
  <2> QED
    BY <1>1, <2>2, <2>3, PushedFacts
<1>4. <<>> \in Seq(Node) /\ ToSet(<<>>) = {} /\ IsInjective(<<>>)
  BY DEF ToSet, IsInjective
<1>5. /\ p.list = [s \in NodeState |-> IF s = "PRECOLORED" THEN hw ELSE IF s = "INITIAL" THEN virtual ELSE <<>>]
      /\ p = [p EXCEPT !.list = p.list]
  BY <1>0 DEF EmptyPass
<1> HIDE DEF hw, virtual
<1>6. p.list \in [NodeState -> Seq(Node)]
  BY <1>2, <1>3, <1>4, <1>5
<1>7. \A n \in Node : p.state[n] = IF n \in HWNode THEN "PRECOLORED" ELSE "INITIAL"
  BY <1>0 DEF EmptyPass
<1>8. p.state \in [Node -> NodeState]
  BY <1>0 DEF EmptyPass, NodeState
<1>9. p.color \in [Node -> Color \cup {NoColor}]
      /\ \A n \in Node : p.color[n] = IF n \in HWNode THEN HWColor[n] ELSE NoColor
  BY <1>0, InputAssumption DEF EmptyPass
<1>10. /\ p.degree \in [Node -> Int] /\ p.adjSet \in [Node -> SUBSET Node] /\ p.adjArr \in [Node -> Seq(Node)]
       /\ p.movArr \in [Node -> Seq(Mov)] /\ p.alias \in [Node -> Node \cup {NULL}]
       /\ p.failed = {}
       /\ \A n \in Node : p.degree[n] = 0 /\ p.adjSet[n] = {} /\ p.adjArr[n] = <<>> /\ p.alias[n] = NULL
  BY <1>0 DEF EmptyPass
<1>11. /\ p.movState \in [Mov -> MovState] /\ p.movNext \in [Mov -> Mov \cup {NULL}]
       /\ p.movList \in [MovState -> Mov \cup {NULL}]
       /\ \A m \in Mov : p.movState[m] = "ALLOCATED"
       /\ \A s \in MovState : p.movList[s] = NULL
  BY <1>0 DEF EmptyPass, Mov, MovState
<1>12. p \in Pass
  <2>1. p = [state |-> p.state, list |-> p.list, degree |-> p.degree, adjSet |-> p.adjSet, adjArr |-> p.adjArr,
             movArr |-> p.movArr, alias |-> p.alias, color |-> p.color, movState |-> p.movState,
             movNext |-> p.movNext, movList |-> p.movList, failed |-> p.failed]
    BY <1>0 DEF EmptyPass
  <2>2. p.failed \in SUBSET CheckName
    BY <1>10
  <2> QED
    BY <1>6, <1>8, <1>9, <1>10, <1>11, <2>1, <2>2 DEF Pass
<1>13. ListsOK(p)
  <2> SUFFICES ASSUME NEW s \in NodeState
               PROVE  ToSet(p.list[s]) = {n \in Node : p.state[n] = s} /\ IsInjective(p.list[s])
    BY DEF ListsOK
  <2>1. CASE s = "PRECOLORED"
    BY <1>2, <1>5, <1>7, <2>1, VNodes
  <2>2. CASE s = "INITIAL"
    <3>1. p.list[s] = virtual
      BY <1>5, <2>2
    <3>2. VNode = {n \in Node : p.state[n] = s}
      BY <1>7, <2>2, VNodes
    <3> QED
      BY <1>3, <3>1, <3>2
  <2>3. CASE s # "PRECOLORED" /\ s # "INITIAL"
    <3>1. p.list[s] = <<>>
      BY <1>5, <2>3
    <3>2. {n \in Node : p.state[n] = s} = {}
      BY <1>7, <2>3
    <3> QED
      BY <1>4, <3>1, <3>2
  <2> QED
    BY <2>1, <2>2, <2>3
<1>14. HWOK(p)
  BY <1>7 DEF HWOK
<1>15. GraphOK(p)
  BY <1>4, <1>10, VNodes DEF GraphOK
<1>16. "WORKLIST" \in MovState /\ "SELECT" \in NodeState
  BY DEF MovState, NodeState
<1>17. p.list["SELECT"] = <<>>
  BY <1>5, <1>16
<1>18. \A n \in Node : p.movArr[n] = <<>>
  BY <1>0 DEF EmptyPass
<1> QED
  BY <1>0, <1>7, <1>9, <1>10, <1>11, <1>12, <1>13, <1>14, <1>15, <1>16, <1>17, <1>18

(* The edges are those that were found. *)
LEMMA DrawsAll ==
  ASSUME MovsOK, NEW p \in Pass, HWOK(p), GraphOK(p), \A n \in Node : p.adjSet[n] = {} /\ p.degree[n] = 0,
         NEW g \in Seq(Node \X Node)
  PROVE  Draws(p, g, Len(g), FoldLeft(LAMBDA q, e : AddEdge(q, e[1], e[2]), p, g))
<1> DEFINE V == {q \in Pass : HWOK(q) /\ GraphOK(q)}
<1>1. DOMAIN g = 1 .. Len(g) /\ Len(g) \in Nat
  OBVIOUS
<1>2. ASSUME NEW i \in 1 .. Len(g)
      PROVE  \E a, b \in Node : g[i] = <<a, b>> /\ g[i][1] = a /\ g[i][2] = b
  <2>1. g[i] \in Node \X Node
    OBVIOUS
  <2> QED
    BY <2>1
<1>3. ASSUME NEW q \in V, NEW i \in 1 .. Len(g), NEW a \in Node, NEW b \in Node, g[i] = <<a, b>>
      PROVE  /\ AddPair(NULL, q, g[i]) \in V
             /\ IF a = b THEN AddPair(NULL, q, g[i]) = q ELSE Links(q, a, b, AddPair(NULL, q, g[i]))
  <2>1. AddPair(NULL, q, g[i]) = AddEdge(q, a, b)
    BY <1>3 DEF AddPair
  <2>2. CASE a = b
    BY <2>1, <2>2 DEF AddEdge
  <2>3. CASE a # b
    <3>1. Links(q, a, b, AddEdge(q, a, b))
      BY <2>3, AddEdgeFacts
    <3>2. AddEdge(q, a, b) \in V
      BY <3>1 DEF Links, HWOK
    <3> QED
      BY <2>1, <2>3, <3>1, <3>2
  <2> QED
    BY <2>2, <2>3
<1>4. p \in V
  OBVIOUS
<1> HIDE DEF V
<1>5. EdgeLoop!Closed(V, NULL, g)
  BY <1>1, <1>2, <1>3 DEF EdgeLoop!Closed
<1>6. PICK r : r = FoldLeft(LAMBDA q, e : AddEdge(q, e[1], e[2]), p, g)
  OBVIOUS
<1>7. r = EdgeLoop!Fold(NULL, p, g)
  BY <1>6 DEF AddPair, EdgeLoop!Fold, EdgeLoop!FoldLeft, FoldLeft,
         EdgeLoop!MapThenFoldSet, MapThenFoldSet, EdgeLoop!Max, Max
<1>8. PICK h : EdgeLoop!Trace(h, V, NULL, p, g)
  BY <1>4, <1>5, EdgeLoop!FoldTrace
<1>9. PICK k \in Nat : k = Len(g)
  BY <1>1
<1>10. /\ h \in [0 .. k -> V] /\ r = h[k] /\ h[0] = p
       /\ \A i \in 1 .. k : h[i] = AddPair(NULL, h[i - 1], g[i])
  BY <1>1, <1>7, <1>8, <1>9 DEF EdgeLoop!Trace
<1>11. \A i \in 0 .. k : h[i] \in V
  BY <1>10
<1> DEFINE Kept == {i \in 0 .. k : Draws(p, g, i, h[i])}
<1>12. 0 \in Kept
  <2>1. \A n \in Node : Linked(g, 0, n) = {}
    BY DEF Linked
  <2>2. Draws(p, g, 0, p)
    BY <2>1, FS_EmptySet, VNodes DEF Draws
  <2>3. 0 \in 0 .. k /\ Draws(p, g, 0, h[0])
    BY <1>9, <1>10, <2>2
  <2> QED
    BY <2>3
<1>13. ASSUME NEW i \in 0 .. k - 1, i \in Kept PROVE i + 1 \in Kept
  <2>1. i + 1 \in 1 .. k /\ (i + 1) - 1 = i /\ i \in 0 .. k /\ i + 1 \in 0 .. k
    BY <1>9
  <2>2. PICK a \in Node, b \in Node : g[i + 1] = <<a, b>>
    BY <1>2, <1>9, <2>1
  <2>3. PICK q \in V : q = h[i]
    BY <1>11, <2>1
  <2>4. PICK t : t = h[i + 1]
    OBVIOUS
  <2>5. t = AddPair(NULL, q, g[i + 1])
    BY <1>10, <2>1, <2>3, <2>4
  <2>6. t \in V /\ IF a = b THEN t = q ELSE Links(q, a, b, t)
    BY <1>3, <1>9, <2>1, <2>2, <2>5
  <2>7. Draws(p, g, i, q)
    BY <1>13, <2>3
  <2>8. ASSUME NEW n \in Node
        PROVE  Linked(g, i + 1, n) = Linked(g, i, n) \cup (IF n = a /\ a # b THEN {b} ELSE {})
                                                     \cup (IF n = b /\ a # b THEN {a} ELSE {})
    <3>1. \A j : j \in 1 .. i + 1 <=> j = i + 1 \/ j \in 1 .. i
      BY <2>1
    <3>2. \A m \in Node : (g[i + 1] = <<n, m>> \/ g[i + 1] = <<m, n>>) <=> (n = a /\ m = b) \/ (n = b /\ m = a)
      BY <2>2
    <3>3. \A m \in Node : m \in Linked(g, i + 1, n)
                          <=> m \in Linked(g, i, n) \/ (n # m /\ ((n = a /\ m = b) \/ (n = b /\ m = a)))
      BY <3>1, <3>2 DEF Linked
    <3>4. Linked(g, i + 1, n) \subseteq Node /\ Linked(g, i, n) \subseteq Node
      BY DEF Linked
    <3> QED
      BY <3>3, <3>4
  <2>9. CASE a = b
    <3>1. t = q /\ \A n \in Node : Linked(g, i + 1, n) = Linked(g, i, n)
      BY <2>6, <2>8, <2>9
    <3> QED
      BY <2>1, <2>4, <2>7, <2>9, <3>1 DEF Draws
  <2>10. CASE a # b
    <3>1. Links(q, a, b, t)
      BY <2>6, <2>10
    <3>2. \A n \in Node : t.adjSet[n] = Linked(g, i + 1, n)
      <4>1. \A n \in Node : t.adjSet[n] = q.adjSet[n] \cup (IF n = a THEN {b} ELSE {}) \cup (IF n = b THEN {a} ELSE {})
        BY <3>1 DEF Links
      <4>2. \A n \in Node : q.adjSet[n] = Linked(g, i, n)
        BY <2>7 DEF Draws
      <4> QED
        BY <2>8, <2>10, <4>1, <4>2
    <3>3. ASSUME NEW n \in VNode PROVE t.degree[n] = Cardinality(t.adjSet[n])
      <4>1. n \in Node /\ ~Precolored(q, n)
        BY <2>3, VNodes DEF V, HWOK, Precolored
      <4>2. q.adjSet[n] \subseteq Node /\ q.degree[n] = Cardinality(q.adjSet[n])
        BY <2>3, <2>7, <4>1 DEF V, Draws, Pass
      <4>3. IsFiniteSet(q.adjSet[n])
        BY <4>2, NodesFinite
      <4>4. /\ t.degree[n] = IF n \in {a, b} /\ b \notin q.adjSet[a] THEN q.degree[n] + 1 ELSE q.degree[n]
            /\ t.adjSet[n] = q.adjSet[n] \cup (IF n = a THEN {b} ELSE {}) \cup (IF n = b THEN {a} ELSE {})
        BY <3>1, <4>1 DEF Links
      <4>5. b \in q.adjSet[a] <=> a \in q.adjSet[b]
        BY <2>3 DEF V, GraphOK
      <4>6. CASE n = a
        <5>1. t.adjSet[n] = q.adjSet[n] \cup {b}
          BY <2>10, <4>4, <4>6
        <5>2. Cardinality(q.adjSet[n] \cup {b})
                = IF b \in q.adjSet[n] THEN Cardinality(q.adjSet[n]) ELSE Cardinality(q.adjSet[n]) + 1
          BY <4>3, FS_AddElement
        <5>3. CASE b \in q.adjSet[n]
          BY <4>2, <4>4, <4>6, <5>1, <5>2, <5>3
        <5>4. CASE b \notin q.adjSet[n]
          BY <4>2, <4>4, <4>6, <5>1, <5>2, <5>4
        <5> QED
          BY <5>3, <5>4
      <4>7. CASE n = b
        <5>1. t.adjSet[n] = q.adjSet[n] \cup {a}
          BY <2>10, <4>4, <4>7
        <5>2. Cardinality(q.adjSet[n] \cup {a})
                = IF a \in q.adjSet[n] THEN Cardinality(q.adjSet[n]) ELSE Cardinality(q.adjSet[n]) + 1
          BY <4>3, FS_AddElement
        <5>3. CASE a \in q.adjSet[n]
          BY <4>2, <4>4, <4>5, <4>7, <5>1, <5>2, <5>3
        <5>4. CASE a \notin q.adjSet[n]
          BY <4>2, <4>4, <4>5, <4>7, <5>1, <5>2, <5>4
        <5> QED
          BY <5>3, <5>4
      <4>8. CASE n # a /\ n # b
        BY <4>2, <4>4, <4>8
      <4> QED
        BY <4>6, <4>7, <4>8
    <3>4. Draws(p, g, i + 1, t)
      BY <2>7, <3>1, <3>2, <3>3 DEF Draws, Links
    <3> QED
      BY <2>1, <2>4, <3>4
  <2> QED
    BY <2>9, <2>10
<1> HIDE DEF Kept
<1>14. 0 .. k \subseteq Kept
  BY <1>12, <1>13, EdgeLoop!PrefixInduction
<1>15. k \in Kept
  BY <1>14
<1> QED
  BY <1>6, <1>9, <1>10, <1>15 DEF Kept

(* A node is told about a move. *)
LEMMA TellsOne ==
  ASSUME NEW p \in Pass, NEW n \in Node, NEW m \in Mov
  PROVE  Tells(p, {n}, m, [p EXCEPT !.movArr[n] = Append(@, m)])
<1> DEFINE arr == [p.movArr EXCEPT ![n] = Append(@, m)]
<1>1. p.movArr \in [Node -> Seq(Mov)]
  BY DEF Pass
<1>2. /\ Append(p.movArr[n], m) \in Seq(Mov)
      /\ ToSet(Append(p.movArr[n], m)) = ToSet(p.movArr[n]) \cup {m}
  BY <1>1, Appended
<1>3. /\ arr \in [Node -> Seq(Mov)]
      /\ \A x \in Node : arr[x] = IF x = n THEN Append(p.movArr[n], m) ELSE p.movArr[x]
  BY <1>1, <1>2
<1>4. PICK q : q = [p EXCEPT !.movArr = arr]
  OBVIOUS
<1>5. q = [p EXCEPT !.movArr[n] = Append(@, m)]
  BY <1>4
<1> HIDE DEF arr
<1>6. q \in Pass
  BY <1>3, <1>4 DEF Pass
<1>7. /\ q.movArr = arr /\ q.state = p.state /\ q.list = p.list /\ q.degree = p.degree /\ q.adjSet = p.adjSet
      /\ q.adjArr = p.adjArr /\ q.alias = p.alias /\ q.color = p.color /\ q.movState = p.movState
      /\ q.movNext = p.movNext /\ q.movList = p.movList /\ q.failed = p.failed
  BY <1>4 DEF Pass
<1>8. \A x \in Node : ToSet(q.movArr[x]) = ToSet(p.movArr[x]) \cup (IF x \in {n} THEN {m} ELSE {})
  BY <1>2, <1>3, <1>7
<1> QED
  BY <1>5, <1>6, <1>7, <1>8 DEF Tells

(* A move that is allocated is known to both its ends and will be looked at. *)
LEMMA MovAllocFacts ==
  ASSUME MovsOK, NEW p \in Pass, NEW m \in Mov
  PROVE  \E told \in Pass :
           /\ Tells(p, {movs[m].dst, movs[m].src}, m, told)
           /\ RelistsMove(told, m, "WORKLIST", MovAlloc(p, m, movs[m]))
           /\ MovAlloc(p, m, movs[m]).failed = p.failed
           /\ p.movState[m] # "WORKLIST" /\ MoveListOK(p) => MoveListOK(MovAlloc(p, m, movs[m]))
<1>1. movs[m].dst \in Node /\ movs[m].src \in Node
  BY MovEnds
<1>2. PICK d : d = [p EXCEPT !.movArr[movs[m].dst] = Append(@, m)]
  OBVIOUS
<1>3. Tells(p, {movs[m].dst}, m, d)
  BY <1>1, <1>2, TellsOne
<1>4. d \in Pass
  BY <1>3 DEF Tells
<1>5. PICK b : b = IF movs[m].dst = movs[m].src THEN d ELSE [d EXCEPT !.movArr[movs[m].src] = Append(@, m)]
  OBVIOUS
<1>6. Tells(p, {movs[m].dst, movs[m].src}, m, b)
  <2>1. CASE movs[m].dst = movs[m].src
    BY <1>3, <1>5, <2>1
  <2>2. CASE movs[m].dst # movs[m].src
    <3>1. Tells(d, {movs[m].src}, m, b)
      BY <1>1, <1>4, <1>5, <2>2, TellsOne
    <3> QED
      BY <1>3, <3>1 DEF Tells
  <2> QED
    BY <2>1, <2>2
<1>7. PICK q : q = MovSetState(b, m, "WORKLIST")
  OBVIOUS
<1>8. q = MovAlloc(p, m, movs[m])
  BY <1>2, <1>5, <1>7 DEF MovAlloc
<1>9. "WORKLIST" \in MovState
  BY DEF MovState
<1>10. b \in Pass /\ b.movState = p.movState /\ b.movNext = p.movNext /\ b.movList = p.movList /\ b.failed = p.failed
  BY <1>6 DEF Tells
<1>11. RelistsMove(b, m, "WORKLIST", q) /\ q.failed = p.failed
  BY <1>7, <1>9, <1>10, MovSetStateFacts
<1>12. p.movState[m] # "WORKLIST" /\ MoveListOK(p) => MoveListOK(q)
  <2>1. MoveListOK(p) => MoveListOK(b)
    BY <1>10 DEF MoveListOK, Spells
  <2>2. p.movState[m] # "WORKLIST" /\ MoveListOK(b) => MoveListOK(q)
    BY <1>7, <1>9, <1>10, MovSetStateList
  <2> QED
    BY <2>1, <2>2
<1> QED
  BY <1>6, <1>8, <1>10, <1>11, <1>12

(* All moves are allocated. *)
LEMMA AllocatesAll ==
  ASSUME MovsOK, NEW p \in Pass, \A m \in Mov : p.movState[m] = "ALLOCATED", p.movList["WORKLIST"] = NULL,
         \A n \in Node : p.movArr[n] = <<>>
  PROVE  Allocates(p, Len(movs), FoldLeft(LAMBDA q, m : MovAlloc(q, m, movs[m]), p, [m \in DOMAIN movs |-> m]))
<1>1. PICK k \in Nat : k = Len(movs) /\ Mov = 1 .. k
  BY DEF MovsOK, Mov
<1> DEFINE s == [m \in DOMAIN movs |-> m]
<1>2. s \in Seq(Mov) /\ Len(s) = k /\ DOMAIN s = 1 .. k /\ \A i \in 1 .. k : s[i] = i
  BY <1>1 DEF Mov
<1> HIDE DEF s
<1>3. PICK r : r = FoldLeft(LAMBDA q, m : MovAlloc(q, m, movs[m]), p, s)
  OBVIOUS
<1>4. ASSUME NEW q \in Pass, NEW i \in 1 .. k
      PROVE  \E told \in Pass :
               /\ Tells(q, {movs[i].dst, movs[i].src}, i, told)
               /\ RelistsMove(told, i, "WORKLIST", AllocMove(movs, q, i))
               /\ AllocMove(movs, q, i).failed = q.failed
               /\ q.movState[i] # "WORKLIST" /\ MoveListOK(q) => MoveListOK(AllocMove(movs, q, i))
  <2>1. i \in Mov
    BY <1>1
  <2> QED
    BY <2>1, MovAllocFacts DEF AllocMove
<1>5. \A q \in Pass : \A i \in 1 .. k : AllocMove(movs, q, i) \in Pass
  BY <1>4 DEF RelistsMove
<1>6. AllocLoop!Closed(Pass, movs, s)
  BY <1>2, <1>5 DEF AllocLoop!Closed
<1>7. r = AllocLoop!Fold(movs, p, s)
  BY <1>3 DEF AllocMove, AllocLoop!Fold, AllocLoop!FoldLeft, FoldLeft,
         AllocLoop!MapThenFoldSet, MapThenFoldSet, AllocLoop!Max, Max
<1>8. PICK h : AllocLoop!Trace(h, Pass, movs, p, s)
  BY <1>2, <1>6, AllocLoop!FoldTrace
<1>9. /\ h \in [0 .. k -> Pass] /\ r = h[k] /\ h[0] = p
      /\ \A i \in 1 .. k : h[i] = AllocMove(movs, h[i - 1], i)
  BY <1>2, <1>7, <1>8 DEF AllocLoop!Trace
<1> DEFINE Kept == {i \in 0 .. k : Allocates(p, i, h[i])}
<1>10. 0 \in Kept
  <2>1. Spells(p, <<>>)
    BY DEF Spells, IsInjective, ToSet
  <2>2. MoveListOK(p)
    <3>1. <<>> \in Seq(Mov)
      OBVIOUS
    <3> QED
      BY <2>1, <3>1 DEF MoveListOK
  <2>3. \A m \in Mov : ~(m <= 0)
    BY <1>1
  <2>4. Allocates(p, 0, p)
    BY <2>2, <2>3 DEF Allocates, ToSet
  <2>5. 0 \in 0 .. k /\ Allocates(p, 0, h[0])
    BY <1>9, <2>4
  <2> QED
    BY <2>5
<1>11. ASSUME NEW i \in 0 .. k - 1, i \in Kept PROVE i + 1 \in Kept
  <2>1. i + 1 \in 1 .. k /\ (i + 1) - 1 = i /\ i \in 0 .. k /\ i + 1 \in 0 .. k
    OBVIOUS
  <2>2. PICK q \in Pass : q = h[i]
    BY <1>9, <2>1
  <2>3. Allocates(p, i, q)
    BY <1>11, <2>2
  <2>4. PICK m \in Mov : m = i + 1
    BY <1>1, <2>1
  <2>5. PICK t : t = AllocMove(movs, q, m)
    OBVIOUS
  <2>6. t = h[i + 1]
    BY <1>9, <2>1, <2>2, <2>4, <2>5
  <2>7. PICK told \in Pass : /\ Tells(q, {movs[m].dst, movs[m].src}, m, told)
                             /\ RelistsMove(told, m, "WORKLIST", t)
                             /\ t.failed = q.failed
                             /\ q.movState[m] # "WORKLIST" /\ MoveListOK(q) => MoveListOK(t)
    BY <1>4, <2>1, <2>4, <2>5
  <2>8. t \in Pass
    BY <2>7 DEF RelistsMove
  <2>9. \A x \in Mov : /\ x <= i + 1 <=> x = m \/ x <= i
                       /\ x \in Nat
    BY <1>1, <2>1, <2>4
  <2>10. ~(m <= i)
    BY <2>1, <2>4
  <2>11. MoveListOK(t)
    BY <2>3, <2>7, <2>10 DEF Allocates
  <2>12. \A x \in Mov : t.movState[x] = IF x <= i + 1 THEN "WORKLIST" ELSE "ALLOCATED"
    <3>1. \A x \in Mov : t.movState[x] = IF x = m THEN "WORKLIST" ELSE q.movState[x]
      BY <2>7 DEF Tells, RelistsMove
    <3>2. \A x \in Mov : q.movState[x] = IF x <= i THEN "WORKLIST" ELSE "ALLOCATED"
      BY <2>3 DEF Allocates
    <3> QED
      BY <2>9, <3>1, <3>2
  <2>13. ASSUME NEW x \in Mov, x <= i + 1
         PROVE  x \in ToSet(t.movArr[movs[x].dst]) /\ x \in ToSet(t.movArr[movs[x].src])
    <3>1. movs[x].dst \in Node /\ movs[x].src \in Node
      BY MovEnds
    <3>2. \A n \in Node : ToSet(t.movArr[n]) = ToSet(q.movArr[n]) \cup (IF n \in {movs[m].dst, movs[m].src} THEN {m} ELSE {})
      BY <2>7 DEF Tells, RelistsMove
    <3>3. x = m \/ x <= i
      BY <2>9, <2>13
    <3>4. CASE x = m
      BY <3>1, <3>2, <3>4
    <3>5. CASE x <= i
      <4>1. x \in ToSet(q.movArr[movs[x].dst]) /\ x \in ToSet(q.movArr[movs[x].src])
        BY <2>3, <3>5 DEF Allocates
      <4> QED
        BY <3>1, <3>2, <4>1
    <3> QED
      BY <3>3, <3>4, <3>5
  <2>14. /\ t.state = p.state /\ t.list = p.list /\ t.degree = p.degree /\ t.adjSet = p.adjSet /\ t.adjArr = p.adjArr
         /\ t.alias = p.alias /\ t.color = p.color /\ t.failed = p.failed
    BY <2>3, <2>7 DEF Allocates, Tells, RelistsMove
  <2>15. \A n \in Node : \A x \in ToSet(t.movArr[n]) : n \in {movs[x].dst, movs[x].src}
    <3>1. \A n \in Node : ToSet(t.movArr[n]) = ToSet(q.movArr[n]) \cup (IF n \in {movs[m].dst, movs[m].src} THEN {m} ELSE {})
      BY <2>7 DEF Tells, RelistsMove
    <3>2. \A n \in Node : \A x \in ToSet(q.movArr[n]) : n \in {movs[x].dst, movs[x].src}
      BY <2>3 DEF Allocates
    <3> QED
      BY <3>1, <3>2
  <2>16. Allocates(p, i + 1, t)
    BY <2>8, <2>11, <2>12, <2>13, <2>14, <2>15 DEF Allocates
  <2> QED
    BY <2>1, <2>6, <2>16
<1> HIDE DEF Kept
<1>12. 0 .. k \subseteq Kept
  BY <1>10, <1>11, AllocLoop!PrefixInduction
<1>13. k \in Kept
  BY <1>12
<1> QED
  BY <1>1, <1>3, <1>9, <1>13 DEF Kept, s

(* jmir_regAlloc_init. *)
LEMMA BuildFacts ==
  ASSUME MovsOK, NEW g \in Seq(Node \X Node), NEW p, p = Build(g, movs)
  PROVE  /\ ReduceInv(p) /\ MoveListOK(p) /\ p.failed = {}
         /\ \A n \in Node : /\ p.state[n] = IF n \in HWNode THEN "PRECOLORED" ELSE "INITIAL"
                            /\ p.adjSet[n] = Linked(g, Len(g), n) /\ p.alias[n] = NULL
                            /\ p.color[n] = IF n \in HWNode THEN HWColor[n] ELSE NoColor
         /\ p.list["SELECT"] = <<>>
         /\ \A n \in VNode : p.degree[n] = Cardinality(p.adjSet[n])
         /\ \A n \in Node : \A m \in ToSet(p.movArr[n]) : n \in {movs[m].dst, movs[m].src}
<1>1. PICK e : e = EmptyPass(movs)
  OBVIOUS
<1>2. /\ e \in Pass /\ ListsOK(e) /\ HWOK(e) /\ GraphOK(e)
      /\ \A n \in Node : /\ e.state[n] = IF n \in HWNode THEN "PRECOLORED" ELSE "INITIAL"
                         /\ e.adjSet[n] = {} /\ e.alias[n] = NULL /\ e.degree[n] = 0 /\ e.movArr[n] = <<>>
                         /\ e.color[n] = IF n \in HWNode THEN HWColor[n] ELSE NoColor
      /\ \A m \in Mov : e.movState[m] = "ALLOCATED"
      /\ e.movList["WORKLIST"] = NULL /\ e.failed = {} /\ e.list["SELECT"] = <<>>
  BY <1>1, EmptyPassFacts
<1>3. PICK d : d = FoldLeft(LAMBDA q, x : AddEdge(q, x[1], x[2]), e, g)
  OBVIOUS
<1>4. Draws(e, g, Len(g), d)
  BY <1>2, <1>3, DrawsAll
<1>5. /\ d \in Pass /\ GraphOK(d) /\ d.state = e.state /\ d.list = e.list /\ d.alias = e.alias /\ d.color = e.color
      /\ d.movState = e.movState /\ d.movList = e.movList /\ d.movArr = e.movArr /\ d.failed = e.failed
      /\ \A n \in Node : d.adjSet[n] = Linked(g, Len(g), n)
      /\ \A n \in VNode : d.degree[n] = Cardinality(d.adjSet[n])
  BY <1>4 DEF Draws
<1>6. Allocates(d, Len(movs), p)
  <2>1. p = FoldLeft(LAMBDA q, m : MovAlloc(q, m, movs[m]), d, [m \in DOMAIN movs |-> m])
    BY <1>1, <1>3 DEF Build
  <2>2. /\ \A m \in Mov : d.movState[m] = "ALLOCATED"
        /\ \A n \in Node : d.movArr[n] = <<>>
        /\ d.movList["WORKLIST"] = NULL /\ d \in Pass
    BY <1>2, <1>5
  <2>3. Allocates(d, Len(movs), FoldLeft(LAMBDA q, m : MovAlloc(q, m, movs[m]), d, [m \in DOMAIN movs |-> m]))
    BY <2>2, AllocatesAll
  <2> QED
    BY <2>1, <2>3
<1>7. /\ p \in Pass /\ MoveListOK(p) /\ p.state = e.state /\ p.list = e.list /\ p.alias = e.alias /\ p.color = e.color
      /\ p.adjSet = d.adjSet /\ p.adjArr = d.adjArr /\ p.degree = d.degree /\ p.failed = {}
      /\ \A n \in Node : \A m \in ToSet(p.movArr[n]) : n \in {movs[m].dst, movs[m].src}
  BY <1>2, <1>5, <1>6 DEF Allocates
<1>8. \A m \in Mov : p.movState[m] = "WORKLIST" /\ m \in ToSet(p.movArr[movs[m].dst]) /\ m \in ToSet(p.movArr[movs[m].src])
  <2>1. \A m \in Mov : m <= Len(movs)
    BY DEF MovsOK, Mov
  <2> QED
    BY <1>6, <2>1 DEF Allocates
<1>9. ListsOK(p) /\ HWOK(p) /\ GraphOK(p) /\ Reducing(p)
  <2>1. Reducing(p)
    BY <1>2, <1>7 DEF Reducing, Listed
  <2> QED
    BY <1>2, <1>5, <1>7, <2>1 DEF ListsOK, HWOK, GraphOK
<1>10. RootMap(p.alias, [n \in Node |-> n])
  BY <1>2, <1>7 DEF RootMap
<1>11. AliasOK(p)
  <2>1. NULL \notin Node
    BY InputAssumption DEF Node, HWNode, VNode
  <2>2. Acyclic(p.alias)
    BY <1>2, <1>7, <2>1 DEF Acyclic
  <2>3. \A n \in Node : p.state[n] # "COALESCED" /\ p.alias[n] = NULL
    BY <1>2, <1>7
  <2> QED
    BY <1>10, <2>2, <2>3 DEF AliasOK
<1>12. \A n \in Node : GetAlias(p, n) = n
  <2>1. \A n \in Node : [x \in Node |-> x][n] = n
    OBVIOUS
  <2> QED
    BY <1>7, <1>10, <1>11, <2>1, ReducingAlias
<1>13. MovesKnown(p)
  BY <1>8, <1>12, MovEnds DEF MovesKnown
<1>14. Unrelated(p, "SIMPLIFY") /\ Unrelated(p, "SELECT")
  BY <1>2, <1>7 DEF Unrelated
<1>15. ReduceInv(p)
  BY <1>7, <1>8, <1>9, <1>11, <1>13, <1>14 DEF ReduceInv
<1> QED
  BY <1>2, <1>5, <1>7, <1>15

-----------------------------------------------------------------------------
(* The first worklists *)

(* Every node that is not precolored gets its first worklist. *)
LEMMA PlaceCalm ==
  ASSUME MovsOK, NEW p, ReduceInv(p)
  PROVE  Places(p, FoldLeft(LAMBDA r, n : PlaceNode(NULL, r, n), p, p.list["INITIAL"]))
<1> DEFINE V == {r \in Pass : Calm(p, r)}
           s == p.list["INITIAL"]
<1>0. p \in Pass /\ ListsOK(p) /\ "INITIAL" \in NodeState
  BY DEF ReduceInv, NodeState
<1>1. /\ s \in Seq(Node) /\ DOMAIN s = 1 .. Len(s) /\ Len(s) \in Nat
      /\ \A i \in 1 .. Len(s) : s[i] \in ToSet(s) /\ s[i] \in Node
      /\ \A x \in ToSet(s) : \E i \in 1 .. Len(s) : x = s[i]
  <2>1. s \in Seq(Node)
    BY <1>0 DEF Pass
  <2> HIDE DEF s
  <2> QED
    BY <2>1, ElementsOf
<1>2. \A n \in Node : p.state[n] = "INITIAL" <=> n \in ToSet(s)
  BY <1>0 DEF ListsOK
<1>3. p \in V
  BY <1>0, CalmNone
<1> HIDE DEF s
<1>4. ASSUME NEW r \in V, NEW i \in 1 .. Len(s)
      PROVE  PlaceNode(NULL, r, s[i]) \in V /\ Calm(r, PlaceNode(NULL, r, s[i]))
             /\ PlaceNode(NULL, r, s[i]).state[s[i]] # "INITIAL"
  <2>1. r \in Pass /\ Calm(p, r) /\ ListsOK(r)
    BY DEF Calm, Stays
  <2>2. PICK n \in Node : n = s[i] /\ p.state[n] = "INITIAL"
    BY <1>1, <1>2
  <2>3. r.state[n] \in Listed
    BY <2>1, <2>2 DEF Calm, Stays, Listed
  <2>4. PICK k : k = CASE Significant(r, n) -> "SPILL"
                       [] ~Significant(r, n) /\ MoveRelated(r, n) -> "FREEZE"
                       [] OTHER -> "SIMPLIFY"
    OBVIOUS
  <2>5. k \in NodeState /\ k \in Listed \ {"INITIAL"} /\ (k = "SIMPLIFY" => ~MoveRelated(r, n))
    BY <2>4 DEF NodeState, Listed
  <2>6. PICK t : t = NodeSetState(r, n, k)
    OBVIOUS
  <2>7. Relists(r, n, k, t)
    BY <2>1, <2>5, <2>6, NodeSetStateFacts
  <2>8. Calm(r, t) /\ t \in Pass
    BY <2>1, <2>3, <2>5, <2>7, RelistsCalm
  <2>9. Calm(p, t)
    BY <1>0, <2>1, <2>8, CalmTwice
  <2>10. t.state[n] = k
    BY <2>7 DEF Relists
  <2>11. t = PlaceNode(NULL, r, s[i])
    BY <2>2, <2>4, <2>6 DEF PlaceNode
  <2> QED
    BY <2>2, <2>5, <2>8, <2>9, <2>10, <2>11
<1>5. \A r \in V : r \in Pass /\ Calm(p, r)
  OBVIOUS
<1> HIDE DEF V
<1>6. PlaceLoop!Closed(V, NULL, s)
  BY <1>1, <1>4 DEF PlaceLoop!Closed
<1>19. PICK q : q = FoldLeft(LAMBDA r, n : PlaceNode(NULL, r, n), p, p.list["INITIAL"])
  OBVIOUS
<1>7. q = PlaceLoop!Fold(NULL, p, s)
  BY <1>19 DEF PlaceLoop!Fold, PlaceLoop!FoldLeft, FoldLeft,
         PlaceLoop!MapThenFoldSet, MapThenFoldSet, PlaceLoop!Max, Max, s
<1>8. PICK h : PlaceLoop!Trace(h, V, NULL, p, s)
  BY <1>1, <1>3, <1>6, PlaceLoop!FoldTrace
<1>9. PICK k \in Nat : k = Len(s)
  BY <1>1
<1>10. /\ h \in [0 .. k -> V] /\ q = h[k]
       /\ \A i \in 1 .. k : h[i] = PlaceNode(NULL, h[i - 1], s[i])
  BY <1>1, <1>7, <1>8, <1>9 DEF PlaceLoop!Trace
<1>11. \A i \in 0 .. k : h[i] \in V /\ h[i] \in Pass /\ Calm(p, h[i])
  BY <1>5, <1>10
<1> DEFINE Kept == {i \in 0 .. k : \A j \in 1 .. i : h[i].state[s[j]] # "INITIAL"}
<1>12. 0 \in Kept
  BY <1>9
<1>13. ASSUME NEW i \in 0 .. k - 1, i \in Kept PROVE i + 1 \in Kept
  <2>1. i + 1 \in 1 .. k /\ (i + 1) - 1 = i /\ i \in 0 .. k /\ i + 1 \in 0 .. k
    BY <1>9
  <2>2. h[i + 1] = PlaceNode(NULL, h[i], s[i + 1])
    BY <1>10, <2>1
  <2>3. Calm(h[i], h[i + 1]) /\ h[i + 1].state[s[i + 1]] # "INITIAL"
    BY <1>4, <1>9, <1>11, <2>1, <2>2
  <2>4. \A n \in Node : h[i + 1].state[n] = "INITIAL" => h[i].state[n] = "INITIAL"
    BY <2>3 DEF Calm, Stays, Listed
  <2>5. \A j \in 1 .. i + 1 : j = i + 1 \/ j \in 1 .. i
    BY <2>1
  <2>6. \A j \in 1 .. i : s[j] \in Node /\ h[i].state[s[j]] # "INITIAL"
    BY <1>1, <1>9, <1>13, <2>1
  <2>7. \A j \in 1 .. i + 1 : h[i + 1].state[s[j]] # "INITIAL"
    BY <2>3, <2>4, <2>5, <2>6
  <2> QED
    BY <2>1, <2>7
<1> HIDE DEF Kept
<1>14. 0 .. k \subseteq Kept
  BY <1>12, <1>13, PlaceLoop!PrefixInduction
<1>15. k \in Kept /\ k \in 0 .. k
  BY <1>9, <1>14
<1>16. \A j \in 1 .. k : q.state[s[j]] # "INITIAL"
  BY <1>10, <1>15 DEF Kept
<1>17. Calm(p, q) /\ q \in Pass
  BY <1>10, <1>11, <1>15
<1>18. \A n \in Node : q.state[n] = "INITIAL" => p.state[n] = "INITIAL"
  BY <1>17 DEF Calm, Stays, Listed
<1>20. \A n \in Node : q.state[n] # "INITIAL"
  BY <1>1, <1>2, <1>9, <1>16, <1>18
<1> QED
  BY <1>17, <1>19, <1>20 DEF Places
=============================================================================

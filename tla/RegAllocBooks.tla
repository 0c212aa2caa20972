---------------------------- MODULE RegAllocBooks ----------------------------
(***************************************************************************)
(* The books of the allocator are true: counted degrees are the numbers of *)
(* live neighbours, each worklist holds what its name promises, and a node *)
(* that was pushed with fewer neighbours than colours finds its colour.    *)
(***************************************************************************)
EXTENDS RegAllocCounts

-----------------------------------------------------------------------------
(* The steps of the loop over the worklists *)

(* No node is on a list that is empty. *)
LEMMA NobodyOn ==
  ASSUME NEW p, ListsOK(p), NEW s \in NodeState, p.list[s] = <<>>
  PROVE  \A n \in Node : p.state[n] # s
<1>1. ToSet(p.list[s]) = {}
  BY DEF ToSet
<1> QED
  BY <1>1 DEF ListsOK

(* nodeAddWorklist: n is where it belongs. *)
LEMMA AddWorklistCounted ==
  ASSUME MovsOK, NEW p, ReduceInv(p), NEW n \in Node, p.state[n] \in {"FREEZE", "SPILL", "PRECOLORED"},
         NEW X, Counted(p, {}, X, {})
  PROVE  /\ Counted(AddWorklist(p, n), {}, X \ {n}, {}) /\ AddWorklist(p, n).failed = p.failed
         /\ \A m \in Node \ {n} : AddWorklist(p, n).state[m] = p.state[m]
<1>1. p \in Pass /\ ListsOK(p) /\ "addWorklist" \in CheckName /\ p.state[n] \in (Listed \ {"INITIAL"}) \cup {"PRECOLORED"}
  BY DEF ReduceInv, CheckName, Listed
<1>2. PICK q : q = AddWorklist(p, n)
  OBVIOUS
<1>3. Idles(p, n, "addWorklist", q)
  BY <1>1, <1>2, SimplifyIfIdleFacts DEF AddWorklist
<1>4. /\ Counted(q, {}, X \ {n}, {}) /\ \A m \in Node \ {n} : q.state[m] = p.state[m]
      /\ q.failed = p.failed \/ (p.state[n] = "SIMPLIFY" /\ q.failed = p.failed \cup {"addWorklist"})
  <2>1. PICK E : E = {}
    OBVIOUS
  <2>2. Looked(p, n, X, "addWorklist", q)
    BY <1>1, <1>3, <2>1, IdlesCounted
  <2> QED
    BY ONLY <2>2 DEF Looked
<1> QED
  BY <1>2, <1>4

(* Counts and worklists are right again after a turn of coalesce. *)
LEMMA CoalesceCounted ==
  ASSUME MovsOK, ReduceInv(pass), MoveListOK(pass), MovesBelong(pass), \A n \in Node : pass.state[n] # "INITIAL",
         Counted(pass, {}, {}, {}), Coalesce
  PROVE  Counted(pass', {}, {}, {}) /\ pass'.failed = pass.failed
<1>1. PICK p, q : p = pass /\ q = pass'
  OBVIOUS
<1>2. /\ ReduceInv(p) /\ MoveListOK(p) /\ p \in Pass /\ MovesBelong(p) /\ Counted(p, {}, {}, {})
      /\ \A n \in Node : p.state[n] # "INITIAL"
  BY <1>1 DEF ReduceInv
<1>3. PICK m, x, y : /\ m = p.movList["WORKLIST"]
                     /\ x = GetAlias(p, movs[m].dst) /\ y = GetAlias(p, movs[m].src)
  OBVIOUS
<1>4. p.movList["WORKLIST"] # NULL /\ p.list["SIMPLIFY"] = <<>>
  BY <1>1 DEF Coalesce, NoWorkMoves, Empty
<1>5. /\ m \in Mov /\ p.movState[m] = "WORKLIST" /\ x \in Node /\ y \in Node
      /\ p.state[x] \in (Listed \ {"SIMPLIFY"}) \cup {"PRECOLORED"}
      /\ p.state[y] \in (Listed \ {"SIMPLIFY"}) \cup {"PRECOLORED"}
  BY <1>2, <1>3, <1>4, WaitingMove
<1>6. PICK u, v : u = (IF Precolored(p, y) THEN y ELSE x) /\ v = (IF Precolored(p, y) THEN x ELSE y)
  OBVIOUS
<1>7. /\ u \in Node /\ v \in Node /\ {u, v} = {x, y}
      /\ p.state[u] \in {"FREEZE", "SPILL", "PRECOLORED"} /\ p.state[v] \in {"FREEZE", "SPILL", "PRECOLORED"}
  BY <1>2, <1>5, <1>6 DEF Listed
<1>8. q = CASE u = v -> AddWorklist(MovSetState(p, m, "COALESCED"), u)
            [] u # v /\ (Precolored(p, v) \/ v \in p.adjSet[u]) ->
                 AddWorklist(AddWorklist(MovSetState(p, m, "CONSTRAINED"), u), v)
            [] u # v /\ ~Precolored(p, v) /\ v \notin p.adjSet[u] /\ CanCombine(p, u, v) ->
                 AddWorklist(Combine(MovSetState(p, m, "COALESCED"), u, v), u)
            [] OTHER -> MovSetState(p, m, "ACTIVE")
  BY <1>1, <1>3, <1>6 DEF Coalesce, Defer
<1>9. ASSUME NEW s \in {"COALESCED", "CONSTRAINED", "ACTIVE"}, NEW r, r = MovSetState(p, m, s)
      PROVE  /\ ReduceInv(r) /\ r.state = p.state /\ r.adjSet = p.adjSet /\ r.failed = p.failed
             /\ Counted(r, {}, {u, v}, {}) /\ (s = "ACTIVE" => Counted(r, {}, {}, {}))
  <2>1. s \in MovState /\ s \in MovState \ {"ALLOCATED", "WORKLIST"}
    BY DEF MovState
  <2>2. ReduceInv(r)
    BY <1>2, <1>3, <1>5, <1>9, <2>1, MoveDecided
  <2>3. RelistsMove(p, m, s, r) /\ r.failed = p.failed
    BY <1>2, <1>5, <1>9, <2>1, MovSetStateFacts
  <2>4. /\ Counted(r, {}, {} \cup {GetAlias(p, movs[m].dst), GetAlias(p, movs[m].src)}, {})
        /\ MovPending(p, m) /\ s = "ACTIVE" => Counted(r, {}, {}, {})
    BY ONLY MovsOK, <1>2, <1>5, <2>3, DecidedCounted
  <2>5. {} \cup {GetAlias(p, movs[m].dst), GetAlias(p, movs[m].src)} = {u, v}
    BY <1>3, <1>7
  <2>6. MovPending(p, m)
    BY <1>5 DEF MovPending
  <2> QED
    BY <2>2, <2>3, <2>4, <2>5, <2>6 DEF RelistsMove
<1>10. CASE u = v
  <2>1. PICK r : r = MovSetState(p, m, "COALESCED")
    OBVIOUS
  <2>2. ReduceInv(r) /\ r.state = p.state /\ r.failed = p.failed /\ Counted(r, {}, {u, v}, {})
    BY <1>9, <2>1
  <2>3. q = AddWorklist(r, u)
    BY <1>8, <1>10, <2>1
  <2>4. {u, v} \ {u} = {}
    BY <1>10
  <2> QED
    BY <1>1, <1>7, <2>2, <2>3, <2>4, AddWorklistCounted
<1>11. CASE u # v /\ (Precolored(p, v) \/ v \in p.adjSet[u])
  <2>1. PICK r, t : r = MovSetState(p, m, "CONSTRAINED") /\ t = AddWorklist(r, u)
    OBVIOUS
  <2>2. ReduceInv(r) /\ r.state = p.state /\ r.failed = p.failed /\ Counted(r, {}, {u, v}, {})
    BY <1>9, <2>1
  <2>3. q = AddWorklist(t, v)
    BY <1>8, <1>11, <2>1
  <2>4. ReduceInv(t)
    <3>1. r.state[u] \in Listed \cup {"PRECOLORED"}
      BY <1>7, <2>2 DEF Listed
    <3> QED
      BY <1>7, <2>1, <2>2, <3>1, AddWorklistCalm
  <2>5. Counted(t, {}, {u, v} \ {u}, {}) /\ t.failed = p.failed /\ \A n \in Node \ {u} : t.state[n] = r.state[n]
    BY <1>7, <2>1, <2>2, AddWorklistCounted
  <2>6. {u, v} \ {u} = {v} /\ {v} \ {v} = {} /\ t.state[v] \in {"FREEZE", "SPILL", "PRECOLORED"}
    BY <1>7, <1>11, <2>2, <2>5
  <2>7. Counted(q, {}, {v} \ {v}, {}) /\ q.failed = t.failed
    BY <1>7, <2>3, <2>4, <2>5, <2>6, AddWorklistCounted
  <2> QED
    BY <1>1, <2>5, <2>6, <2>7
<1>12. CASE u # v /\ ~Precolored(p, v) /\ v \notin p.adjSet[u] /\ CanCombine(p, u, v)
  <2>1. PICK r, b : r = MovSetState(p, m, "COALESCED") /\ b = Combine(r, u, v)
    OBVIOUS
  <2>2. ReduceInv(r) /\ r.state = p.state /\ r.adjSet = p.adjSet /\ r.failed = p.failed /\ Counted(r, {}, {u, v}, {})
    BY <1>9, <2>1
  <2>3. Mergeable(r, u, v)
    BY <1>7, <1>12, <2>2 DEF Mergeable, Precolored, Listed
  <2>4. \A n \in Node : r.state[n] \notin {"INITIAL", "SIMPLIFY"}
    <3>1. "SIMPLIFY" \in NodeState /\ ListsOK(p)
      BY <1>2 DEF NodeState, ReduceInv
    <3> QED
      BY <1>2, <1>4, <2>2, <3>1, NobodyOn
  <2>5. /\ Counted(b, {}, {u}, {}) /\ b.failed = r.failed
        /\ b.state[u] \in {"FREEZE", "SPILL", "PRECOLORED"}
    BY ONLY MovsOK, <2>1, <2>2, <2>3, <2>4, CombineCounted
  <2>6. ReduceInv(b)
    <3>1. InGraph(r, u) /\ r.state[u] # "SIMPLIFY" /\ r.state[v] \in Listed /\ v \notin r.adjSet[u] /\ u # v
      BY <2>3 DEF Mergeable, InGraph, Listed
    <3> QED
      BY <1>7, <2>1, <2>2, <3>1, CombineMerges
  <2>7. q = AddWorklist(b, u)
    BY <1>8, <1>12, <2>1
  <2>8. {u} \ {u} = {}
    OBVIOUS
  <2>9. Counted(q, {}, {u} \ {u}, {}) /\ q.failed = b.failed
    BY <1>7, <2>5, <2>6, <2>7, AddWorklistCounted
  <2> QED
    BY <1>1, <2>2, <2>5, <2>8, <2>9
<1>13. CASE ~(u = v) /\ ~(Precolored(p, v) \/ v \in p.adjSet[u]) /\ ~CanCombine(p, u, v)
  <2>1. q = MovSetState(p, m, "ACTIVE")
    BY <1>8, <1>13
  <2> QED
    BY <1>1, <1>9, <2>1
<1> QED
  BY <1>10, <1>11, <1>12, <1>13

(* A node that is not significant leaves the graph: all counts are right again. *)
LEMMA SimplifyCounted ==
  ASSUME MovsOK, ReduceInv(pass), \A m \in Node : pass.state[m] # "INITIAL",
         NEW chosen, DegreesOff(pass, {}), ListsMean(pass, chosen, {}, {}), Simplify
  PROVE  Counted(pass', {}, {}, {}) /\ pass'.failed = pass.failed
<1>1. PICK p, q, n : p = pass /\ q = pass' /\ n = Head(p.list["SIMPLIFY"])
  OBVIOUS
<1>2. /\ ReduceInv(p) /\ p \in Pass /\ ListsOK(p) /\ GraphOK(p) /\ HWOK(p) /\ Reducing(p)
      /\ DegreesOff(p, {}) /\ ListsMean(p, chosen, {}, {}) /\ \A m \in Node : p.state[m] # "INITIAL"
  BY <1>1 DEF ReduceInv
<1>3. p.list["SIMPLIFY"] # <<>> /\ q = ForAdjacent(NodeSetState(p, n, "SELECT"), n, DecrementDegree)
  BY <1>1 DEF Simplify, Empty
<1>4. n \in Node /\ p.state[n] = "SIMPLIFY"
  BY <1>1, <1>2, <1>3, SimplifyPushes
<1>5. PICK r : r = NodeSetState(p, n, "SELECT")
  OBVIOUS
<1>6. Relists(p, n, "SELECT", r) /\ r.failed = p.failed
  <2>1. "SELECT" \in NodeState
    BY DEF NodeState
  <2> QED
    BY <1>2, <1>4, <1>5, <2>1, NodeSetStateFacts
<1>7. /\ r \in Pass /\ ListsOK(r) /\ r.adjSet = p.adjSet /\ r.adjArr = p.adjArr /\ r.degree = p.degree
      /\ r.movArr = p.movArr /\ r.movState = p.movState
      /\ \A m \in Node : r.state[m] = IF m = n THEN "SELECT" ELSE p.state[m]
  BY <1>6 DEF Relists
<1>8. Reducing(r) /\ HWOK(r) /\ \A m \in Node : r.state[m] # "INITIAL"
  BY <1>2, <1>4, <1>7 DEF Reducing, HWOK
<1>9. ToSet(p.adjArr[n]) = p.adjSet[n] /\ IsInjective(p.adjArr[n]) /\ p.state[n] \in Listed
  <2>1. n \in VNode
    BY <1>2, <1>4, VNodes DEF HWOK
  <2> QED
    BY <1>2, <1>4, <2>1 DEF GraphOK, Listed
<1>10. DegreesOff(r, p.adjSet[n])
  BY <1>2, <1>4, <1>7, <1>9, LeavesCounted
<1>11. ListsMean(r, {}, {}, {})
  <2>1. \A m \in Node : (Significant(r, m) <=> Significant(p, m)) /\ (MoveRelated(r, m) <=> MoveRelated(p, m))
    BY <1>7 DEF Significant, MoveRelated, MovPending
  <2>2. ASSUME NEW m \in Node
        PROVE  /\ r.state[m] = "FREEZE" => ~Significant(r, m) /\ MoveRelated(r, m)
               /\ r.state[m] = "SPILL" => Significant(r, m)
               /\ r.state[m] = "SIMPLIFY" => ~Significant(r, m)
    <3>1. /\ p.state[m] = "FREEZE" => ~Significant(p, m) /\ MoveRelated(p, m)
          /\ p.state[m] = "SPILL" => Significant(p, m)
          /\ p.state[m] = "SIMPLIFY" => ~Significant(p, m) \/ p.list["SIMPLIFY"] = <<m>>
      BY <1>2 DEF ListsMean
    <3>2. p.list["SIMPLIFY"] = <<m>> => m = n
      BY <1>1
    <3> QED
      BY <1>7, <2>1, <3>1, <3>2
  <2> QED
    BY <2>2 DEF ListsMean
<1>12. Counted(r, ToSet(r.adjArr[n]), {}, {}) /\ IsInjective(r.adjArr[n])
  BY <1>7, <1>9, <1>10, <1>11 DEF Counted
<1>13. Counted(q, {}, {}, {}) /\ q.failed = r.failed
  <2>1. q = ForAdjacent(r, n, DecrementDegree)
    BY <1>3, <1>5
  <2> QED
    BY <1>4, <1>7, <1>8, <1>12, <2>1, NeighboursCounted
<1> QED
  BY <1>1, <1>6, <1>13

(* What is calm leaves every node its moves. *)
LEMMA CalmBelong ==
  ASSUME MovsOK, NEW p \in Pass, AliasOK(p), NEW q \in Pass, Calm(p, q), MovesBelong(p)
  PROVE  MovesBelong(q)
<1> SUFFICES ASSUME NEW n \in Node, InGraph(q, n), NEW m \in ToSet(q.movArr[n])
             PROVE  n \in {GetAlias(q, movs[m].dst), GetAlias(q, movs[m].src)}
  BY DEF MovesBelong
<1>1. m \in Mov
  <2>1. q.movArr[n] \in Seq(Mov)
    BY DEF Pass
  <2> QED
    BY <2>1, ElementsOf
<1>2. movs[m].dst \in Node /\ movs[m].src \in Node
  BY <1>1, MovEnds
<1>3. InGraph(p, n) /\ q.movArr = p.movArr /\ Stays(p, q)
  BY CalmLive DEF Calm, Stays
<1>4. n \in {GetAlias(p, movs[m].dst), GetAlias(p, movs[m].src)}
  BY <1>3 DEF MovesBelong
<1> QED
  BY <1>2, <1>3, <1>4, StaysAlias

(* A move of u that is given up leaves its other end where it belongs. *)
LEMMA GiveUpCounted ==
  ASSUME MovsOK, NEW q \in Pass, ListsOK(q), Reducing(q), AliasOK(q), MovesKnown(q), Unrelated(q, "SELECT"),
         NoneWaiting(q), MovesBelong(q), \A n \in Node : q.state[n] # "INITIAL", NEW u \in Node, q.state[u] = "SIMPLIFY",
         Counted(q, {}, {}, {}), NEW m \in ToSet(q.movArr[u]), q.failed \subseteq {"freezeNode"}
  PROVE  /\ Counted(GiveUp(u, q, m), {}, {}, {}) /\ GiveUp(u, q, m).failed \subseteq {"freezeNode"}
         /\ GiveUp(u, q, m).state[u] = "SIMPLIFY"
<1>1. m \in Mov
  <2>1. q.movArr[u] \in Seq(Mov)
    BY DEF Pass
  <2> QED
    BY <2>1, ElementsOf
<1>2. PICK r : r = GiveUp(u, q, m)
  OBVIOUS
<1>3. CASE ~MovPending(q, m)
  <2>1. r = q
    BY <1>2, <1>3 DEF GiveUp
  <2> QED
    BY <1>2, <2>1
<1>4. CASE MovPending(q, m)
  <2>1. PICK a : a = Across(q, u, m)
    OBVIOUS
  <2>2. a \in Node /\ q.state[a] \in (Listed \ {"INITIAL"}) \cup {"PRECOLORED"}
    <3>1. a \in Node /\ q.state[a] \in Listed \cup {"PRECOLORED"}
      BY <1>1, <1>4, <2>1, AcrossInGraph
    <3> QED
      BY <3>1
  <2>3. GivesUp(u, q, m, r)
    BY <1>1, <1>2, <2>1, <2>2, GiveUpFacts
  <2>4. PICK w \in Pass :
          /\ RelistsMove(q, m, "FROZEN", w)
          /\ w.failed = IF q.movState[m] = "ACTIVE" THEN q.failed ELSE q.failed \cup {"freezeActive"}
          /\ Idles(w, a, "freezeNode", r)
    BY <1>4, <2>1, <2>3 DEF GivesUp
  <2>5. w.failed = q.failed /\ w.state = q.state
    <3>1. q.movState[m] = "ACTIVE"
      BY <1>1, <1>4 DEF MovPending, NoneWaiting
    <3> QED
      BY <2>4, <3>1 DEF RelistsMove
  <2>6. PICK E : E = {GetAlias(q, movs[m].dst), GetAlias(q, movs[m].src)}
    OBVIOUS
  <2>7. E \subseteq {u, a}
    <3>1. u \in E
      <4>1. InGraph(q, u)
        BY DEF InGraph
      <4> QED
        BY <2>6, <4>1 DEF MovesBelong
    <3>2. GetAlias(q, u) = u
      <4>1. PICK g : RootMap(q.alias, g)
        BY DEF AliasOK
      <4>2. q.alias[u] = NULL
        BY DEF AliasOK
      <4>3. g[u] = u
        BY <4>1, <4>2 DEF RootMap
      <4> QED
        BY <4>1, <4>3, ReducingAlias
    <3> QED
      BY <2>1, <2>6, <3>1, <3>2 DEF Across
  <2>8. Counted(w, {}, {} \cup E, {})
    BY <1>1, <2>4, <2>6, DecidedCounted
  <2>9. /\ Counted(r, {}, ({} \cup E) \ {a}, {}) /\ (\A x \in Node \ {a} : r.state[x] = w.state[x])
        /\ r.state[a] \in {w.state[a], "SIMPLIFY"}
        /\ r.failed = w.failed \/ r.failed = w.failed \cup {"freezeNode"}
    <3>1. w.state[a] \in (Listed \ {"INITIAL"}) \cup {"PRECOLORED"}
      BY <2>2, <2>5
    <3>2. PICK X, O : X = {} \cup E /\ O = {}
      OBVIOUS
    <3>3. Looked(w, a, X, "freezeNode", r)
      BY <2>2, <2>4, <2>8, <3>1, <3>2, IdlesCounted
    <3> QED
      BY <3>2, <3>3 DEF Looked
  <2>10. r.state[u] = "SIMPLIFY" /\ r.failed \subseteq {"freezeNode"}
    BY <2>5, <2>9
  <2>11. Counted(r, {}, {}, {})
    <3>1. ({} \cup E) \ {a} \subseteq {u}
      BY <2>7
    <3>2. DegreesOff(r, {}) /\ ListsMean(r, {}, ({} \cup E) \ {a}, {})
      BY <2>9 DEF Counted
    <3>3. ListsMean(r, {}, {}, {})
      BY <2>10, <3>1, <3>2 DEF ListsMean
    <3> QED
      BY <3>2, <3>3 DEF Counted
  <2> QED
    BY <1>2, <2>10, <2>11
<1> QED
  BY <1>3, <1>4

(* When the moves of u are given up the other ends are where they belong. *)
LEMMA FreezeMovesCounted ==
  ASSUME MovsOK, NEW p \in Pass, ListsOK(p), Reducing(p), AliasOK(p), MovesKnown(p), Unrelated(p, "SELECT"),
         NoneWaiting(p), MovesBelong(p), \A n \in Node : p.state[n] # "INITIAL", NEW u \in Node, p.state[u] = "SIMPLIFY",
         Counted(p, {}, {}, {}), p.failed \subseteq {"freezeNode"}
  PROVE  Counted(FreezeMoves(p, u), {}, {}, {}) /\ FreezeMoves(p, u).failed \subseteq {"freezeNode"}
<1> DEFINE V == {q \in Pass : /\ Calm(p, q) /\ NoneWaiting(q) /\ Counted(q, {}, {}, {})
                              /\ q.state[u] = "SIMPLIFY" /\ q.failed \subseteq {"freezeNode"}}
           s == p.movArr[u]
<1>1. s \in Seq(Mov)
  BY DEF Pass
<1>2. /\ DOMAIN s = 1 .. Len(s) /\ Len(s) \in Nat /\ \A i \in 1 .. Len(s) : s[i] \in ToSet(s) /\ s[i] \in Mov
  <2> HIDE DEF s
  <2> QED
    BY <1>1, ElementsOf
<1>3. p \in V
  BY CalmNone
<1>4. ASSUME NEW q \in V, NEW m \in ToSet(s), m \in Mov PROVE GiveUp(u, q, m) \in V
  <2>1. /\ Calm(p, q) /\ Stays(p, q) /\ q \in Pass /\ ListsOK(q) /\ NoneWaiting(q) /\ Counted(q, {}, {}, {})
        /\ q.state[u] = "SIMPLIFY" /\ q.failed \subseteq {"freezeNode"} /\ q.movArr = p.movArr
    BY DEF Calm, Stays
  <2>2. Reducing(q) /\ AliasOK(q) /\ MovesKnown(q) /\ Unrelated(q, "SELECT")
    BY <2>1, StaysReducing, StaysAlias, StaysMoves
  <2>3. MovesBelong(q) /\ \A n \in Node : q.state[n] # "INITIAL"
    BY <2>1, CalmBelong DEF Stays, Listed
  <2>4. PICK r : r = GiveUp(u, q, m)
    OBVIOUS
  <2>5. Calm(q, r) /\ r \in Pass /\ Frees(q, m, r)
    BY <1>4, <2>1, <2>2, <2>4, GiveUpCalm
  <2>6. Calm(p, r)
    BY <2>1, <2>5, CalmTwice
  <2>7. NoneWaiting(r)
    BY <2>1, <2>5 DEF NoneWaiting, Frees
  <2>8. m \in ToSet(q.movArr[u])
    BY <2>1
  <2>9. Counted(r, {}, {}, {}) /\ r.failed \subseteq {"freezeNode"} /\ r.state[u] = "SIMPLIFY"
    BY ONLY MovsOK, <2>1, <2>2, <2>3, <2>4, <2>8, u \in Node, GiveUpCounted
  <2> QED
    BY <2>4, <2>5, <2>6, <2>7, <2>9
<1>5. PICK q : q = FreezeMoves(p, u)
  OBVIOUS
<1>6. q = FreezeLoop!Fold(u, p, s)
  BY <1>5 DEF FreezeMoves, GiveUp, FreezeLoop!Fold, FreezeLoop!FoldLeft, FoldLeft,
         FreezeLoop!MapThenFoldSet, MapThenFoldSet, FreezeLoop!Max, Max
<1> HIDE DEF V, s
<1>7. FreezeLoop!Closed(V, u, s)
  BY <1>2, <1>4 DEF FreezeLoop!Closed
<1>8. q \in V
  BY <1>1, <1>3, <1>6, <1>7, FreezeLoop!FoldInvariant
<1> QED
  BY <1>5, <1>8 DEF V

(* Where nothing is left but significant nodes, no move that is given up
   makes a difference.                                                     *)
LEMMA FreezeMovesIdle ==
  ASSUME MovsOK, NEW p \in Pass, ListsOK(p), Reducing(p), AliasOK(p), MovesKnown(p), Unrelated(p, "SELECT"),
         NoneWaiting(p), NEW u \in Node, \A n \in Node : p.state[n] \in Listed => Significant(p, n)
  PROVE  LET q == FreezeMoves(p, u)
         IN  q.state = p.state /\ q.list = p.list /\ q.degree = p.degree /\ q.adjSet = p.adjSet /\ q.failed = p.failed
<1> DEFINE V == {q \in Pass : /\ Calm(p, q) /\ NoneWaiting(q) /\ q.state = p.state /\ q.list = p.list
                              /\ q.degree = p.degree /\ q.adjSet = p.adjSet /\ q.failed = p.failed}
           s == p.movArr[u]
<1>1. s \in Seq(Mov)
  BY DEF Pass
<1>2. DOMAIN s = 1 .. Len(s) /\ \A i \in 1 .. Len(s) : s[i] \in Mov
  <2> HIDE DEF s
  <2> QED
    BY <1>1, ElementsOf
<1>3. p \in V
  BY CalmNone
<1>4. ASSUME NEW q \in V, NEW m \in Mov PROVE GiveUp(u, q, m) \in V
  <2>1. /\ Calm(p, q) /\ Stays(p, q) /\ q \in Pass /\ ListsOK(q) /\ NoneWaiting(q) /\ q.state = p.state
        /\ q.list = p.list /\ q.degree = p.degree /\ q.adjSet = p.adjSet /\ q.failed = p.failed
    BY DEF Calm, Stays
  <2>2. Reducing(q) /\ AliasOK(q) /\ MovesKnown(q) /\ Unrelated(q, "SELECT")
    BY <2>1, StaysReducing, StaysAlias, StaysMoves
  <2>3. PICK r : r = GiveUp(u, q, m)
    OBVIOUS
  <2>4. Calm(q, r) /\ r \in Pass /\ Frees(q, m, r) /\ GivesUp(u, q, m, r)
    BY <2>1, <2>2, <2>3, GiveUpCalm
  <2>5. Calm(p, r)
    BY <2>1, <2>4, CalmTwice
  <2>6. NoneWaiting(r)
    BY <2>1, <2>4 DEF NoneWaiting, Frees
  <2>7. /\ r.state = p.state /\ r.list = p.list /\ r.degree = p.degree /\ r.adjSet = p.adjSet /\ r.failed = p.failed
    <3>1. CASE ~MovPending(q, m)
      BY <2>1, <2>4, <3>1 DEF GivesUp
    <3>2. CASE MovPending(q, m)
      <4>1. PICK a : a = Across(q, u, m)
        OBVIOUS
      <4>2. a \in Node /\ q.state[a] \in Listed \cup {"PRECOLORED"}
        BY <2>1, <2>2, <3>2, <4>1, AcrossInGraph
      <4>3. PICK w \in Pass :
              /\ RelistsMove(q, m, "FROZEN", w)
              /\ w.failed = IF q.movState[m] = "ACTIVE" THEN q.failed ELSE q.failed \cup {"freezeActive"}
              /\ Idles(w, a, "freezeNode", r)
        BY <2>4, <3>2, <4>1 DEF GivesUp
      <4>4. q.movState[m] = "ACTIVE"
        BY <2>1, <3>2 DEF MovPending, NoneWaiting
      <4>5. /\ w.failed = q.failed /\ w.state = q.state /\ w.list = q.list /\ w.degree = q.degree
            /\ w.adjSet = q.adjSet
        BY <4>3, <4>4 DEF RelistsMove
      <4>6. Precolored(w, a) \/ Significant(w, a)
        BY <2>1, <4>2, <4>5 DEF Precolored, Significant
      <4>7. r = w
        BY <4>3, <4>6 DEF Idles
      <4> QED
        BY <2>1, <4>5, <4>7
    <3> QED
      BY <3>1, <3>2
  <2> QED
    BY <2>3, <2>4, <2>5, <2>6, <2>7
<1>5. PICK q : q = FreezeMoves(p, u)
  OBVIOUS
<1>6. q = FreezeLoop!Fold(u, p, s)
  BY <1>5 DEF FreezeMoves, GiveUp, FreezeLoop!Fold, FreezeLoop!FoldLeft, FoldLeft,
         FreezeLoop!MapThenFoldSet, MapThenFoldSet, FreezeLoop!Max, Max
<1> HIDE DEF V, s
<1>7. FreezeLoop!Closed(V, u, s)
  BY <1>2, <1>4 DEF FreezeLoop!Closed
<1>8. q \in V
  BY <1>1, <1>3, <1>6, <1>7, FreezeLoop!FoldInvariant
<1> QED
  BY <1>5, <1>8 DEF V

(* Counts and worklists are right again when a node is frozen. *)
LEMMA FreezeCounted ==
  ASSUME MovsOK, ReduceInv(pass), MoveListOK(pass), MovesBelong(pass), \A n \in Node : pass.state[n] # "INITIAL",
         Counted(pass, {}, {}, {}), pass.failed \subseteq {"freezeNode"}, Freeze
  PROVE  Counted(pass', {}, {}, {}) /\ pass'.failed \subseteq {"freezeNode"}
<1>1. PICK p, q, n : p = pass /\ q = pass' /\ n = Head(p.list["FREEZE"])
  OBVIOUS
<1>2. /\ ReduceInv(p) /\ MoveListOK(p) /\ p \in Pass /\ ListsOK(p) /\ MovesBelong(p) /\ Counted(p, {}, {}, {})
      /\ p.failed \subseteq {"freezeNode"} /\ \A m \in Node : p.state[m] # "INITIAL"
  BY <1>1 DEF ReduceInv
<1>3. /\ p.list["FREEZE"] # <<>> /\ p.movList["WORKLIST"] = NULL
      /\ q = FreezeMoves(NodeSetState(p, n, "SIMPLIFY"), n)
  BY <1>1 DEF Freeze, Empty, NoWorkMoves
<1>4. n \in Node /\ p.state[n] = "FREEZE" /\ p.state[n] \in Listed
  <2>1. "FREEZE" \in NodeState
    BY DEF NodeState
  <2>2. p.list["FREEZE"] \in Seq(Node)
    BY <1>2, <2>1 DEF Pass
  <2>3. n \in ToSet(p.list["FREEZE"])
    BY <1>1, <1>3, <2>2 DEF ToSet
  <2>4. n \in Node /\ p.state[n] = "FREEZE"
    BY <1>2, <2>1, <2>3 DEF ListsOK
  <2> QED
    BY <2>4 DEF Listed
<1>5. PICK r : r = NodeSetState(p, n, "SIMPLIFY")
  OBVIOUS
<1>6. Relists(p, n, "SIMPLIFY", r) /\ r.failed = p.failed /\ "SIMPLIFY" \in Listed
  <2>1. "SIMPLIFY" \in NodeState /\ "SIMPLIFY" \in Listed
    BY DEF NodeState, Listed
  <2> QED
    BY <1>2, <1>4, <1>5, <2>1, NodeSetStateFacts
<1>7. /\ r \in Pass /\ ListsOK(r) /\ r.movArr = p.movArr
      /\ \A m \in Node : r.state[m] = IF m = n THEN "SIMPLIFY" ELSE p.state[m]
      /\ Reducing(r) /\ AliasOK(r) /\ NoneWaiting(r) /\ MovesKnown(r) /\ Unrelated(r, "SELECT")
      /\ \A m \in Node : GetAlias(r, m) = GetAlias(p, m)
  BY <1>2, <1>3, <1>4, <1>6, PutAside
<1>8. MovesBelong(r)
  <2> SUFFICES ASSUME NEW m \in Node, InGraph(r, m), NEW x \in ToSet(r.movArr[m])
               PROVE  m \in {GetAlias(r, movs[x].dst), GetAlias(r, movs[x].src)}
    BY DEF MovesBelong
  <2>1. x \in Mov
    <3>1. r.movArr[m] \in Seq(Mov)
      BY <1>7 DEF Pass
    <3> QED
      BY <3>1, ElementsOf
  <2>2. movs[x].dst \in Node /\ movs[x].src \in Node
    BY <2>1, MovEnds
  <2>3. InGraph(p, m)
    BY <1>4, <1>7 DEF InGraph
  <2>4. m \in {GetAlias(p, movs[x].dst), GetAlias(p, movs[x].src)}
    BY <1>2, <1>7, <2>3 DEF MovesBelong
  <2> QED
    BY <1>7, <2>2, <2>4
<1>9. Counted(r, {}, {}, {})
  <2>1. DegreesOff(p, {}) /\ ListsMean(p, {}, {}, {})
    BY <1>2 DEF Counted
  <2>2. /\ DegreesOff(r, {})
        /\ \A m \in Node : (Significant(r, m) <=> Significant(p, m)) /\ (MoveRelated(r, m) <=> MoveRelated(p, m))
    BY <1>2, <1>4, <1>6, <2>1, RelistsDegrees
  <2>3. ~Significant(p, n)
    BY <1>4, <2>1 DEF ListsMean
  <2>4. ASSUME NEW m \in Node
        PROVE  /\ r.state[m] = "FREEZE" => ~Significant(r, m) /\ MoveRelated(r, m)
               /\ r.state[m] = "SPILL" => Significant(r, m)
               /\ r.state[m] = "SIMPLIFY" => ~Significant(r, m)
    BY <1>7, <2>1, <2>2, <2>3 DEF ListsMean
  <2>5. ListsMean(r, {}, {}, {})
    BY <2>4 DEF ListsMean
  <2> QED
    BY <2>2, <2>5 DEF Counted
<1>10. r.state[n] = "SIMPLIFY" /\ (\A m \in Node : r.state[m] # "INITIAL") /\ r.failed \subseteq {"freezeNode"}
  BY <1>2, <1>4, <1>6, <1>7
<1>11. q = FreezeMoves(r, n)
  BY <1>3, <1>5
<1> QED
  BY ONLY MovsOK, <1>1, <1>4, <1>7, <1>8, <1>9, <1>10, <1>11, FreezeMovesCounted

(* When a spill candidate is chosen all the others stay candidates. *)
LEMMA SelectSpillCounted ==
  ASSUME MovsOK, ReduceInv(pass), MoveListOK(pass), \A m \in Node : pass.state[m] # "INITIAL",
         NEW chosen, DegreesOff(pass, {}), ListsMean(pass, chosen, {}, {}), NEW n \in Node, SelectSpill(n)
  PROVE  DegreesOff(pass', {}) /\ ListsMean(pass', chosen \cup {n}, {}, {}) /\ pass'.failed = pass.failed /\ n \in VNode
<1>1. PICK p, q : p = pass /\ q = pass'
  OBVIOUS
<1>2. /\ ReduceInv(p) /\ MoveListOK(p) /\ p \in Pass /\ ListsOK(p) /\ HWOK(p) /\ DegreesOff(p, {})
      /\ ListsMean(p, chosen, {}, {}) /\ \A m \in Node : p.state[m] # "INITIAL"
  BY <1>1 DEF ReduceInv
<1>3. /\ p.list["SIMPLIFY"] = <<>> /\ p.list["FREEZE"] = <<>> /\ p.movList["WORKLIST"] = NULL
      /\ n \in ToSet(p.list["SPILL"])
      /\ q = FreezeMoves(NodeSetState(Check(p, "spillDegree", p.degree[n] # 0), n, "SIMPLIFY"), n)
  BY <1>1 DEF SelectSpill, Empty, NoWorkMoves
<1>4. {"SIMPLIFY", "FREEZE", "SPILL"} \subseteq NodeState /\ {"SIMPLIFY", "FREEZE", "SPILL"} \subseteq Listed
  BY DEF NodeState, Listed
<1>5. p.state[n] = "SPILL" /\ p.state[n] \in Listed /\ n \in VNode
  <2>1. p.state[n] = "SPILL"
    BY <1>2, <1>3, <1>4 DEF ListsOK
  <2> QED
    BY <1>2, <1>4, <2>1, VNodes DEF HWOK
<1>6. \A m \in Node : p.state[m] \in Listed => p.state[m] = "SPILL" /\ Significant(p, m)
  <2>1. \A m \in Node : p.state[m] # "SIMPLIFY" /\ p.state[m] # "FREEZE"
    BY <1>2, <1>3, <1>4, NobodyOn
  <2> QED
    BY <1>2, <2>1 DEF Listed, ListsMean
<1>7. Check(p, "spillDegree", p.degree[n] # 0) = p
  <2>1. p.degree[n] >= K /\ p.degree[n] \in Int
    BY <1>2, <1>5, <1>6 DEF Significant, Pass
  <2> QED
    BY <2>1, Counting DEF Check
<1>8. PICK r : r = NodeSetState(p, n, "SIMPLIFY")
  OBVIOUS
<1>9. Relists(p, n, "SIMPLIFY", r) /\ r.failed = p.failed
  BY <1>2, <1>4, <1>8, NodeSetStateFacts
<1>10. /\ r \in Pass /\ ListsOK(r) /\ (\A m \in Node : r.state[m] = IF m = n THEN "SIMPLIFY" ELSE p.state[m])
       /\ Reducing(r) /\ AliasOK(r) /\ NoneWaiting(r) /\ MovesKnown(r) /\ Unrelated(r, "SELECT")
  BY <1>2, <1>3, <1>5, <1>9, PutAside
<1>11. r.list["SIMPLIFY"] = <<n>>
  <2>1. r.list["SIMPLIFY"] = <<n>> \o p.list["SIMPLIFY"]
    BY <1>5, <1>9 DEF Relists
  <2>2. <<n>> \o <<>> = <<n>>
    OBVIOUS
  <2> QED
    BY <1>3, <2>1, <2>2
<1>12. /\ DegreesOff(r, {})
       /\ \A m \in Node : Significant(r, m) <=> Significant(p, m)
  BY <1>2, <1>4, <1>5, <1>9, RelistsDegrees
<1>13. \A m \in Node : r.state[m] \in Listed => Significant(r, m)
  BY <1>5, <1>6, <1>10, <1>12
<1>14. q = FreezeMoves(r, n)
  BY <1>3, <1>7, <1>8
<1>15. q.state = r.state /\ q.list = r.list /\ q.degree = r.degree /\ q.adjSet = r.adjSet /\ q.failed = r.failed
  BY <1>10, <1>13, <1>14, FreezeMovesIdle
<1>16. DegreesOff(q, {})
  BY <1>12, <1>15 DEF DegreesOff, Live, InGraph
<1>17. \A m \in Node : Significant(q, m) <=> Significant(r, m)
  BY <1>15 DEF Significant
<1>18. ListsMean(q, chosen \cup {n}, {}, {})
  <2>1. ASSUME NEW m \in Node
        PROVE  /\ q.state[m] # "FREEZE"
               /\ q.state[m] = "SPILL" => Significant(q, m)
               /\ q.state[m] = "SIMPLIFY" => m \in chosen \cup {n} /\ q.list["SIMPLIFY"] = <<m>>
    <3>1. p.state[m] \notin {"FREEZE", "SIMPLIFY"}
      BY <1>4, <1>6
    <3> QED
      BY <1>4, <1>10, <1>11, <1>13, <1>15, <1>17, <3>1
  <2> QED
    BY <2>1 DEF ListsMean
<1> QED
  BY <1>1, <1>5, <1>9, <1>15, <1>16, <1>18

(* The worklists hold what their names promise when they are first filled. *)
LEMMA MakeWorklistCounted ==
  ASSUME MovsOK, NEW p, ReduceInv(p), Counted(p, {}, {}, {})
  PROVE  LET q == FoldLeft(LAMBDA r, n : PlaceNode(NULL, r, n), p, p.list["INITIAL"])
         IN  Counted(q, {}, {}, {}) /\ q.failed = p.failed
<1> DEFINE V == {r \in Pass : Calm(p, r) /\ Counted(r, {}, {}, {}) /\ r.failed = p.failed}
           s == p.list["INITIAL"]
<1>1. p \in Pass /\ ListsOK(p) /\ "INITIAL" \in NodeState
  BY DEF ReduceInv, NodeState
<1>2. s \in Seq(Node) /\ DOMAIN s = 1 .. Len(s) /\ \A i \in 1 .. Len(s) : s[i] \in ToSet(s) /\ s[i] \in Node
  <2>1. s \in Seq(Node)
    BY <1>1 DEF Pass
  <2> HIDE DEF s
  <2> QED
    BY <2>1, ElementsOf
<1>3. \A n \in ToSet(s) : p.state[n] = "INITIAL"
  BY <1>1 DEF ListsOK
<1>4. p \in V
  BY <1>1, CalmNone
<1>5. ASSUME NEW r \in V, NEW n \in Node, p.state[n] = "INITIAL" PROVE PlaceNode(NULL, r, n) \in V
  <2>1. /\ r \in Pass /\ Calm(p, r) /\ ListsOK(r) /\ DegreesOff(r, {}) /\ ListsMean(r, {}, {}, {})
        /\ r.failed = p.failed
    BY DEF Calm, Stays, Counted
  <2>2. r.state[n] \in Listed
    BY <1>5, <2>1 DEF Calm, Stays, Listed
  <2>3. PICK k : k = CASE Significant(r, n) -> "SPILL"
                       [] ~Significant(r, n) /\ MoveRelated(r, n) -> "FREEZE"
                       [] OTHER -> "SIMPLIFY"
    OBVIOUS
  <2>4. k \in NodeState /\ k \in Listed \ {"INITIAL"} /\ k \in Listed /\ (k = "SIMPLIFY" => ~MoveRelated(r, n))
    BY <2>3 DEF NodeState, Listed
  <2>5. PICK t : t = NodeSetState(r, n, k)
    OBVIOUS
  <2>6. Relists(r, n, k, t) /\ t.failed = p.failed
    BY <2>1, <2>4, <2>5, NodeSetStateFacts
  <2>7. Calm(r, t) /\ t \in Pass
    BY <2>1, <2>2, <2>4, <2>6, RelistsCalm
  <2>8. Calm(p, t)
    BY <1>1, <2>1, <2>7, CalmTwice
  <2>9. /\ DegreesOff(t, {})
        /\ \A m \in Node : (Significant(t, m) <=> Significant(r, m)) /\ (MoveRelated(t, m) <=> MoveRelated(r, m))
        /\ \A m \in Node : t.state[m] = IF m = n THEN k ELSE r.state[m]
    BY <2>1, <2>2, <2>4, <2>6, RelistsDegrees
  <2>10. ASSUME NEW m \in Node
         PROVE  /\ t.state[m] = "FREEZE" => ~Significant(t, m) /\ MoveRelated(t, m)
                /\ t.state[m] = "SPILL" => Significant(t, m)
                /\ t.state[m] = "SIMPLIFY" => ~Significant(t, m)
    <3>1. CASE m = n
      BY <2>3, <2>9, <3>1
    <3>2. CASE m # n
      BY <2>1, <2>9, <3>2 DEF ListsMean
    <3> QED
      BY <3>1, <3>2
  <2>11. Counted(t, {}, {}, {})
    BY <2>9, <2>10 DEF Counted, ListsMean
  <2> QED
    BY <2>3, <2>5, <2>6, <2>7, <2>8, <2>11 DEF PlaceNode
<1>6. PICK q : q = FoldLeft(LAMBDA r, n : PlaceNode(NULL, r, n), p, p.list["INITIAL"])
  OBVIOUS
<1>7. q = PlaceLoop!Fold(NULL, p, s)
  BY <1>6 DEF PlaceLoop!Fold, PlaceLoop!FoldLeft, FoldLeft,
         PlaceLoop!MapThenFoldSet, MapThenFoldSet, PlaceLoop!Max, Max
<1> HIDE DEF V, s
<1>8. PlaceLoop!Closed(V, NULL, s)
  BY <1>2, <1>3, <1>5 DEF PlaceLoop!Closed
<1>9. q \in V
  BY <1>2, <1>4, <1>7, <1>8, PlaceLoop!FoldInvariant
<1> QED
  BY <1>6, <1>9 DEF V

-----------------------------------------------------------------------------
(* The steps of the round keep the books. *)

(* Nobody was exempted if nobody waits to be simplified. *)
LEMMA MeanNobody ==
  ASSUME NEW p, ListsOK(p), p.list["SIMPLIFY"] = <<>>, NEW chosen, ListsMean(p, chosen, {}, {})
  PROVE  ListsMean(p, {}, {}, {})
<1>1. "SIMPLIFY" \in NodeState
  BY DEF NodeState
<1>2. \A n \in Node : p.state[n] # "SIMPLIFY"
  BY <1>1, NobodyOn
<1> QED
  BY <1>2 DEF ListsMean

(* What holds without exemptions holds with them. *)
LEMMA MeanMore ==
  ASSUME NEW p, Counted(p, {}, {}, {}), NEW chosen
  PROVE  DegreesOff(p, {}) /\ ListsMean(p, chosen, {}, {})
  BY DEF Counted, ListsMean

(* makeWorklist *)
LEMMA MakeWorklistBooks ==
  ASSUME MovsOK, ReduceInv(pass), MoveListOK(pass), ColorsOK(pass), Books(pass, {}), MakeWorklist
  PROVE  Books(pass', {}) /\ pass'.failed = pass.failed
<1>1. PICK p, q : p = pass /\ q = pass'
  OBVIOUS
<1>2. q = FoldLeft(LAMBDA r, n : PlaceNode(NULL, r, n), p, p.list["INITIAL"])
  BY <1>1 DEF MakeWorklist, PlaceNode
<1>3. ReduceInv(p) /\ ReduceInv(q) /\ Calm(p, q)
  BY <1>1, MakeWorklistOutcome DEF Places
<1>4. Counted(p, {}, {}, {}) /\ Recorded(p, {})
  BY <1>1 DEF Books, Counted
<1>5. Counted(q, {}, {}, {}) /\ q.failed = p.failed
  <2>1. LET r == FoldLeft(LAMBDA r, n : PlaceNode(NULL, r, n), p, p.list["INITIAL"])
        IN  Counted(r, {}, {}, {}) /\ r.failed = p.failed
    BY <1>3, <1>4, MakeWorklistCounted
  <2> QED
    BY <1>2, <2>1
<1>6. Recorded(q, {})
  BY <1>3, <1>4, CalmRecorded
<1> QED
  BY <1>1, <1>5, <1>6 DEF Books, Counted

(* simplify *)
LEMMA SimplifyBooks ==
  ASSUME MovsOK, ReduceInv(pass), MoveListOK(pass), ColorsOK(pass), \A n \in Node : pass.state[n] # "INITIAL",
         NEW chosen, Books(pass, chosen), Simplify
  PROVE  Books(pass', chosen) /\ pass'.failed = pass.failed
<1>1. DegreesOff(pass, {}) /\ ListsMean(pass, chosen, {}, {}) /\ Recorded(pass, chosen)
  BY DEF Books
<1>2. Counted(pass', {}, {}, {}) /\ pass'.failed = pass.failed
  BY <1>1, SimplifyCounted
<1>3. PICK p, q, n : p = pass /\ q = pass' /\ n = Head(p.list["SIMPLIFY"])
  OBVIOUS
<1>4. Pushes(p, n, q) /\ ReduceInv(p) /\ ReduceInv(q) /\ n \in Node /\ p.state[n] = "SIMPLIFY"
  BY <1>3, SimplifyOutcome
<1>5. ~Significant(p, n) \/ n \in chosen
  BY <1>1, <1>3, <1>4 DEF ListsMean
<1>6. Recorded(p, chosen) /\ DegreesOff(p, {})
  BY <1>1, <1>3
<1>7. Recorded(q, chosen)
  BY <1>4, <1>5, <1>6, PushRecorded
<1>8. DegreesOff(q, {}) /\ ListsMean(q, chosen, {}, {})
  BY <1>2, <1>3, MeanMore
<1> QED
  BY <1>2, <1>3, <1>7, <1>8 DEF Books

(* coalesce *)
LEMMA CoalesceBooks ==
  ASSUME MovsOK, ReduceInv(pass), MoveListOK(pass), ColorsOK(pass), \A n \in Node : pass.state[n] # "INITIAL",
         NEW chosen, Books(pass, chosen), Coalesce
  PROVE  Books(pass', chosen) /\ pass'.failed = pass.failed
<1>1. PICK p, q : p = pass /\ q = pass'
  OBVIOUS
<1>2. ReduceInv(p) /\ ReduceInv(q) /\ Coalesces(p, q) /\ ListsOK(p)
  BY <1>1, CoalesceOutcome DEF ReduceInv
<1>3. DegreesOff(p, {}) /\ ListsMean(p, chosen, {}, {}) /\ Recorded(p, chosen)
  BY <1>1 DEF Books
<1>4. p.list["SIMPLIFY"] = <<>>
  BY <1>1 DEF Coalesce, Empty
<1>5. Counted(p, {}, {}, {}) /\ MovesBelong(p)
  BY <1>2, <1>3, <1>4, MeanNobody DEF Counted, Recorded
<1>6. Counted(q, {}, {}, {}) /\ q.failed = p.failed
  <2>1. Counted(pass, {}, {}, {}) /\ MovesBelong(pass)
    BY <1>1, <1>5
  <2>2. Counted(pass', {}, {}, {}) /\ pass'.failed = pass.failed
    BY <2>1, CoalesceCounted
  <2> QED
    BY <1>1, <2>2
<1>7. Recorded(q, chosen)
  BY <1>2, <1>3, CalmRecorded, MergeRecorded DEF Coalesces
<1>8. DegreesOff(q, {}) /\ ListsMean(q, chosen, {}, {})
  BY <1>6, MeanMore
<1> QED
  BY <1>1, <1>6, <1>7, <1>8 DEF Books

(* freeze *)
LEMMA FreezeBooks ==
  ASSUME MovsOK, ReduceInv(pass), MoveListOK(pass), ColorsOK(pass), \A n \in Node : pass.state[n] # "INITIAL",
         NEW chosen, Books(pass, chosen), pass.failed \subseteq {"freezeNode"}, Freeze
  PROVE  Books(pass', chosen) /\ pass'.failed \subseteq {"freezeNode"}
<1>1. PICK p, q : p = pass /\ q = pass'
  OBVIOUS
<1>2. ReduceInv(p) /\ ReduceInv(q) /\ Calm(p, q) /\ ListsOK(p)
  BY <1>1, GiveUpOutcome DEF ReduceInv
<1>3. DegreesOff(p, {}) /\ ListsMean(p, chosen, {}, {}) /\ Recorded(p, chosen)
  BY <1>1 DEF Books
<1>4. p.list["SIMPLIFY"] = <<>>
  BY <1>1 DEF Freeze, Empty
<1>5. Counted(p, {}, {}, {}) /\ MovesBelong(p)
  BY <1>2, <1>3, <1>4, MeanNobody DEF Counted, Recorded
<1>6. Counted(q, {}, {}, {}) /\ q.failed \subseteq {"freezeNode"}
  <2>1. Counted(pass, {}, {}, {}) /\ MovesBelong(pass)
    BY <1>1, <1>5
  <2>2. Counted(pass', {}, {}, {}) /\ pass'.failed \subseteq {"freezeNode"}
    BY <2>1, FreezeCounted
  <2> QED
    BY <1>1, <2>2
<1>7. Recorded(q, chosen)
  BY <1>2, <1>3, CalmRecorded
<1>8. DegreesOff(q, {}) /\ ListsMean(q, chosen, {}, {})
  BY <1>6, MeanMore
<1> QED
  BY <1>1, <1>6, <1>7, <1>8 DEF Books

(* selectSpill *)
LEMMA SelectSpillBooks ==
  ASSUME MovsOK, ReduceInv(pass), MoveListOK(pass), ColorsOK(pass), \A n \in Node : pass.state[n] # "INITIAL",
         NEW chosen, Books(pass, chosen), NEW n \in Node, SelectSpill(n)
  PROVE  Books(pass', chosen \cup {n}) /\ pass'.failed = pass.failed
<1>1. PICK p, q : p = pass /\ q = pass'
  OBVIOUS
<1>2. ReduceInv(p) /\ ReduceInv(q) /\ Calm(p, q)
  BY <1>1, GiveUpOutcome
<1>3. DegreesOff(pass, {}) /\ ListsMean(pass, chosen, {}, {}) /\ Recorded(p, chosen)
  BY <1>1 DEF Books
<1>4. DegreesOff(q, {}) /\ ListsMean(q, chosen \cup {n}, {}, {}) /\ q.failed = p.failed
  BY <1>1, <1>3, SelectSpillCounted
<1>5. Recorded(p, chosen \cup {n})
  BY <1>3 DEF Recorded, FewAbove
<1>6. Recorded(q, chosen \cup {n})
  BY <1>2, <1>5, CalmRecorded
<1> QED
  BY <1>1, <1>4, <1>6 DEF Books

(* A set that is covered by the colours of fewer than K nodes is not all there is. *)
LEMMA ColourLeft ==
  ASSUME NEW S \in SUBSET Node, Cardinality(S) < K, NEW f
  PROVE  ~(Avail \subseteq {f[y] : y \in S})
<1> SUFFICES ASSUME Avail \subseteq {f[y] : y \in S} PROVE FALSE
  OBVIOUS
<1>1. IsFiniteSet(S) /\ Cardinality(S) \in Nat /\ K \in Nat
  BY Counting
<1>2. PICK h, R : h = [y \in S |-> f[y]] /\ R = {f[y] : y \in S}
  OBVIOUS
<1>3. h \in Surjection(S, R)
  BY <1>2 DEF Surjection
<1>4. IsFiniteSet(R) /\ Cardinality(R) <= Cardinality(S)
  BY <1>1, <1>3, FS_Surjection
<1>5. Cardinality(Avail) <= Cardinality(R) /\ Cardinality(R) \in Nat
  BY <1>2, <1>4, FS_Subset, FS_CardinalityType
<1> QED
  BY <1>1, <1>4, <1>5 DEF K

(* The colours that n cannot have are those of what is above it. *)
LEMMA TakenAbove ==
  ASSUME NEW p \in Pass, Acyclic(p.alias), NEW g, RootMap(p.alias, g), NEW n \in Node
  PROVE  /\ Taken(p, g, n) \subseteq {p.color[y] : y \in Above(p, n)} /\ Above(p, n) \in SUBSET Node
<1>1. RootOf(p) = g /\ \A m \in Node : g[m] \in Node
  BY RootIs DEF RootMap
<1>2. p.adjSet[n] \subseteq Node
  BY DEF Pass
<1>3. PICK r, a : r = RootOf(p) /\ a = RankOf(p)
  OBVIOUS
<1>4. Above(p, n) = {r[w] : w \in {x \in p.adjSet[n] : ~(p.state[r[x]] = "SELECT" /\ a[r[x]] <= a[n])}}
  BY <1>3 DEF Above
<1>5. \A x \in p.adjSet[n] : p.state[g[x]] \in {"COLORED", "PRECOLORED"} => g[x] \in Above(p, n)
  BY <1>1, <1>3, <1>4
<1>6. Above(p, n) \subseteq Node
  BY <1>1, <1>2, <1>3, <1>4
<1> QED
  BY <1>5, <1>6 DEF Taken

(* Popping n leaves the others what they had above them: n itself was. *)
LEMMA PopsFew ==
  ASSUME NEW p, AssignInv(p), NEW g, NEW n, NEW q, Pops(p, g, n, q), NEW chosen, FewAbove(p, chosen)
  PROVE  FewAbove(q, chosen)
<1>1. n \in Node /\ p.state[n] = "SELECT" /\ p.list["SELECT"] # <<>> /\ n = Head(p.list["SELECT"])
  BY DEF Pops
<1>2. PICK c, s : s \in {"COLORED", "SPILLED"} /\ Assigns(p, n, c, s, q)
  <2>1. CASE Assigns(p, n, NoColor, "SPILLED", q)
    BY <2>1
  <2>2. CASE \E d : Assigns(p, n, d, "COLORED", q)
    BY <2>2
  <2> QED
    BY <2>1, <2>2 DEF Pops
<1>3. /\ RankOf(p)[n] = Len(p.list["SELECT"]) /\ RankOf(q) = [RankOf(p) EXCEPT ![n] = 0]
      /\ RootOf(q) = RootOf(p) /\ q.adjSet = p.adjSet
  <2>1. PopSeen(p, n, c, s, q)
    BY <1>1, <1>2, PopView
  <2> QED
    BY ONLY <2>1 DEF PopSeen
<1>4. p \in Pass /\ ListsOK(p) /\ Acyclic(p.alias) /\ \A m \in Node : q.state[m] = IF m = n THEN s ELSE p.state[m]
  BY <1>2 DEF AssignInv, Assigns
<1>5. PICK a, b, t, k, r : a = RankOf(p) /\ b = RankOf(q) /\ t = p.list["SELECT"] /\ k = Len(t) /\ r = RootOf(p)
  OBVIOUS
<1>6. Ranks(p, a, t, k) /\ t \in Seq(Node) /\ k \in Nat /\ t # <<>>
  <2>1. t \in Seq(Node)
    BY <1>4, <1>5 DEF Pass, NodeState
  <2> QED
    BY <1>1, <1>4, <1>5, <2>1, RankIs
<1>7. /\ a[n] = k /\ \A m \in Node : b[m] = IF m = n THEN 0 ELSE a[m]
      /\ \A m \in Node : a[m] \in Int
  <2>1. a \in [Node -> Int] /\ b = [a EXCEPT ![n] = 0] /\ a[n] = k
    BY <1>3, <1>5, <1>6 DEF Ranks
  <2> QED
    BY <2>1
<1>8. \A m \in Node : p.state[m] = "SELECT" /\ m # n => a[m] < k
  <2> SUFFICES ASSUME NEW m \in Node, p.state[m] = "SELECT", m # n PROVE a[m] < k
    OBVIOUS
  <2>1. PICK i \in 1 .. k : m = t[i]
    BY <1>6 DEF Ranks
  <2>2. t[1] = n
    BY <1>1, <1>5, <1>6
  <2>3. a[t[i]] = k + 1 - i /\ i # 1
    BY <1>6, <2>1, <2>2 DEF Ranks
  <2> QED
    BY <1>6, <2>1, <2>3
<1>9. \A m \in Node : r[m] \in Node
  <2>1. PICK h : RootMap(p.alias, h)
    BY DEF AssignInv
  <2> QED
    BY <1>4, <1>5, <2>1, RootIs DEF RootMap
<1>10. ASSUME NEW m \in Node, p.state[m] = "SELECT", m # n PROVE Above(q, m) = Above(p, m)
  <2>1. \A x \in p.adjSet[m] : r[x] \in Node
    BY <1>4, <1>9 DEF Pass
  <2>2. \A y \in Node : q.state[y] = "SELECT" /\ b[y] <= b[m] <=> p.state[y] = "SELECT" /\ a[y] <= a[m]
    BY <1>1, <1>2, <1>4, <1>6, <1>7, <1>8, <1>10
  <2>3. \A x \in p.adjSet[m] : q.state[r[x]] = "SELECT" /\ b[r[x]] <= b[m] <=> p.state[r[x]] = "SELECT" /\ a[r[x]] <= a[m]
    BY <2>1, <2>2
  <2> QED
    BY <1>3, <1>5, <2>3 DEF Above
<1> QED
  BY <1>2, <1>4, <1>10 DEF FewAbove

(* assignColors keeps the select stack promising, and spills what was chosen. *)
LEMMA AssignColorBooks ==
  ASSUME AssignInv(pass), ColorsOK(pass), AssignColor,
         NEW chosen, FewAbove(pass, chosen), SpillsJustified(pass, chosen)
  PROVE  FewAbove(pass', chosen) /\ SpillsJustified(pass', chosen) /\ pass'.failed = pass.failed
<1>1. PICK p, q, n : p = pass /\ q = pass' /\ n = Head(p.list["SELECT"])
  OBVIOUS
<1>2. AssignInv(p) /\ FewAbove(p, chosen) /\ SpillsJustified(p, chosen) /\ p \in Pass /\ Acyclic(p.alias)
  BY <1>1 DEF AssignInv
<1>3. PICK g : RootMap(p.alias, g)
  BY <1>2 DEF AssignInv
<1>4. Pops(p, g, n, q)
  BY <1>1, <1>3, AssignColorOutcome
<1>5. n \in Node /\ p.state[n] = "SELECT" /\ p.list["SELECT"] # <<>> /\ n = Head(p.list["SELECT"])
  BY <1>4 DEF Pops
<1>6. PICK c, s : s \in {"COLORED", "SPILLED"} /\ Assigns(p, n, c, s, q) /\ (s = "SPILLED" => Avail \subseteq Taken(p, g, n))
  <2>1. CASE Avail \subseteq Taken(p, g, n) /\ Assigns(p, n, NoColor, "SPILLED", q)
    BY <2>1
  <2>2. CASE \E d \in Avail \ Taken(p, g, n) : Assigns(p, n, d, "COLORED", q)
    <3>1. PICK d : Assigns(p, n, d, "COLORED", q)
      BY <2>2
    <3> QED
      BY <3>1
  <2> QED
    BY <1>4, <2>1, <2>2 DEF Pops
<1>7. FewAbove(q, chosen)
  BY <1>2, <1>4, PopsFew
<1>8. s = "SPILLED" => n \in chosen
  <2> SUFFICES ASSUME s = "SPILLED", n \notin chosen PROVE FALSE
    OBVIOUS
  <2>1. Cardinality(Above(p, n)) < K
    BY <1>2, <1>5 DEF FewAbove
  <2>2. Taken(p, g, n) \subseteq {p.color[y] : y \in Above(p, n)} /\ Above(p, n) \in SUBSET Node
    BY <1>2, <1>3, <1>5, TakenAbove
  <2>3. ~(Avail \subseteq {p.color[y] : y \in Above(p, n)})
    BY <2>1, <2>2, ColourLeft
  <2> QED
    BY <1>6, <2>2, <2>3
<1>9. SpillsJustified(q, chosen)
  BY <1>2, <1>6, <1>8 DEF SpillsJustified, Assigns
<1> QED
  BY <1>1, <1>6, <1>7, <1>9 DEF Assigns

(* A coalesced node is spilled with what it was merged into. *)
LEMMA AssignCoalescedBooks ==
  ASSUME AssignInv(pass), ColorsOK(pass), AssignCoalesced,
         NEW chosen, SpillsJustified(pass, chosen)
  PROVE  FewAbove(pass', chosen) /\ SpillsJustified(pass', chosen) /\ pass'.failed = pass.failed
<1>1. PICK p, q, n : p = pass /\ q = pass' /\ n = Head(p.list["COALESCED"])
  OBVIOUS
<1>2. AssignInv(p) /\ SpillsJustified(p, chosen) /\ p \in Pass /\ ListsOK(p)
  BY <1>1 DEF AssignInv
<1>3. PICK g : RootMap(p.alias, g)
  BY <1>2 DEF AssignInv
<1>4. Inherits(p, g, n, q)
  BY <1>1, <1>3, AssignCoalescedOutcome
<1>5. n \in Node /\ p.state[n] = "COALESCED"
  BY <1>4 DEF Inherits
<1>6. PICK c, s : s \in {"COLORED", "SPILLED"} /\ Assigns(p, n, c, s, q)
  <2>1. CASE Assigns(p, n, NoColor, "SPILLED", q)
    BY <2>1
  <2>2. CASE Assigns(p, n, p.color[g[n]], "COLORED", q)
    BY <2>2
  <2> QED
    BY <1>4, <2>1, <2>2 DEF Inherits
<1>7. \A m \in Node : p.state[m] # "SELECT"
  <2>1. "SELECT" \in NodeState /\ p.list["SELECT"] = <<>>
    BY <1>1 DEF NodeState, AssignCoalesced, Empty
  <2> QED
    BY <1>2, <2>1, NobodyOn
<1>8. FewAbove(q, chosen)
  BY <1>6, <1>7 DEF FewAbove, Assigns
<1>9. p.alias[n] # NULL
  BY <1>2, <1>5 DEF AssignInv
<1>10. SpillsJustified(q, chosen)
  BY <1>2, <1>6, <1>9 DEF SpillsJustified, Assigns
<1> QED
  BY <1>1, <1>6, <1>8, <1>10 DEF Assigns

-----------------------------------------------------------------------------
(* The books in every state of a round. *)

(* What init builds is in order. *)
LEMMA InitBooks == Init => BookInv
<1> SUFFICES ASSUME Init PROVE BookInv
  OBVIOUS
<1>1. PICK g \in Graphs : pass = Build(g, movs)
  BY DEF Init
<1>2. MovsOK /\ phase = "makeWorklist" /\ candidates = {} /\ g \in Seq(Node \X Node)
  BY InputAssumption DEF Init, MovsOK
<1>3. PICK p : p = pass
  OBVIOUS
<1>4. /\ ReduceInv(p) /\ MoveListOK(p) /\ p.failed = {} /\ p \in Pass
      /\ \A n \in Node : p.state[n] \in {"PRECOLORED", "INITIAL"}
      /\ \A n \in VNode : p.degree[n] = Cardinality(p.adjSet[n])
      /\ \A n \in Node : \A m \in ToSet(p.movArr[n]) : n \in {movs[m].dst, movs[m].src}
  BY <1>1, <1>2, <1>3, BuildFacts DEF ReduceInv
<1>5. \A n \in Node : p.adjSet[n] \subseteq Node /\ p.movArr[n] \in Seq(Mov)
  BY <1>4 DEF Pass
<1>6. DegreesOff(p, {})
  <2>1. \A n \in Node : InGraph(p, n)
    BY <1>4 DEF InGraph
  <2>2. \A n \in Node : Live(p, n) = p.adjSet[n]
    BY <1>5, <2>1 DEF Live
  <2>3. \A n \in VNode : n \in Node /\ Cardinality(p.adjSet[n]) \in Nat
    BY <1>5, Counting, VNodes
  <2> QED
    BY <1>4, <2>2, <2>3 DEF DegreesOff
<1>7. ListsMean(p, {}, {}, {})
  BY <1>4 DEF ListsMean
<1>8. \A n \in Node : GetAlias(p, n) = n /\ RootOf(p)[n] = n
  BY <1>4, AliasIsRoot
<1>9. MovesBelong(p)
  <2> SUFFICES ASSUME NEW n \in Node, NEW m \in ToSet(p.movArr[n])
               PROVE  n \in {GetAlias(p, movs[m].dst), GetAlias(p, movs[m].src)}
    BY DEF MovesBelong
  <2>1. m \in Mov
    BY <1>5, ElementsOf
  <2>2. movs[m].dst \in Node /\ movs[m].src \in Node
    BY <1>2, <2>1, MovEnds
  <2> QED
    BY <1>4, <1>8, <2>2
<1>10. RootsSeen(p)
  BY <1>5, <1>8 DEF RootsSeen
<1>11. FewAbove(p, {})
  BY <1>4 DEF FewAbove
<1>12. Books(p, {})
  BY <1>6, <1>7, <1>9, <1>10, <1>11 DEF Books, Recorded
<1> QED
  BY <1>2, <1>3, <1>4, <1>12 DEF BookInv

(* The moves are the same before and after a step. *)
LEMMA SameMovsBooks ==
  ASSUME movs' = movs
  PROVE  /\ Books(pass', candidates') => Books(pass, candidates)'
         /\ FewAbove(pass', candidates') => FewAbove(pass, candidates)'
         /\ SpillsJustified(pass', candidates') => SpillsJustified(pass, candidates)'
<1>1. MovesBelong(pass') => MovesBelong(pass)'
  BY DEF MovesBelong
<1>2. FewAbove(pass', candidates') => FewAbove(pass, candidates)'
  BY DEF FewAbove
<1>3. SpillsJustified(pass', candidates') => SpillsJustified(pass, candidates)'
  BY DEF SpillsJustified
<1>4. RootsSeen(pass') => RootsSeen(pass)'
  BY DEF RootsSeen
<1>5. DegreesOff(pass', {}) => DegreesOff(pass, {})'
  BY DEF DegreesOff
<1>6. ListsMean(pass', candidates', {}, {}) => ListsMean(pass, candidates, {}, {})'
  BY DEF ListsMean
<1> QED
  BY <1>1, <1>2, <1>3, <1>4, <1>5, <1>6 DEF Books, Recorded

(* Every step keeps the books. *)
LEMMA NextBooks == Inv /\ BookInv /\ [Next]_vars => BookInv'
<1> SUFFICES ASSUME Inv, BookInv, [Next]_vars PROVE BookInv'
  OBVIOUS
<1>1. /\ MovsOK /\ ColorsOK(pass) /\ MoveListOK(pass) /\ pass.failed \subseteq {"freezeNode"} /\ movs' = movs
  BY DEF Inv, BookInv, Next, vars, MakeWorklist, Simplify, Coalesce, Freeze, SelectSpill, StartAssign, AssignColor,
         AssignCoalesced, Finish, Done
<1>2. CASE MakeWorklist
  <2>1. ReduceInv(pass) /\ phase' = "worklists" /\ candidates = {} /\ candidates' = {} /\ Books(pass, {})
    BY <1>2 DEF Inv, BookInv, MakeWorklist
  <2>2. MoveListOK(pass')
    BY <1>1, <1>2, <2>1, MakeWorklistOutcome
  <2>3. Books(pass', {}) /\ pass'.failed = pass.failed
    BY <1>1, <1>2, <2>1, MakeWorklistBooks
  <2> QED
    BY <1>1, <2>1, <2>2, <2>3, SameMovs, SameMovsBooks DEF BookInv
<1>3. ASSUME Simplify \/ Coalesce \/ Freeze \/ \E n \in Node : SelectSpill(n)
      PROVE  /\ ReduceInv(pass) /\ phase = "worklists" /\ phase' = "worklists" /\ Books(pass, candidates)
             /\ \A n \in Node : pass.state[n] # "INITIAL"
  BY <1>3 DEF Inv, BookInv, Simplify, Coalesce, Freeze, SelectSpill
<1>4. ASSUME MoveListOK(pass'), Books(pass', candidates'), pass'.failed \subseteq {"freezeNode"}, phase' = "worklists"
      PROVE  BookInv'
  BY <1>1, <1>4, SameMovs, SameMovsBooks DEF BookInv
<1>5. CASE Simplify
  <2>1. candidates' = candidates
    BY <1>5 DEF Simplify
  <2>2. MoveListOK(pass')
    BY <1>1, <1>3, <1>5, SimplifyOutcome
  <2>3. Books(pass', candidates) /\ pass'.failed = pass.failed
    BY <1>1, <1>3, <1>5, SimplifyBooks
  <2> QED
    BY <1>1, <1>3, <1>4, <1>5, <2>1, <2>2, <2>3
<1>6. CASE Coalesce
  <2>1. candidates' = candidates
    BY <1>6 DEF Coalesce
  <2>2. MoveListOK(pass')
    BY <1>1, <1>3, <1>6, CoalesceKeeps
  <2>3. Books(pass', candidates) /\ pass'.failed = pass.failed
    BY <1>1, <1>3, <1>6, CoalesceBooks
  <2> QED
    BY <1>1, <1>3, <1>4, <1>6, <2>1, <2>2, <2>3
<1>7. CASE Freeze
  <2>1. candidates' = candidates
    BY <1>7 DEF Freeze
  <2>2. MoveListOK(pass')
    BY <1>1, <1>3, <1>7, GiveUpOutcome
  <2>3. Books(pass', candidates) /\ pass'.failed \subseteq {"freezeNode"}
    BY <1>1, <1>3, <1>7, FreezeBooks
  <2> QED
    BY <1>3, <1>4, <1>7, <2>1, <2>2, <2>3
<1>8. CASE \E n \in Node : SelectSpill(n)
  <2>1. PICK n \in Node : SelectSpill(n)
    BY <1>8
  <2>2. candidates' = candidates \cup {n}
    BY <2>1 DEF SelectSpill
  <2>3. MoveListOK(pass')
    BY <1>1, <1>3, <1>8, GiveUpOutcome
  <2>4. Books(pass', candidates \cup {n}) /\ pass'.failed = pass.failed
    BY <1>1, <1>3, <1>8, <2>1, SelectSpillBooks
  <2> QED
    BY <1>1, <1>3, <1>4, <1>8, <2>2, <2>3, <2>4
<1>9. ASSUME pass' = pass, candidates' = candidates, phase' \in {"assignColors", "spill", "replaceRegs"},
             FewAbove(pass, candidates), SpillsJustified(pass, candidates)
      PROVE  BookInv'
  BY <1>1, <1>9, SameMovs, SameMovsBooks DEF BookInv
<1>10. CASE StartAssign
  <2>1. /\ ReduceInv(pass) /\ (\A n \in Node : pass.state[n] # "INITIAL") /\ Books(pass, candidates)
        /\ phase' = "assignColors" /\ candidates' = candidates /\ pass' = pass
    BY <1>10 DEF Inv, BookInv, StartAssign
  <2>2. SpillsJustified(pass, candidates)
    BY <2>1 DEF SpillsJustified, ReduceInv, Reducing, Listed
  <2>3. FewAbove(pass, candidates)
    BY <2>1 DEF Books, Recorded
  <2> QED
    BY <1>9, <2>1, <2>2, <2>3
<1>11. CASE AssignColor \/ AssignCoalesced
  <2>1. /\ AssignInv(pass) /\ FewAbove(pass, candidates) /\ SpillsJustified(pass, candidates)
        /\ phase' = "assignColors" /\ candidates' = candidates
    BY <1>11 DEF Inv, BookInv, AssignColor, AssignCoalesced
  <2>2. FewAbove(pass', candidates) /\ SpillsJustified(pass', candidates) /\ pass'.failed = pass.failed
    BY <1>1, <1>11, <2>1, AssignColorBooks, AssignCoalescedBooks
  <2>3. MoveListOK(pass')
    <3>1. pass'.movState = pass.movState /\ pass'.movNext = pass.movNext /\ pass'.movList = pass.movList
      <4>1. PICK g : RootMap(pass.alias, g)
        BY <2>1 DEF AssignInv
      <4>2. \E n, c, s : Assigns(pass, n, c, s, pass')
        <5>1. CASE AssignColor
          BY <1>1, <2>1, <4>1, <5>1, AssignColorOutcome DEF Pops
        <5>2. CASE AssignCoalesced
          BY <1>1, <2>1, <4>1, <5>2, AssignCoalescedOutcome DEF Inherits
        <5> QED
          BY <1>11, <5>1, <5>2
      <4> QED
        BY <4>2 DEF Assigns
    <3> QED
      BY <1>1, <3>1 DEF MoveListOK, Spells
  <2> QED
    BY <1>1, <2>1, <2>2, <2>3, SameMovs, SameMovsBooks DEF BookInv
<1>12. CASE Finish
  <2>1. /\ FewAbove(pass, candidates) /\ SpillsJustified(pass, candidates) /\ pass' = pass /\ candidates' = candidates
        /\ phase' \in {"replaceRegs", "spill"}
    BY <1>12 DEF BookInv, Finish
  <2> QED
    BY <1>9, <2>1
<1>13. CASE Done \/ UNCHANGED vars
  <2>1. pass' = pass /\ candidates' = candidates /\ phase' = phase
    BY <1>13 DEF Done, vars
  <2> QED
    BY <1>1, <2>1, SameMovs, SameMovsBooks DEF BookInv
<1> QED
  BY <1>2, <1>5, <1>6, <1>7, <1>8, <1>10, <1>11, <1>12, <1>13 DEF Next

(* The counts, the worklists, the list of moves and the select stack are in
   order in every state of a round.                                        *)
THEOREM BooksKept == Spec => []BookInv
<1> QED
  BY Invariance, InitBooks, NextBooks, PTL DEF Spec

(* Every JX_CHECK of the round holds, but for the one of nodeFreezeMoves
   about the other end of a move: the degrees and the lists are what the
   functions that ask about them expect.                                   *)
THEOREM Checked == Spec => []ChecksHold
<1>1. BookInv => ChecksHold
  BY DEF BookInv, ChecksHold
<1> QED
  BY <1>1, BooksKept, PTL

(* A register that was simplified because it had fewer neighbours than there
   are colours finds one: only what selectSpill chose is ever spilled, or what
   was merged into that.                                                   *)
THEOREM SpillsChosen == Spec => []SpillsWereCandidates
<1>1. Inv /\ BookInv => SpillsWereCandidates
  <2> SUFFICES ASSUME Inv, BookInv, NEW n \in Node, pass.state[n] = "SPILLED"
               PROVE  n \in VNode /\ (n \in candidates \/ pass.alias[n] # NULL)
    BY DEF SpillsWereCandidates
  <2>1. phase \in {"makeWorklist", "worklists"} => FALSE
    BY DEF Inv, ReduceInv, Reducing, Listed
  <2>2. AssignInv(pass) /\ SpillsJustified(pass, candidates)
    BY <2>1 DEF Inv, BookInv
  <2>3. n \notin HWNode
    BY <2>2 DEF AssignInv, HWOK
  <2> QED
    BY <2>2, <2>3, VNodes DEF SpillsJustified
<1> QED
  BY <1>1, Invariance, BooksKept, PTL

-----------------------------------------------------------------------------
(* The list of moves. *)

(* No list of different moves is longer than there are moves. *)
LEMMA ShortList ==
  ASSUME MovsOK, NEW w \in Seq(Mov), IsInjective(w)
  PROVE  Len(w) \in Nat /\ Len(movs) \in Nat /\ Len(w) <= Len(movs)
<1>1. PICK k \in Nat, l \in Nat : k = Len(w) /\ l = Len(movs)
  BY DEF MovsOK
<1>2. Mov = 1 .. l
  BY <1>1 DEF MovsOK, Mov
<1>3. w \in [1 .. k -> 1 .. l] /\ \A i, j \in 1 .. k : w[i] = w[j] => i = j
  BY <1>1, <1>2 DEF IsInjective
<1>4. /\ IsFiniteSet(1 .. k) /\ Cardinality(1 .. k) = IF 1 > k THEN 0 ELSE k - 1 + 1
      /\ IsFiniteSet(1 .. l) /\ Cardinality(1 .. l) = IF 1 > l THEN 0 ELSE l - 1 + 1
  BY FS_Interval
<1>5. ~(Cardinality(1 .. l) < Cardinality(1 .. k))
  <2> SUFFICES ASSUME Cardinality(1 .. l) < Cardinality(1 .. k) PROVE FALSE
    OBVIOUS
  <2>1. \E x, y \in 1 .. k : x # y /\ w[x] = w[y]
    BY <1>3, <1>4, FS_PigeonHole
  <2> QED
    BY <1>3, <2>1
<1> QED
  BY <1>1, <1>4, <1>5

(* Following the next pointers spells the list, and ends. *)
LEMMA ChainIs ==
  ASSUME MovsOK, pass \in Pass, NEW w \in Seq(Mov), Spells(pass, w)
  PROVE  Chain(pass.movList["WORKLIST"]) = Append(w, NULL)
<1>13. PICK k \in Nat, l \in Nat : k = Len(w) /\ l = Len(movs)
  BY DEF MovsOK
<1>14. PICK h : h = pass.movList["WORKLIST"]
  OBVIOUS
<1>15. PICK next : next = pass.movNext
  OBVIOUS
<1>1. k = Len(w) /\ l = Len(movs) /\ h = pass.movList["WORKLIST"] /\ next = pass.movNext
  BY <1>13, <1>14, <1>15
<1>2. /\ k <= l /\ h = (IF k = 0 THEN NULL ELSE w[1])
      /\ \A i \in 1 .. k : w[i] \in Mov /\ w[i] # NULL /\ next[w[i]] = IF i = k THEN NULL ELSE w[i + 1]
  <2>1. k <= l
    BY <1>1, ShortList DEF Spells
  <2>2. \A i \in 1 .. k : w[i] \in Mov /\ w[i] \in Nat
    BY <1>1 DEF MovsOK, Mov
  <2> QED
    BY <1>1, <2>1, <2>2, InputAssumption DEF Spells
<1> DEFINE Grow(c) == IF c[Len(c)] = NULL THEN c ELSE Append(c, next[c[Len(c)]])
           It(f) == f = [i \in 0 .. l |-> IF i = 0 THEN <<h>> ELSE Grow(f[i - 1])]
           Prefix(i) == [j \in 1 .. i |-> w[j]]
           walk == CHOOSE f : It(f)
<1>3. Chain(h) = walk[l]
  BY <1>1 DEF Chain
<1> HIDE DEF walk, It
<1>4. ASSUME NEW i \in 1 .. k
      PROVE  Grow(Prefix(i)) = IF i = k THEN Append(w, NULL) ELSE Prefix(i + 1)
  <2>1. PICK c : c = Prefix(i)
    OBVIOUS
  <2>2. c \in Seq(Mov) /\ Len(c) = i /\ c[i] = w[i] /\ w[i] # NULL
    BY <1>1, <1>2, <2>1
  <2>3. Grow(c) = Append(c, next[w[i]])
    BY <2>2
  <2>4. CASE i = k
    <3>1. c = w
      BY <1>1, <2>1, <2>4
    <3> QED
      BY <1>2, <2>1, <2>3, <2>4, <3>1
  <2>5. CASE i # k
    <3>1. next[w[i]] = w[i + 1] /\ i + 1 \in 1 .. k
      BY <1>2, <2>5
    <3>2. Append(c, w[i + 1]) = Prefix(i + 1)
      BY <2>1, <2>2, <3>1
    <3> QED
      BY <2>1, <2>3, <2>5, <3>1, <3>2
  <2> QED
    BY <2>4, <2>5
<1>5. Grow(Append(w, NULL)) = Append(w, NULL)
  <2>1. Len(Append(w, NULL)) = k + 1 /\ Append(w, NULL)[k + 1] = NULL
    BY <1>1
  <2> QED
    BY <2>1
<1>6. IF k = 0 THEN Append(w, NULL) = <<h>> ELSE Prefix(1) = <<h>>
  <2>1. CASE k = 0
    <3>1. w = <<>>
      <4>1. w # <<>> => Len(w) # 0
        OBVIOUS
      <4> QED
        BY <1>1, <2>1, <4>1
    <3>2. Append(w, NULL) = <<NULL>>
      BY <3>1
    <3> QED
      BY <1>2, <2>1, <3>2
  <2>2. CASE k # 0
    <3>1. h = w[1]
      BY <1>2, <2>2
    <3>2. Prefix(1) = <<w[1]>>
      OBVIOUS
    <3> QED
      BY <2>2, <3>1, <3>2
  <2> QED
    BY <2>1, <2>2
<1> HIDE DEF Grow, Prefix
<1>11. PICK end : end = Append(w, NULL)
  OBVIOUS
<1> DEFINE Walk == [i \in 0 .. l |-> IF i < k THEN Prefix(i + 1) ELSE end]
<1>12. \A i \in 0 .. l : Walk[i] = IF i = 0 THEN <<h>> ELSE Grow(Walk[i - 1])
  <2> SUFFICES ASSUME NEW i \in 0 .. l PROVE Walk[i] = IF i = 0 THEN <<h>> ELSE Grow(Walk[i - 1])
    OBVIOUS
  <2>1. CASE i = 0
    <3>1. Walk[i] = IF k = 0 THEN end ELSE Prefix(1)
      BY <2>1
    <3> QED
      BY <1>6, <1>11, <2>1, <3>1
  <2>2. CASE i # 0 /\ i < k
    <3>1. i \in 1 .. k /\ i # k /\ i - 1 \in 0 .. l /\ i - 1 < k /\ (i - 1) + 1 = i
      BY <2>2
    <3>2. Walk[i] = Prefix(i + 1) /\ Walk[i - 1] = Prefix((i - 1) + 1)
      BY <2>2, <3>1
    <3>3. Grow(Prefix(i)) = Prefix(i + 1)
      BY <1>4, <3>1
    <3> QED
      BY <2>2, <3>1, <3>2, <3>3
  <2>3. CASE i # 0 /\ i = k
    <3>1. i \in 1 .. k /\ i - 1 \in 0 .. l /\ i - 1 < k /\ (i - 1) + 1 = i
      BY <2>3
    <3>2. Walk[i] = end /\ Walk[i - 1] = Prefix((i - 1) + 1)
      BY <2>3, <3>1
    <3>3. Grow(Prefix(i)) = end
      BY <1>4, <1>11, <2>3, <3>1
    <3> QED
      BY <2>3, <3>1, <3>2, <3>3
  <2>4. CASE i # 0 /\ i > k
    <3>1. i - 1 \in 0 .. l /\ ~(i - 1 < k) /\ ~(i < k)
      BY <2>4
    <3>2. Walk[i] = end /\ Walk[i - 1] = end
      BY <3>1
    <3> QED
      BY <1>5, <1>11, <2>4, <3>2
  <2> QED
    BY <2>1, <2>2, <2>3, <2>4
<1>7. Walk[l] = Append(w, NULL) /\ It(Walk)
  <2>1. Walk[l] = Append(w, NULL)
    BY <1>2, <1>11
  <2>2. Walk = [i \in 0 .. l |-> Walk[i]]
    OBVIOUS
  <2> HIDE DEF Walk
  <2>3. [i \in 0 .. l |-> Walk[i]] = [i \in 0 .. l |-> IF i = 0 THEN <<h>> ELSE Grow(Walk[i - 1])]
    BY <1>12
  <2>4. It(Walk)
    BY <2>2, <2>3 DEF It
  <2> QED
    BY <2>1, <2>4
<1> HIDE DEF Walk
<1>8. It(walk)
  BY <1>7 DEF walk
<1>9. \A i \in 0 .. l : walk[i] = IF i = 0 THEN <<h>> ELSE Grow(walk[i - 1])
  BY <1>8 DEF It
<1> DEFINE Same == {i \in 0 .. l : walk[i] = Walk[i]}
<1>10. 0 .. l \subseteq Same
  <2>1. 0 \in Same
    BY <1>12, <1>9
  <2>2. ASSUME NEW i \in 0 .. l - 1, i \in Same PROVE i + 1 \in Same
    BY <1>12, <1>9, <2>2
  <2> HIDE DEF Same
  <2> QED
    BY <2>1, <2>2, EdgeLoop!PrefixInduction
<1> QED
  BY <1>1, <1>3, <1>7, <1>10

(* Counted degrees, worklists and the linked list of the moves agree with the
   graph and with the moves' states after every step of the loop, although
   the code keeps each of them by hand and movSetState only unlinks a head.   *)
THEOREM BookkeepingKept == Spec => []Bookkeeping
<1>1. Inv /\ BookInv => Bookkeeping
  <2> SUFFICES ASSUME Inv, BookInv PROVE Bookkeeping
    OBVIOUS
  <2>1. pass \in Pass /\ ListsOK(pass) /\ MovsOK /\ MoveListOK(pass)
    BY DEF Inv, ReduceInv, AssignInv, BookInv
  <2>2. DegreeIsLiveNeighbours
    <3> SUFFICES ASSUME NEW n \in VNode, pass.state[n] \in Listed
                 PROVE  pass.degree[n] = Cardinality({t \in pass.adjSet[n] : InGraph(pass, t)})
      BY DEF DegreeIsLiveNeighbours
    <3>1. phase \in {"makeWorklist", "worklists"}
      BY VNodes DEF Inv, AssignInv
    <3>2. pass.degree[n] = Cardinality(Live(pass, n)) + 0
      BY <3>1 DEF BookInv, Books, DegreesOff
    <3>3. Cardinality(Live(pass, n)) \in Nat
      <4>1. Live(pass, n) \in SUBSET Node
        BY <2>1, VNodes DEF Live, Pass
      <4> QED
        BY <4>1, Counting
    <3> QED
      BY <3>2, <3>3 DEF Live
  <2>3. WorklistsMeanWhatTheySay
    <3> SUFFICES ASSUME phase = "worklists"
                 PROVE  /\ pass.list["INITIAL"] = <<>>
                        /\ \A n \in ToSet(pass.list["FREEZE"]) : ~Significant(pass, n) /\ MoveRelated(pass, n)
                        /\ \A n \in ToSet(pass.list["SPILL"]) : Significant(pass, n)
                        /\ \A n \in ToSet(pass.list["SIMPLIFY"]) : n \notin candidates => ~Significant(pass, n)
      BY DEF WorklistsMeanWhatTheySay, Empty
    <3>1. (\A n \in Node : pass.state[n] # "INITIAL") /\ ListsMean(pass, candidates, {}, {})
      BY DEF Inv, BookInv, Books
    <3>2. {"INITIAL", "FREEZE", "SPILL", "SIMPLIFY"} \subseteq NodeState
      BY DEF NodeState
    <3>3. pass.list["INITIAL"] = <<>>
      <4>1. PICK s : s = pass.list["INITIAL"]
        OBVIOUS
      <4>2. s \in Seq(Node)
        BY <2>1, <3>2, <4>1 DEF Pass
      <4>3. \A n \in ToSet(s) : n \in Node /\ pass.state[n] = "INITIAL"
        BY <2>1, <3>2, <4>1, <4>2, ElementsOf DEF ListsOK
      <4>4. s # <<>> => s[1] \in ToSet(s)
        BY <4>2, ElementsOf
      <4> QED
        BY <3>1, <4>1, <4>3, <4>4
    <3>4. \A s \in {"FREEZE", "SPILL", "SIMPLIFY"} : \A n \in ToSet(pass.list[s]) : n \in Node /\ pass.state[n] = s
      BY <2>1, <3>2 DEF ListsOK
    <3> QED
      BY <3>1, <3>3, <3>4 DEF ListsMean
  <2>4. MoveWorklistIntact
    <3>1. PICK w \in Seq(Mov) : Spells(pass, w)
      BY <2>1 DEF MoveListOK
    <3>2. PICK c : c = Chain(pass.movList["WORKLIST"])
      OBVIOUS
    <3>3. c = Append(w, NULL)
      BY <2>1, <3>1, <3>2, ChainIs
    <3>4. c[Len(c)] = NULL
      BY <3>3
    <3>5. ToSet(c) \ {NULL} = ToSet(w)
      <4>1. PICK k \in Nat : k = Len(w)
        OBVIOUS
      <4>2. \A x : x \in ToSet(c) <=> \E i \in 1 .. k + 1 : c[i] = x
        BY <3>3, <4>1 DEF ToSet
      <4>3. \A x : x \in ToSet(w) <=> \E i \in 1 .. k : w[i] = x
        BY <4>1 DEF ToSet
      <4>4. c[k + 1] = NULL /\ \A i \in 1 .. k : c[i] = w[i] /\ w[i] # NULL
        <5>1. \A i \in 1 .. k : w[i] \in Nat
          BY <2>1, <4>1 DEF MovsOK, Mov
        <5> QED
          BY <3>3, <4>1, <5>1, InputAssumption
      <4> QED
        BY <4>2, <4>3, <4>4
    <3>6. ToSet(w) = {m \in Mov : pass.movState[m] = "WORKLIST"}
      BY <3>1 DEF Spells
    <3> QED
      BY <3>2, <3>4, <3>5, <3>6 DEF MoveWorklistIntact, ListIntact
  <2> QED
    BY <2>2, <2>3, <2>4 DEF Bookkeeping
<1> QED
  BY <1>1, Invariance, BooksKept, PTL

=============================================================================

--------------------------- MODULE RegAllocProofs ---------------------------
(***************************************************************************)
(* The register allocator keeps its inductive invariant (Inv of            *)
(* RegAllocInv), one lemma per loop and one per action, and implements     *)
(* ColoringStack, from whose proofs ValidColoring follows.                 *)
(***************************************************************************)
EXTENDS RegAllocSteps

-----------------------------------------------------------------------------
(* The steps of the loop over the worklists *)

(* A node that is simplified leaves the graph. *)
LEMMA SimplifyPushes ==
  ASSUME MovsOK, NEW p, ReduceInv(p), p.list["SIMPLIFY"] # <<>>, NEW n, n = Head(p.list["SIMPLIFY"])
  PROVE  LET q == ForAdjacent(NodeSetState(p, n, "SELECT"), n, DecrementDegree)
         IN  n \in Node /\ p.state[n] = "SIMPLIFY" /\ Pushes(p, n, q) /\ ReduceInv(q)
<1>1. p \in Pass /\ ListsOK(p) /\ "SIMPLIFY" \in NodeState /\ "SELECT" \in NodeState
  BY DEF ReduceInv, NodeState
<1>2. p.list["SIMPLIFY"] \in Seq(Node)
  BY <1>1 DEF Pass
<1>3. n \in Node /\ p.state[n] = "SIMPLIFY"
  <2>1. n \in ToSet(p.list["SIMPLIFY"])
    BY <1>2 DEF ToSet
  <2> QED
    BY <1>1, <2>1 DEF ListsOK
<1>4. PICK r : r = NodeSetState(p, n, "SELECT")
  OBVIOUS
<1>5. Relists(p, n, "SELECT", r)
  BY <1>1, <1>3, <1>4, NodeSetStateFacts
<1>6. /\ r \in Pass /\ ListsOK(r) /\ r.adjSet = p.adjSet /\ r.adjArr = p.adjArr /\ r.movArr = p.movArr
      /\ r.alias = p.alias /\ r.color = p.color /\ r.movState = p.movState /\ r.movNext = p.movNext
      /\ r.movList = p.movList /\ r.list["SELECT"] = <<n>> \o p.list["SELECT"]
      /\ \A m \in Node : r.state[m] = IF m = n THEN "SELECT" ELSE p.state[m]
  BY <1>3, <1>5 DEF Relists
<1>7. ReduceInv(r)
  <2>1. HWOK(r) /\ GraphOK(r) /\ Reducing(r)
    BY <1>3, <1>6 DEF ReduceInv, HWOK, GraphOK, Reducing
  <2>2. AliasOK(r)
    BY <1>3, <1>6 DEF ReduceInv, AliasOK
  <2>3. PICK g : RootMap(p.alias, g)
    BY DEF ReduceInv, AliasOK
  <2>4. \A m \in Node : GetAlias(r, m) = g[m] /\ GetAlias(p, m) = g[m]
    BY <1>1, <1>6, <2>2, <2>3, ReducingAlias DEF ReduceInv
  <2>5. MovesKnown(r)
    <3> SUFFICES ASSUME NEW m \in Mov, MovPending(r, m)
                 PROVE  /\ m \in ToSet(r.movArr[GetAlias(r, movs[m].dst)])
                        /\ m \in ToSet(r.movArr[GetAlias(r, movs[m].src)])
      BY DEF MovesKnown
    <3>1. movs[m].dst \in Node /\ movs[m].src \in Node
      BY MovEnds
    <3>2. MovPending(p, m)
      BY <1>6 DEF MovPending
    <3> QED
      BY <1>6, <2>4, <3>1, <3>2 DEF ReduceInv, MovesKnown
  <2>6. \A m \in Node : MoveRelated(r, m) <=> MoveRelated(p, m)
    BY <1>6 DEF MoveRelated, MovPending
  <2>7. Unrelated(r, "SIMPLIFY") /\ Unrelated(r, "SELECT")
    BY <1>3, <1>6, <2>6 DEF ReduceInv, Unrelated
  <2>8. \A m \in Mov : r.movState[m] # "ALLOCATED"
    BY <1>6 DEF ReduceInv
  <2> QED
    BY <1>6, <2>1, <2>2, <2>5, <2>7, <2>8 DEF ReduceInv
<1>8. PICK q : q = ForAdjacent(r, n, DecrementDegree)
  OBVIOUS
<1>9. Calm(r, q) /\ q \in Pass
  BY <1>3, <1>6, <1>7, <1>8, DecrementNeighboursCalm DEF ReduceInv
<1>10. ReduceInv(q)
  BY <1>7, <1>9, CalmReduceInv
<1>11. q.list["SELECT"] = r.list["SELECT"]
  <2>1. "SELECT" \in NodeState \ Listed
    BY DEF NodeState, Listed
  <2> QED
    BY <1>9, <2>1 DEF Calm, Stays
<1>12. q.alias = p.alias /\ q.color = p.color /\ q.adjSet = p.adjSet /\ q.movArr = p.movArr
  BY <1>6, <1>9 DEF Calm, Stays
<1>13. ASSUME NEW m \in Node
       PROVE  IF m = n THEN q.state[m] = "SELECT"
              ELSE IF p.state[m] \in Listed THEN q.state[m] \in Listed /\ (q.state[m] = "INITIAL" => p.state[m] = "INITIAL")
              ELSE q.state[m] = p.state[m]
  <2>1. "SELECT" \notin Listed
    BY DEF Listed
  <2> QED
    BY <1>6, <1>9, <2>1 DEF Calm, Stays
<1>14. \A m \in Mov : q.movState[m] = p.movState[m] \/ (MovPending(p, m) /\ q.movState[m] # "ALLOCATED")
  BY <1>6, <1>9 DEF Calm, Stays, MovPending
<1>15. MoveListOK(p) => MoveListOK(q)
  <2>1. MoveListOK(p) => MoveListOK(r)
    BY <1>6, SameMoveList
  <2> QED
    BY <1>9, <2>1 DEF Calm, Stays
<1>16. Pushes(p, n, q)
  BY <1>6, <1>9, <1>11, <1>12, <1>13, <1>14, <1>15 DEF Pushes
<1> QED
  BY <1>3, <1>4, <1>8, <1>10, <1>16

(* A node is put aside while the moves it has are given up. *)
LEMMA PutAside ==
  ASSUME MovsOK, NEW p, ReduceInv(p), MoveListOK(p), p.movList["WORKLIST"] = NULL,
         NEW n \in Node, p.state[n] \in Listed, NEW r, Relists(p, n, "SIMPLIFY", r)
  PROVE  /\ r \in Pass /\ ListsOK(r) /\ r.adjSet = p.adjSet /\ r.adjArr = p.adjArr /\ r.movArr = p.movArr
         /\ r.alias = p.alias /\ r.color = p.color /\ r.movState = p.movState /\ r.movNext = p.movNext
         /\ r.movList = p.movList
         /\ \A m \in Node : r.state[m] = IF m = n THEN "SIMPLIFY" ELSE p.state[m]
         /\ \A s \in NodeState \ Listed : r.list[s] = p.list[s]
         /\ Reducing(r) /\ AliasOK(r) /\ NoneWaiting(r) /\ MovesKnown(r) /\ Unrelated(r, "SELECT")
         /\ \A m \in Node : GetAlias(r, m) = GetAlias(p, m)
<1>1. p \in Pass /\ ListsOK(p) /\ "SIMPLIFY" \in NodeState
  BY DEF ReduceInv, NodeState
<1>2. NoneWaiting(p)
  <2>1. PICK w \in Seq(Mov) : Spells(p, w)
    BY DEF MoveListOK
  <2>2. Len(w) = 0
    <3>1. CASE Len(w) # 0
      <4>1. w[1] \in Mov
        BY <3>1
      <4>2. w[1] = NULL
        BY <2>1, <3>1 DEF Spells
      <4>3. NULL \notin Mov
        BY InputAssumption DEF MovsOK, Mov
      <4> QED
        BY <4>1, <4>2, <4>3
    <3> QED
      BY <3>1
  <2>3. ToSet(w) = {}
    BY <2>2 DEF ToSet
  <2> QED
    BY <2>1, <2>3 DEF Spells, NoneWaiting
<1>5. /\ r \in Pass /\ ListsOK(r) /\ r.adjSet = p.adjSet /\ r.adjArr = p.adjArr /\ r.movArr = p.movArr
      /\ r.alias = p.alias /\ r.color = p.color /\ r.movState = p.movState /\ r.movNext = p.movNext
      /\ r.movList = p.movList
      /\ \A m \in Node : r.state[m] = IF m = n THEN "SIMPLIFY" ELSE p.state[m]
      /\ \A s \in NodeState \ Listed : r.list[s] = p.list[s]
  <2>1. "SIMPLIFY" \in Listed
    BY DEF Listed
  <2> QED
    BY <2>1 DEF Relists
<1>6. Reducing(r) /\ AliasOK(r) /\ NoneWaiting(r)
  BY <1>2, <1>5 DEF ReduceInv, Reducing, AliasOK, NoneWaiting, Listed
<1>7. PICK g : RootMap(p.alias, g)
  BY DEF ReduceInv, AliasOK
<1>8. \A m \in Node : GetAlias(r, m) = g[m] /\ GetAlias(p, m) = g[m]
  BY <1>1, <1>5, <1>6, <1>7, ReducingAlias DEF ReduceInv
<1>9. MovesKnown(r)
  <2> SUFFICES ASSUME NEW m \in Mov, MovPending(r, m)
               PROVE  /\ m \in ToSet(r.movArr[GetAlias(r, movs[m].dst)])
                      /\ m \in ToSet(r.movArr[GetAlias(r, movs[m].src)])
    BY DEF MovesKnown
  <2>1. movs[m].dst \in Node /\ movs[m].src \in Node
    BY MovEnds
  <2>2. MovPending(p, m)
    BY <1>5 DEF MovPending
  <2> QED
    BY <1>5, <1>8, <2>1, <2>2 DEF ReduceInv, MovesKnown
<1>10. \A m \in Node : MoveRelated(r, m) <=> MoveRelated(p, m)
  BY <1>5 DEF MoveRelated, MovPending
<1>11. Unrelated(r, "SELECT")
  BY <1>5, <1>10 DEF ReduceInv, Unrelated
<1> QED
  BY <1>5, <1>6, <1>8, <1>9, <1>11

(* The moves of a node are given up and it is going to be simplified. *)
LEMMA GiveUpNodeCalm ==
  ASSUME MovsOK, NEW p, ReduceInv(p), MoveListOK(p), p.movList["WORKLIST"] = NULL,
         NEW n \in Node, p.state[n] \in Listed
  PROVE  LET q == FreezeMoves(NodeSetState(p, n, "SIMPLIFY"), n)
         IN  Calm(p, q) /\ q \in Pass /\ ReduceInv(q)
<1>1. p \in Pass /\ ListsOK(p) /\ "SIMPLIFY" \in NodeState
  BY DEF ReduceInv, NodeState
<1>3. PICK r : r = NodeSetState(p, n, "SIMPLIFY")
  OBVIOUS
<1>4. Relists(p, n, "SIMPLIFY", r)
  BY <1>1, <1>3, NodeSetStateFacts
<1>5. /\ r \in Pass /\ ListsOK(r) /\ r.adjSet = p.adjSet /\ r.adjArr = p.adjArr /\ r.movArr = p.movArr
      /\ r.alias = p.alias /\ r.color = p.color /\ r.movState = p.movState /\ r.movNext = p.movNext
      /\ r.movList = p.movList
      /\ \A m \in Node : r.state[m] = IF m = n THEN "SIMPLIFY" ELSE p.state[m]
      /\ \A s \in NodeState \ Listed : r.list[s] = p.list[s]
      /\ Reducing(r) /\ AliasOK(r) /\ NoneWaiting(r) /\ MovesKnown(r) /\ Unrelated(r, "SELECT")
  BY <1>4, PutAside
<1>12. PICK q : q = FreezeMoves(r, n)
  OBVIOUS
<1>13. Calm(r, q) /\ q \in Pass /\ ~MoveRelated(q, n)
  BY <1>5, <1>12, FreezeMovesCalm
<1>14. \A m \in Node : q.state[m] = "SIMPLIFY" => p.state[m] = "SIMPLIFY" \/ ~MoveRelated(q, m)
  BY <1>5, <1>13 DEF Calm, Stays
<1>15. \A m \in Node : IF p.state[m] \in Listed
                       THEN q.state[m] \in Listed /\ (q.state[m] = "INITIAL" => p.state[m] = "INITIAL")
                       ELSE q.state[m] = p.state[m]
  <2>1. "SIMPLIFY" \in Listed
    BY DEF Listed
  <2> QED
    BY <1>5, <1>13, <2>1 DEF Calm, Stays
<1>16. \A m \in Mov : q.movState[m] = p.movState[m] \/ (MovPending(p, m) /\ q.movState[m] # "ALLOCATED")
  BY <1>5, <1>13 DEF Calm, Stays, MovPending
<1>17. MoveListOK(p) => MoveListOK(q)
  <2>1. MoveListOK(p) => MoveListOK(r)
    BY <1>5, SameMoveList
  <2> QED
    BY <1>13, <2>1 DEF Calm, Stays
<1>18. /\ ListsOK(q) /\ q.movArr = p.movArr /\ q.alias = p.alias /\ q.color = p.color
       /\ q.adjSet = p.adjSet /\ q.adjArr = p.adjArr /\ \A s \in NodeState \ Listed : q.list[s] = p.list[s]
  BY <1>5, <1>13 DEF Calm, Stays
<1>19. Calm(p, q)
  BY <1>13, <1>14, <1>15, <1>16, <1>17, <1>18 DEF Calm, Stays
<1> QED
  BY <1>3, <1>12, <1>13, <1>19, CalmReduceInv

(* What coalesce looks at is in the graph. *)
LEMMA WaitingMove ==
  ASSUME MovsOK, NEW p, ReduceInv(p), MoveListOK(p), p.movList["WORKLIST"] # NULL, p.list["SIMPLIFY"] = <<>>,
         NEW m, m = p.movList["WORKLIST"]
  PROVE  /\ m \in Mov /\ p.movState[m] = "WORKLIST"
         /\ \A n \in {GetAlias(p, movs[m].dst), GetAlias(p, movs[m].src)} :
              n \in Node /\ p.state[n] \in (Listed \ {"SIMPLIFY"}) \cup {"PRECOLORED"}
<1>1. PICK w \in Seq(Mov) : Spells(p, w)
  BY DEF MoveListOK
<1>2. Len(w) # 0 /\ m = w[1]
  BY <1>1 DEF Spells
<1>3. m \in Mov /\ m \in ToSet(w)
  BY <1>2 DEF ToSet
<1>4. p.movState[m] = "WORKLIST"
  BY <1>1, <1>3 DEF Spells
<1>5. MovPending(p, m)
  BY <1>4 DEF MovPending
<1>6. PICK g : p \in Pass /\ AliasOK(p) /\ ListsOK(p) /\ RootMap(p.alias, g)
  BY DEF ReduceInv, AliasOK
<1>7. \A n \in Node : GetAlias(p, n) = g[n] /\ g[n] \in Node /\ p.state[g[n]] # "COALESCED"
  BY <1>6, ReducingAlias
<1>8. movs[m].dst \in Node /\ movs[m].src \in Node
  BY <1>3, MovEnds
<1>9. ASSUME NEW n \in {GetAlias(p, movs[m].dst), GetAlias(p, movs[m].src)}
      PROVE  n \in Node /\ p.state[n] \in (Listed \ {"SIMPLIFY"}) \cup {"PRECOLORED"}
  <2>1. n \in Node /\ p.state[n] # "COALESCED" /\ m \in ToSet(p.movArr[n])
    BY <1>3, <1>5, <1>7, <1>8 DEF ReduceInv, MovesKnown
  <2>2. MoveRelated(p, n)
    BY <1>5, <2>1 DEF MoveRelated
  <2>3. p.state[n] # "SELECT"
    BY <2>1, <2>2 DEF ReduceInv, Unrelated
  <2>4. p.state[n] # "SIMPLIFY"
    <3>1. "SIMPLIFY" \in NodeState /\ ToSet(p.list["SIMPLIFY"]) = {}
      BY DEF NodeState, ToSet
    <3> QED
      BY <1>6, <2>1, <3>1 DEF ListsOK
  <2> QED
    BY <2>1, <2>3, <2>4 DEF ReduceInv, Reducing, Listed
<1> QED
  BY <1>3, <1>4, <1>9

(* The move gets its next state. *)
LEMMA MoveDecided ==
  ASSUME MovsOK, NEW p, ReduceInv(p), MoveListOK(p), NEW m \in Mov, m = p.movList["WORKLIST"],
         p.movState[m] = "WORKLIST", NEW s \in MovState \ {"ALLOCATED", "WORKLIST"}
  PROVE  LET q == MovSetState(p, m, s) IN Calm(p, q) /\ q \in Pass /\ ReduceInv(q)
<1>1. p \in Pass /\ ListsOK(p) /\ MovPending(p, m)
  BY DEF ReduceInv, MovPending
<1>2. PICK q : q = MovSetState(p, m, s)
  OBVIOUS
<1>3. RelistsMove(p, m, s, q)
  BY <1>1, <1>2, MovSetStateFacts
<1>4. MoveListOK(q)
  BY <1>1, <1>2, MovSetStateList
<1>5. Calm(p, q) /\ q \in Pass
  BY <1>1, <1>3, <1>4, RelistsMoveCalm
<1> QED
  BY <1>2, <1>5, CalmReduceInv

(* nodeAddWorklist keeps the invariant. *)
LEMMA AddWorklistCalm ==
  ASSUME MovsOK, NEW p, ReduceInv(p), NEW n \in Node, p.state[n] \in Listed \cup {"PRECOLORED"}
  PROVE  LET q == AddWorklist(p, n) IN Calm(p, q) /\ q \in Pass /\ ReduceInv(q)
<1>1. p \in Pass /\ ListsOK(p) /\ "addWorklist" \in CheckName
  BY DEF ReduceInv, CheckName
<1>2. PICK q : q = AddWorklist(p, n)
  OBVIOUS
<1>3. Calm(p, q) /\ q \in Pass
  BY <1>1, <1>2, SimplifyIfIdleCalm DEF AddWorklist
<1> QED
  BY <1>2, <1>3, CalmReduceInv

(* What is calm before and after two nodes are merged makes no difference. *)
LEMMA CalmMerges ==
  ASSUME NEW p \in Pass, NEW u \in Node, NEW v \in Node, NEW a \in Pass, NEW b \in Pass, NEW q \in Pass,
         Calm(p, a), Merges(a, u, v, b), Calm(b, q), p.state[v] \in Listed
  PROVE  Merges(p, u, v, q)
<1> DEFINE moved == {t \in p.adjSet[v] : InGraph(p, t)}
<1>1. {t \in a.adjSet[v] : InGraph(a, t)} = moved
  <2>1. a.adjSet = p.adjSet /\ p.adjSet[v] \subseteq Node
    BY DEF Calm, Pass
  <2>2. \A t \in Node : InGraph(a, t) <=> InGraph(p, t)
    BY DEF Calm, Stays, InGraph, Listed
  <2> QED
    BY <2>1, <2>2
<1> HIDE DEF moved
<1>2. \A n \in Node : q.adjSet[n] = p.adjSet[n] \cup (IF n \in moved THEN {u} ELSE {})
                                                \cup (IF n = u THEN moved ELSE {})
  <2>1. q.adjSet = b.adjSet /\ a.adjSet = p.adjSet
    BY DEF Calm
  <2>2. \A n \in Node : b.adjSet[n] = a.adjSet[n] \cup (IF n \in moved THEN {u} ELSE {})
                                                  \cup (IF n = u THEN moved ELSE {})
    BY <1>1 DEF Merges
  <2> QED
    BY <2>1, <2>2
<1>3. \A m \in Mov : q.movState[m] = p.movState[m] \/ (MovPending(p, m) /\ q.movState[m] # "ALLOCATED")
  <2>1. \A m \in Mov : a.movState[m] = p.movState[m] \/ (MovPending(p, m) /\ a.movState[m] # "ALLOCATED")
    BY DEF Calm, Stays
  <2>2. \A m \in Mov : b.movState[m] = a.movState[m] \/ (MovPending(a, m) /\ b.movState[m] # "ALLOCATED")
    BY DEF Merges
  <2>3. \A m \in Mov : q.movState[m] = b.movState[m] \/ (MovPending(b, m) /\ q.movState[m] # "ALLOCATED")
    BY DEF Calm, Stays
  <2> QED
    BY <2>1, <2>2, <2>3 DEF MovPending
<1>4. ASSUME NEW n \in Node
      PROVE  IF n = v THEN q.state[n] = "COALESCED"
             ELSE IF p.state[n] \in Listed THEN q.state[n] \in Listed /\ (q.state[n] = "INITIAL" => p.state[n] = "INITIAL")
             ELSE q.state[n] = p.state[n]
  <2>1. IF p.state[n] \in Listed THEN a.state[n] \in Listed /\ (a.state[n] = "INITIAL" => p.state[n] = "INITIAL")
        ELSE a.state[n] = p.state[n]
    BY DEF Calm, Stays
  <2>2. IF n = v THEN b.state[n] = "COALESCED"
        ELSE IF a.state[n] \in Listed THEN b.state[n] \in Listed /\ (b.state[n] = "INITIAL" => a.state[n] = "INITIAL")
        ELSE b.state[n] = a.state[n]
    BY DEF Merges
  <2>3. IF b.state[n] \in Listed THEN q.state[n] \in Listed /\ (q.state[n] = "INITIAL" => b.state[n] = "INITIAL")
        ELSE q.state[n] = b.state[n]
    BY DEF Calm, Stays
  <2>4. "COALESCED" \notin Listed
    BY DEF Listed
  <2> QED
    BY <2>1, <2>2, <2>3, <2>4
<1>5. q.color = p.color /\ q.list["SELECT"] = p.list["SELECT"]
  <2>1. "SELECT" \in NodeState \ Listed
    BY DEF NodeState, Listed
  <2> QED
    BY <2>1 DEF Calm, Stays, Merges
<1>6. \A n \in Node : q.alias[n] = IF n = v THEN u ELSE p.alias[n]
  BY DEF Calm, Stays, Merges
<1>7. MoveListOK(p) => MoveListOK(q)
  BY DEF Calm, Stays, Merges
<1>8. \A n \in Node : ToSet(q.movArr[n]) = ToSet(p.movArr[n]) \cup (IF n = u THEN ToSet(p.movArr[v]) ELSE {})
  <2>1. a.movArr = p.movArr /\ q.movArr = b.movArr
    BY DEF Calm, Stays
  <2> QED
    BY <2>1 DEF Merges
<1> QED
  BY <1>2, <1>3, <1>4, <1>5, <1>6, <1>7, <1>8 DEF Merges, moved

(* coalesce either only moves nodes and moves between lists or merges two
   nodes that do not interfere.                                            *)
LEMMA CoalesceOutcome ==
  ASSUME MovsOK, ReduceInv(pass), MoveListOK(pass), Coalesce
  PROVE  Coalesces(pass, pass') /\ ReduceInv(pass') /\ pass' \in Pass
<1>1. PICK p, q : p = pass /\ q = pass'
  OBVIOUS
<1>2. ReduceInv(p) /\ MoveListOK(p) /\ p \in Pass
  BY <1>1 DEF ReduceInv
<1>3. PICK m, x, y : /\ m = p.movList["WORKLIST"]
                     /\ x = GetAlias(p, movs[m].dst) /\ y = GetAlias(p, movs[m].src)
  OBVIOUS
<1>4. p.movList["WORKLIST"] # NULL /\ p.list["SIMPLIFY"] = <<>>
  BY <1>1 DEF Coalesce, NoWorkMoves, Empty
<1>5. /\ m \in Mov /\ p.movState[m] = "WORKLIST" /\ x \in Node /\ y \in Node
      /\ p.state[x] \in (Listed \ {"SIMPLIFY"}) \cup {"PRECOLORED"}
      /\ p.state[y] \in (Listed \ {"SIMPLIFY"}) \cup {"PRECOLORED"}
  BY <1>2, <1>3, <1>4, WaitingMove
<1>6. PICK u, v : u = (IF Precolored(p, y) THEN y ELSE x) /\ v = (IF Precolored(p, y) THEN x ELSE y)
  OBVIOUS
<1>7. /\ u \in Node /\ v \in Node
      /\ p.state[u] \in (Listed \ {"SIMPLIFY"}) \cup {"PRECOLORED"}
      /\ p.state[v] \in (Listed \ {"SIMPLIFY"}) \cup {"PRECOLORED"}
  BY <1>5, <1>6
<1>8. q = CASE u = v -> AddWorklist(MovSetState(p, m, "COALESCED"), u)
            [] u # v /\ (Precolored(p, v) \/ v \in p.adjSet[u]) ->
                 AddWorklist(AddWorklist(MovSetState(p, m, "CONSTRAINED"), u), v)
            [] u # v /\ ~Precolored(p, v) /\ v \notin p.adjSet[u] /\ CanCombine(p, u, v) ->
                 AddWorklist(Combine(MovSetState(p, m, "COALESCED"), u, v), u)
            [] OTHER -> MovSetState(p, m, "ACTIVE")
  BY <1>1, <1>3, <1>6 DEF Coalesce, Defer
<1>9. {"COALESCED", "CONSTRAINED", "ACTIVE"} \subseteq MovState \ {"ALLOCATED", "WORKLIST"}
  BY DEF MovState
<1>10. \A s \in {"COALESCED", "CONSTRAINED", "ACTIVE"} :
         /\ Calm(p, MovSetState(p, m, s)) /\ MovSetState(p, m, s) \in Pass /\ ReduceInv(MovSetState(p, m, s))
         /\ \A n \in Node : MovSetState(p, m, s).state[n] = p.state[n]
  <2>1. \A s \in {"COALESCED", "CONSTRAINED", "ACTIVE"} : s \in MovState /\ s \in MovState \ {"ALLOCATED", "WORKLIST"}
    BY <1>9
  <2> TAKE s \in {"COALESCED", "CONSTRAINED", "ACTIVE"}
  <2>2. s \in MovState /\ s \in MovState \ {"ALLOCATED", "WORKLIST"}
    BY <2>1
  <2>3. PICK r : r = MovSetState(p, m, s)
    OBVIOUS
  <2>4. Calm(p, r) /\ r \in Pass /\ ReduceInv(r)
    BY <1>2, <1>3, <1>5, <2>2, <2>3, MoveDecided
  <2>5. r.state = p.state
    BY <1>2, <1>5, <2>2, <2>3, MovSetStateFacts DEF RelistsMove
  <2> QED
    BY <2>3, <2>4, <2>5
<1>11. CASE u = v
  <2>1. PICK r : r = MovSetState(p, m, "COALESCED")
    OBVIOUS
  <2>2. Calm(p, r) /\ r \in Pass /\ ReduceInv(r) /\ r.state[u] \in Listed \cup {"PRECOLORED"}
    BY <1>7, <1>10, <2>1
  <2>3. q = AddWorklist(r, u)
    BY <1>8, <1>11, <2>1
  <2>4. Calm(r, q) /\ q \in Pass /\ ReduceInv(q)
    BY <1>7, <2>2, <2>3, AddWorklistCalm
  <2>5. Calm(p, q)
    BY <1>2, <2>2, <2>4, CalmTwice
  <2> QED
    BY <1>1, <2>4, <2>5 DEF Coalesces
<1>12. CASE u # v /\ (Precolored(p, v) \/ v \in p.adjSet[u])
  <2>1. PICK r : r = MovSetState(p, m, "CONSTRAINED")
    OBVIOUS
  <2>2. Calm(p, r) /\ r \in Pass /\ ReduceInv(r) /\ r.state[u] \in Listed \cup {"PRECOLORED"}
        /\ r.state[v] \in Listed \cup {"PRECOLORED"}
    BY <1>7, <1>10, <2>1
  <2>3. PICK t : t = AddWorklist(r, u)
    OBVIOUS
  <2>4. Calm(r, t) /\ t \in Pass /\ ReduceInv(t)
    BY <1>7, <2>2, <2>3, AddWorklistCalm
  <2>5. t.state[v] \in Listed \cup {"PRECOLORED"}
    BY <1>7, <2>2, <2>4 DEF Calm, Stays
  <2>6. q = AddWorklist(t, v)
    BY <1>8, <1>12, <2>1, <2>3
  <2>7. Calm(t, q) /\ q \in Pass /\ ReduceInv(q)
    BY <1>7, <2>4, <2>5, <2>6, AddWorklistCalm
  <2>8. Calm(p, q)
    BY <1>2, <2>2, <2>4, <2>7, CalmTwice
  <2> QED
    BY <1>1, <2>7, <2>8 DEF Coalesces
<1>13. CASE u # v /\ ~Precolored(p, v) /\ v \notin p.adjSet[u] /\ CanCombine(p, u, v)
  <2>1. PICK r : r = MovSetState(p, m, "COALESCED")
    OBVIOUS
  <2>2. Calm(p, r) /\ r \in Pass /\ ReduceInv(r) /\ r.state[u] = p.state[u] /\ r.state[v] = p.state[v]
        /\ r.adjSet = p.adjSet
    BY <1>7, <1>10, <2>1 DEF Calm
  <2>3. Mergeable(p, u, v)
    BY <1>7, <1>13 DEF Mergeable, Precolored
  <2>4. PICK b : b = Combine(r, u, v)
    OBVIOUS
  <2>5. Merges(r, u, v, b) /\ ReduceInv(b)
    <3>1. InGraph(r, u) /\ r.state[u] # "SIMPLIFY" /\ r.state[v] \in Listed /\ v \notin r.adjSet[u] /\ u # v
      BY <2>2, <2>3 DEF Mergeable, InGraph, Listed
    <3> QED
      BY <1>7, <2>2, <2>4, <3>1, CombineMerges
  <2>6. b \in Pass /\ b.state[u] \in Listed \cup {"PRECOLORED"}
    BY <1>7, <1>13, <2>2, <2>5 DEF Merges
  <2>7. q = AddWorklist(b, u)
    BY <1>8, <1>13, <2>1, <2>4
  <2>8. Calm(b, q) /\ q \in Pass /\ ReduceInv(q)
    BY <1>7, <2>5, <2>6, <2>7, AddWorklistCalm
  <2>9. Merges(p, u, v, q)
    <3>1. p.state[v] \in Listed
      BY <2>3 DEF Mergeable
    <3> QED
      BY <1>2, <1>7, <2>2, <2>5, <2>6, <2>8, <3>1, CalmMerges
  <2> QED
    BY <1>1, <1>7, <2>3, <2>8, <2>9 DEF Coalesces
<1>14. CASE ~(u = v \/ (u # v /\ (Precolored(p, v) \/ v \in p.adjSet[u]))
              \/ (u # v /\ ~Precolored(p, v) /\ v \notin p.adjSet[u] /\ CanCombine(p, u, v)))
  <2>1. q = MovSetState(p, m, "ACTIVE")
    BY <1>8, <1>14
  <2> QED
    BY <1>1, <1>10, <2>1 DEF Coalesces
<1> QED
  BY <1>11, <1>12, <1>13, <1>14

-----------------------------------------------------------------------------
(* The steps that assign colours *)

(* Following the aliases leads to a node without one. *)
LEMMA RootEnds ==
  ASSUME NEW alias \in [Node -> Node \cup {NULL}], Acyclic(alias), NEW g, RootMap(alias, g)
  PROVE  \A m \in Node : g[m] \in Node /\ alias[g[m]] = NULL
<1> DEFINE S == {m \in Node : alias[g[m]] # NULL}
<1>1. \A m \in Node : g[m] \in Node
  BY DEF RootMap
<1> SUFFICES ASSUME S # {} PROVE FALSE
  BY <1>1
<1>2. PICK n \in S : alias[n] \notin S
  BY DEF Acyclic
<1>3. alias[n] # NULL
  BY <1>2 DEF RootMap
<1>4. g[n] = g[alias[n]] /\ alias[n] \in Node
  BY <1>2, <1>3 DEF RootMap
<1> QED
  BY <1>2, <1>4

(* Stopping on the way makes no difference to where the aliases lead. *)
LEMMA AliasOnTheWay ==
  ASSUME NEW p \in Pass, Acyclic(p.alias), \A n \in Node : p.state[n] = "COALESCED" => p.alias[n] # NULL,
         NEW a, AliasMap(p, a), NEW g, RootMap(p.alias, g)
  PROVE  \A m \in Node : a[m] \in Node /\ p.state[a[m]] # "COALESCED" /\ g[a[m]] = g[m]
<1> DEFINE S == {m \in Node : p.state[a[m]] = "COALESCED" \/ g[a[m]] # g[m]}
<1>1. \A m \in Node : a[m] \in Node
  BY DEF AliasMap
<1> SUFFICES ASSUME S # {} PROVE FALSE
  BY <1>1
<1>2. PICK n \in S : p.alias[n] \notin S
  BY DEF Acyclic
<1>3. p.state[n] = "COALESCED"
  BY <1>2 DEF AliasMap
<1>4. a[n] = a[p.alias[n]] /\ p.alias[n] # NULL
  BY <1>2, <1>3 DEF AliasMap
<1>5. g[n] = g[p.alias[n]] /\ p.alias[n] \in Node
  BY <1>2, <1>4 DEF RootMap, Pass
<1> QED
  BY <1>2, <1>4, <1>5

(* The aliases that lead to n end there once n has its register. *)
LEMMA Reroute ==
  ASSUME NEW p \in Pass, NEW a, AliasMap(p, a), NEW n \in Node, p.state[n] = "COALESCED",
         \A m \in Node : p.state[m] = "COALESCED" => p.alias[m] # NULL,
         NEW q \in Pass, q.alias = p.alias,
         \A m \in Node : q.state[m] = "COALESCED" <=> m # n /\ p.state[m] = "COALESCED"
  PROVE  \E b : AliasMap(q, b)
<1> DEFINE Family == {S \in SUBSET Node : n \in S /\ \A m \in Node : q.state[m] = "COALESCED" /\ p.alias[m] \in S => m \in S}
           R == {m \in Node : \A S \in Family : m \in S}
           b == [m \in Node |-> IF m \in R THEN n ELSE a[m]]
<1>1. n \in R /\ \A m \in Node : q.state[m] = "COALESCED" /\ p.alias[m] \in R => m \in R
  OBVIOUS
<1>2. ASSUME NEW x \in R, x # n, ~(q.state[x] = "COALESCED" /\ p.alias[x] \in R)
      PROVE  FALSE
  <2>1. R \ {x} \in Family
    <3>1. R \ {x} \in SUBSET Node /\ n \in R \ {x}
      BY <1>1, <1>2
    <3>2. ASSUME NEW m \in Node, q.state[m] = "COALESCED", p.alias[m] \in R \ {x}
          PROVE  m \in R \ {x}
      BY <1>1, <1>2, <3>2
    <3> HIDE DEF R
    <3> QED
      BY <3>1, <3>2
  <2>2. x \in R \ {x}
    <3>1. \A S \in Family : x \in S
      OBVIOUS
    <3> HIDE DEF R, Family
    <3> QED
      BY <2>1, <3>1
  <2> QED
    BY <2>2
<1>3. R \subseteq Node
  OBVIOUS
<1> HIDE DEF R, Family
<1>4. \A m \in Node : a[m] \in Node /\ a[m] = IF p.state[m] = "COALESCED" THEN a[p.alias[m]] ELSE m
  BY DEF AliasMap
<1>5. \A m \in Node : b[m] = IF q.state[m] = "COALESCED" THEN b[q.alias[m]] ELSE m
  <2> TAKE m \in Node
  <2>1. CASE q.state[m] = "COALESCED"
    <3>1. p.state[m] = "COALESCED" /\ m # n
      BY <2>1
    <3>2. p.alias[m] \in Node
      BY <3>1 DEF Pass
    <3>3. m \in R <=> p.alias[m] \in R
      BY <1>1, <1>2, <2>1, <3>1
    <3> QED
      BY <1>4, <2>1, <3>1, <3>2, <3>3
  <2>2. CASE q.state[m] # "COALESCED" /\ m = n
    BY <1>1, <2>2
  <2>3. CASE q.state[m] # "COALESCED" /\ m # n
    <3>1. m \notin R /\ p.state[m] # "COALESCED"
      BY <1>2, <2>3
    <3> QED
      BY <1>4, <2>3, <3>1
  <2> QED
    BY <2>1, <2>2, <2>3
<1>6. b \in [Node -> Node]
  BY <1>4
<1> HIDE DEF b
<1>7. AliasMap(q, b)
  BY <1>5, <1>6 DEF AliasMap
<1> QED
  BY <1>7

(* The head of a list gets its register or is spilled. *)
LEMMA AssignFacts ==
  ASSUME NEW p \in Pass, ListsOK(p), NEW from \in {"SELECT", "COALESCED"}, p.list[from] # <<>>,
         NEW n, n = Head(p.list[from])
  PROVE  /\ n \in Node /\ p.state[n] = from
         /\ Assigns(p, n, p.color[n], "SPILLED", NodeSetState(p, n, "SPILLED"))
         /\ \A c \in Color : Assigns(p, n, c, "COLORED", NodeSetState([p EXCEPT !.color[n] = c], n, "COLORED"))
<1>1. from \in NodeState /\ "SELECT" \in NodeState /\ {"SPILLED", "COLORED"} \subseteq NodeState
  BY DEF NodeState
<1>2. p.list[from] \in Seq(Node)
  BY <1>1 DEF Pass
<1>3. n \in Node /\ p.state[n] = from
  <2>1. n \in ToSet(p.list[from])
    BY <1>2 DEF ToSet
  <2> QED
    BY <1>1, <1>2, <2>1 DEF ListsOK
<1>4. ASSUME NEW r \in Pass, ListsOK(r), r.state = p.state, r.list = p.list, r.alias = p.alias,
             r.adjSet = p.adjSet, r.adjArr = p.adjArr, r.movState = p.movState, r.movNext = p.movNext,
             r.movList = p.movList, r.failed = p.failed,
             NEW c, \A m \in Node : r.color[m] = IF m = n THEN c ELSE p.color[m],
             NEW s \in {"SPILLED", "COLORED"}
      PROVE  Assigns(p, n, c, s, NodeSetState(r, n, s))
  <2>1. PICK q : q = NodeSetState(r, n, s)
    OBVIOUS
  <2>2. s \in NodeState /\ s # from
    BY <1>1
  <2>3. Relists(r, n, s, q) /\ q.failed = r.failed
    BY <1>3, <1>4, <2>1, <2>2, NodeSetStateFacts
  <2>4. /\ q \in Pass /\ ListsOK(q) /\ q.alias = p.alias /\ q.adjSet = p.adjSet /\ q.adjArr = p.adjArr
        /\ q.movState = p.movState /\ q.movNext = p.movNext /\ q.movList = p.movList /\ q.failed = p.failed
        /\ \A m \in Node : q.state[m] = IF m = n THEN s ELSE p.state[m]
        /\ \A m \in Node : q.color[m] = IF m = n THEN c ELSE p.color[m]
    BY <1>4, <2>3 DEF Relists
  <2>5. q.list["SELECT"] = IF p.state[n] = "SELECT" THEN Tail(p.list["SELECT"]) ELSE p.list["SELECT"]
    <3>1. CASE from = "SELECT"
      BY <1>3, <1>4, <2>2, <2>3, <3>1 DEF Relists
    <3>2. CASE from # "SELECT"
      BY <1>1, <1>3, <1>4, <2>2, <2>3, <3>2 DEF Relists
    <3> QED
      BY <3>1, <3>2
  <2> QED
    BY <2>1, <2>4, <2>5 DEF Assigns
<1>5. Assigns(p, n, p.color[n], "SPILLED", NodeSetState(p, n, "SPILLED"))
  BY <1>4
<1>6. ASSUME NEW c \in Color
      PROVE  Assigns(p, n, c, "COLORED", NodeSetState([p EXCEPT !.color[n] = c], n, "COLORED"))
  <2>1. PICK r : r = [p EXCEPT !.color[n] = c]
    OBVIOUS
  <2>2. /\ r \in Pass /\ r.state = p.state /\ r.list = p.list /\ r.alias = p.alias
        /\ r.adjSet = p.adjSet /\ r.adjArr = p.adjArr /\ r.movState = p.movState
        /\ r.movNext = p.movNext /\ r.movList = p.movList /\ r.failed = p.failed
        /\ r.color = [p.color EXCEPT ![n] = c]
    BY <1>3, <2>1 DEF Pass
  <2>3. \A m \in Node : r.color[m] = IF m = n THEN c ELSE p.color[m]
    BY <1>3, <2>2 DEF Pass
  <2>4. ListsOK(r)
    BY <2>2 DEF ListsOK
  <2> QED
    BY <1>4, <2>1, <2>2, <2>3, <2>4
<1> QED
  BY <1>3, <1>5, <1>6

(* The invariant survives the assignment of one register. *)
LEMMA AssignKeeps ==
  ASSUME NEW p, AssignInv(p), ColorsOK(p), NEW n \in Node, NEW c, NEW s \in {"COLORED", "SPILLED"}, NEW q,
         Assigns(p, n, c, s, q), s = "COLORED" <=> c # NoColor,
         \/ p.state[n] = "SELECT"
         \/ /\ p.state[n] = "COALESCED" /\ p.list["SELECT"] = <<>>
            /\ \A g : RootMap(p.alias, g) => c = p.color[g[n]]
  PROVE  AssignInv(q) /\ ColorsOK(q)
<1>1. /\ p \in Pass /\ ListsOK(p) /\ q \in Pass /\ ListsOK(q) /\ q.alias = p.alias /\ q.adjSet = p.adjSet
      /\ q.adjArr = p.adjArr /\ q.movState = p.movState
      /\ \A m \in Node : q.state[m] = IF m = n THEN s ELSE p.state[m]
      /\ \A m \in Node : q.color[m] = IF m = n THEN c ELSE p.color[m]
  BY DEF Assigns, AssignInv
<1>2. HWOK(q) /\ GraphOK(q) /\ \A m \in Mov : q.movState[m] # "ALLOCATED"
  BY <1>1 DEF AssignInv, HWOK, GraphOK
<1>3. \A m \in Node : q.state[m] \notin Listed
  BY <1>1 DEF AssignInv, Listed
<1>4. Acyclic(q.alias) /\ \E g : RootMap(q.alias, g)
  BY <1>1 DEF AssignInv
<1>5. /\ \A m \in Node : q.state[m] = "COALESCED" => q.alias[m] # NULL
      /\ \A m \in Node : q.alias[m] # NULL => q.state[m] \in {"COALESCED", "COLORED", "SPILLED"}
  BY <1>1 DEF AssignInv
<1>6. p.state[n] = "SELECT" => \A m \in Node : p.alias[m] # NULL => p.state[m] = "COALESCED"
  BY DEF AssignInv
<1>7. p.state[n] = "COALESCED" => \A m \in Node : p.state[m] # "SELECT" /\ q.state[m] # "SELECT"
  <2> SUFFICES ASSUME p.state[n] = "COALESCED" PROVE \A m \in Node : p.state[m] # "SELECT"
    BY <1>1
  <2>1. ToSet(p.list["SELECT"]) = {} /\ "SELECT" \in NodeState
    BY DEF ToSet, NodeState
  <2> QED
    BY <1>1, <2>1 DEF ListsOK
<1>8. (\E m \in Node : q.state[m] = "SELECT") => \A m \in Node : q.alias[m] # NULL => q.state[m] = "COALESCED"
  BY <1>1, <1>6, <1>7
<1>9. \E b : AliasMap(q, b)
  <2>1. PICK a : AliasMap(p, a)
    BY DEF AssignInv
  <2>2. CASE p.state[n] = "SELECT"
    <3>1. AliasMap(q, a)
      BY <1>1, <2>1, <2>2 DEF AliasMap
    <3> QED
      BY <3>1
  <2>3. CASE p.state[n] = "COALESCED"
    <3>1. \A m \in Node : q.state[m] = "COALESCED" <=> m # n /\ p.state[m] = "COALESCED"
      BY <1>1
    <3>2. \A m \in Node : p.state[m] = "COALESCED" => p.alias[m] # NULL
      BY DEF AssignInv
    <3> QED
      BY <1>1, <2>1, <2>3, <3>1, <3>2, Reroute
  <2> QED
    BY <2>2, <2>3
<1>10. ASSUME NEW g, RootMap(q.alias, g), NEW m \in Node, q.state[m] \in {"COLORED", "SPILLED"}
       PROVE  q.color[m] = q.color[g[m]]
  <2>1. RootMap(p.alias, g) /\ p.alias \in [Node -> Node \cup {NULL}] /\ Acyclic(p.alias)
    BY <1>1, <1>10 DEF AssignInv, Pass
  <2>2. \A x \in Node : g[x] \in Node /\ p.alias[g[x]] = NULL
    BY <2>1, RootEnds
  <2>3. \A x \in Node : p.alias[x] = NULL => g[x] = x
    BY <2>1 DEF RootMap
  <2>4. \A x \in Node : p.state[x] \in {"COLORED", "SPILLED"} => p.color[x] = p.color[g[x]]
    BY <2>1 DEF AssignInv
  <2>5. CASE p.state[n] = "SELECT"
    <3>1. p.alias[n] = NULL
      BY <1>6, <2>5
    <3>2. m = n \/ p.alias[m] = NULL
      BY <1>1, <1>6, <1>10, <2>5
    <3> QED
      BY <2>3, <3>1, <3>2
  <2>6. CASE p.state[n] = "COALESCED"
    <3>1. p.alias[n] # NULL
      BY <2>6 DEF AssignInv
    <3>2. g[m] # n
      BY <2>2, <3>1
    <3>3. CASE m = n
      <4>1. c = p.color[g[n]]
        BY <2>1, <2>6
      <4> QED
        BY <1>1, <2>2, <3>2, <3>3, <4>1
    <3>4. CASE m # n
      BY <1>1, <1>10, <2>2, <2>4, <3>2, <3>4
    <3> QED
      BY <3>3, <3>4
  <2> QED
    BY <2>5, <2>6
<1>11. ColorsOK(q)
  BY <1>1 DEF ColorsOK
<1> QED
  BY <1>1, <1>2, <1>3, <1>4, <1>5, <1>8, <1>9, <1>10, <1>11 DEF AssignInv

(* assignColors for the top of the select stack. *)
LEMMA AssignColorOutcome ==
  ASSUME AssignInv(pass), ColorsOK(pass), AssignColor
  PROVE  /\ AssignInv(pass') /\ ColorsOK(pass')
         /\ \A g : RootMap(pass.alias, g) => Pops(pass, g, Head(pass.list["SELECT"]), pass')
<1>1. PICK p, q : p = pass /\ q = pass'
  OBVIOUS
<1>2. AssignInv(p) /\ ColorsOK(p) /\ p \in Pass /\ ListsOK(p)
  BY <1>1 DEF AssignInv
<1>3. PICK n : n = Head(p.list["SELECT"])
  OBVIOUS
<1>4. PICK free : free = Avail \ {p.color[w] : w \in {r \in {GetAlias(p, w) : w \in ToSet(p.adjArr[n])} :
                                                       p.state[r] \in {"COLORED", "PRECOLORED"}}}
  OBVIOUS
<1>5. /\ p.list["SELECT"] # <<>>
      /\ q = IF free = {} THEN NodeSetState(p, n, "SPILLED")
             ELSE NodeSetState([p EXCEPT !.color[n] = Min(free)], n, "COLORED")
  BY <1>1, <1>3, <1>4 DEF AssignColor, Empty
<1>6. /\ n \in Node /\ p.state[n] = "SELECT"
      /\ Assigns(p, n, p.color[n], "SPILLED", NodeSetState(p, n, "SPILLED"))
      /\ \A c \in Color : Assigns(p, n, c, "COLORED", NodeSetState([p EXCEPT !.color[n] = c], n, "COLORED"))
  BY <1>2, <1>3, <1>5, AssignFacts
<1>7. p.color[n] = NoColor
  BY <1>2, <1>6 DEF ColorsOK
<1>8. free # {} => Min(free) \in free
  <2>1. free \subseteq Nat
    BY <1>4, InputAssumption
  <2>2. free # {} => \E x \in free : \A y \in free : x <= y
    BY <2>1, EdgeLoop!LeastElement
  <2> QED
    BY <2>2 DEF Min
<1>9. ASSUME NEW g, RootMap(p.alias, g)
      PROVE  free = Avail \ Taken(p, g, n)
  <2>1. \A m \in Node : p.alias[m] # NULL <=> p.state[m] = "COALESCED"
    BY <1>2, <1>6 DEF AssignInv
  <2>2. AliasMap(p, g)
    BY <1>9, <2>1 DEF AliasMap, RootMap
  <2>3. \A m \in Node : GetAlias(p, m) = g[m]
    BY <1>2, <2>1, <2>2, GetAliasIs DEF AssignInv
  <2>4. ToSet(p.adjArr[n]) = p.adjSet[n] /\ p.adjSet[n] \subseteq Node
    BY <1>2, <1>6, VNodes DEF AssignInv, HWOK, GraphOK, Pass
  <2>5. {GetAlias(p, w) : w \in ToSet(p.adjArr[n])} = {g[w] : w \in p.adjSet[n]}
    BY <2>3, <2>4
  <2>6. {p.color[w] : w \in {r \in {g[w] : w \in p.adjSet[n]} : p.state[r] \in {"COLORED", "PRECOLORED"}}}
          = Taken(p, g, n)
    BY DEF Taken
  <2> QED
    BY <1>4, <2>5, <2>6
<1>10. CASE free = {}
  <2>1. Assigns(p, n, NoColor, "SPILLED", q)
    BY <1>5, <1>6, <1>7, <1>10
  <2>2. AssignInv(q) /\ ColorsOK(q)
    BY <1>2, <1>6, <2>1, AssignKeeps
  <2>3. \A g : RootMap(p.alias, g) => Pops(p, g, n, q)
    BY <1>3, <1>5, <1>6, <1>9, <1>10, <2>1 DEF Pops
  <2> QED
    BY <1>1, <1>3, <2>2, <2>3
<1>11. CASE free # {}
  <2>1. PICK c : c = Min(free)
    OBVIOUS
  <2>2. c \in free /\ c \in Color /\ c # NoColor
    BY <1>4, <1>8, <1>11, <2>1, InputAssumption
  <2>3. Assigns(p, n, c, "COLORED", q)
    BY <1>5, <1>6, <1>11, <2>1, <2>2
  <2>4. AssignInv(q) /\ ColorsOK(q)
    BY <1>2, <1>6, <2>2, <2>3, AssignKeeps
  <2>5. \A g : RootMap(p.alias, g) => Pops(p, g, n, q)
    BY <1>3, <1>5, <1>6, <1>9, <2>2, <2>3 DEF Pops
  <2> QED
    BY <1>1, <1>3, <2>4, <2>5
<1> QED
  BY <1>10, <1>11

(* assignColors for a coalesced node. *)
LEMMA AssignCoalescedOutcome ==
  ASSUME AssignInv(pass), ColorsOK(pass), AssignCoalesced
  PROVE  /\ AssignInv(pass') /\ ColorsOK(pass')
         /\ \A g : RootMap(pass.alias, g) => Inherits(pass, g, Head(pass.list["COALESCED"]), pass')
<1>1. PICK p, q : p = pass /\ q = pass'
  OBVIOUS
<1>2. AssignInv(p) /\ ColorsOK(p) /\ p \in Pass /\ ListsOK(p)
  BY <1>1 DEF AssignInv
<1>3. PICK n : n = Head(p.list["COALESCED"])
  OBVIOUS
<1>4. PICK c : c = p.color[GetAlias(p, n)]
  OBVIOUS
<1>5. /\ p.list["SELECT"] = <<>> /\ p.list["COALESCED"] # <<>>
      /\ q = IF c = NoColor THEN NodeSetState(p, n, "SPILLED")
             ELSE NodeSetState([p EXCEPT !.color[n] = c], n, "COLORED")
  BY <1>1, <1>3, <1>4 DEF AssignCoalesced, Empty
<1>6. /\ n \in Node /\ p.state[n] = "COALESCED"
      /\ Assigns(p, n, p.color[n], "SPILLED", NodeSetState(p, n, "SPILLED"))
      /\ \A x \in Color : Assigns(p, n, x, "COLORED", NodeSetState([p EXCEPT !.color[n] = x], n, "COLORED"))
  BY <1>2, <1>3, <1>5, AssignFacts
<1>7. p.color[n] = NoColor
  BY <1>2, <1>6 DEF ColorsOK
<1>8. \A m \in Node : p.state[m] # "SELECT"
  <2>1. ToSet(p.list["SELECT"]) = {} /\ "SELECT" \in NodeState
    BY <1>5 DEF ToSet, NodeState
  <2> QED
    BY <1>2, <2>1 DEF ListsOK
<1>9. ASSUME NEW g, RootMap(p.alias, g)
      PROVE  c = p.color[g[n]] /\ g[n] \in Node
  <2>1. PICK a : AliasMap(p, a)
    BY <1>2 DEF AssignInv
  <2>2. \A m \in Node : p.state[m] = "COALESCED" => p.alias[m] # NULL
    BY <1>2 DEF AssignInv
  <2>3. Acyclic(p.alias)
    BY <1>2 DEF AssignInv
  <2>4. GetAlias(p, n) = a[n]
    BY <1>2, <1>6, <2>1, <2>2, <2>3, GetAliasIs
  <2>5. a[n] \in Node /\ p.state[a[n]] # "COALESCED" /\ g[a[n]] = g[n]
    BY <1>2, <1>6, <1>9, <2>1, <2>2, <2>3, AliasOnTheWay
  <2>6. p.state[a[n]] \in {"COLORED", "SPILLED", "PRECOLORED"}
    <3>1. p.state[a[n]] \in NodeState \ Listed
      BY <1>2, <2>5 DEF AssignInv, Pass
    <3> QED
      BY <1>8, <2>5, <3>1 DEF NodeState, Listed
  <2>7. p.color[a[n]] = p.color[g[a[n]]]
    <3>1. CASE p.state[a[n]] = "PRECOLORED"
      <4>1. p.alias[a[n]] = NULL
        BY <1>2, <2>5, <3>1 DEF AssignInv
      <4> QED
        BY <1>9, <2>5, <4>1 DEF RootMap
    <3> QED
      BY <1>2, <1>9, <2>5, <2>6, <3>1 DEF AssignInv
  <2> QED
    BY <1>4, <1>6, <1>9, <2>4, <2>5, <2>7 DEF RootMap
<1>10. CASE c = NoColor
  <2>1. Assigns(p, n, NoColor, "SPILLED", q)
    BY <1>5, <1>6, <1>7, <1>10
  <2>2. AssignInv(q) /\ ColorsOK(q)
    BY <1>2, <1>5, <1>6, <1>9, <1>10, <2>1, AssignKeeps
  <2>3. \A g : RootMap(p.alias, g) => Inherits(p, g, n, q)
    BY <1>6, <1>9, <1>10, <2>1 DEF Inherits
  <2> QED
    BY <1>1, <1>3, <2>2, <2>3
<1>11. CASE c # NoColor
  <2>1. c \in Color
    <3>1. PICK g : RootMap(p.alias, g)
      BY <1>2 DEF AssignInv
    <3>2. c = p.color[g[n]] /\ g[n] \in Node
      BY <1>9, <3>1
    <3> QED
      BY <1>2, <1>11, <3>2 DEF Pass
  <2>2. Assigns(p, n, c, "COLORED", q)
    BY <1>5, <1>6, <1>11, <2>1
  <2>3. AssignInv(q) /\ ColorsOK(q)
    BY <1>2, <1>5, <1>6, <1>9, <1>11, <2>2, AssignKeeps
  <2>4. \A g : RootMap(p.alias, g) => Inherits(p, g, n, q)
    BY <1>6, <1>9, <1>11, <2>2 DEF Inherits
  <2> QED
    BY <1>1, <1>3, <2>3, <2>4
<1> QED
  BY <1>10, <1>11

-----------------------------------------------------------------------------
(* The inductive invariant *)

(* The moves are the same before and after a step. *)
LEMMA SameMovs ==
  ASSUME movs' = movs
  PROVE  /\ ReduceInv(pass') => ReduceInv(pass)'
         /\ MoveListOK(pass') => MoveListOK(pass)'
         /\ AssignInv(pass') => AssignInv(pass)'
         /\ MovsOK => MovsOK'
<1>1. Mov' = Mov
  BY DEF Mov
<1>2. Pass' = Pass
  BY <1>1 DEF Pass
<1>3. MovesKnown(pass') => MovesKnown(pass)'
  BY <1>1 DEF MovesKnown
<1>4. ReduceInv(pass') => ReduceInv(pass)'
  BY <1>1, <1>2, <1>3 DEF ReduceInv
<1>5. AssignInv(pass') => AssignInv(pass)'
  BY <1>1, <1>2 DEF AssignInv
<1>6. MoveListOK(pass') => MoveListOK(pass)'
  BY <1>1 DEF MoveListOK, Spells
<1>7. MovsOK => MovsOK'
  BY DEF MovsOK
<1> QED
  BY <1>4, <1>5, <1>6, <1>7

(* The pass that init builds satisfies the invariant. *)
LEMMA InitInv == Init => Inv
<1> SUFFICES ASSUME Init PROVE Inv
  OBVIOUS
<1>1. PICK g \in Graphs : pass = Build(g, movs)
  BY DEF Init
<1>2. MovsOK /\ phase = "makeWorklist" /\ candidates = {} /\ g \in Seq(Node \X Node)
  BY InputAssumption DEF Init, MovsOK
<1>3. /\ ReduceInv(pass) /\ MoveListOK(pass)
      /\ \A n \in Node : pass.state[n] = IF n \in HWNode THEN "PRECOLORED" ELSE "INITIAL"
      /\ \A n \in Node : pass.color[n] = IF n \in HWNode THEN HWColor[n] ELSE NoColor
  BY <1>1, <1>2, BuildFacts
<1>4. ColorsOK(pass)
  BY <1>3, InputAssumption DEF ColorsOK
<1> QED
  BY <1>2, <1>3, <1>4 DEF Inv

(* Colours do not change while the graph is reduced. *)
LEMMA ReducingColors ==
  ASSUME NEW p, NEW q, Reducing(p), Reducing(q), HWOK(p), HWOK(q), ColorsOK(p), q.color = p.color
  PROVE  ColorsOK(q)
BY DEF Reducing, HWOK, ColorsOK, Listed

(* The first lists. *)
LEMMA MakeWorklistOutcome ==
  ASSUME MovsOK, ReduceInv(pass), MoveListOK(pass), ColorsOK(pass), MakeWorklist
  PROVE  /\ Places(pass, pass') /\ ReduceInv(pass') /\ MoveListOK(pass') /\ ColorsOK(pass')
<1>1. PICK p, q : p = pass /\ q = pass'
  OBVIOUS
<1>2. q = FoldLeft(LAMBDA r, n : PlaceNode(NULL, r, n), p, p.list["INITIAL"])
  BY <1>1 DEF MakeWorklist, PlaceNode
<1>3. ReduceInv(p) /\ MoveListOK(p) /\ ColorsOK(p) /\ Places(p, q)
  BY <1>1, <1>2, PlaceCalm
<1>4. ReduceInv(q) /\ MoveListOK(q) /\ q.color = p.color
  BY <1>3, CalmReduceInv DEF Places, Calm, Stays
<1> QED
  BY <1>1, <1>3, <1>4, ReducingColors DEF ReduceInv

(* simplify *)
LEMMA SimplifyOutcome ==
  ASSUME MovsOK, ReduceInv(pass), MoveListOK(pass), ColorsOK(pass), Simplify
  PROVE  /\ Pushes(pass, Head(pass.list["SIMPLIFY"]), pass') /\ ReduceInv(pass') /\ MoveListOK(pass')
         /\ ColorsOK(pass') /\ Head(pass.list["SIMPLIFY"]) \in Node /\ pass.state[Head(pass.list["SIMPLIFY"])] = "SIMPLIFY"
<1>1. PICK p, q, n : p = pass /\ q = pass' /\ n = Head(p.list["SIMPLIFY"])
  OBVIOUS
<1>2. p.list["SIMPLIFY"] # <<>> /\ q = ForAdjacent(NodeSetState(p, n, "SELECT"), n, DecrementDegree)
  BY <1>1 DEF Simplify, Empty
<1>3. ReduceInv(p) /\ ColorsOK(p) /\ MoveListOK(p)
  BY <1>1
<1>4. n \in Node /\ p.state[n] = "SIMPLIFY" /\ Pushes(p, n, q) /\ ReduceInv(q)
  BY <1>1, <1>2, <1>3, SimplifyPushes
<1>5. MoveListOK(q) /\ q.color = p.color
  BY <1>3, <1>4 DEF Pushes
<1>6. ColorsOK(q)
  BY <1>3, <1>4, <1>5, ReducingColors DEF ReduceInv
<1> QED
  BY <1>1, <1>4, <1>5, <1>6

(* freeze and selectSpill *)
LEMMA GiveUpOutcome ==
  ASSUME MovsOK, ReduceInv(pass), MoveListOK(pass), ColorsOK(pass), Freeze \/ \E n \in Node : SelectSpill(n)
  PROVE  Calm(pass, pass') /\ ReduceInv(pass') /\ MoveListOK(pass') /\ ColorsOK(pass')
<1>1. PICK p, q : p = pass /\ q = pass'
  OBVIOUS
<1>2. ReduceInv(p) /\ MoveListOK(p) /\ ColorsOK(p) /\ p \in Pass /\ ListsOK(p) /\ p.movList["WORKLIST"] = NULL
  BY <1>1 DEF ReduceInv, Freeze, SelectSpill, NoWorkMoves
<1>3. \E r \in Pass, n \in Node :
        /\ Notes(p, r) /\ p.state[n] \in Listed /\ q = FreezeMoves(NodeSetState(r, n, "SIMPLIFY"), n)
  <2>1. CASE Freeze
    <3>1. PICK n : n = Head(p.list["FREEZE"])
      OBVIOUS
    <3>2. p.list["FREEZE"] # <<>> /\ q = FreezeMoves(NodeSetState(p, n, "SIMPLIFY"), n)
      BY <1>1, <2>1, <3>1 DEF Freeze, Empty
    <3>3. "FREEZE" \in NodeState /\ "FREEZE" \in Listed
      BY DEF NodeState, Listed
    <3>4. n \in ToSet(p.list["FREEZE"])
      <4>1. p.list["FREEZE"] \in Seq(Node)
        BY <1>2, <3>3 DEF Pass
      <4> QED
        BY <3>1, <3>2, <4>1 DEF ToSet
    <3>5. n \in Node /\ p.state[n] = "FREEZE"
      BY <1>2, <3>3, <3>4 DEF ListsOK
    <3>6. Notes(p, p)
      BY <1>2 DEF Notes
    <3> QED
      BY <1>2, <3>2, <3>3, <3>5, <3>6
  <2>2. CASE \E n \in Node : SelectSpill(n)
    <3>1. PICK n \in Node : SelectSpill(n)
      BY <2>2
    <3>2. PICK r : r = Check(p, "spillDegree", p.degree[n] # 0)
      OBVIOUS
    <3>3. n \in ToSet(p.list["SPILL"]) /\ q = FreezeMoves(NodeSetState(r, n, "SIMPLIFY"), n)
      BY <1>1, <3>1, <3>2 DEF SelectSpill
    <3>4. "SPILL" \in NodeState /\ "SPILL" \in Listed /\ "spillDegree" \in CheckName
      BY DEF NodeState, Listed, CheckName
    <3>5. p.state[n] = "SPILL"
      BY <1>2, <3>3, <3>4 DEF ListsOK
    <3>6. Notes(p, r) /\ r \in Pass
      BY <1>2, <3>2, <3>4, CheckFacts DEF Check, Notes
    <3> QED
      BY <3>3, <3>4, <3>5, <3>6
  <2> QED
    BY <2>1, <2>2
<1>4. PICK r \in Pass, n \in Node :
        /\ Notes(p, r) /\ p.state[n] \in Listed /\ q = FreezeMoves(NodeSetState(r, n, "SIMPLIFY"), n)
  BY <1>3
<1>5. Calm(p, r)
  <2>1. /\ r.state = p.state /\ r.list = p.list /\ r.adjSet = p.adjSet /\ r.adjArr = p.adjArr /\ r.movArr = p.movArr
        /\ r.alias = p.alias /\ r.color = p.color /\ r.movState = p.movState /\ r.movNext = p.movNext
        /\ r.movList = p.movList
    BY <1>4 DEF Notes
  <2>2. ListsOK(r) /\ (MoveListOK(p) => MoveListOK(r))
    BY <1>2, <2>1, SameMoveList DEF ListsOK
  <2> QED
    BY <2>1, <2>2 DEF Calm, Stays
<1>6. ReduceInv(r) /\ MoveListOK(r) /\ r.movList["WORKLIST"] = NULL /\ r.state[n] \in Listed
  BY <1>2, <1>4, <1>5, CalmReduceInv DEF Calm, Stays, Notes
<1>7. Calm(r, q) /\ q \in Pass /\ ReduceInv(q)
  BY <1>4, <1>6, GiveUpNodeCalm
<1>8. Calm(p, q) /\ MoveListOK(q) /\ q.color = p.color
  BY <1>2, <1>5, <1>6, <1>7, CalmTwice DEF Calm, Stays
<1> QED
  BY <1>1, <1>2, <1>7, <1>8, ReducingColors DEF ReduceInv

(* The loop over the worklists leaves nothing to do. *)
LEMMA StartAssignOutcome ==
  ASSUME MovsOK, ReduceInv(pass), ColorsOK(pass), \A n \in Node : pass.state[n] # "INITIAL", StartAssign
  PROVE  AssignInv(pass) /\ pass' = pass /\ \A n \in Node : pass.state[n] \notin Listed
<1>1. PICK p : p = pass
  OBVIOUS
<1>2. ReduceInv(p) /\ ListsOK(p) /\ p \in Pass /\ AliasOK(p)
  BY <1>1 DEF ReduceInv
<1>3. \A s \in {"SIMPLIFY", "FREEZE", "SPILL"} : p.list[s] = <<>> /\ s \in NodeState
  BY <1>1 DEF StartAssign, Empty, NodeState
<1>4. \A n \in Node : p.state[n] \notin Listed
  <2>1. \A s \in {"SIMPLIFY", "FREEZE", "SPILL"} : ToSet(p.list[s]) = {}
    BY <1>3 DEF ToSet
  <2>2. \A n \in Node : p.state[n] \notin {"SIMPLIFY", "FREEZE", "SPILL"}
    BY <1>2, <1>3, <2>1 DEF ListsOK
  <2> QED
    BY <1>1, <2>2 DEF Listed
<1>5. PICK g : RootMap(p.alias, g)
  BY <1>2 DEF AliasOK
<1>6. AliasMap(p, g)
  BY <1>2, <1>5, ReducingAlias
<1>7. \A n \in Node : p.state[n] \notin {"COLORED", "SPILLED"}
  BY <1>2 DEF ReduceInv, Reducing, Listed
<1>8. AssignInv(p)
  BY <1>2, <1>4, <1>5, <1>6, <1>7 DEF ReduceInv, AssignInv, AliasOK
<1> QED
  BY <1>1, <1>4, <1>8 DEF StartAssign

(* The merge or the change of lists of coalesce keeps the colours and the moves. *)
LEMMA CoalesceKeeps ==
  ASSUME MovsOK, ReduceInv(pass), MoveListOK(pass), ColorsOK(pass), Coalesce
  PROVE  MoveListOK(pass') /\ ColorsOK(pass') /\ \A n \in Node : pass'.state[n] = "INITIAL" => pass.state[n] = "INITIAL"
<1>1. PICK p, q : p = pass /\ q = pass'
  OBVIOUS
<1>2. ReduceInv(p) /\ MoveListOK(p) /\ ColorsOK(p) /\ ReduceInv(q) /\ Coalesces(p, q)
  BY <1>1, CoalesceOutcome
<1>3. MoveListOK(q) /\ q.color = p.color /\ \A n \in Node : q.state[n] = "INITIAL" => p.state[n] = "INITIAL"
  <2>1. CASE Calm(p, q)
    BY <1>2, <2>1 DEF Calm, Stays, Listed
  <2>2. CASE \E u, v \in Node : Mergeable(p, u, v) /\ Merges(p, u, v, q)
    <3>1. PICK u \in Node, v \in Node : Mergeable(p, u, v) /\ Merges(p, u, v, q)
      BY <2>2
    <3>2. MoveListOK(q) /\ q.color = p.color
      BY <1>2, <3>1 DEF Merges
    <3>3. \A n \in Node : q.state[n] = "INITIAL" => p.state[n] = "INITIAL"
      BY <3>1 DEF Merges, Listed
    <3> QED
      BY <3>2, <3>3
  <2> QED
    BY <1>2, <2>1, <2>2 DEF Coalesces
<1>4. ColorsOK(q)
  BY <1>2, <1>3, ReducingColors DEF ReduceInv
<1> QED
  BY <1>1, <1>3, <1>4

(* Every step keeps the invariant. *)
LEMMA NextInv == Inv /\ [Next]_vars => Inv'
<1> SUFFICES ASSUME Inv, [Next]_vars PROVE Inv'
  OBVIOUS
<1>1. MovsOK /\ ColorsOK(pass) /\ candidates \subseteq VNode /\ movs' = movs
  BY DEF Inv, Next, vars, MakeWorklist, Simplify, Coalesce, Freeze, SelectSpill, StartAssign, AssignColor,
         AssignCoalesced, Finish, Done
<1>2. ColorsOK(pass') => ColorsOK(pass)'
  BY DEF ColorsOK
<1>3. CASE MakeWorklist
  <2>1. ReduceInv(pass) /\ MoveListOK(pass) /\ phase' = "worklists" /\ candidates' = candidates
    BY <1>3 DEF Inv, MakeWorklist
  <2>2. Places(pass, pass') /\ ReduceInv(pass') /\ MoveListOK(pass') /\ ColorsOK(pass')
    BY <1>1, <1>3, <2>1, MakeWorklistOutcome
  <2> QED
    BY <1>1, <1>2, <2>1, <2>2, SameMovs DEF Inv, Places
<1>4. ASSUME ReduceInv(pass'), MoveListOK(pass'), ColorsOK(pass'), phase = "worklists", phase' = phase,
             candidates' \subseteq VNode, \A n \in Node : pass'.state[n] = "INITIAL" => pass.state[n] = "INITIAL"
      PROVE  Inv'
  BY <1>1, <1>2, <1>4, SameMovs DEF Inv
<1>5. ASSUME Simplify \/ Coalesce \/ Freeze \/ \E n \in Node : SelectSpill(n)
      PROVE  ReduceInv(pass) /\ MoveListOK(pass) /\ phase = "worklists" /\ phase' = phase
  BY <1>5 DEF Inv, Simplify, Coalesce, Freeze, SelectSpill
<1>6. CASE Simplify
  <2>1. PICK n \in Node : Pushes(pass, n, pass') /\ ReduceInv(pass') /\ MoveListOK(pass') /\ ColorsOK(pass')
    BY <1>1, <1>5, <1>6, SimplifyOutcome
  <2>2. \A m \in Node : pass'.state[m] = "INITIAL" => pass.state[m] = "INITIAL"
    BY <2>1 DEF Pushes
  <2>3. candidates' = candidates
    BY <1>6 DEF Simplify
  <2> QED
    BY <1>1, <1>4, <1>5, <1>6, <2>1, <2>2, <2>3
<1>7. CASE Coalesce
  <2>1. candidates' = candidates
    BY <1>7 DEF Coalesce
  <2> QED
    BY <1>1, <1>4, <1>5, <1>7, <2>1, CoalesceOutcome, CoalesceKeeps
<1>8. CASE Freeze \/ \E n \in Node : SelectSpill(n)
  <2>1. Calm(pass, pass') /\ ReduceInv(pass') /\ MoveListOK(pass') /\ ColorsOK(pass')
    BY <1>1, <1>5, <1>8, GiveUpOutcome
  <2>2. \A m \in Node : pass'.state[m] = "INITIAL" => pass.state[m] = "INITIAL"
    BY <2>1 DEF Calm, Stays
  <2>3. candidates' \subseteq VNode
    <3>1. CASE Freeze
      BY <1>1, <3>1 DEF Freeze
    <3>2. CASE \E n \in Node : SelectSpill(n)
      <4>1. PICK n \in Node : SelectSpill(n)
        BY <3>2
      <4>2. n \in ToSet(pass.list["SPILL"]) /\ candidates' = candidates \cup {n}
        BY <4>1 DEF SelectSpill
      <4>3. pass.state[n] = "SPILL"
        BY <1>5, <3>2, <4>2 DEF ReduceInv, ListsOK, NodeState
      <4>4. n \in VNode
        BY <1>5, <3>2, <4>3, VNodes DEF ReduceInv, HWOK
      <4> QED
        BY <1>1, <4>2, <4>4
    <3> QED
      BY <1>8, <3>1, <3>2
  <2> QED
    BY <1>4, <1>5, <1>8, <2>1, <2>2, <2>3
<1>9. CASE StartAssign
  <2>1. /\ ReduceInv(pass) /\ (\A n \in Node : pass.state[n] # "INITIAL") /\ phase' = "assignColors"
        /\ candidates' = candidates
    BY <1>9 DEF Inv, StartAssign
  <2>2. AssignInv(pass) /\ pass' = pass
    BY <1>1, <1>9, <2>1, StartAssignOutcome
  <2> QED
    BY <1>1, <1>2, <2>1, <2>2, SameMovs DEF Inv
<1>10. CASE AssignColor \/ AssignCoalesced
  <2>1. AssignInv(pass) /\ phase = "assignColors" /\ phase' = phase /\ candidates' = candidates
    BY <1>10 DEF Inv, AssignColor, AssignCoalesced
  <2>2. AssignInv(pass') /\ ColorsOK(pass')
    BY <1>1, <1>10, <2>1, AssignColorOutcome, AssignCoalescedOutcome
  <2> QED
    BY <1>1, <1>2, <2>1, <2>2, SameMovs DEF Inv
<1>11. CASE Finish \/ Done \/ UNCHANGED vars
  <2>1. pass' = pass /\ candidates' = candidates
    BY <1>11 DEF Finish, Done, vars
  <2>2. CASE Finish
    <3>1. AssignInv(pass) /\ phase' \in {"replaceRegs", "spill"}
      BY <2>2 DEF Inv, Finish
    <3> QED
      BY <1>1, <1>2, <2>1, <3>1, SameMovs DEF Inv
  <2>3. CASE Done \/ UNCHANGED vars
    <3>1. phase' = phase
      BY <2>3 DEF Done, vars
    <3> QED
      BY <1>1, <1>2, <2>1, <3>1, SameMovs DEF Inv
  <2> QED
    BY <1>11, <2>2, <2>3
<1> QED
  BY <1>3, <1>6, <1>7, <1>8, <1>9, <1>10, <1>11 DEF Next

(* The invariant holds in every state of a round. *)
THEOREM Invariance == Spec => []Inv
<1> QED
  BY InitInv, NextInv, PTL DEF Spec

(* Every node is on exactly the list of its state, once: the intrusive lists
   of jmir_regAlloc_nodeSetState never lose or duplicate a node.           *)
THEOREM TypeCorrect == Spec => []TypeOK
<1>1. Inv => TypeOK
  <2> SUFFICES ASSUME Inv PROVE TypeOK
    OBVIOUS
  <2>1. pass \in Pass /\ ListsOK(pass) /\ \A m \in Mov : pass.movState[m] # "ALLOCATED"
    BY DEF Inv, ReduceInv, AssignInv
  <2>2. /\ pass.state \in [Node -> NodeState] /\ pass.color \in [Node -> Color \cup {NoColor}]
        /\ pass.movState \in [Mov -> MovState]
    BY <2>1 DEF Pass
  <2>3. pass.movState \in [Mov -> MovState \ {"ALLOCATED"}]
    BY <2>1, <2>2
  <2> QED
    BY <2>1, <2>2, <2>3 DEF Inv, TypeOK, ListsOK
<1> QED
  BY <1>1, Invariance, PTL

(* A step of the round brings nothing back. *)
LEMMA NextStaysOut == Inv /\ [Next]_vars => [StaysOut]_vars
<1> SUFFICES ASSUME Inv, Next PROVE StaysOut
  OBVIOUS
<1> DEFINE Kept(p, q) ==
             /\ \A n \in Node : p.state[n] \in {"SELECT", "COALESCED"} => q.state[n] = p.state[n]
             /\ \A m \in Mov : q.movState[m] = p.movState[m] \/ MovPending(p, m)
<1>1. MovsOK /\ ColorsOK(pass)
  BY DEF Inv
<1>2. ASSUME Kept(pass, pass') PROVE StaysOut
  BY <1>2 DEF StaysOut, MovPending
<1>3. ASSUME NEW p, NEW q, Calm(p, q) PROVE Kept(p, q)
  BY <1>3 DEF Calm, Stays, Listed
<1>4. CASE MakeWorklist
  <2>1. Places(pass, pass')
    BY <1>1, <1>4, MakeWorklistOutcome DEF Inv, MakeWorklist
  <2> QED
    BY <1>2, <1>3, <2>1 DEF Places
<1>5. CASE Simplify
  <2>1. PICK n \in Node : Pushes(pass, n, pass') /\ pass.state[n] = "SIMPLIFY"
    BY <1>1, <1>5, SimplifyOutcome DEF Inv, Simplify
  <2>2. Kept(pass, pass')
    BY <2>1 DEF Pushes, Listed
  <2> QED
    BY <1>2, <2>2
<1>6. CASE Coalesce
  <2>1. Coalesces(pass, pass')
    BY <1>1, <1>6, CoalesceOutcome DEF Inv, Coalesce
  <2>2. ASSUME NEW u \in Node, NEW v \in Node, Mergeable(pass, u, v), Merges(pass, u, v, pass')
        PROVE  Kept(pass, pass')
    BY <2>2 DEF Mergeable, Merges, Listed
  <2> HIDE DEF Kept
  <2> QED
    BY <1>2, <1>3, <2>1, <2>2 DEF Coalesces
<1>7. CASE Freeze \/ \E n \in Node : SelectSpill(n)
  <2>1. Calm(pass, pass')
    BY <1>1, <1>7, GiveUpOutcome DEF Inv, Freeze, SelectSpill
  <2> HIDE DEF Kept
  <2> QED
    BY <1>2, <1>3, <2>1
<1>8. CASE StartAssign \/ Finish \/ Done
  BY <1>8 DEF StartAssign, Finish, Done, vars, StaysOut
<1>9. CASE AssignColor \/ AssignCoalesced
  <2>1. AssignInv(pass) /\ phase' = "assignColors" /\ \E g : RootMap(pass.alias, g)
    BY <1>9 DEF Inv, AssignColor, AssignCoalesced, AssignInv
  <2>2. pass'.movState = pass.movState
    <3>1. CASE AssignColor
      BY <1>1, <2>1, <3>1, AssignColorOutcome DEF Pops, Assigns
    <3>2. CASE AssignCoalesced
      BY <1>1, <2>1, <3>2, AssignCoalescedOutcome DEF Inherits, Assigns
    <3> QED
      BY <1>9, <3>1, <3>2
  <2> QED
    BY <2>1, <2>2 DEF StaysOut
<1> QED
  BY <1>4, <1>5, <1>6, <1>7, <1>8, <1>9 DEF Next

(* No register comes back into the graph and no move that was decided is
   looked at again, for every graph and every sequence of moves.           *)
THEOREM NeverBack == Spec => NoComeback
<1> QED
  BY NextStaysOut, Invariance, PTL DEF Spec, NoComeback

-----------------------------------------------------------------------------
(* The round implements ColoringStack *)

(* Following the aliases to their end is a matter of the aliases alone. *)
LEMMA RootIs ==
  ASSUME NEW p \in Pass, Acyclic(p.alias), NEW g, RootMap(p.alias, g)
  PROVE  RootOf(p) = g
<1> DEFINE It(f) == f = [m \in Node |-> IF p.alias[m] = NULL THEN m ELSE f[p.alias[m]]]
           f0 == CHOOSE f : It(f)
           Stop == {m \in Node : p.alias[m] = NULL}
<1>1. RootOf(p) = f0
  BY DEF RootOf
<1>2. It(g)
  BY DEF RootMap
<1>3. It(f0)
  <2> HIDE DEF It
  <2> QED
    BY <1>2
<1> HIDE DEF f0
<1>4. \A m \in Node : f0[m] = IF m \in Stop THEN m ELSE f0[p.alias[m]]
  BY <1>3
<1>5. \A m \in Node : g[m] = IF m \in Stop THEN m ELSE g[p.alias[m]]
  BY DEF RootMap
<1>6. \A m \in Node : m \notin Stop => p.alias[m] \in Node
  BY DEF Pass
<1>7. Follows(f0, p.alias, Stop) /\ Follows(g, p.alias, Stop)
  BY <1>4, <1>5, <1>6 DEF Follows
<1> HIDE DEF Stop
<1>8. \A m \in Node : f0[m] = g[m]
  BY <1>7, AliasUnique
<1>9. f0 = [m \in Node |-> f0[m]] /\ g = [m \in Node |-> g[m]]
  BY <1>2, <1>3
<1> HIDE DEF It
<1>10. f0 = g
  BY <1>8, <1>9
<1> QED
  BY <1>1, <1>10

(* The same aliases lead to the same nodes. *)
LEMMA SameRoots ==
  ASSUME NEW p \in Pass, NEW q \in Pass, Acyclic(p.alias), \E g : RootMap(p.alias, g), q.alias = p.alias
  PROVE  RootOf(q) = RootOf(p)
<1>1. PICK g : RootMap(p.alias, g)
  OBVIOUS
<1>2. RootMap(q.alias, g) /\ Acyclic(q.alias)
  BY <1>1
<1> QED
  BY <1>1, <1>2, RootIs

(* r is the distance of each node from the bottom of the stack s of height k. *)
Ranks(p, r, s, k) ==
  /\ r \in [Node -> Int]
  /\ \A n \in Node : p.state[n] # "SELECT" => r[n] = 0
  /\ \A i \in 1 .. k : s[i] \in Node /\ r[s[i]] = k + 1 - i
  /\ \A n \in Node : p.state[n] = "SELECT" => \E i \in 1 .. k : n = s[i]

(* The rank of a node is its distance from the bottom of the stack. *)
LEMMA RankIs ==
  ASSUME NEW p \in Pass, ListsOK(p)
  PROVE  Ranks(p, RankOf(p), p.list["SELECT"], Len(p.list["SELECT"]))
<1> DEFINE stack == p.list["SELECT"]
<1>1. stack \in Seq(Node) /\ IsInjective(stack) /\ ToSet(stack) = {n \in Node : p.state[n] = "SELECT"}
  BY DEF Pass, ListsOK, NodeState
<1>2. PICK k \in Nat : k = Len(stack)
  BY <1>1
<1>3. /\ DOMAIN stack = 1 .. k /\ \A i \in 1 .. k : stack[i] \in Node /\ p.state[stack[i]] = "SELECT"
      /\ \A n \in Node : p.state[n] = "SELECT" => \E i \in 1 .. k : n = stack[i]
  BY <1>1, <1>2, ElementsOf
<1>4. \A i, j \in 1 .. k : stack[i] = stack[j] => i = j
  BY <1>1, <1>3 DEF IsInjective
<1> DEFINE Place(n) == CHOOSE i \in DOMAIN stack : stack[i] = n
<1>5. RankOf(p) = [n \in Node |-> IF p.state[n] # "SELECT" THEN 0 ELSE k + 1 - Place(n)]
  BY <1>2 DEF RankOf
<1> HIDE DEF stack
<1>6. \A i \in 1 .. k : Place(stack[i]) = i
  BY <1>3, <1>4
<1>7. \A n \in Node : p.state[n] = "SELECT" => Place(n) \in 1 .. k
  BY <1>3, <1>6
<1> HIDE DEF Place
<1>8. \A i \in 1 .. k : RankOf(p)[stack[i]] = k + 1 - i
  BY <1>3, <1>5, <1>6
<1>9. RankOf(p) \in [Node -> Int]
  BY <1>5, <1>7
<1>10. \A n \in Node : p.state[n] # "SELECT" => RankOf(p)[n] = 0
  BY <1>5
<1> QED
  BY <1>2, <1>3, <1>8, <1>9, <1>10 DEF stack, Ranks

(* The same stack gives the same ranks. *)
LEMMA SameRanks ==
  ASSUME NEW p \in Pass, NEW q \in Pass, ListsOK(p), ListsOK(q), q.list["SELECT"] = p.list["SELECT"],
         \A n \in Node : q.state[n] = "SELECT" <=> p.state[n] = "SELECT"
  PROVE  RankOf(q) = RankOf(p)
<1>1. PICK s, k, a, b : s = p.list["SELECT"] /\ k = Len(s) /\ a = RankOf(p) /\ b = RankOf(q)
  OBVIOUS
<1>2. Ranks(p, a, s, k) /\ Ranks(q, b, s, k)
  BY <1>1, RankIs
<1>3. \A n \in Node : b[n] = a[n]
  BY <1>2 DEF Ranks
<1>4. a \in [Node -> Int] /\ b \in [Node -> Int]
  BY <1>2 DEF Ranks
<1> QED
  BY <1>1, <1>3, <1>4

(* What is calm is not seen. *)
LEMMA CalmView ==
  ASSUME NEW p \in Pass, NEW q, Calm(p, q), AliasOK(p), ListsOK(p)
  PROVE  /\ KindOf(q) = KindOf(p) /\ q.adjSet = p.adjSet /\ RootOf(q) = RootOf(p) /\ RankOf(q) = RankOf(p)
         /\ q.list["SELECT"] = p.list["SELECT"] /\ q.color = p.color
<1>1. "SELECT" \in NodeState \ Listed
  BY DEF NodeState, Listed
<1>2. /\ q \in Pass /\ ListsOK(q) /\ q.alias = p.alias /\ q.color = p.color /\ q.adjSet = p.adjSet
      /\ q.list["SELECT"] = p.list["SELECT"]
      /\ \A n \in Node : IF p.state[n] \in Listed THEN q.state[n] \in Listed ELSE q.state[n] = p.state[n]
  BY <1>1 DEF Calm, Stays
<1>3. \A n \in Node : q.state[n] = "SELECT" <=> p.state[n] = "SELECT"
  BY <1>1, <1>2
<1>4. RankOf(q) = RankOf(p)
  BY <1>2, <1>3, SameRanks
<1>5. RootOf(q) = RootOf(p)
  BY <1>2, SameRoots DEF AliasOK
<1>6. KindOf(q) = KindOf(p)
  BY <1>2 DEF KindOf
<1> QED
  BY <1>2, <1>4, <1>5, <1>6

(* A push is a push. *)
LEMMA PushView ==
  ASSUME NEW p \in Pass, ListsOK(p), AliasOK(p), NEW n \in Node, p.state[n] = "SIMPLIFY",
         NEW q, ListsOK(q), Pushes(p, n, q)
  PROVE  /\ KindOf(p)[n] = "LIVE" /\ KindOf(q) = [KindOf(p) EXCEPT ![n] = "SELECT"]
         /\ RankOf(q) = [RankOf(p) EXCEPT ![n] = Len(p.list["SELECT"]) + 1]
         /\ Len(q.list["SELECT"]) = Len(p.list["SELECT"]) + 1
         /\ RootOf(q) = RootOf(p) /\ q.adjSet = p.adjSet /\ q.color = p.color
<1>1. /\ q \in Pass /\ q.alias = p.alias /\ q.color = p.color /\ q.adjSet = p.adjSet
      /\ q.list["SELECT"] = <<n>> \o p.list["SELECT"]
      /\ \A m \in Node : IF m = n THEN q.state[m] = "SELECT"
                         ELSE IF p.state[m] \in Listed THEN q.state[m] \in Listed ELSE q.state[m] = p.state[m]
  BY DEF Pushes
<1>2. RootOf(q) = RootOf(p)
  BY <1>1, SameRoots DEF AliasOK
<1>3. KindOf(p)[n] = "LIVE"
  BY DEF KindOf, Listed
<1>4. KindOf(q) = [KindOf(p) EXCEPT ![n] = "SELECT"]
  <2>1. "SELECT" \notin Listed
    BY DEF Listed
  <2>2. \A m \in Node : KindOf(q)[m] = IF m = n THEN "SELECT" ELSE KindOf(p)[m]
    BY <1>1, <2>1 DEF KindOf
  <2>3. KindOf(q) = [m \in Node |-> KindOf(q)[m]] /\ KindOf(p) = [m \in Node |-> KindOf(p)[m]]
    BY DEF KindOf
  <2> QED
    BY <2>2, <2>3
<1>5. PICK s \in Seq(Node), k \in Nat : s = p.list["SELECT"] /\ k = Len(s)
  BY DEF Pass, NodeState
<1>6. PICK t : t = q.list["SELECT"]
  OBVIOUS
<1>7. Len(t) = k + 1 /\ t[1] = n /\ \A i \in 1 .. k : t[i + 1] = s[i]
  BY <1>1, <1>5, <1>6
<1>8. PICK a, b : a = RankOf(p) /\ b = RankOf(q)
  OBVIOUS
<1>9. Ranks(p, a, s, k) /\ Ranks(q, b, t, k + 1)
  BY <1>1, <1>5, <1>6, <1>7, <1>8, RankIs
<1>10. \A m \in Node : b[m] = IF m = n THEN k + 1 ELSE a[m]
  <2> TAKE m \in Node
  <2>1. CASE m = n
    <3>1. b[t[1]] = k + 1 + 1 - 1
      BY <1>5, <1>9 DEF Ranks
    <3> QED
      BY <1>5, <1>7, <2>1, <3>1
  <2>2. CASE m # n /\ p.state[m] # "SELECT"
    <3>1. q.state[m] # "SELECT"
      BY <1>1, <2>2 DEF Listed
    <3> QED
      BY <1>9, <2>2, <3>1 DEF Ranks
  <2>3. CASE m # n /\ p.state[m] = "SELECT"
    <3>1. PICK i \in 1 .. k : m = s[i]
      BY <1>9, <2>3 DEF Ranks
    <3>2. a[m] = k + 1 - i
      BY <1>9, <3>1 DEF Ranks
    <3>3. m = t[i + 1] /\ i + 1 \in 1 .. k + 1
      BY <1>5, <1>7, <3>1
    <3>4. b[m] = k + 1 + 1 - (i + 1)
      BY <1>9, <3>3 DEF Ranks
    <3> QED
      BY <1>5, <2>3, <3>1, <3>2, <3>4
  <2> QED
    BY <2>1, <2>2, <2>3
<1>11. b = [a EXCEPT ![n] = k + 1]
  BY <1>9, <1>10 DEF Ranks
<1> QED
  BY <1>1, <1>2, <1>3, <1>4, <1>5, <1>6, <1>7, <1>8, <1>11

(* What the abstract stack sees of a merge of v into u. *)
MergeSeen(p, u, v, q) ==
  /\ KindOf(p)[u] \in {"PRECOLORED", "LIVE"} /\ KindOf(p)[v] = "LIVE"
  /\ KindOf(q) = [KindOf(p) EXCEPT ![v] = "COALESCED"]
  /\ RootOf(q) = [n \in Node |-> IF RootOf(p)[n] = v THEN u ELSE RootOf(p)[n]]
  /\ LET moved == {t \in p.adjSet[v] : KindOf(p)[t] \in {"PRECOLORED", "LIVE"}}
     IN  q.adjSet = [n \in Node |-> (IF n \in moved THEN p.adjSet[n] \cup {u} ELSE p.adjSet[n])
                                       \cup (IF n = u THEN moved ELSE {})]
  /\ RankOf(q) = RankOf(p) /\ q.list["SELECT"] = p.list["SELECT"] /\ q.color = p.color

(* A merge is a merge. *)
LEMMA MergeView ==
  ASSUME NEW p, ReduceInv(p), NEW u, NEW v, Mergeable(p, u, v), NEW q, ListsOK(q), Merges(p, u, v, q)
  PROVE  MergeSeen(p, u, v, q)
<1>1. /\ p \in Pass /\ ListsOK(p) /\ AliasOK(p) /\ Reducing(p) /\ q \in Pass /\ u \in Node /\ v \in Node /\ u # v
      /\ p.state[u] \in Listed \cup {"PRECOLORED"} /\ p.state[v] \in Listed
  BY DEF ReduceInv, Mergeable, Merges
<1>2. /\ q.color = p.color /\ q.list["SELECT"] = p.list["SELECT"]
      /\ \A n \in Node : q.alias[n] = IF n = v THEN u ELSE p.alias[n]
      /\ \A n \in Node : IF n = v THEN q.state[n] = "COALESCED"
                         ELSE IF p.state[n] \in Listed THEN q.state[n] \in Listed ELSE q.state[n] = p.state[n]
  BY DEF Merges
<1>3. "COALESCED" \notin Listed /\ "SELECT" \notin Listed /\ "PRECOLORED" \notin Listed
  BY DEF Listed
<1>4. \A n \in Node : KindOf(p)[n] = IF p.state[n] \in Listed THEN "LIVE" ELSE p.state[n]
  BY DEF KindOf
<1>5. KindOf(p)[u] \in {"PRECOLORED", "LIVE"} /\ KindOf(p)[v] = "LIVE"
  BY <1>1, <1>4
<1>6. KindOf(q) = [KindOf(p) EXCEPT ![v] = "COALESCED"]
  <2>1. \A m \in Node : KindOf(q)[m] = IF m = v THEN "COALESCED" ELSE KindOf(p)[m]
    BY <1>2, <1>3 DEF KindOf
  <2>2. KindOf(q) = [m \in Node |-> KindOf(q)[m]] /\ KindOf(p) = [m \in Node |-> KindOf(p)[m]]
    BY DEF KindOf
  <2> QED
    BY <2>1, <2>2
<1>7. RankOf(q) = RankOf(p)
  <2>1. \A n \in Node : q.state[n] = "SELECT" <=> p.state[n] = "SELECT"
    BY <1>1, <1>2, <1>3
  <2> QED
    BY <1>1, <1>2, <2>1, SameRanks
<1>8. RootOf(q) = [n \in Node |-> IF RootOf(p)[n] = v THEN u ELSE RootOf(p)[n]]
  <2>1. PICK g : RootMap(p.alias, g)
    BY <1>1 DEF AliasOK
  <2>2. RootOf(p) = g
    BY <1>1, <2>1, RootIs DEF AliasOK
  <2>3. p.alias[u] = NULL /\ p.alias[v] = NULL
    BY <1>1, <1>3 DEF AliasOK
  <2>4. Acyclic(q.alias) /\ RootMap(q.alias, Redirected(g, u, v))
    BY <1>1, <1>2, <2>1, <2>3, MergeAlias DEF AliasOK, Pass
  <2>5. RootOf(q) = Redirected(g, u, v)
    BY <1>1, <2>4, RootIs
  <2> QED
    BY <2>2, <2>5 DEF Redirected
<1>9. PICK moved : moved = {t \in p.adjSet[v] : KindOf(p)[t] \in {"PRECOLORED", "LIVE"}}
  OBVIOUS
<1>10. moved = {t \in p.adjSet[v] : InGraph(p, t)}
  <2>1. p.adjSet[v] \subseteq Node
    BY <1>1 DEF Pass
  <2>2. \A t \in Node : InGraph(p, t) <=> KindOf(p)[t] \in {"PRECOLORED", "LIVE"}
    BY <1>1, <1>3, <1>4 DEF InGraph, Reducing
  <2> QED
    BY <1>9, <2>1, <2>2
<1>11. \A n \in Node : q.adjSet[n] = p.adjSet[n] \cup (IF n \in moved THEN {u} ELSE {}) \cup (IF n = u THEN moved ELSE {})
  BY <1>10 DEF Merges
<1>12. q.adjSet = [n \in Node |-> (IF n \in moved THEN p.adjSet[n] \cup {u} ELSE p.adjSet[n])
                                    \cup (IF n = u THEN moved ELSE {})]
  <2>1. \A n \in Node : q.adjSet[n] = (IF n \in moved THEN p.adjSet[n] \cup {u} ELSE p.adjSet[n])
                                        \cup (IF n = u THEN moved ELSE {})
    BY <1>11
  <2>2. q.adjSet = [n \in Node |-> q.adjSet[n]]
    BY <1>1 DEF Pass
  <2> QED
    BY <2>1, <2>2
<1> QED
  BY <1>2, <1>5, <1>6, <1>7, <1>8, <1>9, <1>12 DEF MergeSeen

(* What the abstract stack sees of a pop that leaves n in state s with color c. *)
PopSeen(p, n, c, s, q) ==
  /\ KindOf(p)[n] = "SELECT" /\ KindOf(q) = [KindOf(p) EXCEPT ![n] = s] /\ q.color = [p.color EXCEPT ![n] = c]
  /\ RankOf(p)[n] = Len(p.list["SELECT"]) /\ RankOf(q) = [RankOf(p) EXCEPT ![n] = 0]
  /\ Len(q.list["SELECT"]) = Len(p.list["SELECT"]) - 1
  /\ RootOf(q) = RootOf(p) /\ q.adjSet = p.adjSet

(* What is popped off the select stack was on top of it. *)
LEMMA PopView ==
  ASSUME NEW p, AssignInv(p), NEW n \in Node, p.state[n] = "SELECT", p.list["SELECT"] # <<>>,
         n = Head(p.list["SELECT"]), NEW c, NEW s \in {"COLORED", "SPILLED"}, NEW q, Assigns(p, n, c, s, q)
  PROVE  PopSeen(p, n, c, s, q)
<1>1. /\ p \in Pass /\ ListsOK(p) /\ q \in Pass /\ ListsOK(q) /\ q.alias = p.alias /\ q.adjSet = p.adjSet
      /\ \A m \in Node : q.state[m] = IF m = n THEN s ELSE p.state[m]
      /\ \A m \in Node : q.color[m] = IF m = n THEN c ELSE p.color[m]
      /\ q.list["SELECT"] = Tail(p.list["SELECT"])
  BY DEF AssignInv, Assigns
<1>2. RootOf(q) = RootOf(p)
  BY <1>1, SameRoots DEF AssignInv
<1>3. s \notin Listed /\ "SELECT" \notin Listed
  BY DEF Listed
<1>4. KindOf(p)[n] = "SELECT"
  BY <1>3 DEF KindOf
<1>5. KindOf(q) = [KindOf(p) EXCEPT ![n] = s]
  <2>1. \A m \in Node : KindOf(q)[m] = IF m = n THEN s ELSE KindOf(p)[m]
    BY <1>1, <1>3 DEF KindOf
  <2>2. KindOf(q) = [m \in Node |-> KindOf(q)[m]] /\ KindOf(p) = [m \in Node |-> KindOf(p)[m]]
    BY DEF KindOf
  <2> QED
    BY <2>1, <2>2
<1>6. q.color = [p.color EXCEPT ![n] = c]
  <2>1. q.color = [m \in Node |-> q.color[m]] /\ p.color = [m \in Node |-> p.color[m]]
    BY <1>1 DEF Pass
  <2> QED
    BY <1>1, <2>1
<1>7. PICK t \in Seq(Node), k \in Nat : t = p.list["SELECT"] /\ k = Len(t)
  BY <1>1 DEF Pass, NodeState
<1>8. k >= 1 /\ n = t[1]
  BY <1>7
<1>9. PICK r : r = q.list["SELECT"]
  OBVIOUS
<1>10. Len(r) = k - 1 /\ \A i \in 1 .. k - 1 : r[i] = t[i + 1]
  BY <1>1, <1>7, <1>8, <1>9
<1>11. PICK a, b : a = RankOf(p) /\ b = RankOf(q)
  OBVIOUS
<1>12. Ranks(p, a, t, k) /\ Ranks(q, b, r, k - 1)
  BY <1>1, <1>7, <1>9, <1>10, <1>11, RankIs
<1>13. a[n] = k
  <2>1. a[t[1]] = k + 1 - 1
    BY <1>7, <1>8, <1>12 DEF Ranks
  <2> QED
    BY <1>7, <1>8, <2>1
<1>14. \A m \in Node : b[m] = IF m = n THEN 0 ELSE a[m]
  <2> TAKE m \in Node
  <2>1. CASE m = n
    BY <1>1, <1>12, <2>1 DEF Ranks
  <2>2. CASE m # n /\ p.state[m] # "SELECT"
    BY <1>1, <1>12, <2>2 DEF Ranks
  <2>3. CASE m # n /\ p.state[m] = "SELECT"
    <3>1. PICK i \in 1 .. k : m = t[i]
      BY <1>12, <2>3 DEF Ranks
    <3>2. a[m] = k + 1 - i
      BY <1>12, <3>1 DEF Ranks
    <3>3. i # 1
      BY <1>8, <2>3, <3>1
    <3>4. i - 1 \in 1 .. k - 1 /\ r[i - 1] = t[i]
      BY <1>7, <1>10, <3>1, <3>3
    <3>5. b[m] = (k - 1) + 1 - (i - 1)
      BY <1>12, <3>1, <3>4 DEF Ranks
    <3> QED
      BY <1>7, <2>3, <3>1, <3>2, <3>4, <3>5
  <2> QED
    BY <2>1, <2>2, <2>3
<1>15. b = [a EXCEPT ![n] = 0]
  BY <1>12, <1>14 DEF Ranks
<1> QED
  BY <1>1, <1>2, <1>4, <1>5, <1>6, <1>7, <1>9, <1>10, <1>11, <1>13, <1>15 DEF PopSeen

(* What the abstract stack sees of a coalesced n that gets state s and color c. *)
InheritSeen(p, n, c, s, q) ==
  /\ KindOf(p)[n] = "COALESCED" /\ KindOf(q) = [KindOf(p) EXCEPT ![n] = s]
  /\ q.color = [p.color EXCEPT ![n] = c] /\ RankOf(q) = RankOf(p) /\ q.list["SELECT"] = p.list["SELECT"]
  /\ RootOf(q) = RootOf(p) /\ q.adjSet = p.adjSet

(* A coalesced node that inherits its register leaves the stack alone. *)
LEMMA InheritView ==
  ASSUME NEW p, AssignInv(p), NEW n \in Node, p.state[n] = "COALESCED",
         NEW c, NEW s \in {"COLORED", "SPILLED"}, NEW q, Assigns(p, n, c, s, q)
  PROVE  InheritSeen(p, n, c, s, q)
<1>1. /\ p \in Pass /\ ListsOK(p) /\ q \in Pass /\ ListsOK(q) /\ q.alias = p.alias /\ q.adjSet = p.adjSet
      /\ \A m \in Node : q.state[m] = IF m = n THEN s ELSE p.state[m]
      /\ \A m \in Node : q.color[m] = IF m = n THEN c ELSE p.color[m]
      /\ q.list["SELECT"] = p.list["SELECT"]
  BY DEF AssignInv, Assigns
<1>2. RootOf(q) = RootOf(p)
  BY <1>1, SameRoots DEF AssignInv
<1>3. s \notin Listed /\ "COALESCED" \notin Listed
  BY DEF Listed
<1>4. KindOf(p)[n] = "COALESCED"
  BY <1>3 DEF KindOf
<1>5. KindOf(q) = [KindOf(p) EXCEPT ![n] = s]
  <2>1. \A m \in Node : KindOf(q)[m] = IF m = n THEN s ELSE KindOf(p)[m]
    BY <1>1, <1>3 DEF KindOf
  <2>2. KindOf(q) = [m \in Node |-> KindOf(q)[m]] /\ KindOf(p) = [m \in Node |-> KindOf(p)[m]]
    BY DEF KindOf
  <2> QED
    BY <2>1, <2>2
<1>6. q.color = [p.color EXCEPT ![n] = c]
  <2>1. q.color = [m \in Node |-> q.color[m]] /\ p.color = [m \in Node |-> p.color[m]]
    BY <1>1 DEF Pass
  <2> QED
    BY <1>1, <2>1
<1>7. RankOf(q) = RankOf(p)
  <2>1. \A m \in Node : q.state[m] = "SELECT" <=> p.state[m] = "SELECT"
    BY <1>1
  <2> QED
    BY <1>1, <2>1, SameRanks
<1> QED
  BY <1>1, <1>2, <1>4, <1>5, <1>6, <1>7 DEF InheritSeen

(* The colours that a node must not get. *)
LEMMA TakenView ==
  ASSUME NEW p \in Pass, NEW n \in Node, NEW g, RootMap(p.alias, g)
  PROVE  {p.color[g[w]] : w \in {x \in p.adjSet[n] : KindOf(p)[g[x]] \in {"COLORED", "PRECOLORED"}}} = Taken(p, g, n)
<1>1. p.adjSet[n] \subseteq Node /\ \A x \in Node : g[x] \in Node
  BY DEF Pass, RootMap
<1>2. \A x \in Node : KindOf(p)[x] \in {"COLORED", "PRECOLORED"} <=> p.state[x] \in {"COLORED", "PRECOLORED"}
  BY DEF KindOf, Listed
<1>3. {x \in p.adjSet[n] : KindOf(p)[g[x]] \in {"COLORED", "PRECOLORED"}}
        = {x \in p.adjSet[n] : p.state[g[x]] \in {"COLORED", "PRECOLORED"}}
  BY <1>1, <1>2
<1> QED
  BY <1>3 DEF Taken

(* The graph that liveness finds is the one the round starts from. *)
LEMMA InitRefines == Init => CS!Init
<1> SUFFICES ASSUME Init PROVE CS!Init
  OBVIOUS
<1>1. PICK g \in Graphs :
        /\ edges = [n \in Node |-> {m \in Node : n # m /\ (<<n, m>> \in ToSet(g) \/ <<m, n>> \in ToSet(g))}]
        /\ pass = Build(g, movs)
  BY DEF Init
<1>2. MovsOK /\ phase = "makeWorklist" /\ g \in Seq(Node \X Node)
  BY InputAssumption DEF Init, MovsOK
<1>3. PICK p : p = pass
  OBVIOUS
<1>4. /\ ReduceInv(p) /\ p \in Pass /\ ListsOK(p) /\ GraphOK(p) /\ AliasOK(p)
      /\ \A n \in Node : p.state[n] = IF n \in HWNode THEN "PRECOLORED" ELSE "INITIAL"
      /\ \A n \in Node : p.adjSet[n] = Linked(g, Len(g), n) /\ p.alias[n] = NULL
      /\ \A n \in Node : p.color[n] = IF n \in HWNode THEN HWColor[n] ELSE NoColor
      /\ p.list["SELECT"] = <<>>
  BY <1>1, <1>2, <1>3, BuildFacts DEF ReduceInv
<1>5. \A n \in Node : p.adjSet[n] = edges[n]
  <2>1. \A e : e \in ToSet(g) <=> \E j \in 1 .. Len(g) : g[j] = e
    BY <1>2 DEF ToSet
  <2>2. \A n, m \in Node : m \in Linked(g, Len(g), n) <=> m \in edges[n]
    BY <1>1, <2>1 DEF Linked
  <2>3. \A n \in Node : Linked(g, Len(g), n) \subseteq Node /\ edges[n] \subseteq Node
    BY <1>1 DEF Linked
  <2>4. \A n \in Node : p.adjSet[n] = Linked(g, Len(g), n)
    BY <1>4
  <2> QED
    BY <2>2, <2>3, <2>4
<1>6. p.adjSet = edges /\ CS!IsInterference(edges)
  <2>1. p.adjSet = [n \in Node |-> p.adjSet[n]] /\ edges = [n \in Node |-> edges[n]]
    BY <1>1, <1>4 DEF Pass
  <2>2. p.adjSet = edges
    BY <1>5, <2>1
  <2> QED
    BY <1>4, <2>2 DEF CS!IsInterference, Pass, GraphOK
<1>7. KindOf(p) = [n \in Node |-> IF n \in HWNode THEN "PRECOLORED" ELSE "LIVE"]
  BY <1>4 DEF KindOf, Listed
<1>8. RootOf(p) = [n \in Node |-> n]
  <2>1. RootMap(p.alias, [n \in Node |-> n])
    BY <1>4 DEF RootMap
  <2> QED
    BY <1>4, <2>1, RootIs DEF AliasOK
<1>9. RankOf(p) = [n \in Node |-> 0]
  BY <1>4 DEF RankOf
<1>10. p.color = [n \in Node |-> IF n \in HWNode THEN HWColor[n] ELSE NoColor]
  <2>1. p.color = [n \in Node |-> p.color[n]]
    BY <1>4 DEF Pass
  <2> QED
    BY <1>4, <2>1
<1>11. Len(p.list["SELECT"]) = 0
  BY <1>4
<1> QED
  BY <1>2, <1>3, <1>6, <1>7, <1>8, <1>9, <1>10, <1>11 DEF CS!Init

(* Every step pushes, merges or pops, or is not seen. *)
LEMMA NextRefines == Inv /\ [Next]_vars => [CS!Next]_CS!vars
<1> SUFFICES ASSUME Inv, [Next]_vars PROVE [CS!Next]_CS!vars
  OBVIOUS
<1>1. MovsOK /\ ColorsOK(pass) /\ edges' = edges
  BY DEF Inv, Next, vars, MakeWorklist, Simplify, Coalesce, Freeze, SelectSpill, StartAssign, AssignColor,
         AssignCoalesced, Finish, Done
<1>2. ASSUME Calm(pass, pass'), ReduceInv(pass),
             (phase' \in {"makeWorklist", "worklists"}) = (phase \in {"makeWorklist", "worklists"})
      PROVE  UNCHANGED CS!vars
  <2>1. pass \in Pass /\ AliasOK(pass) /\ ListsOK(pass)
    BY <1>2 DEF ReduceInv
  <2>2. /\ KindOf(pass') = KindOf(pass) /\ pass'.adjSet = pass.adjSet /\ RootOf(pass') = RootOf(pass)
        /\ RankOf(pass') = RankOf(pass) /\ pass'.list["SELECT"] = pass.list["SELECT"] /\ pass'.color = pass.color
    BY <1>2, <2>1, CalmView
  <2> QED
    BY <1>1, <1>2, <2>2 DEF CS!vars
<1>3. CASE MakeWorklist
  <2>1. ReduceInv(pass) /\ Places(pass, pass')
    BY <1>1, <1>3, MakeWorklistOutcome DEF Inv, MakeWorklist
  <2>2. phase = "makeWorklist" /\ phase' = "worklists"
    BY <1>3 DEF MakeWorklist
  <2>3. Calm(pass, pass')
    BY <2>1 DEF Places
  <2>4. UNCHANGED CS!vars
    BY <1>2, <2>1, <2>2, <2>3
  <2> QED
    BY <2>4
<1>4. CASE Simplify
  <2>1. PICK n \in Node : n = Head(pass.list["SIMPLIFY"])
    BY <1>1, <1>4, SimplifyOutcome DEF Inv, Simplify
  <2>2. Pushes(pass, n, pass') /\ pass.state[n] = "SIMPLIFY" /\ ReduceInv(pass) /\ ReduceInv(pass')
    BY <1>1, <1>4, <2>1, SimplifyOutcome DEF Inv, Simplify
  <2>3. /\ KindOf(pass)[n] = "LIVE" /\ KindOf(pass') = [KindOf(pass) EXCEPT ![n] = "SELECT"]
        /\ RankOf(pass') = [RankOf(pass) EXCEPT ![n] = Len(pass.list["SELECT"]) + 1]
        /\ Len(pass'.list["SELECT"]) = Len(pass.list["SELECT"]) + 1
        /\ RootOf(pass') = RootOf(pass) /\ pass'.adjSet = pass.adjSet /\ pass'.color = pass.color
    BY <2>2, PushView DEF ReduceInv
  <2>4. phase \in {"makeWorklist", "worklists"} /\ phase' = phase
    BY <1>4 DEF Simplify
  <2>5. CS!Push(n)
    BY <1>1, <2>3, <2>4 DEF CS!Push
  <2> QED
    BY <2>5 DEF CS!Next
<1>5. CASE Coalesce
  <2>1. ReduceInv(pass) /\ Coalesces(pass, pass') /\ ReduceInv(pass')
    BY <1>1, <1>5, CoalesceOutcome DEF Inv, Coalesce
  <2>2. phase \in {"makeWorklist", "worklists"} /\ phase' = phase
    BY <1>5 DEF Coalesce
  <2>3. ASSUME NEW u \in Node, NEW v \in Node, Mergeable(pass, u, v), Merges(pass, u, v, pass')
        PROVE  CS!Combine(u, v)
    <3>1. u # v /\ v \notin pass.adjSet[u]
      BY <2>3 DEF Mergeable
    <3>2. /\ KindOf(pass)[u] \in {"PRECOLORED", "LIVE"} /\ KindOf(pass)[v] = "LIVE"
          /\ KindOf(pass') = [KindOf(pass) EXCEPT ![v] = "COALESCED"]
          /\ RootOf(pass') = [n \in Node |-> IF RootOf(pass)[n] = v THEN u ELSE RootOf(pass)[n]]
          /\ LET moved == {t \in pass.adjSet[v] : KindOf(pass)[t] \in {"PRECOLORED", "LIVE"}}
             IN  pass'.adjSet = [n \in Node |-> (IF n \in moved THEN pass.adjSet[n] \cup {u} ELSE pass.adjSet[n])
                                                  \cup (IF n = u THEN moved ELSE {})]
          /\ RankOf(pass') = RankOf(pass) /\ pass'.list["SELECT"] = pass.list["SELECT"] /\ pass'.color = pass.color
      <4>1. ListsOK(pass')
        BY <2>1 DEF ReduceInv
      <4>2. MergeSeen(pass, u, v, pass')
        BY <2>1, <2>3, <4>1, MergeView
      <4> QED
        BY <4>2 DEF MergeSeen
    <3> QED
      BY <1>1, <2>2, <3>1, <3>2 DEF CS!Combine, CS!InGraph
  <2> QED
    BY <1>2, <2>1, <2>2, <2>3 DEF Coalesces, CS!Next
<1>6. CASE Freeze \/ \E n \in Node : SelectSpill(n)
  <2>1. ReduceInv(pass) /\ Calm(pass, pass')
    BY <1>1, <1>6, GiveUpOutcome DEF Inv, Freeze, SelectSpill
  <2>2. phase' = phase
    BY <1>6 DEF Freeze, SelectSpill
  <2> QED
    BY <1>2, <2>1, <2>2
<1>7. CASE StartAssign
  <2>1. pass' = pass /\ \A n \in Node : pass.state[n] \notin Listed
    BY <1>1, <1>7, StartAssignOutcome DEF Inv, StartAssign
  <2>2. phase \in {"makeWorklist", "worklists"} /\ phase' \notin {"makeWorklist", "worklists"}
    BY <1>7 DEF StartAssign
  <2>3. \A n \in Node : KindOf(pass)[n] # "LIVE"
    <3>1. pass.state \in [Node -> NodeState]
      BY <1>7 DEF Inv, StartAssign, ReduceInv, Pass
    <3>2. \A n \in Node : pass.state[n] # "LIVE"
      BY <3>1 DEF NodeState
    <3> QED
      BY <2>1, <3>2 DEF KindOf
  <2>4. CS!StartAssign
    BY <1>1, <2>1, <2>2, <2>3 DEF CS!StartAssign
  <2> QED
    BY <2>4 DEF CS!Next
<1>8. CASE AssignColor
  <2>1. AssignInv(pass) /\ phase \notin {"makeWorklist", "worklists"} /\ phase' = phase
    BY <1>8 DEF Inv, AssignColor
  <2>2. PICK g : RootMap(pass.alias, g) /\ pass \in Pass /\ Acyclic(pass.alias)
    BY <2>1 DEF AssignInv
  <2>3. RootOf(pass) = g
    BY <2>2, RootIs
  <2>4. PICK n : Pops(pass, g, n, pass')
    BY <1>1, <1>8, <2>1, <2>2, AssignColorOutcome
  <2>5. n \in Node /\ pass.state[n] = "SELECT" /\ pass.list["SELECT"] # <<>> /\ n = Head(pass.list["SELECT"])
    BY <2>4 DEF Pops
  <2>6. Taken(pass, g, n) = CS!Forbidden(n)
    BY <2>2, <2>3, <2>5, TakenView DEF CS!Forbidden
  <2>7. ASSUME NEW c, NEW s \in {"COLORED", "SPILLED"}, Assigns(pass, n, c, s, pass')
        PROVE  /\ KindOf(pass)[n] = "SELECT" /\ KindOf(pass') = [KindOf(pass) EXCEPT ![n] = s]
               /\ pass'.color = [pass.color EXCEPT ![n] = c]
               /\ RankOf(pass)[n] = Len(pass.list["SELECT"]) /\ RankOf(pass') = [RankOf(pass) EXCEPT ![n] = 0]
               /\ Len(pass'.list["SELECT"]) = Len(pass.list["SELECT"]) - 1
               /\ RootOf(pass') = RootOf(pass) /\ pass'.adjSet = pass.adjSet
    <3>1. PopSeen(pass, n, c, s, pass')
      BY <2>1, <2>5, <2>7, PopView
    <3> QED
      BY <3>1 DEF PopSeen
  <2>8. CASE Avail \subseteq Taken(pass, g, n) /\ Assigns(pass, n, NoColor, "SPILLED", pass')
    <3>1. pass'.color = pass.color
      <4>1. pass.color[n] = NoColor
        BY <1>1, <2>5 DEF ColorsOK
      <4>2. pass.color \in [Node -> Color \cup {NoColor}]
        BY <2>2 DEF Pass
      <4>3. pass'.color = [pass.color EXCEPT ![n] = NoColor]
        BY <2>7, <2>8
      <4> QED
        BY <4>1, <4>2, <4>3
    <3>2. CS!Pop(n)
      BY <1>1, <2>1, <2>6, <2>7, <2>8, <3>1 DEF CS!Pop
    <3> QED
      BY <2>5, <3>2 DEF CS!Next
  <2>9. CASE \E c \in Avail \ Taken(pass, g, n) : Assigns(pass, n, c, "COLORED", pass')
    <3>1. PICK c \in Avail \ CS!Forbidden(n) : Assigns(pass, n, c, "COLORED", pass')
      BY <2>6, <2>9
    <3>2. CS!Pop(n)
      BY <1>1, <2>1, <2>7, <3>1 DEF CS!Pop
    <3> QED
      BY <2>5, <3>2 DEF CS!Next
  <2> QED
    BY <2>4, <2>8, <2>9 DEF Pops
<1>9. CASE AssignCoalesced
  <2>1. AssignInv(pass) /\ phase \notin {"makeWorklist", "worklists"} /\ phase' = phase /\ pass.list["SELECT"] = <<>>
    BY <1>9 DEF Inv, AssignCoalesced, Empty
  <2>2. PICK g : RootMap(pass.alias, g) /\ pass \in Pass /\ Acyclic(pass.alias)
    BY <2>1 DEF AssignInv
  <2>3. RootOf(pass) = g
    BY <2>2, RootIs
  <2>4. PICK n : Inherits(pass, g, n, pass')
    BY <1>1, <1>9, <2>1, <2>2, AssignCoalescedOutcome
  <2>5. n \in Node /\ pass.state[n] = "COALESCED"
    BY <2>4 DEF Inherits
  <2>6. PICK c, s :
          /\ s \in {"COLORED", "SPILLED"} /\ c = pass.color[g[n]] /\ Assigns(pass, n, c, s, pass')
          /\ s = IF pass.color[g[n]] = NoColor THEN "SPILLED" ELSE "COLORED"
    <3>1. CASE pass.color[g[n]] = NoColor /\ Assigns(pass, n, NoColor, "SPILLED", pass')
      BY <3>1
    <3>2. CASE pass.color[g[n]] # NoColor /\ Assigns(pass, n, pass.color[g[n]], "COLORED", pass')
      BY <3>2
    <3> QED
      BY <2>4, <3>1, <3>2 DEF Inherits
  <2>7. /\ KindOf(pass)[n] = "COALESCED" /\ KindOf(pass') = [KindOf(pass) EXCEPT ![n] = s]
        /\ pass'.color = [pass.color EXCEPT ![n] = c] /\ RankOf(pass') = RankOf(pass)
        /\ pass'.list["SELECT"] = pass.list["SELECT"] /\ RootOf(pass') = RootOf(pass) /\ pass'.adjSet = pass.adjSet
    <3>1. InheritSeen(pass, n, c, s, pass')
      BY <2>1, <2>5, <2>6, InheritView
    <3> QED
      BY <3>1 DEF InheritSeen
  <2>8. \A m \in Node : KindOf(pass)[m] # "SELECT"
    <3>1. ToSet(pass.list["SELECT"]) = {} /\ "SELECT" \in NodeState
      BY <2>1 DEF ToSet, NodeState
    <3>2. \A m \in Node : pass.state[m] # "SELECT"
      BY <2>1, <3>1 DEF AssignInv, ListsOK
    <3> QED
      BY <3>2 DEF KindOf
  <2>9. CS!Inherit(n)
    BY <1>1, <2>1, <2>3, <2>6, <2>7, <2>8 DEF CS!Inherit
  <2> QED
    BY <2>5, <2>9 DEF CS!Next
<1>10. CASE Finish \/ Done \/ UNCHANGED vars
  <2>1. pass' = pass /\ (phase' \in {"makeWorklist", "worklists"}) = (phase \in {"makeWorklist", "worklists"})
    BY <1>10 DEF Finish, Done, vars
  <2> QED
    BY <1>1, <2>1 DEF CS!vars
<1> QED
  BY <1>3, <1>4, <1>5, <1>6, <1>7, <1>8, <1>9, <1>10 DEF Next

(* Whatever the worklists hold, a round is a sequence of the pushes, merges
   and pops of ColoringStack.                                              *)
THEOREM Refinement == Spec => ImplementsColoringStack
<1> QED
  BY InitRefines, NextRefines, Invariance, PTL DEF Spec, ImplementsColoringStack, CS!Spec

(* The abstract round with its proofs. *)
CSP == INSTANCE ColoringStackProofs WITH
         kind <- KindOf(pass),
         adj <- pass.adjSet,
         rep <- RootOf(pass),
         rank <- RankOf(pass),
         height <- Len(pass.list["SELECT"]),
         color <- pass.color,
         pushing <- phase \in {"makeWorklist", "worklists"}

(* Two registers that are live at the same time never get the same hardware
   register, for every interference graph, every sequence of moves and every
   number of registers.                                                    *)
THEOREM Validity == Spec => []ValidColoring
<1>1. CSP!NodeAssumption /\ CSP!HWColorAssumption
  BY InputAssumption, VNodes DEF CSP!NodeAssumption, CSP!HWColorAssumption
<1>2. CS!Init => CSP!Init
  BY DEF CS!Init, CSP!Init, CS!IsInterference, CSP!IsInterference
<1>3. CS!vars = CSP!vars
  BY DEF CS!vars, CSP!vars
<1>4. CS!Next => CSP!Next
  BY DEF CS!Next, CSP!Next, CS!Push, CSP!Push, CS!Pop, CSP!Pop, CS!Inherit, CSP!Inherit, CS!Combine, CSP!Combine,
         CS!StartAssign, CSP!StartAssign, CS!InGraph, CSP!InGraph, CS!Forbidden, CSP!Forbidden
<1>5. Init => CSP!Init
  BY <1>2, InitRefines
<1>6. Inv /\ [Next]_vars => [CSP!Next]_CSP!vars
  BY <1>3, <1>4, NextRefines DEF CS!vars, CSP!vars
<1>7. CSP!ValidColoring => ValidColoring
  BY DEF CSP!ValidColoring, ValidColoring
<1>8. Spec => CSP!Spec
  BY <1>5, <1>6, Invariance, PTL DEF Spec, CSP!Spec
<1>9. CSP!Spec => []CSP!ValidColoring
  BY <1>1, CSP!Validity
<1> QED
  BY <1>7, <1>8, <1>9, PTL

=============================================================================

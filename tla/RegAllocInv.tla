---------------------------- MODULE RegAllocInv ----------------------------
(***************************************************************************)
(* The inductive invariant of a round of the register allocator, as        *)
(* predicates of the pass: the loops of RegAlloc are reasoned about one     *)
(* turn at a time, in states that are not states of the specification.     *)
(***************************************************************************)
EXTENDS RegAlloc

(* The JX_CHECKs of the round. *)
CheckName == {"decrement", "addWorklist", "rewire", "combine", "freezeActive", "freezeNode", "spillDegree"}

(* The types of jmir_func_pass_regalloc_t. *)
Pass ==
  [state : [Node -> NodeState], list : [NodeState -> Seq(Node)],
   degree : [Node -> Int], adjSet : [Node -> SUBSET Node], adjArr : [Node -> Seq(Node)],
   movArr : [Node -> Seq(Mov)], alias : [Node -> Node \cup {NULL}], color : [Node -> Color \cup {NoColor}],
   movState : [Mov -> MovState], movNext : [Mov -> Mov \cup {NULL}], movList : [MovState -> Mov \cup {NULL}],
   failed : SUBSET CheckName]

(* Every node is on exactly the list of its state, once. *)
ListsOK(p) ==
  \A s \in NodeState : ToSet(p.list[s]) = {n \in Node : p.state[n] = s} /\ IsInjective(p.list[s])

MovsOK == movs \in Seq([dst : Node, src : Node])

HWOK(p) == \A n \in Node : p.state[n] = "PRECOLORED" <=> n \in HWNode

(* The adjacency set is a graph, and a virtual register's array spells it. *)
GraphOK(p) ==
  /\ \A n, m \in Node : m \in p.adjSet[n] => n \in p.adjSet[m]
  /\ \A n \in Node : n \notin p.adjSet[n]
  /\ \A n \in VNode : ToSet(p.adjArr[n]) = p.adjSet[n] /\ IsInjective(p.adjArr[n])
  /\ \A n \in HWNode : p.adjArr[n] = <<>>

(* w is what the next pointers spell from the head of the moves to be looked at. *)
Spells(p, w) ==
  /\ IsInjective(w) /\ ToSet(w) = {m \in Mov : p.movState[m] = "WORKLIST"}
  /\ p.movList["WORKLIST"] = IF Len(w) = 0 THEN NULL ELSE w[1]
  /\ \A i \in 1 .. Len(w) : p.movNext[w[i]] = IF i = Len(w) THEN NULL ELSE w[i + 1]

(* The head of list r once m is off the list it heads. *)
Popped(p, m, r) ==
  IF r = p.movState[m] /\ p.movList[r] = m THEN p.movNext[m] ELSE p.movList[r]

MoveListOK(p) == \E w \in Seq(Mov) : Spells(p, w)

(* While the graph is reduced no node is coloured or spilled yet. *)
Reducing(p) == \A n \in Node : p.state[n] \in Listed \cup {"PRECOLORED", "SELECT", "COALESCED"}

(* f[m] is the first node of Stop on the way from m along its aliases. *)
Follows(f, alias, Stop) ==
  /\ \A m \in Node : f[m] = IF m \in Stop THEN m ELSE f[alias[m]]
  /\ \A m \in Node : m \notin Stop => alias[m] \in Node

(* g[m] is where GetAlias ends. *)
AliasMap(p, g) ==
  /\ g \in [Node -> Node]
  /\ \A m \in Node : g[m] = IF p.state[m] = "COALESCED" THEN g[p.alias[m]] ELSE m

(* g[m] is where following m_Alias to its end leads. *)
RootMap(alias, g) ==
  /\ g \in [Node -> Node]
  /\ \A m \in Node : g[m] = IF alias[m] = NULL THEN m ELSE g[alias[m]]

(* No node is its own alias, however far m_Alias is followed. *)
Acyclic(alias) == \A S \in SUBSET Node : S # {} => \E n \in S : alias[n] \notin S

(* While the graph is reduced the coalesced nodes are those with an alias. *)
AliasOK(p) ==
  /\ \A n \in Node : p.state[n] = "COALESCED" <=> p.alias[n] # NULL
  /\ Acyclic(p.alias)
  /\ \E g : RootMap(p.alias, g)

(* A move that may still be coalesced is known to what its ends stand for. *)
MovesKnown(p) ==
  \A m \in Mov : MovPending(p, m) =>
    /\ m \in ToSet(p.movArr[GetAlias(p, movs[m].dst)])
    /\ m \in ToSet(p.movArr[GetAlias(p, movs[m].src)])

(* What is on the select stack, or is about to be, has no such move. *)
Unrelated(p, kind) == \A n \in Node : p.state[n] = kind => ~MoveRelated(p, n)

(* The invariant while the graph is reduced, but for the counted degrees. *)
ReduceInv(p) ==
  /\ p \in Pass /\ ListsOK(p) /\ HWOK(p) /\ GraphOK(p) /\ Reducing(p) /\ AliasOK(p) /\ MovesKnown(p)
  /\ \A m \in Mov : p.movState[m] # "ALLOCATED"
  /\ Unrelated(p, "SIMPLIFY") /\ Unrelated(p, "SELECT")

(* Exactly the nodes that have their register have a colour. *)
ColorsOK(p) == \A n \in Node : p.color[n] # NoColor <=> p.state[n] \in {"PRECOLORED", "COLORED"}

(* While colours are assigned nothing is left in the graph but the hardware
   registers; a node that has its colour has the one of where its aliases lead. *)
AssignInv(p) ==
  /\ p \in Pass /\ ListsOK(p) /\ HWOK(p) /\ GraphOK(p)
  /\ \A m \in Mov : p.movState[m] # "ALLOCATED"
  /\ \A n \in Node : p.state[n] \notin Listed
  /\ Acyclic(p.alias) /\ (\E g : RootMap(p.alias, g)) /\ (\E g : AliasMap(p, g))
  /\ \A n \in Node : p.state[n] = "COALESCED" => p.alias[n] # NULL
  /\ \A n \in Node : p.alias[n] # NULL => p.state[n] \in {"COALESCED", "COLORED", "SPILLED"}
  /\ (\E n \in Node : p.state[n] = "SELECT") => \A n \in Node : p.alias[n] # NULL => p.state[n] = "COALESCED"
  /\ \A g : RootMap(p.alias, g) =>
       \A n \in Node : p.state[n] \in {"COLORED", "SPILLED"} => p.color[n] = p.color[g[n]]

(* The inductive invariant. *)
Inv ==
  /\ MovsOK /\ phase \in {"makeWorklist", "worklists", "assignColors", "spill", "replaceRegs"}
  /\ candidates \subseteq VNode
  /\ ColorsOK(pass)
  /\ phase \in {"makeWorklist", "worklists"} => ReduceInv(pass) /\ MoveListOK(pass)
  /\ phase = "worklists" => \A n \in Node : pass.state[n] # "INITIAL"
  /\ phase \in {"assignColors", "spill", "replaceRegs"} => AssignInv(pass)

(* The neighbours of n that are still in the graph. *)
Live(p, n) == {t \in p.adjSet[n] : InGraph(p, t)}

(* Degrees count the live neighbours, and one more for the nodes of T. *)
DegreesOff(p, T) ==
  \A n \in VNode : p.state[n] \in Listed =>
    p.degree[n] = Cardinality(Live(p, n)) + (IF n \in T THEN 1 ELSE 0)

(* The worklists hold what their names promise, but for the freeze worklist:
   the nodes of X may have no move left and those of Y may be significant. *)
ListsMean(p, chosen, X, Y) ==
  /\ \A n \in Node : p.state[n] = "FREEZE" => (n \in Y \/ ~Significant(p, n)) /\ (n \in X \/ MoveRelated(p, n))
  /\ \A n \in Node : p.state[n] = "SPILL" => Significant(p, n)
  /\ \A n \in Node : p.state[n] = "SIMPLIFY" =>
       ~Significant(p, n) \/ (n \in chosen /\ p.list["SIMPLIFY"] = <<n>>)

(* Degrees and worklists on the way from one step to the next. *)
Counted(p, T, X, Y) == DegreesOff(p, T) /\ ListsMean(p, {}, X, Y)

(* A node of the graph knows only moves of its own. *)
MovesBelong(p) ==
  \A n \in Node : InGraph(p, n) =>
    \A m \in ToSet(p.movArr[n]) : n \in {GetAlias(p, movs[m].dst), GetAlias(p, movs[m].src)}

(* What a neighbour was merged into is a neighbour, among those in the graph. *)
RootsSeen(p) ==
  \A n \in Node : InGraph(p, n) =>
    \A w \in p.adjSet[n] : InGraph(p, RootOf(p)[w]) => RootOf(p)[w] \in p.adjSet[n]

(* What the neighbours of n stand for, but for what is below n on the stack. *)
Above(p, n) ==
  {RootOf(p)[w] : w \in {x \in p.adjSet[n] : ~(/\ p.state[RootOf(p)[x]] = "SELECT"
                                               /\ RankOf(p)[RootOf(p)[x]] <= RankOf(p)[n])}}

(* A node that was pushed because it had few neighbours will find a colour. *)
FewAbove(p, chosen) == \A n \in Node : p.state[n] = "SELECT" /\ n \notin chosen => Cardinality(Above(p, n)) < K

(* What is kept on record of the graph while it is reduced. *)
Recorded(p, chosen) == MovesBelong(p) /\ RootsSeen(p) /\ FewAbove(p, chosen)
Books(p, chosen) == DegreesOff(p, {}) /\ ListsMean(p, chosen, {}, {}) /\ Recorded(p, chosen)

(* A register is spilled because it was chosen or with what it was merged into. *)
SpillsJustified(p, chosen) == \A n \in Node : p.state[n] = "SPILLED" => n \in chosen \/ p.alias[n] # NULL

(* The invariant of the counts and of the select stack. *)
BookInv ==
  /\ MoveListOK(pass) /\ pass.failed \subseteq {"freezeNode"}
  /\ phase = "makeWorklist" => candidates = {}
  /\ phase \in {"makeWorklist", "worklists"} => Books(pass, candidates)
  /\ phase \in {"assignColors", "spill", "replaceRegs"} =>
       FewAbove(pass, candidates) /\ SpillsJustified(pass, candidates)

-----------------------------------------------------------------------------
(* What a part of a step may do, as a relation between two passes. *)

(* Node n goes from its list to the head of the list of s, and that is all. *)
Relists(p, n, s, q) ==
  /\ q \in Pass /\ ListsOK(q)
  /\ \A m \in Node : q.state[m] = IF m = n THEN s ELSE p.state[m]
  /\ q.degree = p.degree /\ q.adjSet = p.adjSet /\ q.adjArr = p.adjArr /\ q.movArr = p.movArr
  /\ q.alias = p.alias /\ q.color = p.color /\ q.movState = p.movState /\ q.movNext = p.movNext
  /\ q.movList = p.movList
  /\ \A r \in NodeState \ {s, p.state[n]} : q.list[r] = p.list[r]
  /\ p.state[n] # s => q.list[s] = <<n>> \o p.list[s]
  /\ p.state[n] # s /\ p.list[p.state[n]] # <<>> /\ n = Head(p.list[p.state[n]])
       => q.list[p.state[n]] = Tail(p.list[p.state[n]])

(* Move m goes to the head of the list of s, and that is all. *)
RelistsMove(p, m, s, q) ==
  /\ q \in Pass
  /\ \A x \in Mov : q.movState[x] = IF x = m THEN s ELSE p.movState[x]
  /\ \A x \in Mov : q.movNext[x] = IF x = m THEN Popped(p, m, s) ELSE p.movNext[x]
  /\ \A r \in MovState : q.movList[r] = IF r = s THEN m ELSE Popped(p, m, r)
  /\ q.state = p.state /\ q.list = p.list /\ q.degree = p.degree /\ q.adjSet = p.adjSet
  /\ q.adjArr = p.adjArr /\ q.movArr = p.movArr /\ q.alias = p.alias /\ q.color = p.color

(* A check leaves at most a note. *)
Notes(p, q) ==
  /\ q \in Pass
  /\ q.state = p.state /\ q.list = p.list /\ q.degree = p.degree /\ q.adjSet = p.adjSet
  /\ q.adjArr = p.adjArr /\ q.movArr = p.movArr /\ q.alias = p.alias /\ q.color = p.color
  /\ q.movState = p.movState /\ q.movNext = p.movNext /\ q.movList = p.movList

(* Moves that were put aside are looked at again. *)
Wakes(p, q) ==
  /\ q \in Pass
  /\ q.state = p.state /\ q.list = p.list /\ q.degree = p.degree /\ q.adjSet = p.adjSet /\ q.adjArr = p.adjArr
  /\ q.movArr = p.movArr /\ q.alias = p.alias /\ q.color = p.color /\ q.failed = p.failed
  /\ \A m \in Mov : q.movState[m] = p.movState[m] \/ (p.movState[m] = "ACTIVE" /\ q.movState[m] = "WORKLIST")
  /\ MoveListOK(p) => MoveListOK(q)

(* n has one neighbour less, and is found a list if that makes a difference. *)
Decrements(p, n, q) ==
  /\ q \in Pass /\ ListsOK(q)
  /\ q.adjSet = p.adjSet /\ q.adjArr = p.adjArr /\ q.movArr = p.movArr /\ q.alias = p.alias /\ q.color = p.color
  /\ \A m \in Node : q.degree[m] = IF m = n /\ ~Precolored(p, n) THEN p.degree[m] - 1 ELSE p.degree[m]
  /\ \A m \in Mov : q.movState[m] = p.movState[m] \/ (p.movState[m] = "ACTIVE" /\ q.movState[m] = "WORKLIST")
  /\ MoveListOK(p) => MoveListOK(q)
  /\ IF Precolored(p, n) \/ p.degree[n] # K
     THEN q.state = p.state /\ q.list = p.list /\ q.failed = p.failed
     ELSE LET s == IF MoveRelated(p, n) THEN "FREEZE" ELSE "SIMPLIFY"
          IN  /\ \A m \in Node : q.state[m] = IF m = n THEN s ELSE p.state[m]
              /\ \A r \in NodeState \ {s, p.state[n]} : q.list[r] = p.list[r]
              /\ q.failed = IF p.state[n] = "SPILL" THEN p.failed ELSE p.failed \cup {"decrement"}

(* n is simplified unless something speaks against it. *)
Idles(p, n, name, q) ==
  \/ q = p /\ (Precolored(p, n) \/ MoveRelated(p, n) \/ Significant(p, n))
  \/ /\ ~Precolored(p, n) /\ ~MoveRelated(p, n) /\ ~Significant(p, n)
     /\ Relists(p, n, "SIMPLIFY", q)
     /\ q.failed = IF p.state[n] = "FREEZE" THEN p.failed ELSE p.failed \cup {name}

(* The other end of move m of u. *)
Across(q, u, m) ==
  IF GetAlias(q, movs[m].src) = GetAlias(q, u) THEN GetAlias(q, movs[m].dst) ELSE GetAlias(q, movs[m].src)

(* Move m of u is given up if it was still to be coalesced. *)
GivesUp(u, q, m, r) ==
  IF ~MovPending(q, m) THEN r = q
  ELSE \E w \in Pass :
         /\ RelistsMove(q, m, "FROZEN", w) /\ ListsOK(w)
         /\ w.failed = IF q.movState[m] = "ACTIVE" THEN q.failed ELSE q.failed \cup {"freezeActive"}
         /\ q.movState[m] # "WORKLIST" /\ MoveListOK(q) => MoveListOK(w)
         /\ Idles(w, Across(q, u, m), "freezeNode", r)

(* No move waits to be looked at. *)
NoneWaiting(p) == \A m \in Mov : p.movState[m] # "WORKLIST"

(* Nodes that are in the graph change lists and moves are woken or given up:
   nothing leaves the graph and nothing comes back.                         *)
Stays(p, q) ==
  /\ q \in Pass /\ ListsOK(q)
  /\ q.movArr = p.movArr /\ q.alias = p.alias /\ q.color = p.color
  /\ \A n \in Node : IF p.state[n] \in Listed
                     THEN q.state[n] \in Listed /\ (q.state[n] = "INITIAL" => p.state[n] = "INITIAL")
                     ELSE q.state[n] = p.state[n]
  /\ \A s \in NodeState \ Listed : q.list[s] = p.list[s]
  /\ \A m \in Mov : q.movState[m] = p.movState[m] \/ (MovPending(p, m) /\ q.movState[m] # "ALLOCATED")
  /\ \A n \in Node : q.state[n] = "SIMPLIFY" => p.state[n] = "SIMPLIFY" \/ ~MoveRelated(q, n)
  /\ MoveListOK(p) => MoveListOK(q)

(* The graph does not change either. *)
Calm(p, q) == Stays(p, q) /\ q.adjSet = p.adjSet /\ q.adjArr = p.adjArr

(* b is added to the array of a, which counts it, unless a is precolored. *)
Counts(p, a, b, q) ==
  /\ q \in Pass
  /\ \A n \in Node : /\ q.adjArr[n] = IF n = a /\ ~Precolored(p, a) THEN Append(p.adjArr[a], b) ELSE p.adjArr[n]
                     /\ q.degree[n] = IF n = a /\ ~Precolored(p, a) THEN p.degree[a] + 1 ELSE p.degree[n]
  /\ q.state = p.state /\ q.list = p.list /\ q.adjSet = p.adjSet /\ q.movArr = p.movArr
  /\ q.alias = p.alias /\ q.color = p.color /\ q.movState = p.movState /\ q.movNext = p.movNext
  /\ q.movList = p.movList /\ q.failed = p.failed

(* a and b become neighbours. *)
Links(p, a, b, q) ==
  /\ q \in Pass /\ GraphOK(q)
  /\ \A n \in Node : q.adjSet[n] = p.adjSet[n] \cup (IF n = a THEN {b} ELSE {}) \cup (IF n = b THEN {a} ELSE {})
  /\ \A n \in Node : q.degree[n] = IF n \in {a, b} /\ ~Precolored(p, n) /\ b \notin p.adjSet[a]
                                  THEN p.degree[n] + 1 ELSE p.degree[n]
  /\ q.state = p.state /\ q.list = p.list /\ q.movArr = p.movArr /\ q.alias = p.alias /\ q.color = p.color
  /\ q.movState = p.movState /\ q.movNext = p.movNext /\ q.movList = p.movList /\ q.failed = p.failed

(* The moves of src are added to those of dst. *)
Gathers(p, dst, q) ==
  /\ q \in Pass
  /\ \A n \in Node \ {dst} : q.movArr[n] = p.movArr[n]
  /\ ToSet(p.movArr[dst]) \subseteq ToSet(q.movArr[dst])
  /\ q.state = p.state /\ q.list = p.list /\ q.degree = p.degree /\ q.adjSet = p.adjSet /\ q.adjArr = p.adjArr
  /\ q.alias = p.alias /\ q.color = p.color /\ q.movState = p.movState /\ q.movNext = p.movNext
  /\ q.movList = p.movList /\ q.failed = p.failed

(* t becomes a neighbour of u, and loses the node that was merged into u. *)
Rewires(p, u, t, q) ==
  \E linked \in Pass, grown \in Pass :
    /\ Links(p, t, u, linked) /\ ListsOK(grown)
    /\ IF ~Significant(p, t) /\ Significant(linked, t)
       THEN /\ Relists(linked, t, "SPILL", grown)
            /\ grown.failed = IF p.state[t] = "FREEZE" THEN p.failed ELSE p.failed \cup {"rewire"}
       ELSE grown = linked
    /\ Decrements(grown, t, q)

(* The nodes of T become neighbours of u; nothing leaves the graph. *)
Rewired(p, u, T, q) ==
  /\ q \in Pass /\ Stays(p, q) /\ GraphOK(q)
  /\ \A n \in Node : q.adjSet[n] = p.adjSet[n] \cup (IF n \in T THEN {u} ELSE {}) \cup (IF n = u THEN T ELSE {})

(* The nodes among the first i of s that are in the graph. *)
LiveAmong(p, s, i) == {t \in Node : InGraph(p, t) /\ \E j \in 1 .. i : t = s[j]}

(* u takes over the moves of v, whose neighbours are not told yet. *)
TakesOver(p, u, v, q) ==
  /\ q \in Pass /\ ListsOK(q)
  /\ \A n \in Node : q.state[n] = IF n = v THEN "COALESCED" ELSE p.state[n]
  /\ \A n \in Node : q.alias[n] = IF n = v THEN u ELSE p.alias[n]
  /\ \A n \in Node : ToSet(q.movArr[n]) = ToSet(p.movArr[n]) \cup (IF n = u THEN ToSet(p.movArr[v]) ELSE {})
  /\ \A n \in Node \ {u} : q.movArr[n] = p.movArr[n]
  /\ q.color = p.color /\ q.list["SELECT"] = p.list["SELECT"] /\ q.degree = p.degree /\ q.adjSet = p.adjSet
  /\ q.adjArr = p.adjArr /\ q.movState = p.movState /\ q.movNext = p.movNext /\ q.movList = p.movList
  /\ q.failed = IF p.state[v] \in {"FREEZE", "SPILL"} THEN p.failed ELSE p.failed \cup {"combine"}

(* v is merged into u. *)
Merges(p, u, v, q) ==
  LET moved == {t \in p.adjSet[v] : InGraph(p, t)}
  IN  /\ q \in Pass /\ q.color = p.color /\ q.list["SELECT"] = p.list["SELECT"]
      /\ \A n \in Node : q.alias[n] = IF n = v THEN u ELSE p.alias[n]
      /\ \A n \in Node :
           IF n = v THEN q.state[n] = "COALESCED"
           ELSE IF p.state[n] \in Listed THEN q.state[n] \in Listed /\ (q.state[n] = "INITIAL" => p.state[n] = "INITIAL")
           ELSE q.state[n] = p.state[n]
      /\ \A m \in Mov : q.movState[m] = p.movState[m] \/ (MovPending(p, m) /\ q.movState[m] # "ALLOCATED")
      /\ (MoveListOK(p) => MoveListOK(q))
      /\ \A n \in Node : q.adjSet[n] = p.adjSet[n] \cup (IF n \in moved THEN {u} ELSE {})
                                                  \cup (IF n = u THEN moved ELSE {})
      /\ \A n \in Node : ToSet(q.movArr[n]) = ToSet(p.movArr[n]) \cup (IF n = u THEN ToSet(p.movArr[v]) ELSE {})

(* Two nodes may be merged. *)
Mergeable(p, u, v) ==
  /\ u \in Node /\ v \in Node /\ u # v /\ v \notin p.adjSet[u]
  /\ p.state[u] \in (Listed \ {"SIMPLIFY"}) \cup {"PRECOLORED"} /\ p.state[v] \in Listed \ {"SIMPLIFY"}

(* What one turn of coalesce may do. *)
Coalesces(p, q) == Calm(p, q) \/ \E u, v \in Node : Mergeable(p, u, v) /\ Merges(p, u, v, q)

(* n leaves the graph for the select stack. *)
Pushes(p, n, q) ==
  /\ q \in Pass /\ q.alias = p.alias /\ q.color = p.color /\ q.adjSet = p.adjSet /\ q.movArr = p.movArr
  /\ q.list["SELECT"] = <<n>> \o p.list["SELECT"]
  /\ \A m \in Node :
       IF m = n THEN q.state[m] = "SELECT"
       ELSE IF p.state[m] \in Listed THEN q.state[m] \in Listed /\ (q.state[m] = "INITIAL" => p.state[m] = "INITIAL")
       ELSE q.state[m] = p.state[m]
  /\ \A m \in Mov : q.movState[m] = p.movState[m] \/ (MovPending(p, m) /\ q.movState[m] # "ALLOCATED")
  /\ (MoveListOK(p) => MoveListOK(q))

(* n, the head of its list, gets its register or is spilled. *)
Assigns(p, n, c, s, q) ==
  /\ q \in Pass /\ ListsOK(q)
  /\ q.alias = p.alias /\ q.adjSet = p.adjSet /\ q.adjArr = p.adjArr /\ q.failed = p.failed
  /\ q.movState = p.movState /\ q.movNext = p.movNext /\ q.movList = p.movList
  /\ \A m \in Node : q.state[m] = IF m = n THEN s ELSE p.state[m]
  /\ \A m \in Node : q.color[m] = IF m = n THEN c ELSE p.color[m]
  /\ q.list["SELECT"] = IF p.state[n] = "SELECT" THEN Tail(p.list["SELECT"]) ELSE p.list["SELECT"]

(* The colours the neighbours of n have, seen through the aliases g. *)
Taken(p, g, n) == {p.color[g[w]] : w \in {x \in p.adjSet[n] : p.state[g[x]] \in {"COLORED", "PRECOLORED"}}}

(* n is popped off the select stack. *)
Pops(p, g, n, q) ==
  /\ n \in Node /\ p.state[n] = "SELECT" /\ p.list["SELECT"] # <<>> /\ n = Head(p.list["SELECT"])
  /\ \/ Avail \subseteq Taken(p, g, n) /\ Assigns(p, n, NoColor, "SPILLED", q)
     \/ \E c \in Avail \ Taken(p, g, n) : Assigns(p, n, c, "COLORED", q)

(* n shares the fate of the node it was merged into. *)
Inherits(p, g, n, q) ==
  /\ n \in Node /\ p.state[n] = "COALESCED"
  /\ \/ p.color[g[n]] = NoColor /\ Assigns(p, n, NoColor, "SPILLED", q)
     \/ p.color[g[n]] # NoColor /\ Assigns(p, n, p.color[g[n]], "COLORED", q)

(* Where aliases lead once v is merged into u. *)
Redirected(g, u, v) == [m \in Node |-> IF g[m] = v THEN u ELSE g[m]]

(* Move m is given up if it was still to be coalesced. *)
Frees(q, m, r) ==
  \A x \in Mov : r.movState[x] = IF x = m /\ MovPending(q, m) THEN "FROZEN" ELSE q.movState[x]

(* Every node gets its first worklist. *)
Places(p, q) == Calm(p, q) /\ q \in Pass /\ \A n \in Node : q.state[n] # "INITIAL"

(* The neighbours of n by the first i pairs of g. *)
Linked(g, i, n) == {m \in Node : n # m /\ \E j \in 1 .. i : g[j] = <<n, m>> \/ g[j] = <<m, n>>}

(* The first i pairs of g are drawn. *)
Draws(p, g, i, q) ==
  /\ q \in Pass /\ GraphOK(q)
  /\ \A n \in Node : q.adjSet[n] = Linked(g, i, n)
  /\ \A n \in VNode : q.degree[n] = Cardinality(q.adjSet[n])
  /\ q.state = p.state /\ q.list = p.list /\ q.movArr = p.movArr /\ q.alias = p.alias /\ q.color = p.color
  /\ q.movState = p.movState /\ q.movNext = p.movNext /\ q.movList = p.movList /\ q.failed = p.failed

(* The nodes of N are told about move m. *)
Tells(p, N, m, q) ==
  /\ q \in Pass
  /\ \A n \in Node : ToSet(q.movArr[n]) = ToSet(p.movArr[n]) \cup (IF n \in N THEN {m} ELSE {})
  /\ q.state = p.state /\ q.list = p.list /\ q.degree = p.degree /\ q.adjSet = p.adjSet /\ q.adjArr = p.adjArr
  /\ q.alias = p.alias /\ q.color = p.color /\ q.movState = p.movState /\ q.movNext = p.movNext
  /\ q.movList = p.movList /\ q.failed = p.failed

(* The first i moves are to be looked at, and known to their ends. *)
Allocates(p, i, q) ==
  /\ q \in Pass /\ MoveListOK(q)
  /\ \A m \in Mov : q.movState[m] = IF m <= i THEN "WORKLIST" ELSE "ALLOCATED"
  /\ \A m \in Mov : m <= i => m \in ToSet(q.movArr[movs[m].dst]) /\ m \in ToSet(q.movArr[movs[m].src])
  /\ \A n \in Node : \A m \in ToSet(q.movArr[n]) : n \in {movs[m].dst, movs[m].src}
  /\ q.state = p.state /\ q.list = p.list /\ q.degree = p.degree /\ q.adjSet = p.adjSet /\ q.adjArr = p.adjArr
  /\ q.alias = p.alias /\ q.color = p.color /\ q.failed = p.failed

-----------------------------------------------------------------------------
(* The bodies of the loops. *)

AddPair(a, q, e) == AddEdge(q, e[1], e[2])
AllocMove(ms, q, m) == MovAlloc(q, m, ms[m])
PlaceNode(a, q, n) ==
  NodeSetState(q, n, CASE Significant(q, n) -> "SPILL"
                       [] ~Significant(q, n) /\ MoveRelated(q, n) -> "FREEZE"
                       [] OTHER -> "SIMPLIFY")
WakeMove(a, q, m) == IF q.movState[m] = "ACTIVE" THEN MovSetState(q, m, "WORKLIST") ELSE q
WakeAround(a, q, t) == IF InGraph(q, t) THEN EnableMove(q, t) ELSE q
DecrementAround(a, q, t) == IF InGraph(q, t) THEN DecrementDegree(q, t) ELSE q
GiveUp(u, q, m) ==
  LET y == GetAlias(q, movs[m].src)
      v == IF y = GetAlias(q, u) THEN GetAlias(q, movs[m].dst) ELSE y
      checked == Check(q, "freezeActive", q.movState[m] = "ACTIVE")
  IN  IF MovPending(q, m) THEN SimplifyIfIdle(MovSetState(checked, m, "FROZEN"), v, "freezeNode") ELSE q
CountNeighbour(q, a, b) ==
  IF Precolored(q, a) THEN q ELSE [q EXCEPT !.adjArr[a] = Append(@, b), !.degree[a] = @ + 1]
TakeMove(dst, q, m) ==
  IF m \in ToSet(q.movArr[dst]) THEN q ELSE [q EXCEPT !.movArr[dst] = Append(@, m)]
TakeOver(p, u, v) ==
  LET checked == Check(p, "combine", p.state[v] \in {"FREEZE", "SPILL"})
  IN  AddMovesFrom([NodeSetState(checked, v, "COALESCED") EXCEPT !.alias[v] = u], u, v)
RewireAround(u, q, t) == IF InGraph(q, t) THEN Rewire(q, u, t) ELSE q
=============================================================================

------------------------------ MODULE RegAlloc ------------------------------
(***************************************************************************)
(* One round of the register allocator of src/src/jmir_pass.c: iterated    *)
(* register coalescing (George and Appel) over the interference graph of   *)
(* one register class.  The round starts from the graph and the moves that *)
(* jmir_regAlloc_init builds and ends when every node is coloured or       *)
(* spilled.  A node's list is the sequence its m_Next pointers spell, head *)
(* first; the move lists keep their head and m_Next pointers, because      *)
(* jmir_regAlloc_movSetState does not unlink.  A JX_CHECK that is false is *)
(* recorded in "failed" and execution goes on, as in a release build.      *)
(***************************************************************************)
EXTENDS Integers, FiniteSets, SequencesExt

CONSTANTS
  NumHW,       \* hardware registers
  NumVirtual,  \* virtual registers
  Color,       \* colours, one per hardware register
  Avail,       \* m_AvailHWRegs: the colours that may be handed out
  HWColor,     \* colour of every hardware register
  NoColor,     \* UINT32_MAX
  NULL,        \* the null pointer
  Graphs,      \* inputs: sequences of interfering pairs, in program order
  MovSeqs      \* inputs: sequences of moves [dst |-> u, src |-> v]

(* Node IDs, hardware registers first (jx_mir_funcMapRegToBitsetID). *)
HWNode == 1..NumHW
VNode == NumHW + 1 .. NumHW + NumVirtual
Node == HWNode \cup VNode

ASSUME InputAssumption ==
  /\ NumHW \in Nat /\ NumVirtual \in Nat /\ NULL \notin Nat
  /\ Color \subseteq Nat /\ IsFiniteSet(Color) /\ NoColor \notin Color
  /\ Avail \subseteq Color /\ Avail # {}
  /\ HWColor \in [HWNode -> Color]
  /\ \A h, g \in HWNode : HWColor[h] = HWColor[g] => h = g
  /\ Graphs \subseteq Seq(Node \X Node) /\ MovSeqs \subseteq Seq([dst : Node, src : Node])

VARIABLES
  edges,       \* the interference found by liveness
  movs,        \* the move instructions, in program order
  pass,        \* jmir_func_pass_regalloc_t: nodes, moves and their lists
  phase,       \* the loop of jmir_funcPass_regAllocRun that is running
  candidates   \* history: the nodes selectSpill has chosen

vars == <<edges, movs, pass, phase, candidates>>

K == Cardinality(Avail)
Mov == DOMAIN movs

NodeState == {"INITIAL", "PRECOLORED", "SIMPLIFY", "FREEZE", "SPILL",
              "SPILLED", "COALESCED", "COLORED", "SELECT"}
MovState == {"ALLOCATED", "COALESCED", "CONSTRAINED", "FROZEN", "WORKLIST", "ACTIVE"}

Precolored(p, n) == p.state[n] = "PRECOLORED"

(* Mutant: off by one. *)
Significant_OffByOne(p, n) == p.degree[n] > K

Significant(p, n) == p.degree[n] >= K

(* JX_CHECK(ok): only a debug build stops. *)
Check(p, name, ok) == IF ok THEN p ELSE [p EXCEPT !.failed = @ \cup {name}]

-----------------------------------------------------------------------------
(* Lists *)

(* Mutant: a node stays on its old list. *)
NodeSetState_NoUnlink(p, n, s) == [p EXCEPT !.state[n] = s, !.list[s] = <<n>> \o @]

NodeSetState(p, n, s) ==
  LET unlinked == [p.list EXCEPT ![p.state[n]] = RemoveFirst(@, n)]
  IN  [p EXCEPT !.state[n] = s, !.list = [unlinked EXCEPT ![s] = <<n>> \o @]]

(* Only the head of a list is ever unlinked. *)
MovSetState(p, m, s) ==
  LET old == p.movState[m]
      popped == IF p.movList[old] = m THEN [p.movList EXCEPT ![old] = p.movNext[m]] ELSE p.movList
  IN  [p EXCEPT !.movState[m] = s,
                !.movNext[m] = popped[s],
                !.movList = [popped EXCEPT ![s] = m]]

(* jmir_regAlloc_nodeAdjacentIterNext: the neighbours still in the graph. *)
InGraph(p, n) == p.state[n] \notin {"SELECT", "COALESCED"}
Adjacent(p, n) == {t \in ToSet(p.adjArr[n]) : InGraph(p, t)}
ForAdjacent(p, n, Op(_, _)) ==
  FoldLeft(LAMBDA q, t : IF InGraph(q, t) THEN Op(q, t) ELSE q, p, p.adjArr[n])

GetAlias(p, n) ==
  LET alias[m \in Node] == IF p.state[m] = "COALESCED" THEN alias[p.alias[m]] ELSE m
  IN  alias[n]

MovPending(p, m) == p.movState[m] \in {"ACTIVE", "WORKLIST"}
MoveRelated(p, n) == \E m \in ToSet(p.movArr[n]) : MovPending(p, m)

-----------------------------------------------------------------------------
(* Building the graph *)

(* Mutant: the second node does not count its new neighbour. *)
AddEdge_OneSided(p, u, v) ==
  LET set == [p EXCEPT !.adjSet[u] = @ \cup {v}, !.adjSet[v] = @ \cup {u}]
  IN  IF u = v \/ v \in p.adjSet[u] \/ Precolored(p, u) THEN p
      ELSE [set EXCEPT !.adjArr[u] = Append(@, v), !.degree[u] = @ + 1]

AddEdge(p, u, v) ==
  LET Link(q, a, b) == IF Precolored(q, a) THEN q
                       ELSE [q EXCEPT !.adjArr[a] = Append(@, b), !.degree[a] = @ + 1]
      set == [p EXCEPT !.adjSet[u] = @ \cup {v}, !.adjSet[v] = @ \cup {u}]
  IN  IF u = v \/ v \in p.adjSet[u] THEN p ELSE Link(Link(set, u, v), v, u)

(* A new move is in the move array of both its ends. *)
MovAlloc(p, m, mov) ==
  LET dst == [p EXCEPT !.movArr[mov.dst] = Append(@, m)]
      both == IF mov.dst = mov.src THEN dst ELSE [dst EXCEPT !.movArr[mov.src] = Append(@, m)]
  IN  MovSetState(both, m, "WORKLIST")

(* Every node in its first list, no edges: jmir_regAlloc_nodeInit for all. *)
EmptyPass(ms) ==
  LET Pushed(first, len) == [i \in 1..len |-> first + len - i]
  IN [ state |-> [n \in Node |-> IF n \in HWNode THEN "PRECOLORED" ELSE "INITIAL"],
       list |-> [s \in NodeState |-> CASE s = "PRECOLORED" -> Pushed(1, NumHW)
                                       [] s = "INITIAL" -> Pushed(NumHW + 1, NumVirtual)
                                       [] OTHER -> <<>>],
       degree |-> [n \in Node |-> 0],
       adjSet |-> [n \in Node |-> {}],
       adjArr |-> [n \in Node |-> <<>>],
       movArr |-> [n \in Node |-> <<>>],
       alias |-> [n \in Node |-> NULL],
       color |-> [n \in Node |-> IF n \in HWNode THEN HWColor[n] ELSE NoColor],
       movState |-> [m \in DOMAIN ms |-> "ALLOCATED"],
       movNext |-> [m \in DOMAIN ms |-> NULL],
       movList |-> [s \in MovState |-> NULL],
       failed |-> {} ]

(* jmir_regAlloc_init: edges and moves touch different fields. *)
Build(g, ms) ==
  LET graph == FoldLeft(LAMBDA p, e : AddEdge(p, e[1], e[2]), EmptyPass(ms), g)
  IN  FoldLeft(LAMBDA p, m : MovAlloc(p, m, ms[m]), graph, [m \in DOMAIN ms |-> m])

Init ==
  \E g \in Graphs, ms \in MovSeqs :
    /\ edges = [n \in Node |-> {m \in Node : n # m /\ (<<n, m>> \in ToSet(g) \/ <<m, n>> \in ToSet(g))}]
    /\ movs = ms
    /\ pass = Build(g, ms)
    /\ phase = "makeWorklist"
    /\ candidates = {}

-----------------------------------------------------------------------------
(* Steps on nodes and moves *)

(* Mutant: moves that were given up are woken too. *)
EnableMove_Any(p, n) ==
  FoldLeft(LAMBDA q, m : IF q.movState[m] # "WORKLIST" THEN MovSetState(q, m, "WORKLIST") ELSE q,
           p, p.movArr[n])

EnableMove(p, n) ==
  FoldLeft(LAMBDA q, m : IF q.movState[m] = "ACTIVE" THEN MovSetState(q, m, "WORKLIST") ELSE q,
           p, p.movArr[n])

(* A node that stops being significant wakes the moves around it. *)
DecrementDegree(p, n) ==
  LET dec == [p EXCEPT !.degree[n] = @ - 1]
      woken == ForAdjacent(EnableMove(dec, n), n, EnableMove)
      checked == Check(woken, "decrement", woken.state[n] = "SPILL")
  IN  CASE Precolored(p, n) -> p
        [] ~Precolored(p, n) /\ p.degree[n] # K -> dec
        [] OTHER -> NodeSetState(checked, n, IF MoveRelated(checked, n) THEN "FREEZE" ELSE "SIMPLIFY")

(* A node with no moves left that is not significant can be simplified. *)
SimplifyIfIdle(p, n, name) ==
  IF Precolored(p, n) \/ MoveRelated(p, n) \/ Significant(p, n) THEN p
  ELSE NodeSetState(Check(p, name, p.state[n] = "FREEZE"), n, "SIMPLIFY")

AddWorklist(p, n) == SimplifyIfIdle(p, n, "addWorklist")

(* George's test against a hardware register, Briggs' test otherwise. *)
CanCombine(p, u, v) ==
  IF Precolored(p, u)
  THEN \A t \in Adjacent(p, v) : ~Significant(p, t) \/ Precolored(p, t) \/ t \in p.adjSet[u]
  ELSE Cardinality({t \in Adjacent(p, u) : Significant(p, t)})
         + Cardinality({t \in Adjacent(p, v) : Significant(p, t) /\ t \notin p.adjSet[u]}) < K

AddMovesFrom(p, dst, src) ==
  FoldLeft(LAMBDA q, m : IF m \in ToSet(q.movArr[dst]) THEN q
                         ELSE [q EXCEPT !.movArr[dst] = Append(@, m)],
           p, p.movArr[src])

(* Mutant: u is not told about its new neighbour. *)
Rewire_NoEdge(p, u, t) == DecrementDegree(p, t)

(* A neighbour t of the coalesced v becomes one of u, and v leaves it. *)
Rewire(p, u, t) ==
  LET linked == AddEdge(p, t, u)
      grown == IF ~Significant(p, t) /\ Significant(linked, t)
               THEN NodeSetState(Check(linked, "rewire", linked.state[t] = "FREEZE"), t, "SPILL")
               ELSE linked
  IN  DecrementDegree(grown, t)

SpillIfSignificant(p, u) ==
  IF Significant(p, u) /\ p.state[u] = "FREEZE" THEN NodeSetState(p, u, "SPILL") ELSE p

(* u takes over the moves and the neighbours of v. *)
Combine(p, u, v) ==
  LET checked == Check(p, "combine", p.state[v] \in {"FREEZE", "SPILL"})
      merged == [NodeSetState(checked, v, "COALESCED") EXCEPT !.alias[v] = u]
      RewireTo(q, t) == Rewire(q, u, t)
  IN  SpillIfSignificant(ForAdjacent(AddMovesFrom(merged, u, v), v, RewireTo), u)

(* Mutant: the move is looked at again at once. *)
Defer_Requeue(p, m) == MovSetState(p, m, "WORKLIST")

(* The move waits until one of its neighbours stops being significant. *)
Defer(p, m) == MovSetState(p, m, "ACTIVE")

(* Give up coalescing the moves of u. *)
FreezeMoves(p, u) ==
  LET FreezeMove(q, m) ==
        LET y == GetAlias(q, movs[m].src)
            v == IF y = GetAlias(q, u) THEN GetAlias(q, movs[m].dst) ELSE y
            checked == Check(q, "freezeActive", q.movState[m] = "ACTIVE")
        IN  IF MovPending(q, m)
            THEN SimplifyIfIdle(MovSetState(checked, m, "FROZEN"), v, "freezeNode")
            ELSE q
  IN  FoldLeft(FreezeMove, p, p.movArr[u])

-----------------------------------------------------------------------------
(* The main loop of jmir_funcPass_regAllocRun *)

Empty(s) == pass.list[s] = <<>>
NoWorkMoves == pass.movList["WORKLIST"] = NULL

MakeWorklist ==
  /\ phase = "makeWorklist"
  /\ LET Place(p, n) == NodeSetState(p, n, CASE Significant(p, n) -> "SPILL"
                                             [] ~Significant(p, n) /\ MoveRelated(p, n) -> "FREEZE"
                                             [] OTHER -> "SIMPLIFY")
     IN  pass' = FoldLeft(Place, pass, pass.list["INITIAL"])
  /\ phase' = "worklists"
  /\ UNCHANGED <<edges, movs, candidates>>

Simplify ==
  /\ phase = "worklists" /\ ~Empty("SIMPLIFY")
  /\ LET n == Head(pass.list["SIMPLIFY"])
     IN  pass' = ForAdjacent(NodeSetState(pass, n, "SELECT"), n, DecrementDegree)
  /\ UNCHANGED <<edges, movs, phase, candidates>>

Coalesce ==
  /\ phase = "worklists" /\ Empty("SIMPLIFY") /\ ~NoWorkMoves
  /\ LET m == pass.movList["WORKLIST"]
         x == GetAlias(pass, movs[m].dst)
         y == GetAlias(pass, movs[m].src)
         u == IF Precolored(pass, y) THEN y ELSE x
         v == IF Precolored(pass, y) THEN x ELSE y
         Becomes(s) == MovSetState(pass, m, s)
     IN  pass' = CASE u = v -> AddWorklist(Becomes("COALESCED"), u)
                   [] u # v /\ (Precolored(pass, v) \/ v \in pass.adjSet[u]) ->
                        AddWorklist(AddWorklist(Becomes("CONSTRAINED"), u), v)
                   [] u # v /\ ~Precolored(pass, v) /\ v \notin pass.adjSet[u] /\ CanCombine(pass, u, v) ->
                        AddWorklist(Combine(Becomes("COALESCED"), u, v), u)
                   [] OTHER -> Defer(pass, m)
  /\ UNCHANGED <<edges, movs, phase, candidates>>

(* Mutant: moves are given up while others may still be coalesced. *)
Freeze_TooEarly ==
  /\ phase = "worklists" /\ Empty("SIMPLIFY") /\ ~Empty("FREEZE")
  /\ LET n == Head(pass.list["FREEZE"])
     IN  pass' = FreezeMoves(NodeSetState(pass, n, "SIMPLIFY"), n)
  /\ UNCHANGED <<edges, movs, phase, candidates>>

Freeze ==
  /\ phase = "worklists" /\ Empty("SIMPLIFY") /\ NoWorkMoves /\ ~Empty("FREEZE")
  /\ LET n == Head(pass.list["FREEZE"])
     IN  pass' = FreezeMoves(NodeSetState(pass, n, "SIMPLIFY"), n)
  /\ UNCHANGED <<edges, movs, phase, candidates>>

(* The cheapest candidate: costs are not modelled, so any of them. *)
SelectSpill(n) ==
  /\ phase = "worklists" /\ Empty("SIMPLIFY") /\ NoWorkMoves /\ Empty("FREEZE")
  /\ n \in ToSet(pass.list["SPILL"])
  /\ pass' = FreezeMoves(NodeSetState(Check(pass, "spillDegree", pass.degree[n] # 0), n, "SIMPLIFY"), n)
  /\ candidates' = candidates \cup {n}
  /\ UNCHANGED <<edges, movs, phase>>

StartAssign ==
  /\ phase = "worklists"
  /\ Empty("SIMPLIFY") /\ NoWorkMoves /\ Empty("FREEZE") /\ Empty("SPILL")
  /\ phase' = "assignColors"
  /\ UNCHANGED <<edges, movs, pass, candidates>>

(* The top of the select stack gets the lowest free colour, if there is one. *)
AssignColor ==
  /\ phase = "assignColors" /\ ~Empty("SELECT")
  /\ LET n == Head(pass.list["SELECT"])
         roots == {GetAlias(pass, w) : w \in ToSet(pass.adjArr[n])}
         free == Avail \ {pass.color[w] : w \in {r \in roots : pass.state[r] \in {"COLORED", "PRECOLORED"}}}
     IN  pass' = IF free = {} THEN NodeSetState(pass, n, "SPILLED")
                 ELSE NodeSetState([pass EXCEPT !.color[n] = Min(free)], n, "COLORED")
  /\ UNCHANGED <<edges, movs, phase, candidates>>

(* A coalesced node takes the colour of its alias, or is spilled with it. *)
AssignCoalesced ==
  /\ phase = "assignColors" /\ Empty("SELECT") /\ ~Empty("COALESCED")
  /\ LET n == Head(pass.list["COALESCED"])
         c == pass.color[GetAlias(pass, n)]
     IN  pass' = IF c = NoColor THEN NodeSetState(pass, n, "SPILLED")
                 ELSE NodeSetState([pass EXCEPT !.color[n] = c], n, "COLORED")
  /\ UNCHANGED <<edges, movs, phase, candidates>>

(* Either some register is spilled and a new round starts, or all are replaced. *)
Finish ==
  /\ phase = "assignColors" /\ Empty("SELECT") /\ Empty("COALESCED")
  /\ phase' = IF Empty("SPILLED") THEN "replaceRegs" ELSE "spill"
  /\ UNCHANGED <<edges, movs, pass, candidates>>

Finished == phase \in {"spill", "replaceRegs"}

(* The round is over. *)
Done == Finished /\ UNCHANGED vars

Next ==
  \/ MakeWorklist \/ Simplify \/ Coalesce \/ Freeze
  \/ \E n \in Node : SelectSpill(n)
  \/ StartAssign \/ AssignColor \/ AssignCoalesced \/ Finish \/ Done

Spec == Init /\ [][Next]_vars

-----------------------------------------------------------------------------
(* Properties *)

(* Every node is on exactly the list of its state, once; a move's state and
   the arrays range over what they should.                                 *)
TypeOK ==
  /\ phase \in {"makeWorklist", "worklists", "assignColors", "spill", "replaceRegs"}
  /\ candidates \subseteq VNode
  /\ pass.state \in [Node -> NodeState]
  /\ pass.color \in [Node -> Color \cup {NoColor}]
  /\ pass.movState \in [Mov -> MovState \ {"ALLOCATED"}]
  /\ \A s \in NodeState :
       /\ ToSet(pass.list[s]) = {n \in Node : pass.state[n] = s}
       /\ IsInjective(pass.list[s])

Listed == {"INITIAL", "SIMPLIFY", "FREEZE", "SPILL"}

(* m_Degree of a register that is still in the graph is the number of its
   neighbours that are too, whatever was simplified or combined: it never
   wraps below zero, and the tests against the number of colours mean what
   they say (addEdge, nodeDecrementDegree, combineNodes).                  *)
DegreeIsLiveNeighbours ==
  \A n \in VNode : pass.state[n] \in Listed =>
    pass.degree[n] = Cardinality({t \in pass.adjSet[n] : InGraph(pass, t)})

(* When the loop takes its next step, each worklist holds what its name
   promises; without it a node could wait on a list no step looks at.      *)
WorklistsMeanWhatTheySay ==
  phase = "worklists" =>
    /\ Empty("INITIAL")
    /\ \A n \in ToSet(pass.list["FREEZE"]) : ~Significant(pass, n) /\ MoveRelated(pass, n)
    /\ \A n \in ToSet(pass.list["SPILL"]) : Significant(pass, n)
    /\ \A n \in ToSet(pass.list["SIMPLIFY"]) : n \notin candidates => ~Significant(pass, n)

(* The moves reached from head h along m_Next, at most "fuel" of them. *)
Chain(h) ==
  LET walk[fuel \in 0..Len(movs)] ==
        IF fuel = 0 THEN <<h>>
        ELSE LET c == walk[fuel - 1]
             IN  IF c[Len(c)] = NULL THEN c ELSE Append(c, pass.movNext[c[Len(c)]])
  IN  walk[Len(movs)]

(* The moves that m_MoveList[s] leads to are the moves in state s. *)
ListIntact(s) ==
  LET c == Chain(pass.movList[s])
  IN  /\ c[Len(c)] = NULL
      /\ ToSet(c) \ {NULL} = {m \in Mov : pass.movState[m] = s}

(* The list that coalesce consumes loses no move and has no cycle although
   movSetState only unlinks the head of a list.                            *)
MoveWorklistIntact == ListIntact("WORKLIST")

(* The three redundant descriptions of the graph agree after every step of
   the loop: counted degrees, worklists and the linked list of moves.      *)
Bookkeeping == DegreeIsLiveNeighbours /\ WorklistsMeanWhatTheySay /\ MoveWorklistIntact

(* Two registers live at the same time never get the same colour, through
   any chain of coalesced registers.                                       *)
ValidColoring ==
  \A n \in Node : \A m \in edges[n] :
    pass.color[n] # NoColor /\ pass.color[m] # NoColor => pass.color[n] # pass.color[m]

(* Only virtual registers are spilled, and only because selectSpill gave up
   on them or on what they were merged into: a register that was simplified
   with fewer neighbours than colours always finds a colour.               *)
SpillsWereCandidates ==
  \A n \in Node : pass.state[n] = "SPILLED" =>
    /\ n \in VNode
    /\ n \in candidates \/ pass.alias[n] # NULL

(* Every JX_CHECK of the round holds but one: a node whose degree falls below
   the number of colours was waiting to be spilled, one that loses its last
   move was waiting to be frozen, and no move is still to be coalesced when
   moves are given up (nodeDecrementDegree, nodeAddWorklist, combineNodes,
   selectSpill).  The check of nodeFreezeMoves that the other end of the move
   was on the freeze worklist fails when both ends are by now the same node.  *)
ChecksHold == pass.failed \subseteq {"freezeNode"}

StaysOut ==
  /\ phase' = "worklists" =>
       \A n \in Node : pass.state[n] \in {"SELECT", "COALESCED"} => pass'.state[n] = pass.state[n]
  /\ \A m \in Mov : pass.movState[m] \in {"COALESCED", "CONSTRAINED", "FROZEN"} =>
       pass'.movState[m] = pass.movState[m]

(* What has left the graph never comes back while the graph is reduced, and
   a move given up for good is never looked at again.                      *)
NoComeback == [][StaysOut]_vars

-----------------------------------------------------------------------------
(* The round implements ColoringStack. *)

KindOf(p) == [n \in Node |-> IF p.state[n] \in Listed THEN "LIVE" ELSE p.state[n]]

(* The node each node was merged into, however it is coloured by now. *)
RootOf(p) ==
  LET root[m \in Node] == IF p.alias[m] = NULL THEN m ELSE root[p.alias[m]]
  IN  root

(* The height of each node on the select stack. *)
RankOf(p) ==
  LET stack == p.list["SELECT"]
  IN  [n \in Node |-> IF p.state[n] # "SELECT" THEN 0
                      ELSE Len(stack) + 1 - CHOOSE i \in DOMAIN stack : stack[i] = n]

CS == INSTANCE ColoringStack WITH
        kind <- KindOf(pass),
        adj <- pass.adjSet,
        rep <- RootOf(pass),
        rank <- RankOf(pass),
        height <- Len(pass.list["SELECT"]),
        color <- pass.color,
        pushing <- phase \in {"makeWorklist", "worklists"}

(* Whatever order the worklists impose, a round is a sequence of the pushes,
   merges and pops of ColoringStack.                                       *)
ImplementsColoringStack == CS!Spec
=============================================================================

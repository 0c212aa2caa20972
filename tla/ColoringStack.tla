--------------------------- MODULE ColoringStack ---------------------------
(***************************************************************************)
(* What one round of the register allocator (src/src/jmir_pass.c) promises:*)
(* an optimistic graph colouring with coalescing.  Degrees, the four       *)
(* worklists and the move lists only decide WHICH node is simplified or    *)
(* coalesced next, so they are absent here: any live virtual register may  *)
(* be pushed on the select stack and any two live registers that do not    *)
(* interfere may be merged.  RegAlloc is the detailed algorithm and        *)
(* implements this module.                                                 *)
(***************************************************************************)
EXTENDS Integers, FiniteSets

CONSTANTS
  Node,        \* the nodes of the interference graph
  HWNode,      \* the nodes of the hardware registers
  Color,       \* colours, one per hardware register
  Avail,       \* colours the allocator may hand out (not RSP and RBP)
  HWColor,     \* colour of every hardware register
  NoColor      \* UINT32_MAX

ASSUME NodeAssumption ==
  /\ HWNode \subseteq Node
  /\ Avail \subseteq Color
  /\ HWColor \in [HWNode -> Color]
  /\ NoColor \notin Color

(* Distinct hardware registers have distinct colours. *)
ASSUME HWColorAssumption ==
  \A h, g \in HWNode : HWColor[h] = HWColor[g] => h = g

VARIABLES
  edges,       \* interference between registers found by liveness; never changes
  kind,        \* where each node is: see Kind
  adj,         \* m_AdjacentSet of each node, grown when nodes are combined
  rep,         \* the node each node is merged into (itself if none)
  rank,        \* position of a node on the select stack, 0 if not on it
  height,      \* height of the select stack
  color,       \* m_Color
  pushing      \* TRUE until assignColors starts

vars == <<edges, kind, adj, rep, rank, height, color, pushing>>

VNode == Node \ HWNode

(* "LIVE" stands for the initial, simplify, freeze and spill lists. *)
Kind == {"PRECOLORED", "LIVE", "SELECT", "COALESCED", "COLORED", "SPILLED"}

(* Interference is a symmetric and irreflexive relation on the nodes. *)
IsInterference(E) ==
  /\ E \in [Node -> SUBSET Node]
  /\ \A n \in Node : n \notin E[n]
  /\ \A n, m \in Node : m \in E[n] => n \in E[m]

Init ==
  /\ IsInterference(edges)
  /\ adj = edges
  /\ kind = [n \in Node |-> IF n \in HWNode THEN "PRECOLORED" ELSE "LIVE"]
  /\ rep = [n \in Node |-> n]
  /\ rank = [n \in Node |-> 0]
  /\ height = 0
  /\ color = [n \in Node |-> IF n \in HWNode THEN HWColor[n] ELSE NoColor]
  /\ pushing = TRUE

(* Mutant: hardware registers are forgotten. *)
InGraph_LiveOnly(n) == kind[n] = "LIVE"

InGraph(n) == kind[n] \in {"PRECOLORED", "LIVE"}

-----------------------------------------------------------------------------
(* A live virtual register leaves the graph and goes on the stack. *)
Push(n) ==
  /\ pushing
  /\ kind[n] = "LIVE"
  /\ kind' = [kind EXCEPT ![n] = "SELECT"]
  /\ height' = height + 1
  /\ rank' = [rank EXCEPT ![n] = height + 1]
  /\ UNCHANGED <<edges, adj, rep, color, pushing>>

(* v is merged into u: only neighbours still in the graph learn about u. *)
Combine(u, v) ==
  /\ pushing
  /\ InGraph(u) /\ kind[v] = "LIVE" /\ u # v
  /\ v \notin adj[u]
  /\ kind' = [kind EXCEPT ![v] = "COALESCED"]
  /\ rep' = [n \in Node |-> IF rep[n] = v THEN u ELSE rep[n]]
  /\ LET moved == {t \in adj[v] : InGraph(t)}
     IN  adj' = [n \in Node |->
                   (IF n \in moved THEN adj[n] \cup {u} ELSE adj[n])
                     \cup (IF n = u THEN moved ELSE {})]
  /\ UNCHANGED <<edges, rank, height, color, pushing>>

StartAssign ==
  /\ pushing
  /\ \A n \in Node : kind[n] # "LIVE"
  /\ pushing' = FALSE
  /\ UNCHANGED <<edges, kind, adj, rep, rank, height, color>>

(* Mutant: coalesced neighbours are not followed to their root. *)
Forbidden_NoAlias(n) ==
  {color[w] : w \in {x \in adj[n] : kind[x] \in {"COLORED", "PRECOLORED"}}}

(* The colours of the coloured neighbours of n, seen through coalescing. *)
Forbidden(n) ==
  {color[rep[w]] : w \in {x \in adj[n] : kind[rep[x]] \in {"COLORED", "PRECOLORED"}}}

(* The top of the stack gets a free colour, or is spilled if there is none. *)
Pop(n) ==
  /\ ~pushing
  /\ kind[n] = "SELECT"
  /\ rank[n] = height
  /\ height' = height - 1
  /\ rank' = [rank EXCEPT ![n] = 0]
  /\ \/ /\ Avail \subseteq Forbidden(n)
        /\ kind' = [kind EXCEPT ![n] = "SPILLED"]
        /\ UNCHANGED color
     \/ \E c \in Avail \ Forbidden(n) :
          /\ kind' = [kind EXCEPT ![n] = "COLORED"]
          /\ color' = [color EXCEPT ![n] = c]
  /\ UNCHANGED <<edges, adj, rep, pushing>>

(* Mutant: it does not wait for the stack to be empty. *)
Inherit_TooEarly(n) ==
  /\ ~pushing
  /\ kind[n] = "COALESCED"
  /\ color' = [color EXCEPT ![n] = color[rep[n]]]
  /\ kind' = [kind EXCEPT ![n] = IF color[rep[n]] = NoColor THEN "SPILLED" ELSE "COLORED"]
  /\ UNCHANGED <<edges, adj, rep, rank, height, pushing>>

(* A coalesced node takes the fate of the node it was merged into. *)
Inherit(n) ==
  /\ ~pushing
  /\ \A m \in Node : kind[m] # "SELECT"
  /\ kind[n] = "COALESCED"
  /\ color' = [color EXCEPT ![n] = color[rep[n]]]
  /\ kind' = [kind EXCEPT ![n] = IF color[rep[n]] = NoColor THEN "SPILLED" ELSE "COLORED"]
  /\ UNCHANGED <<edges, adj, rep, rank, height, pushing>>

Next ==
  \/ \E n \in Node : Push(n) \/ Pop(n) \/ Inherit(n)
  \/ \E u, v \in Node : Combine(u, v)
  \/ StartAssign

Spec == Init /\ [][Next]_vars

-----------------------------------------------------------------------------
TypeOK ==
  /\ IsInterference(edges)
  /\ kind \in [Node -> Kind]
  /\ adj \in [Node -> SUBSET Node]
  /\ rep \in [Node -> Node]
  /\ rank \in [Node -> Nat]
  /\ height \in Nat
  /\ color \in [Node -> Color \cup {NoColor}]
  /\ pushing \in BOOLEAN

(* Registers that interfere never end up in the same hardware register. *)
ValidColoring ==
  \A n \in Node : \A m \in edges[n] :
    (color[n] # NoColor /\ color[m] # NoColor) => color[n] # color[m]

(* Registers merged by coalescing end up in the same place.  *)
MergedAgree ==
  \A n \in Node :
    kind[n] \in {"COLORED", "SPILLED"} => color[n] = color[rep[n]]

-----------------------------------------------------------------------------
(* The inductive invariant behind ValidColoring.                           *)

(* a will see the colour of b when it is popped. *)
Sees(a, b) == \E w \in adj[a] : rep[w] = b

(* A register that stands for itself. *)
Root(n) == rep[n] = n

(* Two interfering classes, by where their roots are. *)
Apart(a, b) ==
  /\ a # b
  /\ (InGraph(a) /\ InGraph(b)) => b \in adj[a]
  /\ (kind[a] = "SELECT" /\ kind[b] # "SELECT") => Sees(a, b)
  /\ (kind[a] = "SELECT" /\ kind[b] = "SELECT" /\ rank[a] < rank[b]) => Sees(a, b)
  /\ (color[a] # NoColor /\ color[b] # NoColor) => color[a] # color[b]

RepInv ==
  /\ \A n \in Node : rep[rep[n]] = rep[n]
  /\ \A n \in Node : (kind[n] \in {"PRECOLORED", "LIVE", "SELECT"}) => Root(n)
  /\ \A n \in Node : (kind[n] = "COALESCED") => ~Root(n)
  /\ \A n \in Node : kind[rep[n]] # "COALESCED"

StackInv ==
  /\ \A n \in Node : kind[n] = "SELECT" <=> rank[n] > 0
  /\ \A n \in Node : rank[n] <= height
  /\ \A n, m \in Node : (rank[n] = rank[m] /\ rank[n] > 0) => n = m

ColorInv ==
  /\ \A n \in HWNode : kind[n] = "PRECOLORED" /\ color[n] = HWColor[n]
  /\ \A n \in VNode : kind[n] # "PRECOLORED"
  /\ \A n \in Node : color[n] # NoColor <=> kind[n] \in {"PRECOLORED", "COLORED"}
  /\ \A n \in Node : (color[n] # NoColor \/ kind[n] = "SPILLED") => color[n] = color[rep[n]]
  /\ \A n \in Node : (kind[n] = "SPILLED") => (kind[rep[n]] = "SPILLED")
  /\ pushing => \A n \in Node : kind[n] \notin {"COLORED", "SPILLED"}
  /\ ~pushing => \A n \in Node : kind[n] # "LIVE"

ApartInv ==
  /\ \A n, m \in Node : m \in adj[n] <=> n \in adj[m]
  /\ \A n \in Node : \A m \in edges[n] : Apart(rep[n], rep[m])

IInv == TypeOK /\ RepInv /\ StackInv /\ ColorInv /\ ApartInv
=============================================================================

------------------------ MODULE ColoringStackProofs ------------------------
(***************************************************************************)
(* ColoringStack keeps interfering registers apart, for any number of      *)
(* registers, any interference and any order of pushes and merges.         *)
(***************************************************************************)
EXTENDS ColoringStack, TLAPS

USE NodeAssumption DEF Kind

(* The initial states satisfy the invariant: every register is its own root. *)
LEMMA InitIInv == Init => IInv
<1> SUFFICES ASSUME Init PROVE IInv
  OBVIOUS
<1>1. IsInterference(edges)
  BY DEF Init
<1>2. TypeOK
  BY <1>1 DEF Init, TypeOK, IsInterference
<1>3. RepInv
  BY DEF Init, RepInv, Root
<1>4. StackInv
  BY DEF Init, StackInv
<1>5. ColorInv
  BY DEF Init, ColorInv, VNode
<1>6. ApartInv
  <2>1. \A n, m \in Node : m \in adj[n] <=> n \in adj[m]
    BY <1>1 DEF Init, IsInterference
  <2>2. ASSUME NEW n \in Node, NEW m \in edges[n]
        PROVE  Apart(rep[n], rep[m])
    <3>1. m \in Node /\ n # m /\ rep[n] = n /\ rep[m] = m /\ m \in adj[n]
      BY <1>1, <2>2 DEF Init, IsInterference
    <3>2. kind[n] # "SELECT" /\ kind[m] # "SELECT"
      BY <3>1 DEF Init
    <3>3. (color[n] # NoColor /\ color[m] # NoColor) => color[n] # color[m]
      BY <3>1, HWColorAssumption DEF Init
    <3> QED
      BY <3>1, <3>2, <3>3 DEF Apart
  <2> QED
    BY <2>1, <2>2 DEF ApartInv
<1> QED
  BY <1>2, <1>3, <1>4, <1>5, <1>6 DEF IInv

-----------------------------------------------------------------------------
(* Pushing a node keeps the invariant: what it interferes with is either
   still in the graph, next to it, or on the stack below it.               *)
LEMMA PushIInv ==
  ASSUME IInv, NEW n \in Node, Push(n)
  PROVE  IInv'
<1> USE DEF IInv, Push
<1>1. TypeOK'
  BY DEF TypeOK, IsInterference
<1>2. RepInv'
  BY DEF TypeOK, RepInv, Root
<1>3. StackInv'
  BY DEF TypeOK, StackInv
<1>4. ColorInv'
  BY DEF TypeOK, ColorInv, VNode
<1>5. ApartInv'
  <2>1. ASSUME NEW x \in Node, NEW y \in edges[x]
        PROVE  Apart(rep[x], rep[y])'
    <3>1. y \in Node /\ Apart(rep[x], rep[y])
      BY <2>1 DEF TypeOK, ApartInv, IsInterference
    <3>a. PICK a \in Node : a = rep[x]
      BY DEF TypeOK
    <3>b. PICK b \in Node : b = rep[y]
      BY <3>1 DEF TypeOK
    <3>c. Apart(a, b)
      BY <3>1, <3>a, <3>b
    <3>2. rep[a] = a /\ rep[b] = b
      BY <3>1, <3>a, <3>b DEF TypeOK, RepInv
    <3>3. \A s, t \in Node : Sees(s, t) => Sees(s, t)'
      BY DEF Sees
    <3>4. b \in adj[a] => Sees(a, b)
      BY <3>2 DEF Sees
    <3>5. (kind'[a] = "SELECT" /\ kind'[b] # "SELECT") => Sees(a, b)
      <4>1. CASE a = n
        <5>1. kind[a] = "LIVE" /\ b # n => kind'[b] = kind[b]
          BY <4>1, <3>2 DEF TypeOK
        <5>2. kind[b] \in {"PRECOLORED", "LIVE"} \/ kind'[b] = "SELECT"
          BY <3>2, <4>1 DEF TypeOK, ColorInv, RepInv
        <5> QED
          BY <3>c, <3>2, <3>4, <4>1, <5>1, <5>2 DEF TypeOK, Apart, InGraph
      <4>2. CASE a # n
        BY <3>c, <3>2, <4>2 DEF TypeOK, Apart
      <4> QED
        BY <4>1, <4>2
    <3>6. (kind'[a] = "SELECT" /\ kind'[b] = "SELECT" /\ rank'[a] < rank'[b]) => Sees(a, b)
      <4>1. CASE a = n
        BY <3>c, <3>2, <4>1 DEF TypeOK, Apart, StackInv
      <4>2. CASE a # n
        BY <3>c, <3>2, <4>2 DEF TypeOK, Apart
      <4> QED
        BY <4>1, <4>2
    <3>7. (InGraph(a) /\ InGraph(b))' => b \in adj[a]
      BY <3>c, <3>2 DEF TypeOK, Apart, InGraph
    <3> QED
      BY <3>a, <3>b, <3>c, <3>3, <3>5, <3>6, <3>7 DEF Apart
  <2> QED
    BY <2>1 DEF ApartInv, TypeOK
<1> QED
  BY <1>1, <1>2, <1>3, <1>4, <1>5

(* Merging v into u keeps the invariant: what v interferes with and is still
   in the graph becomes a neighbour of u, and what is already on the stack
   keeps v as a neighbour, which now stands for u.                         *)
LEMMA CombineIInv ==
  ASSUME IInv, NEW u \in Node, NEW v \in Node, Combine(u, v)
  PROVE  IInv'
<1> DEFINE moved == {t \in adj[v] : InGraph(t)}
<1> USE DEF IInv, Combine
<1>1. TypeOK'
  BY DEF TypeOK, IsInterference
<1>2. /\ rep[u] = u /\ rep[v] = v /\ kind[u] # "COALESCED"
      /\ \A n \in Node : rep'[n] = IF rep[n] = v THEN u ELSE rep[n]
  BY DEF TypeOK, RepInv, Root, InGraph
<1>3. RepInv'
  BY <1>2 DEF TypeOK, RepInv, Root, InGraph
<1>4. StackInv'
  BY DEF TypeOK, StackInv
<1>5. ColorInv'
  BY <1>2 DEF TypeOK, ColorInv, VNode, RepInv, InGraph
<1>6. ApartInv'
  <2>1. \A n \in Node : adj'[n] = (IF n \in moved THEN adj[n] \cup {u} ELSE adj[n])
                                    \cup (IF n = u THEN moved ELSE {})
    OBVIOUS
  <2>2. moved \subseteq Node /\ moved \subseteq adj[v] /\ \A t \in moved : InGraph(t)
    BY DEF TypeOK
  <2>3. \A n, m \in Node : m \in adj'[n] <=> n \in adj'[m]
    BY <2>1, <2>2 DEF ApartInv, TypeOK
  <2>4. ASSUME NEW x \in Node, NEW y \in edges[x]
        PROVE  Apart(rep[x], rep[y])'
    <3>0. y \in Node /\ Apart(rep[x], rep[y]) /\ Apart(rep[y], rep[x])
      BY <2>4 DEF TypeOK, ApartInv, IsInterference
    <3>a. PICK a \in Node : a = rep[x]
      BY DEF TypeOK
    <3>b. PICK b \in Node : b = rep[y]
      BY <3>0 DEF TypeOK
    <3>1. Apart(a, b) /\ Apart(b, a)
      BY <3>0, <3>a, <3>b
    <3>2. /\ rep[a] = a /\ rep[b] = b
          /\ kind[a] # "COALESCED" /\ kind[b] # "COALESCED"
      BY <3>0, <3>a, <3>b DEF TypeOK, RepInv
    <3>3. rep'[x] = (IF a = v THEN u ELSE a) /\ rep'[y] = (IF b = v THEN u ELSE b)
      BY <1>2, <3>0, <3>a, <3>b
    <3>4. \A s, t \in Node : Sees(s, t) => (IF t = v THEN Sees(s, u)' ELSE Sees(s, t)')
      <4> SUFFICES ASSUME NEW s \in Node, NEW t \in Node, Sees(s, t)
                   PROVE  IF t = v THEN Sees(s, u)' ELSE Sees(s, t)'
        OBVIOUS
      <4>1. PICK w \in adj[s] : rep[w] = t
        BY DEF Sees
      <4>2. w \in Node /\ w \in adj'[s]
        BY <2>1, <4>1 DEF TypeOK
      <4> QED
        BY <1>2, <4>1, <4>2 DEF Sees
    <3>5. /\ kind'[v] = "COALESCED"
          /\ \A n \in Node \ {v} : kind'[n] = kind[n]
          /\ color' = color /\ rank' = rank
      BY DEF TypeOK
    <3>6. color[v] = NoColor
      BY DEF ColorInv
    <3>7. InGraph(v) /\ InGraph(u) /\ kind[u] # "SELECT"
      BY DEF InGraph
    <3>8. CASE a = v
      <4>1. b # v /\ rep'[x] = u /\ rep'[y] = b
        BY <3>1, <3>3, <3>8 DEF Apart
      <4>2. InGraph(b) => b \in moved
        BY <3>1, <3>7, <3>8 DEF Apart
      <4>3. b # u
        BY <3>1, <3>7, <3>8, <4>2 DEF ApartInv
      <4>4. InGraph(b)' => b \in adj'[u]
        BY <2>1, <3>2, <3>5, <4>1, <4>2 DEF InGraph
      <4>5. (color[u] # NoColor /\ color[b] # NoColor) => color[u] # color[b]
        BY <3>2, <3>7, <4>1, <4>3, HWColorAssumption DEF ColorInv, InGraph, TypeOK, VNode
      <4> QED
        BY <3>2, <3>5, <3>7, <4>1, <4>3, <4>4, <4>5 DEF Apart
    <3>9. CASE b = v
      <4>1. a # v /\ rep'[x] = a /\ rep'[y] = u
        BY <3>1, <3>3, <3>9 DEF Apart
      <4>2. InGraph(a) => a \in moved
        BY <3>1, <3>7, <3>9 DEF Apart
      <4>3. a # u
        BY <3>1, <3>7, <3>9, <4>2 DEF ApartInv
      <4>4. InGraph(a)' => u \in adj'[a]
        BY <2>1, <3>2, <3>5, <4>1, <4>2 DEF InGraph
      <4>5. (color[u] # NoColor /\ color[a] # NoColor) => color[u] # color[a]
        BY <3>2, <3>7, <4>1, <4>3, HWColorAssumption DEF ColorInv, InGraph, TypeOK, VNode
      <4>6. kind'[a] = "SELECT" => Sees(a, u)'
        BY <3>1, <3>2, <3>4, <3>5, <3>7, <3>9, <4>1 DEF Apart, InGraph
      <4> QED
        BY <3>2, <3>5, <3>7, <4>1, <4>3, <4>4, <4>5, <4>6 DEF Apart
    <3>10. CASE a # v /\ b # v
      <4>1. rep'[x] = a /\ rep'[y] = b /\ kind'[a] = kind[a] /\ kind'[b] = kind[b]
        BY <3>2, <3>3, <3>5, <3>10
      <4>2. Sees(a, b) => Sees(a, b)'
        BY <3>2, <3>4, <3>10
      <4>3. b \in adj[a] => b \in adj'[a]
        BY <2>1, <3>2
      <4> QED
        BY <3>1, <3>5, <4>1, <4>2, <4>3 DEF Apart, InGraph
    <3> QED
      BY <3>8, <3>9, <3>10
  <2> QED
    BY <2>3, <2>4 DEF ApartInv
<1> QED
  BY <1>1, <1>3, <1>4, <1>5, <1>6

-----------------------------------------------------------------------------
(* Starting to assign colours changes nothing about the classes.           *)
LEMMA StartAssignIInv ==
  ASSUME IInv, StartAssign
  PROVE  IInv'
<1> USE DEF IInv, StartAssign
<1>1. TypeOK'
  BY DEF TypeOK, IsInterference
<1>2. RepInv' /\ StackInv'
  BY DEF RepInv, StackInv, Root
<1>3. ColorInv'
  BY DEF ColorInv, VNode
<1>4. ApartInv'
  BY DEF ApartInv, Apart, Sees, InGraph
<1> QED
  BY <1>1, <1>2, <1>3, <1>4

(* Popping the stack keeps the invariant: the popped node sees every coloured
   class it interferes with, so the colour it takes is none of theirs.      *)
LEMMA PopIInv ==
  ASSUME IInv, NEW n \in Node, Pop(n)
  PROVE  IInv'
<1> USE DEF IInv, Pop
<1>a. /\ kind[n] = "SELECT" /\ rank[n] = height /\ ~pushing
      /\ rank' = [rank EXCEPT ![n] = 0] /\ height' = height - 1
      /\ UNCHANGED <<edges, adj, rep, pushing>>
  OBVIOUS
<1>b. \E k \in {"SPILLED", "COLORED"} : kind' = [kind EXCEPT ![n] = k]
  OBVIOUS
<1>c. \/ kind'[n] = "SPILLED" /\ color' = color
      \/ kind'[n] = "COLORED" /\ \E c \in Avail \ Forbidden(n) : color' = [color EXCEPT ![n] = c]
  BY DEF TypeOK
<1>d. rep[n] = n /\ color[n] = NoColor
  BY <1>a DEF RepInv, Root, ColorInv, TypeOK
<1>e. rank[n] > 0 /\ \A m \in Node : rank[m] <= height
  BY <1>a DEF StackInv
<1>f. \A m \in Node \ {n} : kind'[m] = kind[m] /\ color'[m] = color[m] /\ rank'[m] = rank[m]
  BY <1>a, <1>b, <1>c DEF TypeOK
<1>1. TypeOK'
  <2>1. kind' \in [Node -> Kind]
    BY <1>b DEF TypeOK
  <2>2. color' \in [Node -> Color \cup {NoColor}]
    BY <1>c DEF TypeOK
  <2>3. rank' \in [Node -> Nat] /\ height' \in Nat
    BY <1>a, <1>e DEF TypeOK
  <2> QED
    BY <1>a, <2>1, <2>2, <2>3 DEF TypeOK, IsInterference
<1>2. RepInv'
  BY <1>a, <1>b, <1>d, <1>f DEF TypeOK, RepInv, Root
<1>3. StackInv'
  <2>1. \A m \in Node : kind'[m] = "SELECT" <=> rank'[m] > 0
    BY <1>a, <1>c, <1>f DEF TypeOK, StackInv
  <2>2. \A m \in Node \ {n} : rank[m] <= height - 1
    BY <1>a, <1>e DEF TypeOK, StackInv
  <2>3. \A m \in Node : rank'[m] <= height'
    BY <1>a, <1>e, <1>f, <2>2 DEF TypeOK
  <2> QED
    BY <1>a, <1>f, <2>1, <2>3 DEF TypeOK, StackInv
<1>4. ColorInv'
  <2>1. n \in VNode
    BY <1>a DEF ColorInv, VNode
  <2>2. \A m \in Node : color'[m] # NoColor <=> kind'[m] \in {"PRECOLORED", "COLORED"}
    BY <1>c, <1>d, <1>f DEF ColorInv, TypeOK
  <2>3. \A m \in Node \ {n} : (color[m] # NoColor \/ kind[m] = "SPILLED") => rep[m] # n
    BY <1>a, <1>d DEF ColorInv
  <2>4. \A m \in Node : (color'[m] # NoColor \/ kind'[m] = "SPILLED") => color'[m] = color'[rep[m]]
    BY <1>d, <1>f, <2>3 DEF ColorInv, TypeOK
  <2>5. \A m \in Node : kind'[m] = "SPILLED" => kind'[rep[m]] = "SPILLED"
    BY <1>d, <1>f, <2>3 DEF ColorInv, TypeOK
  <2> QED
    BY <1>a, <1>b, <1>f, <2>1, <2>2, <2>4, <2>5 DEF ColorInv, TypeOK, VNode
<1>5. ApartInv'
  <2>1. ASSUME NEW x \in Node, NEW y \in edges[x]
        PROVE  Apart(rep[x], rep[y])'
    <3>0. y \in Node /\ Apart(rep[x], rep[y]) /\ Apart(rep[y], rep[x])
      BY <2>1 DEF TypeOK, ApartInv, IsInterference
    <3>a. PICK a \in Node : a = rep[x]
      BY DEF TypeOK
    <3>b. PICK b \in Node : b = rep[y]
      BY <3>0 DEF TypeOK
    <3>1. Apart(a, b) /\ Apart(b, a)
      BY <3>0, <3>a, <3>b
    <3>2. \A s, t \in Node : Sees(s, t) <=> Sees(s, t)'
      BY <1>a DEF Sees
    <3>3. ~InGraph(n)' /\ kind'[n] # "SELECT"
      BY <1>c DEF InGraph
    <3>4. \A t \in Node : (Sees(n, t) /\ kind[t] \in {"COLORED", "PRECOLORED"}) => color[t] \in Forbidden(n)
      BY DEF Sees, Forbidden, TypeOK
    <3>5. CASE a = n
      <4>1. b # n
        BY <3>1, <3>5 DEF Apart
      <4>2. color[b] # NoColor => color[b] \in Forbidden(n)
        <5>1. color[b] # NoColor => kind[b] \in {"PRECOLORED", "COLORED"}
          BY DEF ColorInv
        <5> QED
          BY <1>a, <3>1, <3>4, <3>5, <5>1 DEF Apart
      <4>3. (color'[a] # NoColor /\ color'[b] # NoColor) => color'[a] # color'[b]
        BY <1>c, <1>d, <1>f, <3>5, <4>1, <4>2 DEF TypeOK
      <4> QED
        BY <1>a, <3>a, <3>b, <3>3, <3>5, <4>1, <4>3 DEF Apart
    <3>6. CASE b = n
      <4>1. a # n
        BY <3>1, <3>6 DEF Apart
      <4>2. color[a] # NoColor => color[a] \in Forbidden(n)
        <5>1. color[a] # NoColor => kind[a] \in {"PRECOLORED", "COLORED"}
          BY DEF ColorInv
        <5> QED
          BY <1>a, <3>1, <3>4, <3>6, <5>1 DEF Apart
      <4>3. (color'[a] # NoColor /\ color'[b] # NoColor) => color'[a] # color'[b]
        BY <1>c, <1>d, <1>f, <3>6, <4>1, <4>2 DEF TypeOK
      <4>4. kind[a] = "SELECT" => Sees(a, n)
        <5>1. kind[a] = "SELECT" => rank[a] < rank[n]
          BY <1>a, <1>e, <4>1 DEF StackInv, TypeOK
        <5> QED
          BY <1>a, <3>1, <3>6, <5>1 DEF Apart
      <4> QED
        BY <1>a, <1>f, <3>a, <3>b, <3>2, <3>3, <3>6, <4>1, <4>3, <4>4 DEF Apart
    <3>7. CASE a # n /\ b # n
      BY <1>a, <1>f, <3>a, <3>b, <3>1, <3>2, <3>7 DEF Apart, InGraph
    <3> QED
      BY <3>5, <3>6, <3>7
  <2> QED
    BY <1>a, <2>1 DEF ApartInv
<1> QED
  BY <1>1, <1>2, <1>3, <1>4, <1>5

(* A coalesced node takes the colour of its root; no root changes.         *)
LEMMA InheritIInv ==
  ASSUME IInv, NEW n \in Node, Inherit(n)
  PROVE  IInv'
<1> USE DEF IInv, Inherit
<1>a. /\ kind[n] = "COALESCED" /\ ~pushing /\ \A m \in Node : kind[m] # "SELECT"
      /\ UNCHANGED <<edges, adj, rep, rank, height, pushing>>
  OBVIOUS
<1>b. rep[n] \in Node /\ rep[n] # n /\ kind[rep[n]] # "COALESCED" /\ color[n] = NoColor
  BY <1>a DEF TypeOK, RepInv, Root, ColorInv
<1>c. /\ color'[n] = color[rep[n]] /\ kind'[n] = IF color[rep[n]] = NoColor THEN "SPILLED" ELSE "COLORED"
      /\ \A m \in Node \ {n} : kind'[m] = kind[m] /\ color'[m] = color[m]
  BY DEF TypeOK
<1>d. \A m \in Node : rep[m] # n
  BY <1>a DEF RepInv
<1>1. TypeOK'
  BY <1>b DEF TypeOK, IsInterference
<1>2. RepInv'
  BY <1>a, <1>b, <1>c, <1>d DEF TypeOK, RepInv, Root
<1>3. StackInv'
  BY <1>a, <1>c DEF TypeOK, StackInv
<1>4. ColorInv'
  <2>1. n \in VNode
    BY <1>a DEF ColorInv, VNode
  <2>2. \A m \in Node : color'[m] # NoColor <=> kind'[m] \in {"PRECOLORED", "COLORED"}
    BY <1>b, <1>c DEF ColorInv
  <2>4. color[rep[n]] = NoColor => kind[rep[n]] = "SPILLED"
    BY <1>a, <1>b DEF ColorInv, TypeOK
  <2>5. \A m \in Node : kind'[m] = "SPILLED" => kind'[rep[m]] = "SPILLED"
    BY <1>b, <1>c, <1>d, <2>4 DEF ColorInv
  <2>3. \A m \in Node : (color'[m] # NoColor \/ kind'[m] = "SPILLED") => color'[m] = color'[rep[m]]
    BY <1>b, <1>c, <1>d DEF ColorInv, TypeOK
  <2> QED
    BY <1>a, <1>c, <2>1, <2>2, <2>3, <2>5 DEF ColorInv, VNode
<1>5. ApartInv'
  <2>1. ASSUME NEW x \in Node, NEW y \in edges[x]
        PROVE  Apart(rep[x], rep[y])'
    <3>0. y \in Node /\ Apart(rep[x], rep[y])
      BY <2>1 DEF TypeOK, ApartInv, IsInterference
    <3>a. PICK a \in Node : a = rep[x]
      BY DEF TypeOK
    <3>b. PICK b \in Node : b = rep[y]
      BY <3>0 DEF TypeOK
    <3>1. a # n /\ b # n /\ Apart(a, b)
      BY <1>d, <3>0, <3>a, <3>b
    <3>2. \A s, t \in Node : Sees(s, t) <=> Sees(s, t)'
      BY <1>a DEF Sees
    <3> QED
      BY <1>a, <1>c, <3>a, <3>b, <3>1, <3>2 DEF Apart, InGraph
  <2> QED
    BY <1>a, <2>1 DEF ApartInv
<1> QED
  BY <1>1, <1>2, <1>3, <1>4, <1>5

(* Every step keeps the invariant.                                         *)
LEMMA NextIInv == IInv /\ [Next]_vars => IInv'
<1> SUFFICES ASSUME IInv, [Next]_vars PROVE IInv'
  OBVIOUS
<1>1. ASSUME NEW n \in Node, Push(n) PROVE IInv'
  BY <1>1, PushIInv
<1>2. ASSUME NEW n \in Node, Pop(n) PROVE IInv'
  BY <1>2, PopIInv
<1>3. ASSUME NEW n \in Node, Inherit(n) PROVE IInv'
  BY <1>3, InheritIInv
<1>4. ASSUME NEW u \in Node, NEW v \in Node, Combine(u, v) PROVE IInv'
  BY <1>4, CombineIInv
<1>5. CASE StartAssign
  BY <1>5, StartAssignIInv
<1>6. CASE UNCHANGED vars
  BY <1>6 DEF vars, IInv, TypeOK, IsInterference, RepInv, Root, StackInv, ColorInv, VNode,
              ApartInv, Apart, Sees, InGraph
<1> QED
  BY <1>1, <1>2, <1>3, <1>4, <1>5, <1>6 DEF Next

(* The strengthened invariant holds in every reachable state, for any set of
   registers, any hardware colours and any interference.                   *)
THEOREM Invariance == Spec => []IInv
<1>1. Init => IInv
  BY InitIInv
<1>2. IInv /\ [Next]_vars => IInv'
  BY NextIInv
<1> QED
  BY <1>1, <1>2, PTL DEF Spec

(* The state keeps its type: in particular the rank and the height of the
   select stack never go below zero.                                       *)
THEOREM TypeCorrect == Spec => []TypeOK
<1>1. IInv => TypeOK
  BY DEF IInv
<1> QED
  BY <1>1, Invariance, PTL

(* Two registers that are live at the same time never get the same colour,
   whatever is pushed or merged and in whatever order.                     *)
THEOREM Validity == Spec => []ValidColoring
<1>1. IInv => ValidColoring
  <2> SUFFICES ASSUME IInv, NEW n \in Node, NEW m \in edges[n],
                      color[n] # NoColor, color[m] # NoColor
               PROVE  color[n] # color[m]
    BY DEF ValidColoring
  <2>1. m \in Node /\ Apart(rep[n], rep[m])
    BY DEF IInv, TypeOK, IsInterference, ApartInv
  <2>2. color[n] = color[rep[n]] /\ color[m] = color[rep[m]]
    BY <2>1 DEF IInv, ColorInv
  <2> QED
    BY <2>1, <2>2 DEF Apart
<1> QED
  BY <1>1, Invariance, PTL

(* Registers merged by coalescing share one fate: the same colour, or memory. *)
THEOREM Merging == Spec => []MergedAgree
<1>1. IInv => MergedAgree
  BY DEF IInv, MergedAgree, ColorInv, TypeOK
<1> QED
  BY <1>1, Invariance, PTL
=============================================================================

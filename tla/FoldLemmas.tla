----------------------------- MODULE FoldLemmas -----------------------------
(***************************************************************************)
(* Induction for the loops that the models write as folds: what every turn *)
(* of a loop keeps, the whole loop keeps.  A module that reasons about a    *)
(* loop instantiates this one with the loop's body for Op, whose first      *)
(* argument stands for what stays fixed during the loop.                   *)
(*                                                                         *)
(* The induction itself rests on the well-foundedness of the naturals.     *)
(***************************************************************************)
EXTENDS Integers, SequencesExt, WellFoundedInduction, TLAPS

CONSTANT Op(_, _, _)

(* The loop over s with the body Op, entered in the state base. *)
Fold(a, base, s) == FoldLeft(LAMBDA q, x : Op(a, q, x), base, s)

(* No turn of the loop leaves V. *)
Closed(V, a, s) == \A i \in DOMAIN s : \A v \in V : Op(a, v, s[i]) \in V

(* h[i] is the state after i turns. *)
Trace(h, V, a, base, s) ==
  /\ h \in [0 .. Len(s) -> V]
  /\ h[0] = base
  /\ \A i \in DOMAIN s : h[i] = Op(a, h[i - 1], s[i])
  /\ Fold(a, base, s) = h[Len(s)]

-----------------------------------------------------------------------------
(* A set of naturals that is not empty has a least element. *)
LEMMA LeastElement ==
  ASSUME NEW T, T \subseteq Nat, T # {}
  PROVE  \E x \in T : \A y \in T : x <= y
<1> DEFINE R == OpToRel(<, Nat)
<1>1. R = {ss \in Nat \X Nat : ss[1] < ss[2]}
  BY Zenon DEF OpToRel
<1>2. IsWellFoundedOn(R, Nat)
  BY NatLessThanWellFounded
<1> HIDE DEF R
<1>3. PICK x \in T : \A y \in T : ~ (<<y, x>> \in R)
  BY WFMin, <1>2
<1>4. \A y \in T : <<y, x>>[1] = y /\ <<y, x>>[2] = x /\ <<y, x>> \in Nat \X Nat
  OBVIOUS
<1>5. \A y \in T : ~(y < x)
  BY <1>1, <1>3, <1>4
<1> QED
  BY <1>5

(* Induction up to n: a set that holds 0 and the successor of whatever it
   holds below n holds every number up to n.                               *)
LEMMA PrefixInduction ==
  ASSUME NEW n \in Nat, NEW T, 0 \in T,
         \A i \in 0 .. n - 1 : i \in T => i + 1 \in T
  PROVE  0 .. n \subseteq T
<1> DEFINE B == {i \in 0 .. n : i \notin T}
<1> SUFFICES ASSUME B # {} PROVE FALSE
  OBVIOUS
<1>1. B \subseteq Nat
  OBVIOUS
<1> HIDE DEF B
<1>2. PICK x \in B : \A y \in B : x <= y
  BY LeastElement, <1>1
<1> USE DEF B
<1>3. x # 0 /\ x - 1 \in 0 .. n - 1
  OBVIOUS
<1>4. x - 1 \in T
  BY <1>2, <1>3
<1> QED
  BY <1>3, <1>4

(* The maximum of a set of positions is one of them. *)
LEMMA MaxOfPrefix ==
  ASSUME NEW n \in Nat, NEW s, s \subseteq 1 .. n, s # {}
  PROVE  Max(s) \in s /\ \A x \in s : x <= Max(s)
<1> DEFINE U == {u \in 0 .. n : n - u \in s}
<1>1. U \subseteq Nat
  OBVIOUS
<1>2. U # {}
  <2>1. PICK x \in s : x \in 1 .. n
    OBVIOUS
  <2>2. n - (n - x) = x /\ n - x \in 0 .. n
    BY <2>1
  <2> QED
    BY <2>2
<1> HIDE DEF U
<1>3. PICK u \in U : \A v \in U : u <= v
  BY LeastElement, <1>1, <1>2
<1> USE DEF U
<1>4. ASSUME NEW y \in s PROVE n - u >= y
  <2>1. n - (n - y) = y /\ n - y \in 0 .. n
    OBVIOUS
  <2>2. n - y \in U
    BY <2>1
  <2> QED
    BY <1>3, <2>2
<1>5. \E x \in s : \A y \in s : x >= y
  BY <1>4
<1> QED
  BY <1>5 DEF Max

LEMMA MaxIs ==
  ASSUME NEW n \in Nat, NEW s, s \subseteq 1 .. n, n \in s
  PROVE  Max(s) = n
<1>1. s # {}
  OBVIOUS
<1>2. Max(s) \in s /\ \A x \in s : x <= Max(s)
  BY <1>1, MaxOfPrefix
<1>3. Max(s) \in 1 .. n /\ n <= Max(s)
  BY <1>2
<1> QED
  BY <1>3

-----------------------------------------------------------------------------
(* A loop whose body keeps its state in V runs through states of V, each the
   body's result for the one before; the fold is the last of them.         *)
LEMMA FoldTrace ==
  ASSUME NEW V, NEW a, NEW base \in V, NEW E, NEW s \in Seq(E), Closed(V, a, s)
  PROVE  \E h : Trace(h, V, a, base, s)
<1> USE DEF Closed
<1> DEFINE n == Len(s)
           Step(it, t) == IF t = {} THEN base ELSE Op(a, it[t \ {Max(t)}], s[Max(t)])
           Iter(it) == it = [t \in SUBSET (DOMAIN s) |-> 
                               IF t = {} THEN base ELSE Op(a, it[t \ {Max(t)}], s[Max(t)])]
           it0 == CHOOSE it : Iter(it)
           Exists(k) == \E it \in [SUBSET (1 .. k) -> V] : \A t \in SUBSET (1 .. k) : it[t] = Step(it, t)
<1>0. n \in Nat /\ DOMAIN s = 1 .. n
  OBVIOUS
<1>1. Fold(a, base, s) = it0[DOMAIN s]
  BY DEF Fold, FoldLeft, MapThenFoldSet
<1>2. Exists(0)
  <2> DEFINE it == [t \in SUBSET (1 .. 0) |-> base]
  <2>1. \A t \in SUBSET (1 .. 0) : t = {}
    OBVIOUS
  <2>2. it \in [SUBSET (1 .. 0) -> V] /\ \A t \in SUBSET (1 .. 0) : it[t] = Step(it, t)
    BY <2>1
  <2> QED
    BY <2>2
<1>3. ASSUME NEW k \in 0 .. n - 1, Exists(k)
      PROVE  Exists(k + 1)
  <2>1. PICK it \in [SUBSET (1 .. k) -> V] : \A t \in SUBSET (1 .. k) : it[t] = Step(it, t)
    BY <1>3
  <2> DEFINE jt == [t \in SUBSET (1 .. k + 1) |->
                      IF k + 1 \in t THEN Op(a, it[t \ {k + 1}], s[k + 1]) ELSE it[t]]
  <2>2. \A t \in SUBSET (1 .. k + 1) : t \ {k + 1} \in SUBSET (1 .. k) /\ (k + 1 \notin t => t \in SUBSET (1 .. k))
    OBVIOUS
  <2>3. jt \in [SUBSET (1 .. k + 1) -> V]
    BY <2>2, <1>0
  <2>4. ASSUME NEW t \in SUBSET (1 .. k + 1) PROVE jt[t] = Step(jt, t)
    <3>1. CASE t = {}
      BY <3>1, <2>1
    <3>2. CASE k + 1 \in t
      <4>1. Max(t) = k + 1
        <5>1. k + 1 \in Nat /\ t \subseteq 1 .. k + 1
          OBVIOUS
        <5> QED
          BY <5>1, <3>2, MaxIs
      <4>2. t \ {k + 1} \in SUBSET (1 .. k) /\ t \ {k + 1} \in SUBSET (1 .. k + 1) /\ k + 1 \notin t \ {k + 1}
        BY <2>2
      <4> QED
        BY <4>1, <4>2, <3>2
    <3>3. CASE t # {} /\ k + 1 \notin t
      <4>1. t \in SUBSET (1 .. k)
        BY <2>2, <3>3
      <4>2. Max(t) \in t
        BY <4>1, <3>3, MaxOfPrefix, k \in Nat
      <4>3. t \ {Max(t)} \in SUBSET (1 .. k) /\ t \ {Max(t)} \in SUBSET (1 .. k + 1) /\ k + 1 \notin t \ {Max(t)}
        <5> DEFINE m == Max(t)
        <5> HIDE DEF m
        <5>1. t \ {m} \in SUBSET (1 .. k) /\ t \ {m} \in SUBSET (1 .. k + 1) /\ k + 1 \notin t \ {m}
          BY <4>1, <3>3
        <5> QED
          BY <5>1 DEF m
      <4>4. jt[t] = it[t] /\ jt[t \ {Max(t)}] = it[t \ {Max(t)}] 
        BY <4>1, <4>3
      <4>5. it[t] = Step(it, t)
        BY <2>1, <4>1
      <4> QED
        BY <4>4, <4>5, <3>3
    <3> QED
      BY <3>1, <3>2, <3>3
  <2> QED
    BY <2>3, <2>4
<1>4. Exists(n)
  <2> DEFINE T == {k \in 0 .. n : Exists(k)}
  <2> HIDE DEF Exists
  <2>1. 0 \in T /\ \A k \in 0 .. n - 1 : k \in T => k + 1 \in T
    BY <1>0, <1>2, <1>3
  <2> HIDE DEF T
  <2>2. 0 .. n \subseteq T
    BY <1>0, <2>1, PrefixInduction
  <2> QED
    BY <1>0, <2>2 DEF T
<1>5. Iter(it0)
  <2>1. PICK it \in [SUBSET (1 .. n) -> V] : \A t \in SUBSET (1 .. n) : it[t] = Step(it, t)
    BY <1>4
  <2>2. Iter(it)
    BY <2>1, <1>0
  <2> HIDE DEF Iter
  <2> QED
    BY <2>2
<1> HIDE DEF it0
<1>6. it0[{}] = base /\ \A i \in 1 .. n : it0[1 .. i] = Op(a, it0[1 .. i - 1], s[i])
  <2>1. \A t \in SUBSET (1 .. n) : it0[t] = IF t = {} THEN base ELSE Op(a, it0[t \ {Max(t)}], s[Max(t)])
    <3> HIDE <1>1, <1>2, <1>3, <1>4
    <3> QED
    BY <1>5, <1>0
  <2>2. ASSUME NEW i \in 1 .. n PROVE it0[1 .. i] = Op(a, it0[1 .. i - 1], s[i])
    <3>1. Max(1 .. i) = i
      <4>1. 1 .. i \subseteq 1 .. i /\ i \in 1 .. i /\ i \in Nat
        OBVIOUS
      <4> QED
        BY <4>1, MaxIs
    <3>2. (1 .. i) \ {i} = 1 .. i - 1 /\ 1 .. i # {} /\ 1 .. i \in SUBSET (1 .. n)
      <4>1. i \in Int /\ n \in Int /\ 1 <= i /\ i <= n
        BY <1>0
      <4> HIDE DEF n
      <4>2. \A x : x \in (1 .. i) \ {i} <=> x \in 1 .. i - 1
        BY <4>1
      <4>3. i \in 1 .. i /\ \A x \in 1 .. i : x \in 1 .. n
        BY <4>1
      <4> QED
        BY <4>2, <4>3
    <3> QED
      BY <2>1, <3>1, <3>2
  <2> QED
    BY <2>1, <2>2
<1> DEFINE h == [i \in 0 .. n |-> it0[1 .. i]]
<1>7. h[0] = base /\ \A i \in 1 .. n : h[i] = Op(a, h[i - 1], s[i])
  <2>1. 1 .. 0 = {}
    OBVIOUS
  <2>2. h[0] = base
    BY <2>1, <1>6, <1>0
  <2>3. ASSUME NEW i \in 1 .. n PROVE h[i] = Op(a, h[i - 1], s[i])
    <3>1. i \in 0 .. n /\ i - 1 \in 0 .. n
      OBVIOUS
    <3> QED
      BY <1>6, <3>1
  <2> QED
    BY <2>2, <2>3
<1>8. h \in [0 .. n -> V]
  <2> DEFINE T == {k \in 0 .. n : h[k] \in V}
  <2> HIDE DEF h
  <2>1. 0 \in T
    BY <1>0, <1>7
  <2>2. ASSUME NEW k \in 0 .. n - 1, k \in T PROVE k + 1 \in T
    <3>1. h[k + 1] = Op(a, h[k], s[k + 1])
      BY <1>7, k + 1 \in 1 .. n, (k + 1) - 1 = k
    <3> QED
      BY <1>0, <3>1, <2>2, k + 1 \in 1 .. n
  <2> HIDE DEF T
  <2>3. 0 .. n \subseteq T
    BY <1>0, <2>1, <2>2, PrefixInduction
  <2> QED
    BY <1>0, <2>3 DEF T, h
<1>9. Fold(a, base, s) = h[n]
  BY <1>0, <1>1
<1>10. Trace(h, V, a, base, s)
  BY <1>0, <1>7, <1>8, <1>9 DEF Trace
<1> QED
  BY <1>10

(* What every turn of the loop keeps holds at its end. *)
LEMMA FoldInvariant ==
  ASSUME NEW V, NEW a, NEW base \in V, NEW E, NEW s \in Seq(E), Closed(V, a, s)
  PROVE  Fold(a, base, s) \in V
<1>1. PICK h : Trace(h, V, a, base, s)
  BY FoldTrace
<1> QED
  BY <1>1 DEF Trace
=============================================================================

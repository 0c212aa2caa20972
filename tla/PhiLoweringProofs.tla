------------------------- MODULE PhiLoweringProofs -------------------------
(***************************************************************************)
(* What jmirgen_processPhis makes of a safe function computes what the IR  *)
(* says: for every function, any number of blocks, values and phis, any    *)
(* contents of the registers and every path.                               *)
(***************************************************************************)
EXTENDS PhiLowering, WellFoundedInduction, NaturalsInduction, TLAPS

LEMMA NatOrder ==
  ASSUME NEW x \in Nat, NEW y \in Nat, ~(y < x)
  PROVE  x =< y
OBVIOUS

LEMMA NotLess ==
  ASSUME NEW x \in Nat, NEW y \in Nat, <<y, x>> \notin OpToRel(<, Nat)
  PROVE  x =< y
<1>1. <<y, x>> \in Nat \X Nat
  OBVIOUS
<1>2. ~(y < x)
  BY <1>1, Zenon DEF OpToRel
<1> QED
  BY <1>2, NatOrder, Zenon

(* A set of naturals has a least element, a bounded one a greatest.        *)
LEMMA MinIn ==
  ASSUME NEW S, S \subseteq Nat, S # {}
  PROVE  Min(S) \in S
<1>1. PICK x \in S : \A y \in S : <<y, x>> \notin OpToRel(<, Nat)
  BY NatLessThanWellFounded, WFMin
<1>2. \A y \in S : x =< y
  BY <1>1, NotLess
<1> QED
  BY <1>2 DEF Min

LEMMA MaxIn ==
  ASSUME NEW n \in Nat, NEW S, S \subseteq 0 .. n, S # {}
  PROVE  Max(S) \in S
<1> DEFINE T == {n - x : x \in S}
<1>1. T \subseteq Nat /\ T # {}
  <2>1. ASSUME NEW t \in T
        PROVE  t \in Nat
    <3>1. PICK x \in S : t = n - x
      OBVIOUS
    <3>2. x \in 0 .. n
      OBVIOUS
    <3> QED
      BY <3>1, <3>2
  <2> QED
    BY <2>1
<1>2. PICK t \in T : \A u \in T : <<u, t>> \notin OpToRel(<, Nat)
  BY <1>1, NatLessThanWellFounded, WFMin
<1>3. \A u \in T : t =< u
  BY <1>1, <1>2, NotLess
<1>4. PICK x \in S : t = n - x
  OBVIOUS
<1>5. \A y \in S : x >= y
  BY <1>3, <1>4
<1> QED
  BY <1>5 DEF Max

(* The movs stand at a boundary of the block's code.                       *)
LEMMA InsertionPointType ==
  ASSUME NEW p, IsProgram(p), NEW b \in Block
  PROVE  InsertionPoint(p, b) \in Nat
<1> DEFINE n == Len(p.code[b])
<1>1. n \in Nat
  BY DEF IsProgram
<1>2. FirstTerminator(p, b) \in 1 .. n + 1
  <2>1. CASE Conversions(p, b) = {}
    BY <1>1, <2>1 DEF FirstTerminator
  <2>2. CASE Conversions(p, b) # {}
    <3>1. Conversions(p, b) \subseteq 1 .. n
      BY DEF Conversions
    <3>2. Min(Conversions(p, b)) \in Conversions(p, b)
      BY <1>1, <2>2, <3>1, MinIn
    <3> QED
      BY <1>1, <2>2, <3>1, <3>2 DEF FirstTerminator
  <2> QED
    BY <2>1, <2>2
<1>3. ASSUME Comparisons(p, b) # {}
      PROVE  Max(Comparisons(p, b)) \in 1 .. n
  <2>1. Comparisons(p, b) \subseteq 1 .. n
    BY <1>1, <1>2 DEF Comparisons
  <2>2. Comparisons(p, b) \subseteq 0 .. n
    BY <2>1
  <2> QED
    BY <1>1, <1>3, <2>1, <2>2, MaxIn
<1> QED
  BY <1>1, <1>2, <1>3 DEF InsertionPoint

-----------------------------------------------------------------------------
SafeInv == IInv /\ Safe(prog)

LEMMA SeqElement ==
  ASSUME NEW S, NEW s \in Seq(S), NEW i \in 1 .. Len(s)
  PROVE  s[i] \in S
OBVIOUS

(* What a function is made of, in the form the proofs use it.              *)
LEMMA PhiType ==
  ASSUME TypeOK
  PROVE  /\ IsProgram(prog)
         /\ Len(prog.phis) \in Nat
         /\ \A i \in 1 .. Len(prog.phis) :
              /\ Len(prog.phis[i].ops) \in Nat
              /\ prog.phis[i].dst \in Value
              /\ \A o \in 1 .. Len(prog.phis[i].ops) :
                   /\ prog.phis[i].ops[o].value \in Value
                   /\ prog.phis[i].ops[o].bb \in Block
         /\ iPhi \in Nat /\ iPhi >= 1 /\ iPhi <= Len(prog.phis) + 1
         /\ iOperand \in Nat /\ iOperand >= 1
<1>1. IsProgram(prog)
  BY ProgramAssumption DEF TypeOK, prog
<1>2. prog.phis \in Seq(Phi)
  BY <1>1 DEF IsProgram
<1>3. Len(prog.phis) \in Nat /\ \A i \in 1 .. Len(prog.phis) : prog.phis[i] \in Phi
  BY <1>2
<1>4. ASSUME NEW i \in 1 .. Len(prog.phis)
      PROVE  /\ Len(prog.phis[i].ops) \in Nat
             /\ prog.phis[i].dst \in Value
             /\ \A o \in 1 .. Len(prog.phis[i].ops) :
                  /\ prog.phis[i].ops[o].value \in Value
                  /\ prog.phis[i].ops[o].bb \in Block
  <2>1. prog.phis[i].ops \in Seq([value : Value, bb : Block]) /\ prog.phis[i].dst \in Value
    BY <1>3 DEF Phi
  <2>2. \A o \in 1 .. Len(prog.phis[i].ops) : prog.phis[i].ops[o] \in [value : Value, bb : Block]
    BY <2>1, SeqElement
  <2> QED
    BY <2>1, <2>2
<1>5. iPhi \in 1 .. Len(prog.phis) + 1 /\ iOperand \in Nat \ {0}
  BY DEF TypeOK
<1> QED
  BY <1>1, <1>3, <1>4, <1>5

LEMMA BlockType ==
  ASSUME TypeOK
  PROVE  /\ InsertionPoint(prog, bb) \in Nat
         /\ Len(Body) \in Nat
         /\ \A n \in 1 .. Len(Body) : Body[n].src \in Value /\ Body[n].dst \in Value
         /\ \A b \in Block : prog.cond[b] \in Value /\ Len(prog.succs[b]) \in 0 .. 2
         /\ \A b \in Block : \A k \in 1 .. Len(prog.succs[b]) : prog.succs[b][k] \in Block
         /\ \A b \in Block : \A n \in Boundary(prog, b) : prog.live[b][n] \subseteq Value
         /\ pc \in Nat /\ pc <= Len(Body)
         /\ done \in Nat /\ Len(movs[bb]) \in Nat /\ done <= Len(movs[bb])
<1>1. IsProgram(prog)
  BY PhiType
<1>2. bb \in Block
  BY DEF TypeOK
<1>3. Body \in Seq([op : {"op", "setcc", "conv"}, dst : Value, src : Value])
  BY <1>1, <1>2 DEF Body, IsProgram
<1>4. \A n \in 1 .. Len(Body) : Body[n] \in [op : {"op", "setcc", "conv"}, dst : Value, src : Value]
  BY <1>3, SeqElement
<1>5. \A n \in 1 .. Len(Body) : Body[n].src \in Value /\ Body[n].dst \in Value
  BY <1>4
<1>6. \A b \in Block : prog.succs[b] \in Seq(Block) /\ prog.cond[b] \in Value /\ Len(prog.succs[b]) \in 0 .. 2
  BY <1>1 DEF IsProgram
<1>7. \A b \in Block : \A k \in 1 .. Len(prog.succs[b]) : prog.succs[b][k] \in Block
  BY <1>6
<1>8. \A b \in Block : \A n \in Boundary(prog, b) : prog.live[b][n] \subseteq Value
  BY <1>1 DEF IsProgram
<1>9. pc \in 0 .. Len(Body) /\ done \in 0 .. Len(movs[bb]) /\ movs[bb] \in Seq(Nat \X Nat)
  BY <1>2 DEF TypeOK, Boundary, Body
<1>10. Len(movs[bb]) \in Nat /\ Len(Body) \in Nat
  BY <1>9, <1>3
<1> QED
  BY <1>1, <1>2, <1>5, <1>6, <1>7, <1>8, <1>9, <1>10, InsertionPointType

(* What is true of the movs stays true while no phi is processed.          *)
LEMMA MovsUnchanged ==
  ASSUME MovsInv, prog' = prog, UNCHANGED <<movs, iPhi, iOperand>>
  PROVE  MovsInv'
<1>1. MovsPassed'
  BY DEF MovsInv, MovsPassed, Passed
<1>2. MovsOrdered'
  BY DEF MovsInv, MovsOrdered
<1>3. PassedHaveMovs'
  BY DEF MovsInv, PassedHaveMovs, Passed
<1> QED
  BY <1>1, <1>2, <1>3 DEF MovsInv

(* Before the first phi no mov is in its place and none has to be.         *)
LEMMA InitInv == SafeInit => SafeInv
<1> SUFFICES ASSUME SafeInit PROVE SafeInv
  OBVIOUS
<1> USE DEF SafeInit, Init
<1>1. IsProgram(prog)
  BY ProgramAssumption DEF prog
<1>2. bb \in Block
  BY <1>1 DEF IsProgram
<1>3. TypeOK
  BY <1>1, <1>2, RegsAssumption DEF TypeOK, IsProgram, Boundary
<1>4. MovsInv
  BY DEF MovsInv, MovsPassed, MovsOrdered, PassedHaveMovs, Passed, OperandsFrom
<1>5. RunStarted /\ RunInv
  BY DEF RunStarted, RunInv
<1>6. NotStarted
  BY DEF NotStarted, Safe, WellFormed, LiveIsLive
<1> QED
  BY <1>3, <1>4, <1>5, <1>6 DEF SafeInv, IInv

PassedNext(i, o) == i < iPhi' \/ (i = iPhi' /\ o < iOperand')

(* A mov appended to a block keeps the order of its movs: it is of the
   operand reached, and those before it are of operands passed.            *)
LEMMA InsertMovInv ==
  ASSUME SafeInv, InsertMov
  PROVE  IInv'
<1>a. prog' = prog
  BY DEF prog, InsertMov
<1>0. TypeOK /\ MovsInv /\ RunStarted /\ NotStarted /\ RunInv
  BY DEF SafeInv, IInv
<1>z. phase = "translate" /\ iOperand' = iOperand + 1 /\ UNCHANGED <<fn, phase, iPhi, env, regs, bb, pc, done, flag>>
  BY DEF InsertMov
<1>b. iPhi \in Nat /\ iOperand \in Nat /\ iPhi >= 1 /\ iOperand >= 1
  BY PhiType DEF SafeInv, IInv
<1> DEFINE B == prog.phis[iPhi].ops[iOperand].bb
           m == <<iPhi, iOperand>>
<1>c. Len(prog.phis) \in Nat /\ iPhi \in 1 .. Len(prog.phis)
  BY <1>b, PhiType DEF InsertMov, SafeInv, IInv
<1>e. iOperand \in 1 .. Len(prog.phis[iPhi].ops) /\ B \in Block
  BY <1>b, <1>c, PhiType DEF InsertMov, SafeInv, IInv
<1>f. B \in Block /\ iOperand \in OperandsFrom(prog, iPhi, B)
  BY <1>e DEF OperandsFrom
<1> HIDE DEF B
<1>g. movs' = [movs EXCEPT ![B] = Append(@, m)]
  BY DEF B, InsertMov
<1>h. movs \in [Block -> Seq(Nat \X Nat)]
  BY <1>0 DEF TypeOK
<1>i. m \in Nat \X Nat
  BY <1>b
<1>k. Append(movs[B], m) \in Seq(Nat \X Nat)
  BY <1>f, <1>h, <1>i
<1>1. TypeOK'
  <2>1. movs' \in [Block -> Seq(Nat \X Nat)]
    BY <1>g, <1>h, <1>k
  <2>2. bb \in Block /\ done = 0
    BY <1>0, <1>z DEF NotStarted, TypeOK
  <2>3. Len(movs'[bb]) \in Nat
    BY <2>1, <2>2
  <2> QED
    BY <1>a, <1>b, <1>z, <1>0, <2>1, <2>2, <2>3 DEF TypeOK
<1>2. MovsInv'
  <2>a. ASSUME NEW i \in Nat, NEW o \in Nat
        PROVE  PassedNext(i, o) <=> (Passed(i, o) \/ (i = iPhi /\ o = iOperand))
    BY <1>b, <1>z DEF Passed, PassedNext
  <2>c. ASSUME NEW b \in Block, NEW i \in 1 .. Len(prog.phis), NEW o \in OperandsFrom(prog, i, b)
        PROVE  i \in Nat /\ o \in Nat
    BY <1>c DEF OperandsFrom
  <2> SUFFICES ASSUME NEW b \in Block
               PROVE  /\ \A k \in 1 .. Len(movs'[b]) :
                           /\ movs'[b][k][1] \in 1 .. Len(prog.phis)
                           /\ movs'[b][k][2] \in OperandsFrom(prog, movs'[b][k][1], b)
                           /\ PassedNext(movs'[b][k][1], movs'[b][k][2])
                      /\ \A k, l \in 1 .. Len(movs'[b]) : k < l => movs'[b][k][1] <= movs'[b][l][1]
                      /\ \A k, l \in 1 .. Len(movs'[b]) : movs'[b][k] = movs'[b][l] => k = l
                      /\ \A i \in 1 .. Len(prog.phis) : \A o \in OperandsFrom(prog, i, b) :
                           PassedNext(i, o) => \E k \in 1 .. Len(movs'[b]) : movs'[b][k] = <<i, o>>
    <3> DEFINE Four(b) ==
                 /\ \A k \in 1 .. Len(movs'[b]) :
                      /\ movs'[b][k][1] \in 1 .. Len(prog.phis)
                      /\ movs'[b][k][2] \in OperandsFrom(prog, movs'[b][k][1], b)
                      /\ PassedNext(movs'[b][k][1], movs'[b][k][2])
                 /\ \A k, l \in 1 .. Len(movs'[b]) : k < l => movs'[b][k][1] <= movs'[b][l][1]
                 /\ \A k, l \in 1 .. Len(movs'[b]) : movs'[b][k] = movs'[b][l] => k = l
                 /\ \A i \in 1 .. Len(prog.phis) : \A o \in OperandsFrom(prog, i, b) :
                      PassedNext(i, o) => \E k \in 1 .. Len(movs'[b]) : movs'[b][k] = <<i, o>>
    <3>1. \A b \in Block : Four(b)
      OBVIOUS
    <3>2. MovsPassed'
      BY <1>a, <3>1 DEF MovsPassed, Passed, PassedNext
    <3>3. MovsOrdered'
      BY <3>1 DEF MovsOrdered
    <3>4. PassedHaveMovs'
      <4>1. ASSUME NEW b \in Block, NEW i \in 1 .. Len(prog.phis), NEW o \in OperandsFrom(prog, i, b), PassedNext(i, o)
            PROVE  \E k \in 1 .. Len(movs'[b]) : movs'[b][k] = <<i, o>>
        <5>1. \A i1 \in 1 .. Len(prog.phis) : \A o1 \in OperandsFrom(prog, i1, b) :
                PassedNext(i1, o1) => \E k \in 1 .. Len(movs'[b]) : movs'[b][k] = <<i1, o1>>
          BY <3>1, Zenon
        <5> QED
          BY <5>1, <4>1, Zenon
      <4> HIDE DEF Four
      <4> QED
        BY <1>a, <4>1 DEF PassedHaveMovs, Passed, PassedNext
    <3> QED
      BY <3>2, <3>3, <3>4 DEF MovsInv
  <2> DEFINE n == Len(movs[b])
  <2>d. n \in Nat
    BY <1>h
  <2>e. ASSUME NEW k \in 1 .. n
        PROVE  /\ movs[b][k][1] \in 1 .. Len(prog.phis)
               /\ movs[b][k][2] \in OperandsFrom(prog, movs[b][k][1], b)
               /\ Passed(movs[b][k][1], movs[b][k][2])
    BY <1>0 DEF MovsInv, MovsPassed
  <2>f. ASSUME NEW k \in 1 .. n
        PROVE  PassedNext(movs[b][k][1], movs[b][k][2])
    BY <2>e, <2>c, <2>a
  <2>g. \A k, l \in 1 .. n : /\ k < l => movs[b][k][1] <= movs[b][l][1]
                             /\ movs[b][k] = movs[b][l] => k = l
    BY <1>0 DEF MovsInv, MovsOrdered
  <2>h. ASSUME NEW i \in 1 .. Len(prog.phis), NEW o \in OperandsFrom(prog, i, b), Passed(i, o)
        PROVE  \E k \in 1 .. n : movs[b][k] = <<i, o>>
    BY <1>0, <2>h DEF MovsInv, PassedHaveMovs
  <2>1. CASE b # B
    <3>1. movs'[b] = movs[b]
      BY <2>1, <1>g, <1>h
    <3>3. ASSUME NEW i \in 1 .. Len(prog.phis), NEW o \in OperandsFrom(prog, i, b), PassedNext(i, o)
          PROVE  \E k \in 1 .. n : movs[b][k] = <<i, o>>
      <4>1. ~(i = iPhi /\ o = iOperand)
        BY <2>1, <1>f DEF OperandsFrom
      <4>2. Passed(i, o)
        BY <4>1, <3>3, <2>a, <2>c
      <4> QED
        BY <4>2, <2>h
    <3> QED
      BY <3>1, <3>3, <2>e, <2>f, <2>g
  <2>2. CASE b = B
    <3>1. movs'[b] = Append(movs[b], m)
      BY <2>2, <1>g, <1>h, <1>f
    <3>2. Len(movs'[b]) = n + 1 /\ movs'[b][n + 1] = m /\ \A k \in 1 .. n : movs'[b][k] = movs[b][k]
      BY <3>1, <1>h, <1>i
    <3>3. m[1] = iPhi /\ m[2] = iOperand
      OBVIOUS
    <3>4. ASSUME NEW k \in 1 .. n
          PROVE  movs[b][k][1] <= iPhi /\ movs[b][k] # m
      <4>1. movs[b][k][1] \in Nat /\ movs[b][k][2] \in Nat
        BY <2>e, <2>c
      <4>2. movs[b][k][1] < iPhi \/ (movs[b][k][1] = iPhi /\ movs[b][k][2] < iOperand)
        BY <2>e DEF Passed
      <4> QED
        BY <4>1, <4>2, <3>3, <1>b
    <3> HIDE DEF m
    <3>5. ASSUME NEW k \in 1 .. n + 1
          PROVE  /\ movs'[b][k][1] \in 1 .. Len(prog.phis)
                 /\ movs'[b][k][2] \in OperandsFrom(prog, movs'[b][k][1], b)
                 /\ PassedNext(movs'[b][k][1], movs'[b][k][2])
      <4>1. CASE k \in 1 .. n
        <5>1. movs'[b][k] = movs[b][k]
          BY <4>1, <3>2
        <5> QED
          BY <4>1, <5>1, <2>e, <2>f
      <4>2. CASE k = n + 1
        <5>1. movs'[b][k][1] = iPhi /\ movs'[b][k][2] = iOperand
          BY <4>2, <3>2, <3>3
        <5>2. PassedNext(iPhi, iOperand)
          BY <1>b, <1>z DEF Passed, PassedNext
        <5> QED
          BY <5>1, <5>2, <1>c, <1>f, <2>2
      <4> QED
        BY <4>1, <4>2, <2>d
    <3>6. ASSUME NEW k \in 1 .. n + 1, NEW l \in 1 .. n + 1
          PROVE  /\ k < l => movs'[b][k][1] <= movs'[b][l][1]
                 /\ movs'[b][k] = movs'[b][l] => k = l
      <4>1. CASE k \in 1 .. n /\ l \in 1 .. n
        BY <4>1, <3>2, <2>g
      <4>2. CASE k \in 1 .. n /\ l = n + 1
        BY <4>2, <2>d, <3>2, <3>3, <3>4
      <4>3. CASE k = n + 1 /\ l \in 1 .. n
        BY <4>3, <2>d, <3>2, <3>3, <3>4
      <4>4. CASE k = n + 1 /\ l = n + 1
        BY <4>4, <2>d
      <4> QED
        BY <4>1, <4>2, <4>3, <4>4, <2>d
    <3>7. ASSUME NEW i \in 1 .. Len(prog.phis), NEW o \in OperandsFrom(prog, i, b), PassedNext(i, o)
          PROVE  \E k \in 1 .. n + 1 : movs'[b][k] = <<i, o>>
      <4>1. CASE Passed(i, o)
        <5>1. PICK k \in 1 .. n : movs[b][k] = <<i, o>>
          BY <4>1, <2>h
        <5> QED
          BY <5>1, <3>2, <2>d
      <4>2. CASE i = iPhi /\ o = iOperand
        <5>1. movs'[b][n + 1] = <<i, o>>
          BY <4>2, <3>2 DEF m
        <5> QED
          BY <5>1, <2>d
      <4> QED
        BY <4>1, <4>2, <3>7, <2>a, <2>c
    <3> QED
      BY <3>2, <3>5, <3>6, <3>7
  <2> QED
    BY <2>1, <2>2
<1>3. RunStarted' /\ RunInv'
  BY <1>z DEF RunStarted, RunInv
<1>4. NotStarted'
  BY <1>a, <1>z, <1>0 DEF NotStarted
<1> QED
  BY <1>1, <1>2, <1>3, <1>4 DEF IInv

(* All operands of a phi are passed when the loop leaves it.               *)
LEMMA NextPhiInv ==
  ASSUME SafeInv, NextPhi
  PROVE  IInv'
<1>a. prog' = prog
  BY DEF prog, NextPhi
<1>0. TypeOK /\ MovsInv /\ RunStarted /\ NotStarted /\ RunInv
  BY DEF SafeInv, IInv
<1>z. /\ phase = "translate" /\ iPhi' = iPhi + 1 /\ iOperand' = 1
      /\ iPhi <= Len(prog.phis) /\ iOperand > Len(prog.phis[iPhi].ops)
      /\ UNCHANGED <<fn, phase, movs, env, regs, bb, pc, done, flag>>
  BY DEF NextPhi
<1>c. ASSUME NEW b \in Block, NEW i \in 1 .. Len(prog.phis), NEW o \in OperandsFrom(prog, i, b)
      PROVE  PassedNext(i, o) <=> Passed(i, o)
  <2>1. i \in Nat /\ Len(prog.phis[i].ops) \in Nat /\ iPhi \in Nat /\ iOperand \in Nat
    BY <1>0, PhiType
  <2>2. o \in 1 .. Len(prog.phis[i].ops)
    BY DEF OperandsFrom
  <2> QED
    BY <1>z, <2>1, <2>2 DEF Passed, PassedNext
<1>1. TypeOK'
  BY <1>a, <1>0, <1>z, PhiType DEF TypeOK
<1>2. MovsInv'
  <2>1. MovsPassed'
    <3>1. ASSUME NEW b \in Block, NEW k \in 1 .. Len(movs[b])
          PROVE  /\ movs[b][k][1] \in 1 .. Len(prog.phis)
                 /\ movs[b][k][2] \in OperandsFrom(prog, movs[b][k][1], b)
                 /\ PassedNext(movs[b][k][1], movs[b][k][2])
      BY <1>0, <1>c DEF MovsInv, MovsPassed
    <3> QED
      BY <1>a, <1>z, <3>1 DEF MovsPassed, Passed, PassedNext
  <2>2. MovsOrdered'
    BY <1>0, <1>z DEF MovsInv, MovsOrdered
  <2>3. PassedHaveMovs'
    <3>1. ASSUME NEW b \in Block, NEW i \in 1 .. Len(prog.phis), NEW o \in OperandsFrom(prog, i, b), PassedNext(i, o)
          PROVE  \E k \in 1 .. Len(movs[b]) : movs[b][k] = <<i, o>>
      BY <1>0, <1>c, <3>1 DEF MovsInv, PassedHaveMovs
    <3> QED
      BY <1>a, <1>z, <3>1 DEF PassedHaveMovs, Passed, PassedNext
  <2> QED
    BY <2>1, <2>2, <2>3 DEF MovsInv
<1>3. RunStarted' /\ RunInv'
  BY <1>z DEF RunStarted, RunInv
<1>4. NotStarted'
  BY <1>a, <1>z, <1>0 DEF NotStarted
<1> QED
  BY <1>1, <1>2, <1>3, <1>4 DEF IInv

LEMMA PhisProcessedInv ==
  ASSUME SafeInv, PhisProcessed
  PROVE  IInv'
<1>a. prog' = prog
  BY DEF prog, PhisProcessed
<1>0. TypeOK /\ MovsInv /\ RunStarted /\ NotStarted /\ RunInv
  BY DEF SafeInv, IInv
<1>z. /\ phase = "translate" /\ phase' = "run" /\ iPhi > Len(prog.phis)
      /\ UNCHANGED <<fn, iPhi, iOperand, movs, env, regs, bb, pc, done, flag>>
  BY DEF PhisProcessed
<1>1. TypeOK'
  BY <1>a, <1>0, <1>z DEF TypeOK
<1>2. MovsInv'
  BY <1>a, <1>0, <1>z, MovsUnchanged
<1>3. RunStarted' /\ NotStarted'
  BY <1>a, <1>0, <1>z, PhiType DEF RunStarted, NotStarted
<1>4. RunInv'
  <2>1. InsertionPoint(prog, bb) \in Nat /\ pc = 0 /\ done = 0 /\ flag = NoFlag
    BY <1>0, <1>z, BlockType DEF NotStarted
  <2>2. \A v \in prog.live[bb][0] : regs[v] = env[v]
    BY <1>0, <1>z DEF NotStarted
  <2> QED
    BY <1>a, <1>z, <2>1, <2>2 DEF RunInv
<1> QED
  BY <1>1, <1>2, <1>3, <1>4 DEF IInv

-----------------------------------------------------------------------------
(* What Safe says of the movs of the block that runs.                      *)
LEMMA MovFacts ==
  ASSUME SafeInv, NEW k \in 1 .. Len(movs[bb])
  PROVE  LET src == MovSrc(prog, movs[bb][k])
             dst == MovDst(prog, movs[bb][k])
         IN  /\ src \in Value /\ dst \in Value
             /\ \A n \in Boundary(prog, bb) : n >= InsertionPoint(prog, bb) => src \in prog.live[bb][n]
             /\ \A n \in 1 .. Len(Body) : n > InsertionPoint(prog, bb) =>
                  dst # Body[n].src /\ Body[n].dst # src /\ Body[n].dst # dst
             /\ InsertionPoint(prog, bb) < Len(Body) => dst # prog.cond[bb]
             /\ \A l \in 1 .. Len(movs[bb]) : k < l =>
                  dst # MovSrc(prog, movs[bb][l]) /\ dst # MovDst(prog, movs[bb][l])
<1>0. TypeOK /\ MovsPassed /\ MovsOrdered /\ Safe(prog) /\ bb \in Block
  BY DEF SafeInv, IInv, MovsInv, TypeOK
<1> DEFINE P(l) == movs[bb][l][1]
           O(l) == movs[bb][l][2]
<1>1. ASSUME NEW l \in 1 .. Len(movs[bb])
      PROVE  /\ P(l) \in 1 .. Len(prog.phis) /\ O(l) \in OperandsFrom(prog, P(l), bb)
             /\ MovSrc(prog, movs[bb][l]) = prog.phis[P(l)].ops[O(l)].value
             /\ MovDst(prog, movs[bb][l]) = prog.phis[P(l)].dst
             /\ movs[bb][l] = <<P(l), O(l)>>
  <2>1. movs[bb] \in Seq(Nat \X Nat)
    BY <1>0 DEF TypeOK
  <2>2. movs[bb][l] \in Nat \X Nat
    BY <2>1, SeqElement
  <2> QED
    BY <1>0, <2>2 DEF MovsPassed, MovSrc, MovDst
<1>2. P(k) \in 1 .. Len(prog.phis) /\ O(k) \in OperandsFrom(prog, P(k), bb)
  BY <1>1
<1>3. /\ prog.phis[P(k)].dst \in Value
      /\ prog.phis[P(k)].ops[O(k)].value \in Value
  BY <1>0, <1>2, PhiType DEF OperandsFrom
<1>4. \A n \in Boundary(prog, bb) :
        n >= InsertionPoint(prog, bb) => prog.phis[P(k)].ops[O(k)].value \in prog.live[bb][n]
  BY <1>0, <1>2 DEF Safe, NothingAfterMovs
<1>5. /\ \A n \in 1 .. Len(Body) : n > InsertionPoint(prog, bb) =>
           /\ prog.phis[P(k)].dst # Body[n].src
           /\ Body[n].dst # prog.phis[P(k)].ops[O(k)].value
           /\ Body[n].dst # prog.phis[P(k)].dst
      /\ InsertionPoint(prog, bb) < Len(Body) => prog.phis[P(k)].dst # prog.cond[bb]
  BY <1>0, <1>2 DEF Safe, NothingAfterMovs, Body
<1>6. ASSUME NEW l \in 1 .. Len(movs[bb]), k < l
      PROVE  /\ prog.phis[P(k)].dst # prog.phis[P(l)].ops[O(l)].value
             /\ prog.phis[P(k)].dst # prog.phis[P(l)].dst
  <2>1. P(l) \in 1 .. Len(prog.phis) /\ O(l) \in OperandsFrom(prog, P(l), bb)
    BY <1>1
  <2>2. P(k) <= P(l) /\ (movs[bb][k] = movs[bb][l] => k = l)
    BY <1>0, <1>6 DEF MovsOrdered
  <2>3. k # l /\ Len(prog.phis) \in Nat
    BY <1>0, <1>6, PhiType, BlockType
  <2>4. P(k) # P(l)
    <3>1. ASSUME P(k) = P(l)
          PROVE  O(k) = O(l)
      BY <1>0, <1>2, <2>1, <3>1 DEF Safe, WellFormed, PhisWellFormed
    <3> QED
      BY <3>1, <1>1, <2>2, <2>3
  <2>5. P(k) < P(l)
    BY <1>2, <2>1, <2>2, <2>3, <2>4
  <2>6. prog.phis[P(k)].dst # prog.phis[P(l)].ops[O(l)].value
    BY <1>0, <1>2, <2>1, <2>5 DEF Safe, MovsInOrder
  <2>7. prog.phis[P(k)].dst # prog.phis[P(l)].dst
    BY <1>0, <1>2, <2>1, <2>4 DEF Safe, WellFormed, PhisWellFormed
  <2> QED
    BY <2>6, <2>7
<1> HIDE DEF P, O
<1> QED
  BY <1>1, <1>3, <1>4, <1>5, <1>6

(* A register a mov wrote is no longer the IR's.                           *)
LEMMA NotWritten ==
  ASSUME NEW v, \A k \in 1 .. done : MovDst(prog, movs[bb][k]) # v
  PROVE  v \notin Written
BY DEF Written

(* An instruction before the movs runs with none of them done, one after
   them with all done, and then reads and writes none of their registers.  *)
LEMMA RunInstrInv ==
  ASSUME SafeInv, RunInstr
  PROVE  IInv'
<1>a. prog' = prog
  BY DEF prog, RunInstr
<1>0. TypeOK /\ MovsInv /\ RunStarted /\ NotStarted /\ RunInv /\ Safe(prog)
  BY DEF SafeInv, IInv
<1> DEFINE instr == Body[pc + 1]
<1>z. /\ phase = "run" /\ pc < Len(Body) /\ pc' = pc + 1
      /\ pc = InsertionPoint(prog, bb) => MovsDone
      /\ env' = [env EXCEPT ![instr.dst] = Result(instr, env)]
      /\ regs' = [regs EXCEPT ![instr.dst] = Result(instr, regs)]
      /\ UNCHANGED <<fn, phase, iPhi, iOperand, movs, bb, done, flag>>
  BY DEF RunInstr
<1>b. /\ bb \in Block /\ pc \in Nat /\ Len(Body) \in Nat /\ pc + 1 \in 1 .. Len(Body)
      /\ InsertionPoint(prog, bb) \in Nat /\ done \in Nat /\ Len(movs[bb]) \in Nat
      /\ done <= Len(movs[bb])
  BY <1>0, <1>z, BlockType DEF TypeOK
<1>c. instr.src \in Value /\ instr.dst \in Value
  BY <1>0, <1>b, BlockType
<1>d. {instr.src} \union (prog.live[bb][pc + 1] \ {instr.dst}) \subseteq prog.live[bb][pc]
  <2>1. PICK i \in 1 .. Len(Body) : i = pc + 1 /\ i - 1 = pc
    BY <1>b
  <2>2. {Body[i].src} \union (prog.live[bb][i] \ {Body[i].dst}) \subseteq prog.live[bb][i - 1]
    BY <1>0, <1>b DEF Safe, WellFormed, LiveIsLive, Body
  <2> QED
    BY <2>1, <2>2
<1>e. env \in [Value -> Data] /\ regs \in [Value -> Data]
  BY <1>0 DEF TypeOK
<1>f. /\ done > 0 => pc >= InsertionPoint(prog, bb)
      /\ pc > InsertionPoint(prog, bb) => MovsDone
      /\ \A v \in prog.live[bb][pc] \ Written : regs[v] = env[v]
      /\ \A k \in 1 .. done : regs[MovDst(prog, movs[bb][k])] = env[MovSrc(prog, movs[bb][k])]
      /\ flag = NoFlag
      /\ done > 0 /\ Len(prog.succs[bb]) = 2 => InsertionPoint(prog, bb) < Len(Body)
  BY <1>0, <1>z, <1>b DEF RunInv
<1>g. ASSUME NEW k \in 1 .. done
      PROVE  /\ MovDst(prog, movs[bb][k]) # instr.src
             /\ MovDst(prog, movs[bb][k]) # instr.dst
             /\ MovSrc(prog, movs[bb][k]) # instr.dst
             /\ MovDst(prog, movs[bb][k]) \in Value /\ MovSrc(prog, movs[bb][k]) \in Value
  <2>1. k \in 1 .. Len(movs[bb]) /\ pc + 1 > InsertionPoint(prog, bb)
    BY <1>b, <1>f
  <2> QED
    BY <1>b, <2>1, MovFacts
<1>h. regs[instr.src] = env[instr.src]
  BY <1>d, <1>f, <1>g, NotWritten
<1>i. Result(instr, regs) = Result(instr, env) /\ Result(instr, regs) \in Data
  BY <1>c, <1>e, <1>h, OpAssumption DEF Result
<1> HIDE DEF instr
<1>1. TypeOK'
  <2>1. env' \in [Value -> Data] /\ regs' \in [Value -> Data]
    BY <1>c, <1>e, <1>i, <1>z
  <2>2. pc' \in Boundary(prog, bb)
    BY <1>b, <1>z DEF Boundary, Body
  <2> QED
    BY <1>a, <1>0, <1>z, <2>1, <2>2 DEF TypeOK
<1>2. MovsInv'
  BY <1>a, <1>0, <1>z, MovsUnchanged
<1>3. RunStarted' /\ NotStarted'
  BY <1>a, <1>0, <1>z DEF RunStarted, NotStarted
<1>4. RunInv'
  <2>1. (done > 0 => pc + 1 >= InsertionPoint(prog, bb)) /\ (pc + 1 > InsertionPoint(prog, bb) => MovsDone)
    BY <1>b, <1>f, <1>z
  <2>2. ASSUME NEW v \in prog.live[bb][pc + 1] \ Written
        PROVE  regs'[v] = env'[v]
    <3>1. v \in Value
      BY <1>0, <1>b, BlockType DEF Boundary, Body
    <3>2. CASE v = instr.dst
      BY <3>1, <3>2, <1>z, <1>e, <1>i
    <3>3. CASE v # instr.dst
      <4>1. regs[v] = env[v]
        BY <3>3, <1>d, <1>f
      <4> QED
        BY <4>1, <3>1, <3>3, <1>z, <1>e
    <3> QED
      BY <3>2, <3>3
  <2>3. ASSUME NEW k \in 1 .. done
        PROVE  regs'[MovDst(prog, movs[bb][k])] = env'[MovSrc(prog, movs[bb][k])]
    BY <1>e, <1>f, <1>g, <1>z
  <2>4. Written' = Written /\ MovsDone' = MovsDone /\ Body' = Body
    BY <1>a, <1>z DEF Written, MovsDone, Body
  <2> QED
    BY <1>a, <1>z, <1>f, <2>1, <2>2, <2>3, <2>4 DEF RunInv
<1> QED
  BY <1>1, <1>2, <1>3, <1>4 DEF IInv

(* What a mov reads was not written by the movs before it.                 *)
LEMMA RunMovInv ==
  ASSUME SafeInv, RunMov
  PROVE  IInv'
<1>a. prog' = prog
  BY DEF prog, RunMov
<1>0. TypeOK /\ MovsInv /\ RunStarted /\ NotStarted /\ RunInv /\ Safe(prog)
  BY DEF SafeInv, IInv
<1> DEFINE src(k) == MovSrc(prog, movs[bb][k])
           dst(k) == MovDst(prog, movs[bb][k])
<1>z. /\ phase = "run" /\ pc = InsertionPoint(prog, bb) /\ done # Len(movs[bb])
      /\ pc = Len(Body) /\ Len(prog.succs[bb]) = 2 => flag # NoFlag
      /\ regs' = [regs EXCEPT ![dst(done + 1)] = regs[src(done + 1)]]
      /\ done' = done + 1
      /\ UNCHANGED <<fn, phase, iPhi, iOperand, movs, env, bb, pc, flag>>
  BY DEF RunMov, MovsDone
<1>b. /\ bb \in Block /\ pc \in Boundary(prog, bb) /\ pc \in Nat /\ pc <= Len(Body) /\ Len(Body) \in Nat
      /\ done \in Nat /\ Len(movs[bb]) \in Nat /\ done + 1 \in 1 .. Len(movs[bb])
      /\ prog.live[bb][pc] \subseteq Value
  <2>1. /\ bb \in Block /\ pc \in Boundary(prog, bb) /\ done \in 0 .. Len(movs[bb])
        /\ movs \in [Block -> Seq(Nat \X Nat)]
    BY <1>0 DEF TypeOK
  <2>2. Len(movs[bb]) \in Nat
    BY <2>1
  <2>3. /\ pc \in Nat /\ pc <= Len(Body) /\ Len(Body) \in Nat
        /\ prog.live[bb][pc] \subseteq Value
    BY <1>0, <2>1, BlockType
  <2> QED
    BY <1>z, <2>1, <2>2, <2>3
<1>c. src(done + 1) \in Value /\ dst(done + 1) \in Value /\ src(done + 1) \in prog.live[bb][pc]
  BY <1>b, <1>z, MovFacts
<1>d. ASSUME NEW k \in 1 .. done
      PROVE  /\ dst(k) # src(done + 1) /\ dst(k) # dst(done + 1)
             /\ dst(k) \in Value
  <2>1. k \in 1 .. Len(movs[bb]) /\ k < done + 1
    BY <1>b
  <2> QED
    BY <1>b, <2>1, MovFacts
<1>e. env \in [Value -> Data] /\ regs \in [Value -> Data]
  BY <1>0 DEF TypeOK
<1>f. /\ \A v \in prog.live[bb][pc] \ Written : regs[v] = env[v]
      /\ \A k \in 1 .. done : regs[dst(k)] = env[src(k)]
      /\ flag # NoFlag => pc = Len(Body) /\ Len(prog.succs[bb]) = 2 /\ flag = env[prog.cond[bb]]
  BY <1>0, <1>z DEF RunInv
<1>g. regs[src(done + 1)] = env[src(done + 1)]
  BY <1>c, <1>d, <1>f, NotWritten
<1>1. TypeOK'
  <2>1. regs' \in [Value -> Data] /\ done' \in 0 .. Len(movs[bb])
    BY <1>b, <1>c, <1>e, <1>z
  <2> QED
    BY <1>a, <1>0, <1>z, <2>1 DEF TypeOK
<1>2. MovsInv'
  BY <1>a, <1>0, <1>z, MovsUnchanged
<1>3. RunStarted' /\ NotStarted'
  BY <1>a, <1>0, <1>z DEF RunStarted, NotStarted
<1>4. RunInv'
  <2>1. Written' = Written \union {dst(done + 1)}
    <3>1. Written' = {dst(k) : k \in 1 .. done + 1}
      BY <1>a, <1>z DEF Written
    <3>2. 1 .. done + 1 = (1 .. done) \union {done + 1}
      BY <1>b
    <3> QED
      BY <3>1, <3>2 DEF Written
  <2>2. ASSUME NEW v \in prog.live[bb][pc] \ Written'
        PROVE  regs'[v] = env[v]
    BY <2>1, <1>b, <1>c, <1>e, <1>f, <1>z
  <2>3. ASSUME NEW k \in 1 .. done + 1
        PROVE  regs'[dst(k)] = env[src(k)]
    <3>1. CASE k \in 1 .. done
      BY <3>1, <1>c, <1>d, <1>e, <1>f, <1>z
    <3>2. CASE k = done + 1
      BY <3>2, <1>c, <1>e, <1>g, <1>z
    <3> QED
      BY <3>1, <3>2, <1>b
  <2>4. Body' = Body
    BY <1>a, <1>z DEF Body
  <2>5. pc >= InsertionPoint(prog, bb) /\ ~(pc > InsertionPoint(prog, bb))
    BY <1>b, <1>z
  <2>6. flag = NoFlag /\ Len(prog.succs[bb]) = 2 => InsertionPoint(prog, bb) < Len(Body)
    BY <1>b, <1>z
  <2> QED
    BY <1>a, <1>z, <1>f, <2>2, <2>3, <2>4, <2>5, <2>6 DEF RunInv
<1> QED
  BY <1>1, <1>2, <1>3, <1>4 DEF IInv

(* The condition is a phi's register only when the movs come after the
   test.                                                                   *)
LEMMA RunTestInv ==
  ASSUME SafeInv, RunTest
  PROVE  IInv'
<1>a. prog' = prog
  BY DEF prog, RunTest
<1>0. TypeOK /\ MovsInv /\ RunStarted /\ NotStarted /\ RunInv /\ Safe(prog)
  BY DEF SafeInv, IInv
<1>z. /\ phase = "run" /\ pc = Len(Body) /\ Len(prog.succs[bb]) = 2 /\ flag = NoFlag
      /\ flag' = regs[prog.cond[bb]]
      /\ UNCHANGED <<fn, phase, iPhi, iOperand, movs, env, regs, bb, pc, done>>
  BY DEF RunTest
<1>b. /\ bb \in Block /\ done \in Nat /\ done <= Len(movs[bb]) /\ Len(movs[bb]) \in Nat
      /\ prog.cond[bb] \in Value
  BY <1>0, BlockType DEF TypeOK
<1>c. regs \in [Value -> Data]
  BY <1>0 DEF TypeOK
<1>d. flag' \in Data /\ flag' # NoFlag
  BY <1>b, <1>c, <1>z, FlagAssumption
<1>e. prog.cond[bb] \in prog.live[bb][pc]
  BY <1>0, <1>b, <1>z DEF Safe, WellFormed, LiveIsLive, Body
<1>f. ASSUME NEW k \in 1 .. done
      PROVE  MovDst(prog, movs[bb][k]) # prog.cond[bb]
  <2>1. k \in 1 .. Len(movs[bb]) /\ done > 0
    BY <1>b
  <2>2. InsertionPoint(prog, bb) < Len(Body)
    BY <1>0, <1>z, <2>1 DEF RunInv
  <2> QED
    BY <2>1, <2>2, MovFacts
<1>g. regs[prog.cond[bb]] = env[prog.cond[bb]]
  BY <1>0, <1>e, <1>f, <1>z, NotWritten DEF RunInv
<1>1. TypeOK'
  BY <1>a, <1>0, <1>d, <1>z DEF TypeOK
<1>2. MovsInv'
  BY <1>a, <1>0, <1>z, MovsUnchanged
<1>3. RunStarted' /\ NotStarted'
  BY <1>a, <1>0, <1>z DEF RunStarted, NotStarted
<1>4. RunInv'
  <2>1. Written' = Written /\ MovsDone' = MovsDone /\ Body' = Body
    BY <1>a, <1>z DEF Written, MovsDone, Body
  <2> QED
    BY <1>a, <1>0, <1>d, <1>g, <1>z, <2>1 DEF RunInv
<1> QED
  BY <1>1, <1>2, <1>3, <1>4 DEF IInv

(* On an edge every phi of its target was written by its mov, and nothing
   else that is live was.                                                  *)
LEMMA JumpInv ==
  ASSUME SafeInv, Jump
  PROVE  IInv'
<1>a. prog' = prog
  BY DEF prog, Jump
<1>0. TypeOK /\ MovsInv /\ RunStarted /\ NotStarted /\ RunInv /\ Safe(prog)
  BY DEF SafeInv, IInv
<1> DEFINE t == Target
           ofPhi(v) == CHOOSE i \in PhisOf(prog, t) : prog.phis[i].dst = v
<1>z. /\ phase = "run" /\ pc = Len(Body) /\ done = Len(movs[bb])
      /\ Len(prog.succs[bb]) \in {1, 2}
      /\ env' = [v \in Value |-> IF \E i \in PhisOf(prog, t) : prog.phis[i].dst = v
                                    THEN env[Incoming(prog, ofPhi(v), bb)] ELSE env[v]]
      /\ bb' = t /\ pc' = 0 /\ done' = 0 /\ flag' = NoFlag
      /\ UNCHANGED <<fn, phase, iPhi, iOperand, movs, regs>>
  BY DEF Jump, MovsDone
<1>b. bb \in Block /\ done \in Nat /\ Len(prog.phis) \in Nat /\ iPhi = Len(prog.phis) + 1
  BY <1>0, <1>z, BlockType, PhiType DEF TypeOK, RunStarted
<1>c. PICK s \in 1 .. Len(prog.succs[bb]) : t = prog.succs[bb][s]
  BY <1>z DEF Target
<1>d. t \in Block /\ InsertionPoint(prog, t) \in Nat
  BY <1>0, <1>b, <1>c, BlockType, PhiType, InsertionPointType
<1>e. env \in [Value -> Data] /\ regs \in [Value -> Data]
  BY <1>0 DEF TypeOK
<1>f. /\ \A v \in prog.live[bb][Len(Body)] \ Written : regs[v] = env[v]
      /\ \A k \in 1 .. Len(movs[bb]) : regs[MovDst(prog, movs[bb][k])] = env[MovSrc(prog, movs[bb][k])]
  BY <1>0, <1>z DEF RunInv
<1> HIDE DEF t
<1>g. ASSUME NEW i \in PhisOf(prog, t)
      PROVE  /\ Incoming(prog, i, bb) \in Value
             /\ regs[prog.phis[i].dst] = env[Incoming(prog, i, bb)]
  <2>1. i \in 1 .. Len(prog.phis) /\ prog.phis[i].bb = t
    BY DEF PhisOf
  <2>2. OperandsFrom(prog, i, bb) # {}
    BY <1>0, <1>b, <1>c, <2>1 DEF Safe, WellFormed, PhisWellFormed
  <2> DEFINE o == CHOOSE x \in OperandsFrom(prog, i, bb) : TRUE
  <2>3. o \in OperandsFrom(prog, i, bb)
    BY <2>2
  <2>4. Incoming(prog, i, bb) = prog.phis[i].ops[o].value
    BY DEF Incoming
  <2> HIDE DEF o
  <2>5. Passed(i, o)
    BY <1>b, <2>1 DEF Passed
  <2>6. PICK k \in 1 .. Len(movs[bb]) : movs[bb][k] = <<i, o>>
    BY <1>0, <1>b, <2>1, <2>3, <2>5 DEF MovsInv, PassedHaveMovs
  <2>7. MovDst(prog, movs[bb][k]) = prog.phis[i].dst /\ MovSrc(prog, movs[bb][k]) = prog.phis[i].ops[o].value
    BY <2>6 DEF MovDst, MovSrc
  <2>8. MovSrc(prog, movs[bb][k]) \in Value
    BY MovFacts
  <2> QED
    BY <1>f, <2>4, <2>7, <2>8
<1>h. ASSUME NEW v \in Value, \E i \in PhisOf(prog, t) : prog.phis[i].dst = v
      PROVE  ofPhi(v) \in PhisOf(prog, t) /\ prog.phis[ofPhi(v)].dst = v
  BY <1>h
<1> HIDE DEF ofPhi
<1>1. TypeOK'
  <2>1. env' \in [Value -> Data]
    BY <1>e, <1>g, <1>h, <1>z
  <2>2. pc' \in Boundary(prog, t) /\ done' \in 0 .. Len(movs[t])
    <3>1. Len(prog.code[t]) \in Nat /\ Len(movs[t]) \in Nat
      <4>1. movs[t] \in Seq(Nat \X Nat)
        BY <1>0, <1>d DEF TypeOK
      <4>2. Len(prog.code[t]) \in Nat
        BY <1>0, <1>d, PhiType DEF IsProgram
      <4> QED
        BY <4>1, <4>2
    <3> QED
      BY <3>1, <1>z DEF Boundary
  <2> QED
    BY <1>a, <1>0, <1>d, <1>z, <2>1, <2>2 DEF TypeOK
<1>2. MovsInv'
  BY <1>a, <1>0, <1>z, MovsUnchanged
<1>3. RunStarted' /\ NotStarted'
  BY <1>a, <1>0, <1>z DEF RunStarted, NotStarted
<1>4. RunInv'
  <2>1. ASSUME NEW v \in prog.live[t][0]
        PROVE  regs[v] = env'[v]
    <3>0. v \in Value
      <4>1. Len(prog.code[t]) \in Nat /\ 0 \in Boundary(prog, t)
        BY <1>0, <1>d, PhiType DEF IsProgram, Boundary
      <4> QED
        BY <1>0, <1>d, <4>1, BlockType
    <3>1. CASE \E i \in PhisOf(prog, t) : prog.phis[i].dst = v
      <4>1. env'[v] = env[Incoming(prog, ofPhi(v), bb)]
        BY <3>0, <3>1, <1>z
      <4> QED
        BY <3>0, <3>1, <4>1, <1>g, <1>h
    <3>2. CASE ~ \E i \in PhisOf(prog, t) : prog.phis[i].dst = v
      <4>1. env'[v] = env[v]
        BY <3>0, <3>2, <1>z
      <4>2. v \in prog.live[bb][Len(Body)]
        <5>1. prog.live[t][0] \ {prog.phis[i].dst : i \in PhisOf(prog, t)} \subseteq prog.live[bb][Len(Body)]
          BY <1>0, <1>b, <1>c DEF Safe, WellFormed, LiveIsLive, Body
        <5> QED
          BY <5>1, <3>2
      <4>3. ASSUME NEW k \in 1 .. done
            PROVE  MovDst(prog, movs[bb][k]) # v
        <5> DEFINE i == movs[bb][k][1]
        <5>1. i \in 1 .. Len(prog.phis) /\ OperandsFrom(prog, i, bb) # {}
          BY <1>0, <1>b, <1>z DEF MovsInv, MovsPassed
        <5>2. prog.phis[i].dst = v => prog.phis[i].bb = t
          <6>1. NothingLost(prog)
            BY <1>0 DEF Safe
          <6>2. v \in prog.live[t][0]
            BY <2>1
          <6> HIDE DEF i
          <6>3. bb \in Block /\ \E n \in 1 .. Len(prog.succs[bb]) : prog.succs[bb][n] = t
            BY <1>b, <1>c
          <6> QED
            BY <5>1, <6>1, <6>2, <6>3 DEF NothingLost
        <5> QED
          BY <5>1, <5>2, <3>2 DEF MovDst, PhisOf
      <4> QED
        BY <4>1, <4>2, <4>3, <1>f, NotWritten
    <3> QED
      BY <3>1, <3>2
  <2> QED
    BY <1>a, <1>d, <1>z, <2>1 DEF RunInv
<1> QED
  BY <1>1, <1>2, <1>3, <1>4 DEF IInv

(* No action changes the function.                                         *)
LEMMA StepInv == SafeInv /\ [Next]_vars => SafeInv'
<1> SUFFICES ASSUME SafeInv, [Next]_vars PROVE SafeInv'
  OBVIOUS
<1>1. Safe(prog)'
  BY DEF SafeInv, Next, vars, prog, InsertMov, NextPhi, PhisProcessed, RunInstr, RunMov, RunTest, Jump
<1>2. IInv'
  <2>1. CASE UNCHANGED vars
    <3>1. prog' = prog /\ UNCHANGED <<fn, phase, iPhi, iOperand, movs, env, regs, bb, pc, done, flag>>
      BY <2>1 DEF vars, prog
    <3>2. TypeOK' /\ RunStarted' /\ NotStarted'
      BY <3>1 DEF SafeInv, IInv, TypeOK, RunStarted, NotStarted
    <3>3. MovsInv'
      BY <3>1, MovsUnchanged DEF SafeInv, IInv
    <3>4. RunInv'
      <4>1. Written' = Written /\ MovsDone' = MovsDone /\ Body' = Body
        BY <3>1 DEF Written, MovsDone, Body
      <4>2. RunInv
        BY DEF SafeInv, IInv
      <4> QED
        BY <3>1, <4>1, <4>2 DEF RunInv
    <3> QED
      BY <3>2, <3>3, <3>4 DEF IInv
  <2>2. CASE InsertMov
    BY <2>2, InsertMovInv
  <2>3. CASE NextPhi
    BY <2>3, NextPhiInv
  <2>4. CASE PhisProcessed
    BY <2>4, PhisProcessedInv
  <2>5. CASE RunInstr
    BY <2>5, RunInstrInv
  <2>6. CASE RunMov
    BY <2>6, RunMovInv
  <2>7. CASE RunTest
    BY <2>7, RunTestInv
  <2>8. CASE Jump
    BY <2>8, JumpInv
  <2> QED
    BY <2>1, <2>2, <2>3, <2>4, <2>5, <2>6, <2>7, <2>8 DEF Next
<1> QED
  BY <1>1, <1>2 DEF SafeInv

-----------------------------------------------------------------------------
(* The registers agree with the IR but for the phis whose movs have run, in
   every state of every safe function.                                     *)
THEOREM Invariance == SafeSpec => []SafeInv
<1> QED
  BY InitInv, StepInv, PTL DEF SafeSpec

(* Every variable has its type; in particular the loops of
   jmirgen_processPhis stay within the phis.                               *)
THEOREM TypeCorrect == SafeSpec => []TypeOK
<1>1. SafeInv => TypeOK
  BY DEF SafeInv, IInv
<1> QED
  BY <1>1, Invariance, PTL

(* The conditional jump that ends a block sees the condition the IR
   computed, although jmirgen_processPhis moved the movs before the
   comparison it found.                                                    *)
THEOREM BranchCorrect == SafeSpec => []SameBranch
<1>1. SafeInv => SameBranch
  BY DEF SafeInv, IInv, RunInv, SameBranch
<1> QED
  BY <1>1, Invariance, PTL

(* Each edge ran the movs of its phis, none overwrote what another reads,
   and none changed a register the other successor needs.                  *)
THEOREM EntryCorrect == SafeSpec => []SameOnEntry
<1>1. SafeInv => SameOnEntry
  BY DEF SafeInv, IInv, TypeOK, RunInv, Written, SameOnEntry
<1> QED
  BY <1>1, Invariance, PTL

(* A function returns what the IR says.                                    *)
THEOREM ResultCorrect == SafeSpec => []SameResult
<1>1. ASSUME SafeInv
      PROVE  SameResult
  <2>1. SUFFICES ASSUME phase = "run", pc = Len(Body), prog.succs[bb] = <<>>
                 PROVE  regs[prog.cond[bb]] = env[prog.cond[bb]]
    BY DEF SameResult
  <2>2. TypeOK /\ MovsInv /\ RunInv /\ Safe(prog) /\ bb \in Block
    BY <1>1 DEF SafeInv, IInv, TypeOK
  <2>3. Len(prog.succs[bb]) = 0
    BY <2>1
  <2>4. prog.cond[bb] \in prog.live[bb][pc]
    BY <2>1, <2>2, <2>3 DEF Safe, WellFormed, LiveIsLive, Body
  <2>5. ASSUME NEW k \in 1 .. Len(movs[bb])
        PROVE  FALSE
    <3>1. movs[bb][k][1] \in 1 .. Len(prog.phis) /\ OperandsFrom(prog, movs[bb][k][1], bb) # {}
      BY <2>2 DEF MovsInv, MovsPassed
    <3>2. \E s \in 1 .. Len(prog.succs[bb]) : prog.succs[bb][s] = prog.phis[movs[bb][k][1]].bb
      BY <2>2, <3>1 DEF Safe, WellFormed, PhisWellFormed
    <3> QED
      BY <2>3, <3>2
  <2>6. done = 0
    <3>1. done \in Nat /\ Len(movs[bb]) \in Nat /\ done <= Len(movs[bb])
      BY <2>2, BlockType
    <3> QED
      BY <3>1, <2>5
  <2> QED
    BY <2>1, <2>2, <2>4, <2>6 DEF RunInv, Written
<1> QED
  BY <1>1, Invariance, PTL
=============================================================================

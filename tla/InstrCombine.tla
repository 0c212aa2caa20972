----------------------------- MODULE InstrCombine -----------------------------
(***************************************************************************)
(* The instruction combiner (jmir_funcPass_instrCombine): in each block,    *)
(* from the first instruction to the last, an operand that a move or an     *)
(* address computation has just defined is replaced by what it was defined  *)
(* from. The combiner remembers for every register the instruction of the   *)
(* block that defined it: the instruction, not what it said at the time.    *)
(*                                                                         *)
(* Its state c is [f, ins, n, def]: the function (for fresh registers), the *)
(* block, the position of the current instruction, and for every register   *)
(* with a known definition the position of the instruction.                 *)
(***************************************************************************)
EXTENDS MirPasses, TLC

NoInstr == Ins("none", <<>>)
Cur(c) == c.ins[c.n]
Before(c, m) == IF m > 1 THEN c.ins[m - 1] ELSE NoInstr
RegDef(c, r) == IF r \in DOMAIN c.def THEN c.ins[c.def[r]] ELSE NoInstr
SetDef(c, o) == [c EXCEPT !.def = (o.r :> c.n) @@ @]
RemoveDef(c, o) == [c EXCEPT !.def = [r \in DOMAIN @ \ {o.r} |-> @[r]]]
ForgetDst(c, o) == IF IsReg(o) THEN RemoveDef(c, o) ELSE c
InsertBefore(c, m, i) ==
    [c EXCEPT !.ins = InsertAt(@, m, i), !.n = @ + 1,
              !.def = [r \in DOMAIN @ |-> IF @[r] >= m THEN @[r] + 1 ELSE @[r]]]

VirtualDst(i) == IsReg(i.a[1]) /\ IsVirtual(i.a[1].r)
IsMovVRegAny(i) == i.op \in {"mov", "movss", "movsd"} /\ VirtualDst(i)
IsMovVRegVReg(i) == IsMovVRegAny(i) /\ IsReg(i.a[2]) /\ IsVirtual(i.a[2].r)
IsLeaMem(i) == i.op = "lea" /\ VirtualDst(i) /\ IsMem(i.a[2])
IsAddVRegVReg(i) == i.op = "add" /\ VirtualDst(i) /\ IsReg(i.a[2]) /\ IsVirtual(i.a[2].r)

\* An instruction that might write to the memory m names: calls, and stores to the same operand.
WritesMem == {"mov", "movsx", "movzx", "add", "sub", "xor", "and", "or", "sar", "shr", "shl",
              "pop", "setcc", "movss", "movsd", "movaps", "movapd", "movd", "movq"}
MightWriteToMem(i, m) ==
    \/ i.op = "call"
    \/ i.op \in WritesMem /\ IsMem(i.a[1]) /\ SameMem(i.a[1], m)
IsSafe_AnyStore(c, r, m) == \A j \in (c.def[r] + 1)..(c.n - 1) : Defs(c.f, c.ins[j]) \cap AddressRegs(m) = {}
\* Between the definition of r and the current instruction, nothing writes m or its registers.
IsSafe(c, r, m) ==
    \A j \in (c.def[r] + 1)..(c.n - 1) :
        /\ Defs(c.f, c.ins[j]) \cap AddressRegs(m) = {}
        /\ ~MightWriteToMem(c.ins[j], m)

\* What a register operand was moved from, if that may stand for it (Const: for a constant).
Source(c, o, Const(_), Register(_)) ==
    LET s == RegDef(c, o.r).a[2]
    IN  IF /\ IsMovVRegAny(RegDef(c, o.r)) /\ s.t = o.t
           /\ CASE IsMem(s) -> IsSafe(c, o.r, s) [] IsImm(s) -> Const(s) [] OTHER -> Register(s)
        THEN s ELSE o
Always(o) == TRUE
Never(o) == FALSE
Narrow(o) == o.t # "I64" \/ ImmFits(o.v)

(***************************************************************************)
(* simplifyMemRef: the base and the index of a memory operand.             *)
(***************************************************************************)
\* A base that is a sum: the sum's left operand is copied first, unless it is already.
ThroughSum(c, m, i) ==
    LET at   == c.def[m.b]
        p    == Before(c, at)
        tmp  == NextReg(c.f, "I64")
        copy == Ins("mov", <<tmp, Reg("I64", i.a[1].r)>>)
        To(r) == [m EXCEPT !.b = r, !.i = i.a[2].r, !.s = 1]
    IN  IF IsMovVRegVReg(p) /\ p.a[2].r = i.a[1].r
        THEN [c |-> c, m |-> To(p.a[1].r)]
        ELSE [c |-> InsertBefore([c EXCEPT !.f = TakeReg(@, "I64")], at, copy), m |-> To(tmp.r)]
SimplifyBase(c, m) ==
    LET i == RegDef(c, m.b)
        s == i.a[2]
        Same(x) == [c |-> c, m |-> x]
    IN  CASE IsMovVRegVReg(i) -> Same([m EXCEPT !.b = s.r])
          [] IsLeaMem(i) /\ m.i = None ->
                Same([m EXCEPT !.b = s.b, !.i = s.i, !.s = s.s, !.d = @ + s.d])
          [] IsLeaMem(i) /\ m.i # None /\ s.i = None -> Same([m EXCEPT !.b = s.b, !.d = @ + s.d])
          [] IsAddVRegVReg(i) /\ m.i = None -> ThroughSum(c, m, i)
          [] OTHER -> Same(m)
SimplifyIndex(c, m) ==
    LET i == RegDef(c, m.i)
        s == i.a[2]
    IN  CASE m.i # None /\ IsVirtual(m.i) /\ IsMovVRegVReg(i) -> [m EXCEPT !.i = s.r]
          [] m.i # None /\ IsVirtual(m.i) /\ IsLeaMem(i) /\ s.i = None ->
                [m EXCEPT !.i = s.b, !.d = @ + s.d * m.s]
          [] OTHER -> m
\* The memory operand n of the current instruction, simplified.
Readdress(c, n, m) == IF SameMem(m, Cur(c).a[n]) THEN c ELSE [c EXCEPT !.ins[c.n].a[n] = m]
Simplify(c0, n) ==
    LET WithBase(b) == Readdress(b.c, n, SimplifyIndex(b.c, b.m))
    IN  WithBase(SimplifyBase(c0, Cur(c0).a[n]))
SimplifyAny(c) ==
    CASE IsMem(Cur(c).a[1]) -> Simplify(c, 1)
      [] ~IsMem(Cur(c).a[1]) /\ Len(Cur(c).a) > 1 /\ IsMem(Cur(c).a[2]) -> Simplify(c, 2)
      [] OTHER -> c
Replace(c, n, Const(_), Register(_)) ==
    [c EXCEPT !.ins[c.n].a[n] = Source(c, @, Const, Register)]

(***************************************************************************)
(* One instruction                                                         *)
(***************************************************************************)
CombineCmp(c) ==
    LET a == Cur(c).a
    IN  CASE IsReg(a[1]) /\ IsImm(a[2]) -> Replace(c, 1, Never, IsReg)
          [] IsReg(a[1]) /\ IsReg(a[2]) -> Replace(c, 2, Narrow, Always)
          [] OTHER -> SimplifyAny(c)
\* A register that got a value is known unless the value came from a hardware register.
NoteMove(c) ==
    LET a == Cur(c).a
    IN  IF a[2].k = "sym" \/ (IsReg(a[2]) /\ ~IsVirtual(a[2].r))
        THEN RemoveDef(c, a[1]) ELSE SetDef(c, a[1])
CombineLoad(c) ==
    NoteMove(IF IsReg(Cur(c).a[2]) THEN Replace(c, 2, Always, Always) ELSE SimplifyAny(c))
\* The value stored: what its register was copied from, then what that was moved from.
StoredCopy(c) ==
    LET o == Cur(c).a[2]
        i == RegDef(c, o.r)
    IN  IF IsMovVRegVReg(i) /\ i.a[2].t = o.t THEN [c EXCEPT !.ins[c.n].a[2] = i.a[2]] ELSE c
StoredSource(c) ==
    LET o == Cur(c).a[2]
        i == RegDef(c, o.r)
    IN  IF /\ i.op = "mov" /\ i.a[2].t = o.t
           /\ (IsReg(i.a[2]) \/ (IsImm(i.a[2]) /\ ImmFits(i.a[2].v)))
        THEN [c EXCEPT !.ins[c.n].a[2] = i.a[2]] ELSE c
\* The copy is looked through only if simplifying left the address as it was, same.
StoredValueOf(s, same) ==
    IF ~IsReg(Cur(s).a[2]) THEN s ELSE StoredSource(IF Cur(s).a[1] = same THEN StoredCopy(s) ELSE s)
CombineStore(c) == StoredValueOf(SimplifyAny(c), Cur(c).a[1])
CombineMov(c) ==
    CASE IsReg(Cur(c).a[1]) -> CombineLoad(c)
      [] IsMem(Cur(c).a[1]) -> CombineStore(c)
      [] OTHER -> c
\* Arithmetic: the right operand; the register on the left has a new value.
CombineBinary(c, Const(_)) ==
    LET a == Cur(c).a
    IN  ForgetDst(IF IsReg(a[1]) /\ IsReg(a[2]) THEN Replace(c, 2, Const, Always)
                  ELSE SimplifyAny(c), a[1])
CombineAdd(c) ==
    LET a == Cur(c).a
    IN  IF IsReg(a[1]) /\ IsReg(a[2]) THEN SetDef(c, a[1]) ELSE ForgetDst(SimplifyAny(c), a[1])

Combine(c) ==
    LET i == Cur(c)
    IN  CASE i.op = "cmp" -> CombineCmp(c)
          [] i.op \in {"mov", "movss", "movsd", "movaps", "movapd", "movsx", "movzx"} -> CombineMov(c)
          [] i.op = "lea" -> SetDef(SimplifyAny(c), i.a[1])
          [] i.op \in {"imul", "sub", "xor", "and", "or"} -> CombineBinary(c, Narrow)
          [] i.op \in {"addss", "addsd", "subss", "subsd", "subpd", "mulss", "mulsd", "divss", "divsd",
                       "xorps"} -> CombineBinary(c, Always)
          [] i.op = "add" -> CombineAdd(c)
          [] i.op \in {"imul3", "sar", "shr", "shl", "movd", "movq", "cvtsi2ss", "cvtsi2sd",
                       "cvttss2si", "cvttsd2si", "cvtsd2ss", "cvtss2sd", "unpckhpd", "punpckldq"} ->
                ForgetDst(c, i.a[1])
          [] OTHER -> c

CombineBlock(f, k) ==
    LET c == Fold(LAMBDA acc, j : [Combine(acc) EXCEPT !.n = @ + 1],
                      [f |-> f, ins |-> f.blocks[k].ins, n |-> 1, def |-> <<>>],
                      [j \in DOMAIN f.blocks[k].ins |-> j])
    IN  [c.f EXCEPT !.blocks[k].ins = c.ins]
InstrCombine(f) == Fold(CombineBlock, f, [k \in DOMAIN f.blocks |-> k])
=============================================================================

-------------------------------- MODULE MIR --------------------------------
(***************************************************************************)
(* The machine IR (jmir.h, jmir.c): operands, instructions, blocks and      *)
(* functions, what an instruction uses and defines, the control flow graph, *)
(* liveness, spilling, and the prologue and epilogue.                       *)
(*                                                                         *)
(* A byte of the model has two bits, so that every operand size keeps its   *)
(* number of bytes (1, 2, 4, 8) while the values stay small. Registers are  *)
(* numbers: 0..15 and 100..115 the hardware's, 200.. and 300.. virtual.     *)
(***************************************************************************)
EXTENDS Frame, SequencesExt

\* FoldLeft, one half after the other: TLC folds a long body without a deep stack.
Fold(Op(_, _), base, s) ==
    LET RECURSIVE Over(_, _, _)
        Over(acc, m, n) ==
            CASE m > n -> acc
              [] m = n -> Op(acc, s[m])
              [] m < n -> LET h == (m + n) \div 2
                          IN  CHOOSE r \in {Over(v, h + 1, n) : v \in {Over(acc, m, h)}} : TRUE
    IN  Over(base, 1, Len(s))

None == -1
RegA == 0
RegC == 1
RegD == 2
RegSP == 4
RegBP == 5
Xmm(n) == 100 + n
ArgIReg == <<1, 2, 8, 9>>
ArgFReg == <<100, 101, 102, 103>>
CallerSaved == {0, 1, 2, 8, 9, 10, 11} \cup 100..105
CalleeSavedI == <<3, 6, 7, 12, 13, 14, 15>>
CalleeSavedF == <<106, 107, 108, 109, 110, 111, 112, 113, 114, 115>>

IsVirtual(r) == r >= 200
ClassOf(r) == IF r < 100 \/ r \in 200..299 THEN "gp" ELSE "xmm"

SizeOf(t) == CASE t = "I8" -> 1 [] t = "I16" -> 2 [] t \in {"I32", "F32"} -> 4
               [] t \in {"I64", "F64", "PTR"} -> 8 [] t = "F128" -> 16
IsFloat(t) == t \in {"F32", "F64", "F128"}
Bits(t) == 2 * SizeOf(t)
Mod(t) == CASE SizeOf(t) = 1 -> 4 [] SizeOf(t) = 2 -> 16
            [] SizeOf(t) = 4 -> 256 [] SizeOf(t) = 8 -> 65536
Unsigned(t, v) == v % Mod(t)
Signed(t, v) == LET u == v % Mod(t) IN IF 2 * u >= Mod(t) THEN u - Mod(t) ELSE u
FitsI32(v) == v \in -128..127

(***************************************************************************)
(* Operands and instructions                                               *)
(***************************************************************************)
Reg(t, r) == [k |-> "reg", t |-> t, r |-> r]
Imm(t, v) == [k |-> "imm", t |-> t, v |-> v]
Mem(t, b, i, s, d) == [k |-> "mem", t |-> t, b |-> b, i |-> i, s |-> s, d |-> d]
Obj(t, o) == [k |-> "obj", t |-> t, o |-> o]      \* a frame object not yet placed
BB(b) == [k |-> "bb", t |-> "VOID", bb |-> b]
Sym(t, n) == [k |-> "sym", t |-> t, name |-> n]

NoProto == [args |-> <<>>, ret |-> "VOID", vararg |-> FALSE]
Ins(op, a) == [op |-> op, a |-> a, cc |-> "", proto |-> NoProto]
InsCC(op, cc, a) == [Ins(op, a) EXCEPT !.cc = cc]
Call(o, proto) == [Ins("call", <<o>>) EXCEPT !.proto = proto]

IsReg(o) == o.k = "reg"
IsImm(o) == o.k = "imm"
IsMem(o) == o.k = "mem"
IsTerminator(i) == i.op \in {"ret", "jmp", "jcc"}
IsComparison(i) == i.op \in {"cmp", "comiss", "comisd", "ucomiss", "ucomisd"}
\* What sets flags and writes no operand: a test is no comparison.
SetsFlagsOnly(i) == IsComparison(i) \/ i.op = "test"
IsMovRegReg(i) == /\ i.op \in {"mov", "movss", "movsd", "movaps", "movapd"}
                  /\ IsReg(i.a[1]) /\ IsReg(i.a[2])
                  /\ ClassOf(i.a[1].r) = ClassOf(i.a[2].r)

\* jx_mir_memRefEqual / jx_mir_opEqual: the scale counts only if there is an index.
SameMem(x, y) == /\ x.b = y.b /\ x.i = y.i /\ x.d = y.d
                 /\ (x.i # None => x.s = y.s)
SameOperand(x, y) == /\ x.k = y.k /\ x.t = y.t
                     /\ (IF IsMem(x) THEN SameMem(x, y) ELSE x = y)

Negated(cc) ==
    CASE cc = "b" -> "nb" [] cc = "nb" -> "b" [] cc = "e" -> "ne" [] cc = "ne" -> "e"
      [] cc = "be" -> "nbe" [] cc = "nbe" -> "be" [] cc = "s" -> "ns" [] cc = "ns" -> "s"
      [] cc = "l" -> "nl" [] cc = "nl" -> "l" [] cc = "le" -> "nle" [] cc = "nle" -> "le"
Swapped(cc) ==
    CASE cc = "b" -> "nbe" [] cc = "nb" -> "be" [] cc = "be" -> "nb" [] cc = "nbe" -> "b"
      [] cc = "l" -> "nle" [] cc = "nl" -> "le" [] cc = "le" -> "nl" [] cc = "nle" -> "l"
      [] cc \in {"e", "ne"} -> cc

(***************************************************************************)
(* jmir_instrUpdateUseDefInfo                                              *)
(***************************************************************************)
AddressRegs(o) == IF IsMem(o) THEN {o.b, o.i} \ {None} ELSE {}
ReadRegs(o) == IF IsReg(o) THEN {o.r} ELSE AddressRegs(o)
WrittenRegs(o) == IF IsReg(o) THEN {o.r} ELSE {}

MovLike == {"mov", "movsx", "movzx", "movss", "movsd", "movd", "movq", "movaps", "movapd",
            "cvtsi2ss", "cvtsi2sd", "cvttss2si", "cvttsd2si", "cvtsd2ss", "cvtss2sd", "lea"}
ReadModify == {"add", "sub", "imul", "and", "or", "sar", "shr", "shl", "addss", "addsd",
               "subss", "subsd", "subpd", "mulss", "mulsd", "divss", "divsd", "unpckhpd",
               "punpckldq"}
Xors == {"xor", "xorps"}
ClearsItself(i) == i.op \in Xors /\ IsReg(i.a[1]) /\ IsReg(i.a[2]) /\ i.a[1].r = i.a[2].r

CallUses(p) ==
    LET n == IF Len(p.args) < 4 THEN Len(p.args) ELSE 4
    IN  {IF IsFloat(p.args[k]) THEN ArgFReg[k] ELSE ArgIReg[k] : k \in 1..n}
        \cup (IF p.vararg THEN {ArgIReg[k] : k \in (n + 1)..4} \cup {ArgFReg[k] : k \in (n + 1)..4}
              ELSE {})

Uses(f, i) ==
    CASE i.op = "ret" -> IF f.proto.ret = "VOID" THEN {} ELSE {RegA}
      [] SetsFlagsOnly(i) -> ReadRegs(i.a[1]) \cup ReadRegs(i.a[2])
      [] i.op \in MovLike -> ReadRegs(i.a[2]) \cup AddressRegs(i.a[1])
      [] i.op \in {"idiv", "div"} -> {RegA, RegD} \cup ReadRegs(i.a[1])
      [] i.op = "imul3" -> ReadRegs(i.a[2])
      [] i.op \in ReadModify \cup Xors ->
            IF ClearsItself(i) THEN {} ELSE ReadRegs(i.a[1]) \cup ReadRegs(i.a[2])
      [] i.op = "call" -> ReadRegs(i.a[1]) \cup CallUses(i.proto)
      [] i.op = "push" -> ReadRegs(i.a[1])
      [] i.op \in {"pop", "setcc"} -> AddressRegs(i.a[1])
      [] i.op \in {"cdq", "cqo"} -> {RegA}
      [] i.op \in {"jmp", "jcc"} -> {}

Defs(f, i) ==
    CASE i.op \in MovLike \cup ReadModify \cup Xors \cup {"imul3", "pop", "setcc"} ->
            WrittenRegs(i.a[1])
      [] i.op \in {"idiv", "div"} -> {RegA, RegD}
      [] i.op = "call" -> CallerSaved
      [] i.op \in {"cdq", "cqo"} -> {RegD}
      [] OTHER -> {}

(***************************************************************************)
(* Functions, blocks, registers                                            *)
(***************************************************************************)
\* The body before anything is generated; block 0 is the entry block.
NewFunction(proto) ==
    [blocks |-> <<>>, frame |-> EmptyFrame, gp |-> 200, xmm |-> 300, nbb |-> 1,
     used |-> {}, proto |-> proto, args |-> <<>>]

TakeReg_GPOnly(f, t) == [f EXCEPT !.gp = @ + 1]
\* jx_mir_opVirtualReg: the register that the next one is, and the function after it.
NextReg(f, t) == Reg(t, IF IsFloat(t) THEN f.xmm ELSE f.gp)
TakeReg(f, t) == IF IsFloat(t) THEN [f EXCEPT !.xmm = @ + 1] ELSE [f EXCEPT !.gp = @ + 1]

Position(f, b) == SelectInSeq(f.blocks, LAMBDA blk : blk.b = b)
FirstTerminator(ins) ==
    IF ins = <<>> \/ ~IsTerminator(Last(ins)) THEN 0
    ELSE CHOOSE j \in DOMAIN ins : /\ \A m \in j..Len(ins) : IsTerminator(ins[m])
                                   /\ (j > 1 => ~IsTerminator(ins[j - 1]))
Targets(ins) == {ins[j].a[1].bb : j \in {m \in DOMAIN ins : ins[m].op \in {"jmp", "jcc"}}}
Retarget(i, old, new) == IF i.op \in {"jmp", "jcc"} /\ i.a[1].bb = old
                         THEN [i EXCEPT !.a = <<BB(new)>>] ELSE i

\* jx_mir_funcUpdateCFG: the blocks reached from the block at position k.
FallsThrough(ins) == ins = <<>> \/ Last(ins).op \notin {"jmp", "ret"}
Succ(f, k) ==
    Targets(f.blocks[k].ins)
    \cup (IF FallsThrough(f.blocks[k].ins) /\ k < Len(f.blocks) THEN {f.blocks[k + 1].b} ELSE {})
Pred(f, b) == {k \in DOMAIN f.blocks : b \in Succ(f, k)}

MapIns(f, Op(_)) ==
    [f EXCEPT !.blocks = [k \in DOMAIN @ |->
        [@[k] EXCEPT !.ins = [j \in DOMAIN @ |-> Op(@[j])]]]]
FlatMapIns(f, Op(_)) ==
    [f EXCEPT !.blocks = [k \in DOMAIN @ |->
        [@[k] EXCEPT !.ins = FlattenSeq([j \in DOMAIN @ |-> Op(@[j])])]]]

MapRegs(i, Op(_)) ==
    [i EXCEPT !.a = [n \in DOMAIN @ |->
        LET o == @[n]
        IN  CASE IsReg(o) -> [o EXCEPT !.r = Op(@)]
              [] IsMem(o) -> [o EXCEPT !.b = IF @ = None THEN None ELSE Op(@),
                                       !.i = IF @ = None THEN None ELSE Op(@)]
              [] OTHER -> o]]

(***************************************************************************)
(* jx_mir_funcUpdateLiveness: the least solution of the equations.         *)
(***************************************************************************)
LiveBefore(f, i, live) == (live \ Defs(f, i)) \cup Uses(f, i)
BlockLiveIn(f, k, out) ==
    Fold(LAMBDA live, i : LiveBefore(f, i, live), out, Reverse(f.blocks[k].ins))
BlockLiveOut(f, k, in) == UNION {in[Position(f, b)] : b \in Succ(f, k)}
RECURSIVE LiveIn(_, _)
LiveIn(f, in) ==
    LET next == [k \in DOMAIN in |-> BlockLiveIn(f, k, BlockLiveOut(f, k, in))]
    IN  IF next = in THEN in ELSE LiveIn(f, next)
\* The registers live after each instruction of each block.
LiveOut(f) ==
    LET in == LiveIn(f, [k \in DOMAIN f.blocks |-> {}])
    IN  [k \in DOMAIN f.blocks |->
            LET ins == f.blocks[k].ins
            IN  Tail(Fold(LAMBDA acc, i : <<LiveBefore(f, i, acc[1])>> \o acc,
                          <<BlockLiveOut(f, k, in)>>, Reverse(ins)))]

\* jx_mir_funcRenumberVirtualRegs: the order in which registers are first defined.
VirtualDefs(f) ==
    LET all == FlattenSeq([k \in DOMAIN f.blocks |->
                   FlattenSeq([j \in DOMAIN f.blocks[k].ins |->
                       SetToSeq({r \in Defs(f, f.blocks[k].ins[j]) : IsVirtual(r)})])])
    IN  Fold(LAMBDA acc, r : IF Contains(acc, r) THEN acc ELSE Append(acc, r), <<>>, all)
Renumber(f) ==
    LET defs == VirtualDefs(f)
        gps  == SelectSeq(defs, LAMBDA r : ClassOf(r) = "gp")
        xmms == SelectSeq(defs, LAMBDA r : ClassOf(r) = "xmm")
        New(r) == CASE ~IsVirtual(r) -> r
                    [] Contains(gps, r) -> 199 + CHOOSE n \in DOMAIN gps : gps[n] = r
                    [] Contains(xmms, r) -> 299 + CHOOSE n \in DOMAIN xmms : xmms[n] = r
                    [] OTHER -> r
    IN  IF f.gp = 200 + Len(gps) /\ f.xmm = 300 + Len(xmms) THEN f
        ELSE [MapIns(f, LAMBDA i : MapRegs(i, New))
                  EXCEPT !.gp = 200 + Len(gps), !.xmm = 300 + Len(xmms)]

\* The move of a type: jx_mir_mov, movss, movsd or movaps.
MovOp(t) == CASE t = "F32" -> "movss" [] t = "F64" -> "movsd" [] t = "F128" -> "movaps"
              [] OTHER -> "mov"

\* jx_mir_funcSpillVirtualReg: every instruction that names the register gets a
\* temporary of its own, loaded before it if it uses and stored after it if it
\* defines; the temporary's type is that of the first operand that names the register.
NamingType(i, r) ==
    LET n == SelectInSeq(i.a, LAMBDA o : r \in ReadRegs(o))
    IN  IF IsReg(i.a[n]) THEN i.a[n].t ELSE "I64"
SpillInstr(f, i, r, slot) ==
    IF r \notin Uses(f, i) \cup Defs(f, i) THEN [f |-> f, ins |-> <<i>>]
    ELSE LET t    == NamingType(i, r)
             tmp  == NextReg(f, t)
             at   == Mem(t, RegSP, None, 1, slot)
             new  == MapRegs(i, LAMBDA q : IF q = r THEN tmp.r ELSE q)
             load == IF r \in Uses(f, i) THEN <<Ins(MovOp(t), <<tmp, at>>)>> ELSE <<>>
             save == IF r \in Defs(f, i) THEN <<Ins(MovOp(t), <<at, tmp>>)>> ELSE <<>>
         IN  [f |-> TakeReg(f, t), ins |-> load \o <<new>> \o save]
SpillBlock(f, k, r, slot) ==
    LET res == Fold(LAMBDA acc, i : LET s == SpillInstr(acc.f, i, r, slot)
                                        IN  [f |-> s.f, ins |-> acc.ins \o s.ins],
                        [f |-> f, ins |-> <<>>], f.blocks[k].ins)
    IN  [res.f EXCEPT !.blocks[k].ins = res.ins]
SpillReg(f, r) ==
    LET sz == IF ClassOf(r) = "gp" THEN 8 ELSE 16
        fr == FrameAlloc(f.frame, sz, sz)
        g  == [f EXCEPT !.frame = fr]
    IN  Fold(LAMBDA acc, k : SpillBlock(acc, k, r, Last(fr.objs).d),
                 g, [k \in DOMAIN g.blocks |-> k])

(***************************************************************************)
(* The end of jx_mir_funcEnd: callee-saved registers, prologue, epilogue.  *)
(***************************************************************************)
Prepend(f, i) == [f EXCEPT !.blocks[1].ins = <<i>> \o @]
SlotType(r) == IF ClassOf(r) = "gp" THEN "I64" ELSE "F128"
SaveCalleeSaved(f) ==
    LET regs == SelectSeq(CalleeSavedI \o CalleeSavedF, LAMBDA r : r \in f.used)
    IN  Fold(LAMBDA acc, r :
                     LET t  == SlotType(r)
                         fr == FrameAlloc(acc.f.frame, SizeOf(t), SizeOf(t))
                         at == Mem(t, RegSP, None, 1, Last(fr.objs).d)
                     IN  [f |-> Prepend([acc.f EXCEPT !.frame = fr],
                                        Ins(MovOp(t), <<at, Reg(t, r)>>)),
                          restore |-> Append(acc.restore, Ins(MovOp(t), <<Reg(t, r), at>>))],
                 [f |-> f, restore |-> <<>>], regs)

Epilogue(ins, restore) ==
    IF ins = <<>> \/ Last(ins).op # "ret" THEN ins
    ELSE Front(ins) \o restore
         \o <<Ins("mov", <<Reg("PTR", RegSP), Reg("PTR", RegBP)>>),
              Ins("pop", <<Reg("PTR", RegBP)>>), Last(ins)>>

AddPrologue(f0) ==
    LET s  == SaveCalleeSaved(f0)
        f  == [s.f EXCEPT !.frame = FrameFinalize(@)]
        shadow == IF f.proto.vararg
                  THEN [n \in 1..4 |-> Ins("mov", <<Mem("I64", RegBP, None, 1, 48 - n * 8),
                                                    Reg("I64", ArgIReg[5 - n])>>)]
                  ELSE <<>>
        size == IF f.frame.size = 0 THEN <<>>
                ELSE <<Ins("sub", <<Reg("PTR", RegSP), Imm("I32", f.frame.size)>>)>>
        head == <<Ins("push", <<Reg("PTR", RegBP)>>),
                  Ins("mov", <<Reg("PTR", RegBP), Reg("PTR", RegSP)>>)>> \o size
                \o shadow
    IN  [f EXCEPT !.blocks = [k \in DOMAIN @ |->
            [@[k] EXCEPT !.ins = (IF k = 1 THEN head ELSE <<>>) \o Epilogue(@, s.restore)]]]
=============================================================================

------------------------------- MODULE Select -------------------------------
(***************************************************************************)
(* The translation of a function from the SSA form to the machine IR        *)
(* (jmir_gen.c, with the sizes of types of jir.c).                          *)
(*                                                                         *)
(* A function of the IR is [args, ret, vararg, blocks]; a block [b, ins];   *)
(* an instruction [op, id, t, a, of, cc, fn]: the value it defines and its  *)
(* type, its operands, and where the opcode has one the type it is about,   *)
(* its condition, the type of the function it calls. A value is a "val"     *)
(* (the result of an instruction), an "arg", a "const", a "sym" (a global   *)
(* or a function) or a "bb". The generator is a record g: the function it   *)
(* builds, the block it fills, the operands of the values it has met and    *)
(* the phis it has put off.                                                 *)
(***************************************************************************)
EXTENDS MIR, TLC

CONSTANT Imported     \* the globals without data: their symbol names a slot with the address

(***************************************************************************)
(* Types                                                                   *)
(***************************************************************************)
Scalar(t) == [k |-> "scalar", t |-> t]
ArrayOf(n, ty) == [k |-> "array", n |-> n, of |-> ty]
Struct(m) == [k |-> "struct", m |-> m]
Pointer(ty) == [k |-> "ptr", of |-> ty]

ScalarSize(t) == CASE t \in {"bool", "i8", "u8"} -> 1 [] t \in {"i16", "u16"} -> 2
                   [] t \in {"i32", "u32", "f32"} -> 4 [] t \in {"i64", "u64", "f64", "ptr"} -> 8
IsSignedType(t) == t \in {"i8", "i16", "i32", "i64", "f32", "f64"}
IsFloatType(t) == t \in {"f32", "f64"}

RECURSIVE TypeAlign(_), TypeSize(_)
TypeAlign(ty) ==
    CASE ty.k = "scalar" -> ScalarSize(ty.t)
      [] ty.k = "array"  -> TypeAlign(ty.of)
      [] ty.k = "struct" -> Fold(LAMBDA m, x : IF TypeAlign(x) > m THEN TypeAlign(x) ELSE m,
                                     1, ty.m)
      [] OTHER -> 8
MemberEnd(end, ty) == RoundUp(end, TypeAlign(ty)) + TypeSize(ty)
\* The size of a structure ends with its last member: no padding follows it.
TypeSize(ty) ==
    CASE ty.k = "scalar" -> ScalarSize(ty.t)
      [] ty.k = "array"  -> ty.n * TypeSize(ty.of)
      [] ty.k = "struct" -> Fold(MemberEnd, 0, ty.m)
      [] OTHER -> 8
MemberOffset(ty, n) ==
    RoundUp(Fold(MemberEnd, 0, SubSeq(ty.m, 1, n)), TypeAlign(ty.m[n + 1]))

Convert(t) ==
    CASE t = "void" -> "VOID" [] t \in {"bool", "i8", "u8"} -> "I8" [] t \in {"i16", "u16"} -> "I16"
      [] t \in {"i32", "u32"} -> "I32" [] t \in {"i64", "u64"} -> "I64"
      [] t = "f32" -> "F32" [] t = "f64" -> "F64" [] t = "ptr" -> "PTR"
ConvertType(ty) ==
    CASE ty.k = "scalar" -> Convert(ty.t)
      [] ty.k = "struct" -> LET n == TypeSize(ty)
                            IN  CASE n = 1 -> "I8" [] n = 2 -> "I16" [] n = 4 -> "I32"
                                  [] n = 8 -> "I64" [] OTHER -> "PTR"
      [] OTHER -> "PTR"
Proto(fn) == [args |-> [n \in DOMAIN fn.args |-> Convert(fn.args[n])],
              ret |-> Convert(fn.ret), vararg |-> fn.vararg]

(***************************************************************************)
(* The generator                                                           *)
(***************************************************************************)
Emit(g, ins) == [g EXCEPT !.ins = @ \o ins]
Fresh(g, t) == NextReg(g.f, t)
Take(g, t) == [g EXCEPT !.f = TakeReg(@, t)]
Result(g, i, o) == [g EXCEPT !.val = (i.id :> o) @@ @]
\* A fresh register that holds the result, and the instructions that compute it.
Compute(g, i, t, Op(_)) == Result(Emit(Take(g, t), Op(Fresh(g, t))), i, Fresh(g, t))
Move(d, s) == Ins(MovOp(d.t), <<d, s>>)

Operand(g, v) ==
    CASE v.k = "val"   -> g.val[v.id]
      [] v.k = "arg"   -> g.f.args[v.n]
      [] v.k = "const" -> Imm(Convert(v.t), v.c)
      [] v.k = "sym"   -> Sym("PTR", v.name)
      [] v.k = "bb"    -> BB(v.bb)
IsAddress(o) == o.k \in {"obj", "sym"}
\* The address a stack object or a symbol stands for, into a register.
Address(d, o) == Ins(IF o.k = "sym" /\ o.name \in Imported THEN "mov" ELSE "lea", <<d, o>>)

\* jmirgen_ensureOperandReg, ensureOperandRegOrMem: [g, o], o a register.
InReg(g, o) ==
    LET t == IF IsAddress(o) THEN "PTR" ELSE o.t
        d == Fresh(g, t)
    IN  IF IsReg(o) THEN [g |-> g, o |-> o]
        ELSE [g |-> Emit(Take(g, t), <<IF IsAddress(o) THEN Address(d, o) ELSE Move(d, o)>>), o |-> d]
\* jmirgen_ensureOperandNotConstI64: a constant too wide for an immediate.
NotWide(g, o) ==
    IF IsImm(o) /\ o.t = "I64" /\ ~FitsI32(o.v) THEN InReg(g, o) ELSE [g |-> g, o |-> o]
NotFloatConst(g, o) ==
    IF IsImm(o) /\ IsFloat(o.t) THEN InReg(g, o) ELSE [g |-> g, o |-> o]
\* jmirgen_ensureOperandI32OrI64
AtLeast32(g, o, ext) ==
    IF o.t \in {"I32", "I64"} THEN [g |-> g, o |-> o]
    ELSE LET d == Fresh(g, "I32")
         IN  [g |-> Emit(Take(g, "I32"), <<Ins(ext, <<d, o>>)>>), o |-> d]
Alias(t, o) == Reg(t, o.r)

(***************************************************************************)
(* Control flow                                                            *)
(***************************************************************************)
SelRet(g, i) ==
    IF i.a = <<>> THEN Emit(g, <<Ins("ret", <<>>)>>)
    ELSE LET o == Operand(g, i.a[1])
             t == Convert(i.a[1].t)
         IN  Emit(g, <<CASE IsAddress(o) -> Address(Reg("PTR", RegA), o)
                         [] IsFloat(t)   -> Move(Reg(t, Xmm(0)), o)
                         [] OTHER        -> Ins("mov", <<Reg(t, RegA), o>>),
                       Ins("ret", <<>>)>>)

\* next: the block that follows in the IR, so that the final jump falls through.
SelBranch(g, i, next) ==
    LET c == Operand(g, i.a[1])
        test == Ins("test", <<c, c>>)
        Jcc(cc, v) == InsCC("jcc", cc, <<BB(v.bb)>>)
        Jmp(v) == Ins("jmp", <<BB(v.bb)>>)
    IN  CASE Len(i.a) = 1 -> Emit(g, <<Jmp(i.a[1])>>)
          [] Len(i.a) = 3 /\ i.a[3].bb = next -> Emit(g, <<test, Jcc("ne", i.a[2]), Jmp(i.a[3])>>)
          [] OTHER -> Emit(g, <<test, Jcc("e", i.a[3]), Jmp(i.a[2])>>)

(***************************************************************************)
(* Arithmetic                                                              *)
(***************************************************************************)
FloatOp(op, t) == op \o (IF t = "f32" THEN "ss" ELSE "sd")

\* add, sub, and, or, xor: copy the left operand, then operate on the copy.
SelBinary(g, i) ==
    LET l == Operand(g, i.a[1])
        r == IF IsFloatType(i.t) THEN [g |-> g, o |-> Operand(g, i.a[2])]
             ELSE NotWide(g, Operand(g, i.a[2]))
        op == IF IsFloatType(i.t) THEN FloatOp(i.op, i.t) ELSE i.op
    IN  Compute(r.g, i, Convert(i.t), LAMBDA d : <<Move(d, l), Ins(op, <<d, r.o>>)>>)

SelMul(g, i) ==
    LET l == Operand(g, i.a[1])
        r == InReg(g, Operand(g, i.a[2]))
        op == IF IsFloatType(i.t) THEN FloatOp("mul", i.t) ELSE "imul"
    IN  Compute(r.g, i, Convert(i.t), LAMBDA d : <<Move(d, l), Ins(op, <<d, r.o>>)>>)

\* Division goes through the registers A and D; an immediate divisor needs a register.
SelDivRem(g, i) ==
    LET t  == Convert(i.t)
        l  == Operand(g, i.a[1])
        r0 == Operand(g, i.a[2])
        r  == IF IsImm(r0) /\ ~IsFloatType(i.t) THEN InReg(g, r0) ELSE [g |-> g, o |-> r0]
        lo == Reg(t, RegA)
        hi == Reg(t, RegD)
        extend == IF ~IsSignedType(i.t) THEN Ins("xor", <<hi, hi>>)
                  ELSE Ins(IF t = "I32" THEN "cdq" ELSE "cqo", <<>>)
        divide == Ins(IF IsSignedType(i.t) THEN "idiv" ELSE "div", <<r.o>>)
    IN  IF IsFloatType(i.t)
        THEN Compute(g, i, t, LAMBDA d : <<Move(d, l), Ins(FloatOp("div", i.t), <<d, r.o>>)>>)
        ELSE Compute(r.g, i, t, LAMBDA d :
                <<Ins("mov", <<lo, l>>), extend, divide,
                  Ins("mov", <<d, IF i.op = "div" THEN lo ELSE hi>>)>>)

\* shl, shr: a variable count goes through CL.
SelShift(g, i) ==
    LET l  == Operand(g, i.a[1])
        r  == Operand(g, i.a[2])
        t  == Convert(i.t)
        d  == Fresh(g, t)
        g1 == Emit(Take(g, t), <<Ins("mov", <<d, l>>)>>)
        op == CASE i.op = "shl" -> "shl" [] IsSignedType(i.t) -> "sar" [] OTHER -> "shr"
        cl == Reg("I8", RegC)
        n  == IF r.t = "I8" THEN [g |-> g1, o |-> r] ELSE InReg(g1, r)
    IN  Result(IF IsImm(r) THEN Emit(g1, <<Ins(op, <<d, r>>)>>)
               ELSE Emit(n.g, <<Ins("mov", <<cl, IF r.t = "I8" THEN r ELSE Alias("I8", n.o)>>),
                                Ins(op, <<d, cl>>)>>),
               i, d)

CCSigned   == [le |-> "le", ge |-> "nl", lt |-> "l", gt |-> "nle", eq |-> "e", ne |-> "ne"]
CCUnsigned == [le |-> "be", ge |-> "nb", lt |-> "b", gt |-> "nbe", eq |-> "e", ne |-> "ne"]
SelSetcc(g, i) ==
    LET t   == i.a[1].t
        l   == Operand(g, i.a[1])
        r   == Operand(g, i.a[2])
        d   == Fresh(g, "I8")
        g1  == Take(g, "I8")
        cc  == IF IsSignedType(t) /\ ~IsFloatType(t) THEN CCSigned[i.cc] ELSE CCUnsigned[i.cc]
        cmp == CASE t = "f32" -> "ucomiss" [] t = "f64" -> "ucomisd" [] OTHER -> "cmp"
        r1  == InReg(g1, r)
        l1  == InReg(r1.g, l)
        l2n == NotWide(g1, l)
        l2  == InReg(l2n.g, l2n.o)
        r3n == NotWide(g1, r)
        r3  == InReg(r3n.g, r3n.o)
        Compare(h, x, y, c) == Emit(h, <<Ins(cmp, <<x, y>>), InsCC("setcc", c, <<d>>)>>)
    IN  Result(CASE IsFloatType(t) \/ (IsImm(l) /\ IsImm(r)) -> Compare(l1.g, l1.o, r1.o, cc)
                 [] IsImm(l) /\ ~IsImm(r) -> Compare(l2.g, r, l2.o, Swapped(cc))
                 [] OTHER -> Compare(r3.g, l, r3.o, cc),
               i, d)

(***************************************************************************)
(* Memory                                                                  *)
(***************************************************************************)
RECURSIVE ElementType(_), ElementCount(_)
ElementType(ty) == IF ty.k = "array" THEN ElementType(ty.of) ELSE ty
ElementCount(ty) == IF ty.k = "array" THEN ty.n * ElementCount(ty.of) ELSE 1
SelAlloca(g, i) ==
    LET ty == ElementType(i.of)
        fr == FrameAlloc(g.f.frame, ElementCount(i.of) * TypeSize(ty), TypeAlign(ty))
    IN  Result([g EXCEPT !.f.frame = fr], i, Obj(ConvertType(ty), Len(fr.objs)))

Deref(t, o) == Mem(t, o.r, None, 1, 0)
SelLoad(g, i) ==
    LET t == Convert(i.t)
        p == Operand(g, i.a[1])
        a == InReg(g, IF IsImm(p) THEN Imm(t, p.v) ELSE p)
    IN  Compute(a.g, i, t, LAMBDA d : <<Move(d, Deref(t, a.o))>>)

StoredValue(g, o, t) ==
    LET v == IF o.k = "obj" THEN InReg(g, o) ELSE [g |-> g, o |-> o]
    IN  IF IsFloat(t) THEN NotFloatConst(v.g, v.o) ELSE NotWide(v.g, v.o)
EmitStore(t, ptr, v) == Emit(v.g, <<Ins(MovOp(t), <<IF ptr.k = "obj" THEN ptr ELSE Deref(t, ptr), v.o>>)>>)
StoreThrough(p, v) == LET t == Convert(v.t) IN EmitStore(t, p.o, StoredValue(p.g, Operand(p.g, v), t))
SelStore(g, i) ==
    LET p == Operand(g, i.a[1])
    IN  StoreThrough(IF p.k = "sym" THEN InReg(g, p) ELSE [g |-> g, o |-> p], i.a[2])

\* One index of a getelementptr: st is [g, d, ty], the address so far and its type.
Displace(st, n, ty) ==
    LET d == Fresh(st.g, "PTR")
    IN  IF n = 0 THEN [st EXCEPT !.ty = ty]
        ELSE [g |-> Emit(Take(st.g, "PTR"), <<Ins("lea", <<d, Mem("PTR", st.d.r, None, 1, n)>>)>>),
              d |-> d, ty |-> ty]
IndexIn64(g, o) ==
    IF o.t \in {"PTR", "I64"} THEN InReg(g, o)
    ELSE LET d == Fresh(g, "I64") IN [g |-> Emit(Take(g, "I64"), <<Ins("movsx", <<d, o>>)>>), o |-> d]
Scale(st, o, size, ty) ==
    LET d == Fresh(st.g, IF size \in {1, 2, 4, 8} THEN "PTR" ELSE "I64")
        g == Take(st.g, d.t)
    IN  IF size \in {1, 2, 4, 8}
        THEN [g |-> Emit(g, <<Ins("lea", <<d, Mem("PTR", st.d.r, o.r, size, 0)>>)>>), d |-> d, ty |-> ty]
        ELSE [g |-> Emit(g, <<Ins("imul3", <<d, o, Imm("I64", size)>>), Ins("add", <<st.d, d>>)>>),
              d |-> st.d, ty |-> ty]
GepIndex(st, v) ==
    LET o == Operand(st.g, v)
        x == IndexIn64(st.g, o)
    IN  CASE IsImm(o) /\ st.ty.k = "struct" -> Displace(st, MemberOffset(st.ty, o.v), st.ty.m[o.v + 1])
          [] IsImm(o) /\ st.ty.k # "struct" -> Displace(st, o.v * TypeSize(st.ty.of), st.ty.of)
          [] OTHER -> Scale([st EXCEPT !.g = x.g], x.o, TypeSize(st.ty.of), st.ty.of)
SelGep(g, i) ==
    LET d  == Fresh(g, "PTR")
        p  == Operand(g, i.a[1])
        g1 == Emit(Take(g, "PTR"), <<IF IsAddress(p) THEN Address(d, p) ELSE Ins("mov", <<d, p>>)>>)
        st == Fold(GepIndex, [g |-> g1, d |-> d, ty |-> Pointer(i.of)], Tail(i.a))
    IN  Result(st.g, i, st.d)

(***************************************************************************)
(* Calls                                                                   *)
(***************************************************************************)
InlineLimit == 128
\* The moves that cover n bytes, the widest first: pairs of a type and an offset.
Pieces(n) ==
    [k \in 1..(n \div 8) |-> <<"I64", 8 * (k - 1)>>]
    \o (IF n % 8 >= 4 THEN <<<<"I32", 8 * (n \div 8)>>>> ELSE <<>>)
    \o (IF n % 4 >= 2 THEN <<<<"I16", 4 * (n \div 4)>>>> ELSE <<>>)
    \o (IF n % 2 = 1 THEN <<<<"I8", n - 1>>>> ELSE <<>>)
IsConst(v) == v.k = "const"
InlineSet(i) == /\ i.a[1] = [k |-> "sym", name |-> "memset", t |-> "ptr"]
                /\ IsConst(i.a[3]) /\ IsConst(i.a[4]) /\ i.a[3].c = 0 /\ i.a[4].c <= InlineLimit
InlineCopy(i) == /\ i.a[1] = [k |-> "sym", name |-> "memcpy", t |-> "ptr"]
                 /\ IsConst(i.a[4]) /\ i.a[4].c <= InlineLimit
Piece(o, p) == Mem(p[1], o.r, None, 1, p[2])
SelMemSet(g, i) ==
    LET p == InReg(Emit(g, <<Ins("xor", <<Reg("I64", RegA), Reg("I64", RegA)>>)>>), Operand(g, i.a[2]))
        ps == Pieces(i.a[4].c)
    IN  Result(Emit(p.g, [k \in DOMAIN ps |-> Ins("mov", <<Piece(p.o, ps[k]), Reg(ps[k][1], RegA)>>)]),
               i, p.o)
SelMemCpy(g, i) ==
    LET d  == InReg(g, Operand(g, i.a[2]))
        s  == InReg(d.g, Operand(g, i.a[3]))
        ps == Pieces(i.a[4].c)
        Copy(p) == <<Ins("mov", <<Reg(p[1], RegA), Piece(s.o, p)>>),
                     Ins("mov", <<Piece(d.o, p), Reg(p[1], RegA)>>)>>
    IN  Result(Emit(s.g, FlattenSeq([k \in DOMAIN ps |-> Copy(ps[k])])), i, d.o)
SelVaStart(g, i) ==
    LET d  == Fresh(g, "PTR")
        at == Mem("PTR", RegBP, None, 1, 16 + 8 * Len(g.f.proto.args))
    IN  Emit(Take(g, "PTR"), <<Ins("lea", <<d, at>>), Ins("mov", <<Operand(g, i.a[2]), d>>)>>)

\* jmirgen_genMov: a float reaches memory through a register.
MoveTo(g, d, s) ==
    IF IsFloat(d.t) /\ IsMem(d)
    THEN LET r == Fresh(g, d.t) IN Emit(Take(g, d.t), <<Move(r, s), Move(d, r)>>)
    ELSE Emit(g, <<Move(d, s)>>)
\* Argument n (from 0) of a call: registers for the first four, then the call area.
SelArg(g, i, n) ==
    LET v == i.a[n + 2]
        t == Convert(v.t)
        s == InReg(g, Operand(g, v))
        d == CASE n >= 4    -> Mem(t, RegSP, None, 1, 32 + 8 * (n - 4))
               [] IsFloat(t) -> Reg(t, ArgFReg[n + 1])
               [] OTHER      -> Reg(t, ArgIReg[n + 1])
        both == IsFloat(t) /\ n < 4 /\ i.fn.vararg /\ n >= Len(i.fn.args)
    IN  Emit(MoveTo(s.g, d, s.o),
             CASE both /\ t = "F32" -> <<Ins("movd", <<Reg("I32", ArgIReg[n + 1]), d>>)>>
               [] both /\ t = "F64" -> <<Ins("movq", <<Reg("I64", ArgIReg[n + 1]), d>>)>>
               [] OTHER -> <<>>)
WithArgs(g, i) ==
    LET n == Len(i.a) - 1
    IN  Fold(LAMBDA acc, k : SelArg(acc, i, k - 1), [g EXCEPT !.f.frame = MakeRoom(@, n)], [k \in 1..n |-> k])
CallThrough(c, i) == Emit(c.g, <<Call(c.o, Proto(i.fn))>>)
Returning(g, i) ==
    LET t == Convert(i.fn.ret)
    IN  IF i.fn.ret = "void" THEN g
        ELSE Compute(g, i, t, LAMBDA d : <<Move(d, Reg(t, IF IsFloat(t) THEN Xmm(0) ELSE RegA))>>)
CallOperand(g, o) == IF IsImm(o) THEN InReg(g, o) ELSE [g |-> g, o |-> o]
SelPlainCall(g0, i) ==
    LET Calling(g) == CallThrough(CallOperand(g, Operand(g, i.a[1])), i)
    IN  Returning(Calling(WithArgs(g0, i)), i)
SelCall(g, i) ==
    CASE InlineSet(i)  -> SelMemSet(g, i)
      [] InlineCopy(i) -> SelMemCpy(g, i)
      [] i.a[1].k = "sym" /\ i.a[1].name = "__va_start" -> SelVaStart(g, i)
      [] OTHER -> SelPlainCall(g, i)

(***************************************************************************)
(* Conversions                                                             *)
(***************************************************************************)
SelTrunc(g, i) ==
    LET s == InReg(g, Operand(g, i.a[1]))
        t == Convert(i.t)
    IN  Compute(s.g, i, t, LAMBDA d : <<Ins("mov", <<d, Alias(t, s.o)>>)>>)
\* zext, sext, fpext, fptrunc and si2fp are one instruction on a register.
SelConvert(g, i, op) ==
    LET s == InReg(g, Operand(g, i.a[1]))
    IN  Compute(s.g, i, Convert(i.t), LAMBDA d : <<Ins(op, <<d, s.o>>)>>)
SelPtrToInt(g, i) ==
    LET s == InReg(g, Operand(g, i.a[1]))
        t == Convert(i.t)
    IN  Compute(s.g, i, t, LAMBDA d : <<Ins("mov", <<d, IF t = "I64" THEN s.o ELSE Alias(t, s.o)>>)>>)
\* A bitcast defines no register: its value is the register of its operand.
SelBitcast(g, i) == LET s == InReg(g, Operand(g, i.a[1])) IN Result(s.g, i, s.o)
SelIntToPtr(g, i) ==
    CASE i.a[1].t \in {"ptr", "i64", "u64"} -> SelBitcast(g, i)
      [] i.a[1].t \notin {"ptr", "i64", "u64"} /\ IsConst(i.a[1]) ->
            Compute(g, i, "PTR", LAMBDA d : <<Ins("mov", <<d, Imm("I64", i.a[1].c)>>)>>)
      [] OTHER -> SelConvert(g, i, "movzx")

TwoTo63 == 32768        \* 2^63 in the model's 16 bits
CvtToInt(o) == IF o.t = "F32" THEN "cvttss2si" ELSE "cvttsd2si"
\* A value of 2^63 or more is converted twice, the second time less 2^63.
SelToU64(s, i, d) ==
    LET sub == IF s.o.t = "F32" THEN "subss" ELSE "subsd"
        cvt == CvtToInt(s.o)
        x   == Fresh(s.g, "F32")
        g1  == Take(s.g, "F32")
        t1  == Fresh(g1, "I64")
        g2  == Take(g1, "I64")
        t2  == Fresh(g2, "I64")
    IN  Emit(Take(g2, "I64"),
             <<Ins("movss", <<x, s.o>>), Ins(cvt, <<t1, s.o>>), Ins("mov", <<t2, t1>>),
               Ins(sub, <<x, Imm(s.o.t, TwoTo63)>>), Ins(cvt, <<d, x>>),
               Ins("sar", <<t2, Imm("I8", Bits("I64") - 1)>>),
               Ins("and", <<d, t2>>), Ins("or", <<d, t1>>)>>)
SelFpToInt(g, i) ==
    LET t == Convert(i.t)
        w == CASE i.op = "fp2ui" -> IF t \in {"I8", "I16"} THEN "I32" ELSE "I64"
               [] i.op = "fp2si" -> IF t = "I64" THEN "I64" ELSE "I32"
        s == InReg(g, Operand(g, i.a[1]))
        d == Fresh(s.g, w)
        h == [s EXCEPT !.g = Take(@, w)]
    IN  Result(IF i.op = "fp2ui" /\ t = "I64" THEN SelToU64(h, i, d)
               ELSE Emit(h.g, <<Ins(CvtToInt(s.o), <<d, s.o>>)>>),
               i, Alias(t, d))

CloseBlock(g, next) ==
    [g EXCEPT !.f.blocks = Append(@, [b |-> g.cur, ins |-> g.ins]), !.cur = next, !.ins = <<>>]
\* An unsigned 64 bit integer as a float: two more blocks and a rest of the current one.
SelU64ToF32(g, o, d) ==
    LET pos == g.f.nbb
        neg == g.f.nbb + 1
        end == g.f.nbb + 2
        g1  == CloseBlock([Emit(g, <<Ins("test", <<o, o>>), InsCC("jcc", "s", <<BB(neg)>>)>>)
                              EXCEPT !.f.nbb = @ + 3], pos)
        g2  == CloseBlock(Emit(g1, <<Ins("cvtsi2ss", <<d, o>>), Ins("jmp", <<BB(end)>>)>>), neg)
        x   == Fresh(g2, "I64")
        one == Imm("I8", 1)
    IN  CloseBlock(Emit(Take(g2, "I64"),
            <<Ins("mov", <<x, o>>), Ins("shr", <<x, one>>), Ins("and", <<x, one>>),
              Ins("or", <<o, x>>), Ins("cvtsi2ss", <<d, o>>), Ins("addss", <<d, d>>)>>), end)
\* The halves of the integer, as mantissas of two doubles, less what the exponents add.
SelU64ToF64(g, o, d) ==
    LET x == Fresh(g, "F64")
    IN  Emit(Take(g, "F64"),
             <<Ins("movq", <<x, o>>), Ins("punpckldq", <<x, Sym("F128", "ui64_to_f64_c0")>>),
               Ins("subpd", <<x, Sym("F128", "ui64_to_f64_c1")>>), Ins("movapd", <<d, x>>),
               Ins("unpckhpd", <<d, x>>), Ins("addsd", <<d, x>>)>>)
SelIntToFp(g, i) ==
    LET t  == Convert(i.t)
        s0 == InReg(g, Operand(g, i.a[1]))
        s  == AtLeast32(s0.g, s0.o, IF i.op = "ui2fp" THEN "movzx" ELSE "movsx")
        d  == Fresh(s.g, t)
        g1 == Take(s.g, t)
    IN  Result(CASE i.op = "ui2fp" /\ s.o.t = "I64" /\ t = "F32" -> SelU64ToF32(g1, s.o, d)
                 [] i.op = "ui2fp" /\ s.o.t = "I64" /\ t = "F64" -> SelU64ToF64(g1, s.o, d)
                 [] OTHER -> Emit(g1, <<Ins(IF t = "F32" THEN "cvtsi2ss" ELSE "cvtsi2sd", <<d, s.o>>)>>),
               i, d)

(***************************************************************************)
(* Phis: a move in each predecessor; before a conditional jump it goes in   *)
(* front of the last comparison, past the test of the condition, and before *)
(* the jump itself if nothing is compared in the block.                     *)
(***************************************************************************)
SelPhi(g, i) ==
    LET t == Convert(i.t)
    IN  Result([Take(g, t) EXCEPT !.phis = Append(@, i)], i, Fresh(g, t))
InsertionPoint(ins) ==
    LET n    == FirstTerminator(ins)
        cmps == {m \in 1..(n - 1) : IsComparison(ins[m])}
    IN  CASE n = 0 -> Len(ins) + 1
          [] n > 0 /\ ins[n].op = "jcc" /\ cmps # {} -> CHOOSE m \in cmps : \A x \in cmps : x <= m
          [] OTHER -> n
PhiMove(d, o) == IF o.k = "obj" THEN Ins("lea", <<d, o>>) ELSE Move(d, o)
ProcessPhi(g, i) ==
    Fold(LAMBDA acc, n :
                LET k == Position(acc.f, i.a[2 * n].bb)
                    m == PhiMove(acc.val[i.id], Operand(acc, i.a[2 * n - 1]))
                IN  [acc EXCEPT !.f.blocks[k].ins = InsertAt(@, InsertionPoint(@), m)],
             g, [n \in 1..(Len(i.a) \div 2) |-> n])
ProcessPhis(g) == Fold(ProcessPhi, g, g.phis)

(***************************************************************************)
(* A function                                                              *)
(***************************************************************************)
SelInstr(g, i, next) ==
    CASE i.op = "ret"    -> SelRet(g, i)
      [] i.op = "branch" -> SelBranch(g, i, next)
      [] i.op \in {"add", "sub", "and", "or", "xor"} -> SelBinary(g, i)
      [] i.op = "mul"    -> SelMul(g, i)
      [] i.op \in {"div", "rem"} -> SelDivRem(g, i)
      [] i.op \in {"shl", "shr"} -> SelShift(g, i)
      [] i.op = "set"    -> SelSetcc(g, i)
      [] i.op = "alloca" -> SelAlloca(g, i)
      [] i.op = "load"   -> SelLoad(g, i)
      [] i.op = "store"  -> SelStore(g, i)
      [] i.op = "gep"    -> SelGep(g, i)
      [] i.op = "call"   -> SelCall(g, i)
      [] i.op = "phi"    -> SelPhi(g, i)
      [] i.op = "trunc"  -> SelTrunc(g, i)
      [] i.op = "zext"   -> SelConvert(g, i, "movzx")
      [] i.op = "sext"   -> SelConvert(g, i, "movsx")
      [] i.op = "fpext"  -> SelConvert(g, i, "cvtss2sd")
      [] i.op = "fptrunc" -> SelConvert(g, i, "cvtsd2ss")
      [] i.op = "ptrtoint" -> SelPtrToInt(g, i)
      [] i.op = "inttoptr" -> SelIntToPtr(g, i)
      [] i.op = "bitcast" -> SelBitcast(g, i)
      [] i.op \in {"fp2ui", "fp2si"} -> SelFpToInt(g, i)
      [] i.op \in {"ui2fp", "si2fp"} -> SelIntToFp(g, i)

\* jmir_funcCreateArgument: every argument is copied to a register of its own.
CreateArgument(g, n) ==
    LET t == g.f.proto.args[n]
        d == Fresh(g, t)
        s == CASE n > 4      -> Mem(t, RegBP, None, 1, 16 + 8 * (n - 1))
               [] n <= 4 /\ IsFloat(t) -> Reg(t, ArgFReg[n])
               [] OTHER      -> Reg(t, ArgIReg[n])
        h == Emit(Take(g, t), <<Move(d, s)>>)
    IN  [h EXCEPT !.f.args = Append(@, d)]

FuncBegin(fn) ==
    LET g == [f |-> [NewFunction(Proto(fn)) EXCEPT !.nbb = Len(fn.blocks) + 1],
              cur |-> 0, ins |-> <<>>, val |-> <<>>, phis |-> <<>>]
        n == Len(fn.args)
    IN  CloseBlock(Fold(CreateArgument, g, [k \in 1..n |-> k]), 0)
SelBlock(g, fn, k) ==
    LET next == IF k < Len(fn.blocks) THEN fn.blocks[k + 1].b ELSE None
    IN  CloseBlock(Fold(LAMBDA acc, i : SelInstr(acc, i, next),
                            [g EXCEPT !.cur = fn.blocks[k].b], fn.blocks[k].ins), 0)

\* The frame is complete: every object has its place above the stack pointer.
Place(f) ==
    MapIns(f, LAMBDA i : [i EXCEPT !.a = [n \in DOMAIN @ |->
        IF @[n].k = "obj" THEN Mem(@[n].t, RegSP, None, 1, f.frame.objs[@[n].o].d) ELSE @[n]]])

FuncBuild(fn) ==
    Place(ProcessPhis(Fold(LAMBDA g, k : SelBlock(g, fn, k), FuncBegin(fn),
                               [k \in DOMAIN fn.blocks |-> k])).f)
=============================================================================

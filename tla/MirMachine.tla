------------------------------ MODULE MirMachine ------------------------------
(***************************************************************************)
(* The machine IR interpreted (see Machine), instruction by instruction, as *)
(* the x64 executes it: writes of 8 and 16 bits leave the rest of a register*)
(* alone, writes of 32 bits clear it, immediates are sign extended, some    *)
(* instructions leave the flags undefined, a call destroys the caller-saved *)
(* registers. A register of floats is two halves <<lo, hi>>.                *)
(***************************************************************************)
EXTENDS InstrCombine, Machine

FlagOps == {"add", "sub", "and", "or", "xor", "cmp", "test"}
NoFlags == [ok |-> FALSE, z |-> FALSE, s |-> FALSE, c |-> FALSE, o |-> FALSE]
GPOf(m, r) == IF r \in DOMAIN m.gp THEN m.gp[r] ELSE 40000 + (r % 200) * 7
XmmOf(m, r) == IF r \in DOMAIN m.xmm THEN m.xmm[r] ELSE <<Poison, Poison>>
Failed(m, why) == IF m.fault = 0 THEN [m EXCEPT !.fault = why] ELSE m

AddressOf(m, o) ==
    (IF o.b = None THEN 0 ELSE GPOf(m, o.b))
    + (IF o.i = None THEN 0 ELSE GPOf(m, o.i) * o.s) + o.d
Addr(m, o) == IF o.k = "sym" THEN SymAddr(o.name) ELSE AddressOf(m, o) % 65536

\* An operand as an instruction that works on type t reads it; Bad where it has no encoding.
Immediate(t, o) ==
    CASE IsFloat(o.t) -> FloatOfInt(o.t, o.v)
      [] t \in {"I64", "PTR"} -> IF ImmFits(o.v) THEN Signed("I32", o.v) % 65536 ELSE -1
      [] OTHER -> o.v % Mod(t)
Read(m, t, o) ==
    CASE IsReg(o) /\ ClassOf(o.r) = "gp" -> Trunc(o.t, GPOf(m, o.r))
      [] IsReg(o) /\ ClassOf(o.r) = "xmm" -> XmmOf(m, o.r)[1]
      [] IsImm(o) -> Immediate(t, o)
      [] OTHER -> ReadMem(m.mem, Addr(m, o), SizeOf(o.t))
Readable(m, t, o) ==
    CASE IsImm(o) -> IsFloat(o.t) \/ Immediate(t, o) >= 0
      [] IsMem(o) -> Valid(Addr(m, o), SizeOf(o.t))
      [] OTHER -> TRUE
Write(m, o, v) ==
    CASE IsReg(o) /\ ClassOf(o.r) = "gp" ->
            LET old == GPOf(m, o.r)
                new == IF SizeOf(o.t) < 4 /\ IsBits(old) /\ IsBits(v)
                       THEN (old - (old % Mod(o.t))) + (v % Mod(o.t)) ELSE Trunc(o.t, v)
            IN  [m EXCEPT !.gp = (o.r :> new) @@ @]
      [] IsReg(o) /\ ClassOf(o.r) = "xmm" -> [m EXCEPT !.xmm = (o.r :> <<v, XmmOf(m, o.r)[2]>>) @@ @]
      [] OTHER -> IF Valid(Addr(m, o), SizeOf(o.t))
                  THEN [m EXCEPT !.mem = WriteMem(@, Addr(m, o), SizeOf(o.t), v)] ELSE Failed(m, BadAddress)

Flags(t, op, x, y, v) ==
    LET sub == op \in {"sub", "cmp"}
        add == op = "add"
        sv  == IF sub THEN Signed(t, x) - Signed(t, y) ELSE Signed(t, x) + Signed(t, y)
    IN  [ok |-> TRUE, z |-> v = 0, s |-> Signed(t, v) < 0,
         c |-> (sub /\ x < y) \/ (add /\ x + y >= Mod(t)), o |-> (sub \/ add) /\ sv # Signed(t, v)]
Condition(f, cc) ==
    CASE cc = "b" -> f.c [] cc = "nb" -> ~f.c [] cc = "e" -> f.z [] cc = "ne" -> ~f.z
      [] cc = "be" -> f.c \/ f.z [] cc = "nbe" -> ~(f.c \/ f.z) [] cc = "s" -> f.s [] cc = "ns" -> ~f.s
      [] cc = "l" -> f.s # f.o [] cc = "nl" -> f.s = f.o
      [] cc = "le" -> f.z \/ (f.s # f.o) [] cc = "nle" -> ~f.z /\ f.s = f.o

(***************************************************************************)
(* Instructions                                                            *)
(***************************************************************************)
IntName(sign, t) == sign \o ToString(8 * SizeOf(t))     \* the type of the same size, "i32"
ArithTo(m, i, t, v) == IF SetsFlagsOnly(i) THEN m ELSE Write(m, i.a[1], v)
ArithOf(m, i, t, x, y) ==
    LET op == CASE i.op = "cmp" -> "sub" [] i.op = "test" -> "and" [] OTHER -> i.op
        With(v) == [ArithTo(m, i, t, v) EXCEPT !.flags = Flags(t, i.op, x, y, v)]
    IN  With(IntArith(op, IntName("i", t), x, y))
ArithOn(m, i, t, x, y) ==
    CASE ClearsItself(i) -> [ArithTo(m, i, t, 0) EXCEPT !.flags = Flags(t, "xor", 0, 0, 0)]
      [] ~ClearsItself(i) /\ IsBits(x) /\ IsBits(y) -> ArithOf(m, i, t, x % Mod(t), y % Mod(t))
      [] OTHER -> Failed(m, BadOperand)
Arith(m, i) == LET t == i.a[1].t IN ArithOn(m, i, t, Read(m, t, i.a[1]), Read(m, t, i.a[2]))
Shift(m, i) ==
    LET t == i.a[1].t
        x == Read(m, t, i.a[1])
        n == Read(m, "I8", i.a[2])
        ty == IntName(IF i.op = "shr" THEN "u" ELSE "i", t)
        op == IF i.op = "shl" THEN "shl" ELSE "shr"
    IN  IF IsBits(x) THEN [Write(m, i.a[1], IntArith(op, ty, x, n)) EXCEPT !.flags = NoFlags]
        ELSE Failed(m, BadOperand)
Multiply(m, i, x, y) ==
    LET t == i.a[1].t
    IN  IF IsBits(x) /\ IsBits(y)
        THEN [Write(m, i.a[1], (Sx(t, x) * Sx(t, y)) % Mod(t)) EXCEPT !.flags = NoFlags]
        ELSE Failed(m, BadOperand)
\* The dividend is the pair D:A; a quotient that does not fit faults.
DivideBy(m, i, y) ==
    LET t  == i.a[1].t
        lo == Trunc(t, GPOf(m, RegA))
        hi == Trunc(t, GPOf(m, RegD))
        signed == i.op = "idiv"
        sane == IF signed THEN hi = (IF Signed(t, lo) < 0 THEN Mod(t) - 1 ELSE 0) ELSE hi = 0
        ty == IntName(IF signed THEN "i" ELSE "u", t)
        Put(r, v, k) == Write(k, Reg(t, r), v)
    IN  IF ~IsBits(lo) \/ ~IsBits(y) \/ y = 0 \/ ~sane THEN Failed(m, BadOperand)
        ELSE [Put(RegA, IntArith("div", ty, lo, y), Put(RegD, IntArith("rem", ty, lo, y), m))
                 EXCEPT !.flags = NoFlags]
Divide(m, i) == DivideBy(m, i, Read(m, i.a[1].t, i.a[1]))
Convey(m, i) ==     \* mov and its floating point relatives
    LET t == i.a[1].t
        d == i.a[1]
        s == i.a[2]
        wide == i.op \in {"movaps", "movapd"}
    IN  CASE i.op = "mov" /\ IsReg(d) /\ IsImm(s) -> Write(m, d, s.v % 65536)
          [] wide /\ IsReg(d) /\ IsReg(s) -> [m EXCEPT !.xmm = (d.r :> XmmOf(m, s.r)) @@ @]
          [] wide /\ IsReg(d) /\ IsMem(s) ->
                [m EXCEPT !.xmm = (d.r :> <<ReadMem(m.mem, Addr(m, s), 8), ReadMem(m.mem, Addr(m, s) + 8, 8)>>) @@ @]
          [] wide /\ IsMem(d) -> [m EXCEPT !.mem = WriteMem(WriteMem(@, Addr(m, d), 8, XmmOf(m, s.r)[1]),
                                                            Addr(m, d) + 8, 8, XmmOf(m, s.r)[2])]
          [] i.op \in {"movss", "movsd"} /\ IsReg(d) /\ ~IsReg(s) ->
                [m EXCEPT !.xmm = (d.r :> <<Read(m, t, s), 0>>) @@ @]
          [] i.op = "movss" /\ IsReg(s) ->
                Write(m, d, IF IsFloatOf("F32", Read(m, t, s)) \/ IsBits(Read(m, t, s)) THEN Read(m, t, s) ELSE Poison)
          [] OTHER -> Write(m, d, Read(m, t, s))
Extend(m, i) ==
    LET v == Read(m, i.a[2].t, i.a[2])
    IN  Write(m, i.a[1], IF i.op = "movsx" THEN Sx(i.a[2].t, v) % Mod(i.a[1].t) ELSE v)
FloatInstr(m, i) ==
    LET t == IF i.op \in {"addss", "subss", "mulss", "divss"} THEN "F32" ELSE "F64"
        op == CASE i.op \in {"addss", "addsd"} -> "add" [] i.op \in {"subss", "subsd"} -> "sub"
                [] i.op \in {"mulss", "mulsd"} -> "mul" [] OTHER -> "div"
    IN  Write(m, i.a[1], FloatArith(t, op, Read(m, t, i.a[1]), Read(m, t, i.a[2])))
CompareFloats(m, i) ==
    LET t == IF i.op \in {"comiss", "ucomiss"} THEN "F32" ELSE "F64"
        x == Read(m, t, i.a[1])
        y == Read(m, t, i.a[2])
    IN  IF ~IsFloatOf(t, x) \/ ~IsFloatOf(t, y) THEN Failed(m, BadOperand)
        ELSE [m EXCEPT !.flags = [ok |-> TRUE, z |-> x = y, s |-> FALSE, c |-> Num(t, x) < Num(t, y), o |-> FALSE]]
ConvertInstr(m, i) ==
    LET v == Read(m, i.a[2].t, i.a[2])
    IN  Write(m, i.a[1],
          CASE i.op = "cvtsi2ss" -> FloatOfInt("F32", Sx(i.a[2].t, v))
            [] i.op = "cvtsi2sd" -> FloatOfInt("F64", Sx(i.a[2].t, v))
            [] i.op = "cvttss2si" -> ToInt("F32", i.a[1].t, v)
            [] i.op = "cvttsd2si" -> ToInt("F64", i.a[1].t, v)
            [] i.op = "cvtsd2ss" -> FloatToFloat("F64", "F32", v)
            [] i.op = "cvtss2sd" -> FloatToFloat("F32", "F64", v))
\* The halves of an integer become mantissas, of doubles whose exponents subpd takes off.
Packed(m, i) ==
    LET x == XmmOf(m, i.a[1].r)
        d == i.a[1].r
    IN  [m EXCEPT !.xmm = (d :>
          CASE i.op = "punpckldq" -> IF IsBits(x[1]) THEN <<Lifted(0, x[1] % 256), Lifted(1, x[1] \div 256)>>
                                     ELSE <<Poison, Poison>>
            [] i.op = "subpd" -> IF x[1] \in 500000..500255 /\ x[2] \in 600000..600255
                                 THEN <<FloatOfInt("F64", x[1] - 500000), FloatOfInt("F64", 256 * (x[2] - 600000))>> ELSE <<Poison, Poison>>
            [] i.op = "unpckhpd" -> <<x[2], XmmOf(m, i.a[2].r)[2]>>) @@ @]

LostGP == [x \in {r \in CallerSaved : r < 100} |-> 50000 + x]
LostXmm == [x \in {r \in CallerSaved : r >= 100} |-> <<Poison, Poison>>]
ArgAt(m, t, n) ==
    CASE n > 4 -> ReadMem(m.mem, GPOf(m, RegSP) + 8 * (n - 1), SizeOf(t))
      [] n <= 4 /\ IsFloat(t) -> XmmOf(m, ArgFReg[n])[1]
      [] OTHER -> Trunc(t, GPOf(m, ArgIReg[n]))
CallInstr(m, i) ==
    LET o == i.a[1]
        k == Len(i.proto.args)
        named == [n \in 1..k |-> ArgAt(m, i.proto.args[n], n)]
        name == CASE o.k = "sym" -> o.name [] o.k # "sym" /\ Read(m, "I64", o) = 40 -> "ext" [] OTHER -> "wild"
        extra == [n \in 1..(IF k > 0 THEN Extras(name, named[1]) ELSE 0) |-> ArgAt(m, "I64", k + n)]
        args == named \o extra
        r == External(name, args, m.mem, i.proto.ret)
        home == WriteMem(WriteMem(r.mem, GPOf(m, RegSP), 8, 999), GPOf(m, RegSP) + 24, 8, 998)
        gone == [m EXCEPT !.mem = home, !.trace = Append(@, Note(name, args)), !.flags = NoFlags,
                          !.gp = LostGP @@ @,
                          !.xmm = LostXmm @@ @]
    IN  IF name = "wild" THEN Failed(m, BadAddress)
        ELSE IF IsFloat(i.proto.ret) THEN [gone EXCEPT !.xmm = (Xmm(0) :> <<r.ret, 0>>) @@ @]
        ELSE [gone EXCEPT !.gp = (RegA :> r.ret) @@ @]

Execute(m, i) ==
    CASE i.op \in FlagOps -> Arith(m, i)
      [] i.op \in {"sar", "shr", "shl"} -> Shift(m, i)
      [] i.op = "imul" -> Multiply(m, i, Read(m, i.a[1].t, i.a[1]), Read(m, i.a[1].t, i.a[2]))
      [] i.op = "imul3" -> Multiply(m, i, Read(m, i.a[1].t, i.a[2]), Read(m, i.a[1].t, i.a[3]))
      [] i.op \in {"idiv", "div"} -> Divide(m, i)
      [] i.op \in {"cdq", "cqo"} ->
            LET t == IF i.op = "cdq" THEN "I32" ELSE "I64"
            IN  Write(m, Reg(t, RegD), IF Signed(t, GPOf(m, RegA)) < 0 THEN Mod(t) - 1 ELSE 0)
      [] i.op \in {"mov", "movss", "movsd", "movaps", "movapd", "movd", "movq"} -> Convey(m, i)
      [] i.op \in {"movsx", "movzx"} -> Extend(m, i)
      [] i.op = "lea" -> Write(m, i.a[1], Addr(m, i.a[2]))
      [] i.op = "setcc" -> IF m.flags.ok THEN Write(m, i.a[1], IF Condition(m.flags, i.cc) THEN 1 ELSE 0)
                           ELSE Failed(m, BadFlags)
      [] i.op = "xorps" -> [m EXCEPT !.xmm = (i.a[1].r :> <<0, 0>>) @@ @]
      [] i.op \in {"addss", "addsd", "subss", "subsd", "mulss", "mulsd", "divss", "divsd"} -> FloatInstr(m, i)
      [] i.op \in {"comiss", "comisd", "ucomiss", "ucomisd"} -> CompareFloats(m, i)
      [] i.op \in {"cvtsi2ss", "cvtsi2sd", "cvttss2si", "cvttsd2si", "cvtsd2ss", "cvtss2sd"} -> ConvertInstr(m, i)
      [] i.op \in {"punpckldq", "subpd", "unpckhpd"} -> Packed(m, i)
      [] i.op = "call" -> CallInstr(m, i)
      [] i.op = "push" -> LET sp == GPOf(m, RegSP) - 8
                          IN  [m EXCEPT !.mem = WriteMem(@, sp, 8, GPOf(m, i.a[1].r)), !.gp = (RegSP :> sp) @@ @]
      [] i.op = "pop" -> [m EXCEPT !.gp = (i.a[1].r :> ReadMem(m.mem, GPOf(m, RegSP), 8))
                                          @@ (RegSP :> GPOf(m, RegSP) + 8) @@ @]
\* What an instruction cannot be: two memory operands, a wide immediate, memory out of reach.
Encodable(m, i) ==
    /\ ~\E x, y \in DOMAIN i.a : x # y /\ i.a[x].k \in {"mem", "sym"} /\ i.a[y].k \in {"mem", "sym"}
    /\ (i.a # <<>> => i.a[1].k # "imm")
    /\ i.op = "lea" \/ (i.op = "mov" /\ IsReg(i.a[1]))
       \/ \A n \in 2..Len(i.a) : Readable(m, i.a[1].t, i.a[n])
    /\ i.op # "lea" => \A n \in DOMAIN i.a : IsMem(i.a[n]) => Valid(Addr(m, i.a[n]), SizeOf(i.a[n].t))

(***************************************************************************)
(* A run: from the block at position k                                     *)
(***************************************************************************)
Returned(f, m) ==
    IF f.proto.ret = "VOID" THEN 0
    ELSE IF IsFloat(f.proto.ret)
         THEN XmmOf(m, Xmm(0))[1]
         ELSE Trunc(f.proto.ret, GPOf(m, RegA))
\* The jumps at the end of a block, tried in order; the block's position, or 0 to return.
Goes(f, k, m, jumps) ==
    LET taken == SelectInSeq(jumps, LAMBDA i : i.op # "jcc" \/ Condition(m.flags, i.cc))
    IN  CASE taken = 0 -> k + 1
          [] taken > 0 /\ jumps[taken].op = "ret" -> 0
          [] OTHER -> Position(f, jumps[taken].a[1].bb)
Step(m, i) == CASE m.fault # 0 -> m
                [] m.fault = 0 /\ ~Encodable(m, i) -> Failed(m, BadOperand)
                [] OTHER -> Execute(m, i)
RECURSIVE RunFrom(_, _, _, _)
Onward(f, k, m, jumps, fuel) ==
    CASE m.fault # 0 -> m
      [] m.fault = 0 /\ jumps # <<>> /\ jumps[1].op = "jcc" /\ ~m.flags.ok -> Failed(m, BadFlags)
      [] OTHER -> IF Goes(f, k, m, jumps) = 0 THEN m
                  ELSE RunFrom(f, Goes(f, k, m, jumps), m, fuel - 1)
RunFrom(f, k, m, fuel) ==
    IF fuel = 0 \/ k > Len(f.blocks) THEN Failed(m, Endless)
    ELSE LET ins == f.blocks[k].ins
             n   == IF FirstTerminator(ins) = 0 THEN Len(ins) + 1 ELSE FirstTerminator(ins)
         IN  Onward(f, k, Fold(Step, m, SubSeq(ins, 1, n - 1)), SubSeq(ins, n, Len(ins)), fuel)

\* The machine at the call: arguments in place, everything else unknown.
AtEntry(f, args, whole) ==
    LET n    == Len(args)
        type == [k \in 1..n |-> IF k <= Len(f.proto.args) THEN f.proto.args[k] ELSE "I64"]
        ints == {k \in 1..n : k <= 4 /\ (~IsFloat(type[k]) \/ f.proto.vararg)}
        flts == {k \in 1..n : k <= 4 /\ IsFloat(type[k])}
        \* the caller leaves what it likes in the unused part of an argument's register
        Padded_(t, v) == IF SizeOf(t) < 8 /\ IsBits(v) THEN 256 * 200 + (v % 256) ELSE v
        ArgNo(r) == CHOOSE k \in ints : ArgIReg[k] = r
        gp   == [r \in {ArgIReg[k] : k \in ints} |-> Padded_(type[ArgNo(r)], args[ArgNo(r)])]
        xmm  == [r \in {ArgFReg[k] : k \in flts} |-> <<args[r - 99], 0>>]
        mem0 == Fold(LAMBDA x, k : WriteMem(x, EntrySP + 8 * k, 8, args[k]), Outside0,
                         [k \in 1..(IF n > 4 THEN n - 4 ELSE 0) |-> k + 4])
        home == Fold(LAMBDA x, k : IF k \in ints /\ f.proto.vararg
                                       THEN WriteMem(x, EntrySP + 8 * k, 8, args[k]) ELSE x,
                         mem0, [k \in 1..4 |-> k])
        bp   == EntrySP - 8
        sp   == bp - RoundUp(f.frame.size, 16)
    IN  [gp |-> IF whole THEN (RegSP :> EntrySP) @@ gp ELSE (RegSP :> sp) @@ (RegBP :> bp) @@ gp,
         xmm |-> xmm, mem |-> IF whole THEN mem0 ELSE home, flags |-> NoFlags, trace |-> <<>>, fault |-> 0]
Restored(m0, m1) ==
    /\ GPOf(m1, RegSP) = EntrySP
    /\ \A r \in ToSet(CalleeSavedI) \cup {RegBP} : GPOf(m1, r) = GPOf(m0, r)
    /\ \A r \in ToSet(CalleeSavedF) : XmmOf(m1, r) = XmmOf(m0, r)
Outcome(f, m0, m1, whole) ==
    CASE m1.fault # 0 -> Fault(m1.fault)
      [] m1.fault = 0 /\ whole /\ ~Restored(m0, m1) -> Fault(NotRestored)
      [] OTHER -> Observed(Returned(f, m1), m1.mem, m1.trace)
\* whole: the function has its prologue and its epilogue.
RunMIR(f, args, whole, fuel) ==
    LET m0 == AtEntry(f, args, whole) IN Outcome(f, m0, RunFrom(f, 1, m0, fuel), whole)
=============================================================================

-------------------------------- MODULE X64 --------------------------------
(* A reference decoder of x86-64, after the processor manuals and not after
   the compiler: the instruction that starts at a byte of the code.  It knows
   the part of the instruction set that the assembler of jit.c can produce.

   An instruction is [op, sse, cc, args]; sse is "none" outside of SSE, cc 0 where
   no condition is tested.  Arguments are registers, memory and immediates with
   their size, and "rel" for a displacement from the end of the instruction.
   Where the displacement is relocated (RIP, rel) its value is left out.      *)
EXTENDS Integers, Sequences, TLC

Sgn(v, width) ==
  [i \in 1 .. width |-> IF i <= Len(v) THEN v[i] ELSE IF v[Len(v)] >= 128 THEN 255 ELSE 0]

XReg(id, size) == [kind |-> "reg", id |-> id, size |-> size]
XImm(v, size) == [kind |-> "imm", size |-> size, val |-> v]
XMem(size, base, index, scale, disp) ==
  [kind |-> "mem", size |-> size, base |-> base, index |-> index, scale |-> scale, disp |-> disp]
XRip(size) == XMem(size, 21, -1, 0, <<>>)
XRel == [kind |-> "rel"]
XInstr(op, sse, cc, args) == [op |-> op, sse |-> sse, cc |-> cc, args |-> args]
Undefined == XInstr("undefined", "none", 0, <<>>)

Arith == <<"add", "or", "adc", "sbb", "and", "sub", "xor", "cmp">>
ShiftOps == <<"rol", "ror", "rcl", "rcr", "shl", "shr", "shl", "sar">>
Group3 == <<"test", "undefined", "not", "neg", "mul", "imul1", "div", "idiv">>
Group5 == <<"inc", "dec", "call", "undefined", "jmp", "undefined", "push", "undefined">>

Row(op, form, imm) == [op |-> op, form |-> form, imm |-> imm]

(* One byte opcodes: the operation, the operands ("r" and "m" are the reg and
   rm fields, "o" a register in the opcode), the bytes of the immediate ("z":
   two or four as the operand size says, "v": up to eight).                  *)
OneByte(o, ext) ==
  CASE o < 64 /\ o % 8 < 4 -> Row(Arith[(o \div 8) + 1], IF o % 4 < 2 THEN "mr" ELSE "rm", "none")
    [] o \in \h50 .. \h57 -> Row("push", "o", "none")
    [] o \in \h58 .. \h5F -> Row("pop", "o", "none")
    [] o = \h63 -> Row("movsx", "rm", "none")
    [] o = \h68 -> Row("push", "none", "z")
    [] o = \h6A -> Row("push", "none", "b")
    [] o = \h69 -> Row("imul", "rm", "z")
    [] o = \h6B -> Row("imul", "rm", "b")
    [] o \in {\h80, \h83} -> Row(Arith[ext + 1], "m", "b")
    [] o = \h81 -> Row(Arith[ext + 1], "m", "z")
    [] o \in {\h84, \h85} -> Row("test", "mr", "none")
    [] o \in {\h88, \h89} -> Row("mov", "mr", "none")
    [] o \in {\h8A, \h8B} -> Row("mov", "rm", "none")
    [] o = \h8D -> Row("lea", "rm", "none")
    [] o = \h8F -> Row("pop", "m", "none")
    [] o \in \hB0 .. \hB7 -> Row("mov", "o", "b")
    [] o \in \hB8 .. \hBF -> Row("mov", "o", "v")
    [] o \in {\hC0, \hC1} -> Row(ShiftOps[ext + 1], "m", "b")
    [] o = \hC6 -> Row("mov", "m", "b")
    [] o = \hC7 -> Row("mov", "m", "z")
    [] o \in {\hD0, \hD1} -> Row(ShiftOps[ext + 1], "m", "1")
    [] o \in {\hD2, \hD3} -> Row(ShiftOps[ext + 1], "m", "cl")
    [] o = \hE8 -> Row("call", "rel", "none")
    [] o = \hE9 -> Row("jmp", "rel", "none")
    [] o \in {\hF6, \hF7} -> Row(Group3[ext + 1], "m", IF ext > 1 THEN "none" ELSE IF o = \hF6 THEN "b" ELSE "z")
    [] o \in {\hFE, \hFF} -> Row(Group5[ext + 1], "m", "none")
    [] o = \h98 -> Row("extendA", "none", "none")
    [] o = \h99 -> Row("signA", "none", "none")
    [] o = \hC3 -> Row("ret", "none", "none")
    [] OTHER -> Row("undefined", "none", "none")

TwoByte(o) ==
  CASE o \in \h80 .. \h8F -> Row("j", "rel", "none")
    [] o \in \h90 .. \h9F -> Row("set", "m", "none")
    [] o = \hAF -> Row("imul", "rm", "none")
    [] o \in {\hB6, \hB7} -> Row("movzx", "rm", "none")
    [] o \in {\hBE, \hBF} -> Row("movsx", "rm", "none")
    [] o \in {\h11, \h29, \h7E} -> Row("sse", "mr", "none")
    [] OTHER -> Row("sse", "rm", "none")

SSEName ==
  \h10 :> "mov" @@ \h11 :> "mov" @@ \h14 :> "unpckl" @@ \h15 :> "unpckh" @@ \h28 :> "mova" @@ \h29 :> "mova"
  @@ \h2A :> "cvtsi2" @@ \h2C :> "cvtt2si" @@ \h2D :> "cvt2si" @@ \h2E :> "ucomi" @@ \h2F :> "comi"
  @@ \h51 :> "sqrt" @@ \h52 :> "rsqrt" @@ \h53 :> "rcp" @@ \h54 :> "and" @@ \h55 :> "andn" @@ \h56 :> "or"
  @@ \h57 :> "xor" @@ \h58 :> "add" @@ \h59 :> "mul" @@ \h5A :> "cvt2s" @@ \h5C :> "sub" @@ \h5D :> "min"
  @@ \h5E :> "div" @@ \h5F :> "max" @@ \h60 :> "punpcklbw" @@ \h61 :> "punpcklwd" @@ \h62 :> "punpckldq"
  @@ \h68 :> "punpckhbw" @@ \h69 :> "punpckhwd" @@ \h6A :> "punpckhdq" @@ \h6C :> "punpcklqdq"
  @@ \h6D :> "punpckhqdq" @@ \h6E :> "movq" @@ \h7E :> "movq"

(* What precedes the operands: prefixes, REX, opcode; m is the next byte. *)
HeaderAt(s, prefixes, q, rex, o, two) ==
  LET bit(b) == IF rex THEN (s[q] \div b) % 2 ELSE 0
      m == IF two THEN o + 2 ELSE o + 1
  IN  [is66 |-> \h66 \in prefixes, rex |-> rex, w |-> bit(8), r |-> bit(4), x |-> bit(2), b |-> bit(1),
       kind |-> IF \hF2 \in prefixes THEN "sd" ELSE IF \hF3 \in prefixes THEN "ss"
                ELSE IF \h66 \in prefixes THEN "pd" ELSE "ps",
       two |-> two, opc |-> IF two THEN s[o + 1] ELSE s[o], m |-> m,
       ext |-> IF m <= Len(s) THEN (s[m] \div 8) % 8 ELSE 0]
HeaderFrom(s, p, q) ==
  LET rex == s[q] \div 16 = 4
      o == IF rex THEN q + 1 ELSE q
  IN  HeaderAt(s, {s[i] : i \in p .. q - 1}, q, rex, o, s[o] = \h0F)
Header(s, p) ==
  HeaderFrom(s, p, p + IF s[p] \notin {\h66, \hF2, \hF3} THEN 0 ELSE IF s[p + 1] \in {\h66, \hF2, \hF3} THEN 2 ELSE 1)
RowOf(h) == IF h.two THEN TwoByte(h.opc) ELSE OneByte(h.opc, h.ext)

(* The address in the ModRM byte at m. *)
AddressOf(s, mod, sib, base, index, at, noBase, h) ==
  LET rip == noBase /\ ~sib
      n == IF mod = 1 THEN 1 ELSE IF mod = 2 \/ noBase THEN 4 ELSE 0
  IN  [base |-> IF rip THEN 21 ELSE IF noBase THEN -1 ELSE base + 8 * h.b,
       index |-> IF sib /\ index # 4 THEN index ELSE -1,
       scale |-> IF sib /\ index # 4 THEN s[at - 1] \div 64 ELSE 0,
       disp |-> IF rip THEN <<>> ELSE IF n = 0 THEN <<0, 0, 0, 0>> ELSE Sgn(SubSeq(s, at, at + n - 1), 4),
       at |-> at, next |-> at + n]
AddressIn(s, p, mod, sib, h) ==
  LET base == IF sib THEN s[p + 1] % 8 ELSE s[p] % 8
  IN  AddressOf(s, mod, sib, base, IF sib THEN ((s[p + 1] \div 8) % 8) + 8 * h.x ELSE 4,
                p + IF sib THEN 2 ELSE 1, mod = 0 /\ base = 5, h)
Address(s, h) == AddressIn(s, h.m, s[h.m] \div 64, s[h.m] % 8 = 4, h)

(* A byte register without REX: 4 to 7 are ah, ch, dh, bh. *)
ByteReg(id, rex) == XReg(IF id \in 4 .. 7 /\ ~rex THEN 100 + id ELSE id, 8)

RegOf(id, sz, h) == IF sz = 8 THEN ByteReg(id, h.rex) ELSE XReg(id, sz)

ByteSized(h, row) ==
  CASE row.op = "sse" -> FALSE
    [] h.two -> row.op = "set"
    [] h.opc \in \hB0 .. \hBF -> h.opc < \hB8
    [] row.op \in {"push", "pop", "lea", "movsx"} \/ h.opc \in {\h69, \h6B} -> FALSE
    [] OTHER -> h.opc % 2 = 0
OperandSize(h, row) ==
  CASE ByteSized(h, row) -> 8
    [] row.op \in {"push", "pop"} -> IF h.is66 THEN 16 ELSE 64
    [] row.op \in {"call", "jmp"} -> 64
    [] h.w = 1 -> 64
    [] h.is66 /\ row.op # "sse" -> 16
    [] OTHER -> 32

Name(h, row) ==
  IF row.op # "sse" THEN row.op ELSE IF h.opc \in DOMAIN SSEName THEN SSEName[h.opc] ELSE "undefined"

(* The sizes of the reg field's register and of the rm field's operand. *)
RegSize(sse, name, size) == IF sse /\ name \notin {"cvt2si", "cvtt2si"} THEN 128 ELSE size
RMIsGP(sse, name) == ~sse \/ name \in {"cvtsi2", "movq"}
MemSize(h, sse, name, size) ==
  CASE ~sse /\ h.opc = \h63 -> 32
    [] ~sse /\ h.two /\ name \in {"movzx", "movsx"} -> IF h.opc % 2 = 0 THEN 8 ELSE 16
    [] RMIsGP(sse, name) -> size
    [] sse /\ name \in {"comi", "ucomi"} -> IF h.kind = "pd" THEN 64 ELSE 32
    [] OTHER -> CASE h.kind = "ss" -> 32 [] h.kind = "sd" -> 64 [] OTHER -> 128

(* The operand of the rm field: what it is, the byte after it, the displacement. *)
RMMem(a, size) ==
  [arg |-> XMem(size, a.base, a.index, a.scale, a.disp), next |-> a.next, field |-> IF a.base = 21 THEN a.at ELSE 0]
RM(s, h, name, sse, size) ==
  IF s[h.m] \div 64 = 3
  THEN [arg |-> RegOf((s[h.m] % 8) + 8 * h.b, IF RMIsGP(sse, name) THEN MemSize(h, sse, name, size) ELSE 128, h),
        next |-> h.m + 1, field |-> 0]
  ELSE RMMem(Address(s, h), MemSize(h, sse, name, size))

Bytes(s, at, n, width) == XImm(Sgn(SubSeq(s, at, at + n - 1), width \div 8), width)
ImmLength(row, size) ==
  CASE row.imm = "b" -> 1
    [] row.imm = "z" -> IF size = 16 THEN 2 ELSE 4
    [] row.imm = "v" -> size \div 8
    [] OTHER -> 0
Immediate(s, row, at, n, size) ==
  CASE n > 0 -> <<Bytes(s, at, n, IF row.op \in {"rol", "ror", "rcl", "rcr", "shl", "shr", "sar"} THEN 8 ELSE size)>>
    [] row.imm = "1" -> <<XImm(<<1>>, 8)>>
    [] row.imm = "cl" -> <<XReg(1, 8)>>
    [] OTHER -> <<>>

Operands(h, form, rm, r, size) ==
  CASE form = "mr" -> <<rm.arg, r>>
    [] form = "rm" -> <<r, rm.arg>>
    [] form = "m" -> <<rm.arg>>
    [] form = "o" -> <<RegOf((h.opc % 8) + 8 * h.b, size, h)>>
    [] form = "rel" -> <<XRel>>
    [] OTHER -> <<>>

Widened(size, b16, b32, b64) == IF size = 64 THEN b64 ELSE IF size = 16 THEN b16 ELSE b32
Op(name, size) ==
  CASE name = "signA" -> Widened(size, "cwd", "cdq", "cqo")
    [] name = "extendA" -> Widened(size, "cbw", "cwde", "cdqe")
    [] OTHER -> name

Instruction(s, h, row, name, sse, size, rm, n) ==
  [instr |-> XInstr(Op(name, size), IF sse THEN h.kind ELSE "none",
                    IF h.two /\ row.op \in {"j", "set"} THEN h.opc % 16 ELSE 0,
                    Operands(h, row.form, rm, RegOf(h.ext + 8 * h.r, RegSize(sse, name, size), h), size)
                      \o Immediate(s, row, rm.next, n, size)),
   next |-> rm.next + n, field |-> rm.field]

DecodeSized(s, h, row, sse, name, size) ==
  Instruction(s, h, row, name, sse, size,
              CASE row.form \in {"m", "mr", "rm"} -> RM(s, h, name, sse, size)
                [] row.form = "rel" -> [arg |-> XRel, next |-> h.m + 4, field |-> h.m]
                [] OTHER -> [arg |-> XRel, next |-> h.m, field |-> 0],
              ImmLength(row, size))
DecodeRow(s, h, row) == DecodeSized(s, h, row, row.op = "sse", Name(h, row), OperandSize(h, row))
DecodeFrom(s, h) == DecodeRow(s, h, RowOf(h))

(* The instruction at p: what it is, where the next one starts and where its
   displacement stands (0: it has none that is relocated).                   *)
Decode(s, p) == DecodeFrom(s, Header(s, p))
=============================================================================

------------------------------ MODULE Encoding ------------------------------
(* From an x64 instruction to its bytes (jit.c): every jx64_<instruction> fills
   a jx_x64_instr_encoding_t, or refuses its operands, and jx64_encodeInstr
   writes it out.  An operator here is such a function up to the encoding.

   Operands   [kind |-> "reg", id, size]      size in bits; 128: an xmm register
              [kind |-> "imm", size, val]     val: eight bytes, the lowest first
              [kind |-> "mem", size, base, index, scale, disp]
              [kind |-> "sym", size, name]    [kind |-> "lbl", block]
   scale is the logarithm, disp four bytes.  Registers of an address always
   have 64 bits (jx_x64gen_convertMIROperand), so the address size prefix is
   never needed.  An SSE instruction is named by its operation and its prefix:
   <<"add", "ss">>; comiss and ucomiss have none and are "ps" here.           *)
EXTENDS Integers, Sequences, SequencesExt

None == -1           \* JX64_REG_NONE
RIP == 21            \* JX64_REG_RIP: the id of RBP and a flag, bit 4
RSP == 4  RBP == 5  CL == 1

Lo(r) == r % 8
Hi(r) == (r \div 8) % 2
Zeros(n) == [i \in 1 .. n |-> 0]

SignByte(b) == IF b >= 128 THEN 255 ELSE 0
SignExtend(v, n, width) == [i \in 1 .. width |-> IF i <= n THEN v[i] ELSE SignByte(v[n])]
SignExtends(v, n) == v = SignExtend(v, n, Len(v))       \* v is in INT<8n>_MIN .. INT<8n>_MAX
ImmFitsIn32Bits(v) == SubSeq(v, 5, 8) \in {Zeros(4), <<255, 255, 255, 255>>}
DispIs8Bit(d) == SignExtends(d, 1) /\ d[1] # 127

Rejected == [prefix |-> <<>>, rex |-> <<>>, opcode |-> <<>>, modrm |-> <<>>, sib |-> <<>>,
             disp |-> <<>>, imm |-> <<>>]
Accepted(enc) == enc.opcode # <<>>

-----------------------------------------------------------------------------
(* What ModRM, SIB and the displacement say of a register or an address. *)

RegRM(id) == [mod |-> 3, rm |-> Lo(id), sib |-> <<>>, disp |-> <<>>, x |-> 0, b |-> Hi(id)]

IsRBPorR13(r) == Lo(r) = 5 /\ r # RIP

(* Mutant: r13 is forgotten, it needs a displacement as rbp does. *)
AddressMod_NoR13(m) == IF m.disp # Zeros(4) THEN IF DispIs8Bit(m.disp) THEN 1 ELSE 2
                       ELSE IF m.base = RBP THEN 1 ELSE 0
AddressMod(m) == IF m.disp # Zeros(4) THEN IF DispIs8Bit(m.disp) THEN 1 ELSE 2
                 ELSE IF IsRBPorR13(m.base) THEN 1 ELSE 0

ShortDisp(m) ==
  CASE AddressMod(m) = 0 -> <<>>
    [] DispIs8Bit(m.disp) -> SubSeq(m.disp, 1, 1)
    [] OTHER -> m.disp

(* [base + index * scale + disp], [index * scale + disp], [base + disp], [disp] *)
AddressRM(m) ==
  CASE m.base # None /\ m.index # None ->
         [mod |-> AddressMod(m), rm |-> 4, sib |-> <<m.scale, Lo(m.index), Lo(m.base)>>,
          disp |-> ShortDisp(m), x |-> Hi(m.index), b |-> Hi(m.base)]
    [] m.base = None /\ m.index # None ->
         [mod |-> 0, rm |-> 4, sib |-> <<m.scale, Lo(m.index), 5>>, disp |-> m.disp,
          x |-> Hi(m.index), b |-> 0]
    [] m.base = RIP /\ m.index = None ->
         [mod |-> 0, rm |-> 5, sib |-> <<>>, disp |-> m.disp, x |-> 0, b |-> 0]
    [] m.base \notin {None, RIP} /\ m.index = None ->
         [mod |-> AddressMod(m), rm |-> Lo(m.base), disp |-> ShortDisp(m), x |-> 0, b |-> Hi(m.base),
          sib |-> IF Lo(m.base) = RSP THEN <<0, 4, 4>> ELSE <<>>]
    [] OTHER -> [mod |-> 0, rm |-> 4, sib |-> <<0, 4, 5>>, disp |-> m.disp, x |-> 0, b |-> 0]

AddressOk(m) == m.index # None => m.index \notin {RSP, RIP} /\ m.base # RIP

(* REX is there when one of its bits is, or to reach spl, bpl, sil and dil. *)
Rex(size, low8, r, rm) ==
  LET bits == <<IF size = 64 THEN 1 ELSE 0, r, rm.x, rm.b>>
  IN  IF low8 \/ bits # Zeros(4) THEN bits ELSE <<>>

(* The fields that all instructions with a ModRM byte fill in the same way. *)
Fields(size, low8, opcode, reg, rm, imm) ==
  [prefix |-> IF size = 16 THEN <<\h66>> ELSE <<>>, rex |-> Rex(size, low8, Hi(reg), rm),
   opcode |-> opcode, modrm |-> <<rm.mod, Lo(reg), rm.rm>>, sib |-> rm.sib, disp |-> rm.disp, imm |-> imm]
MemFields(size, low8, opcode, reg, m, imm) ==
  IF AddressOk(m) THEN Fields(size, low8, opcode, reg, AddressRM(m), imm) ELSE Rejected

IsLow8(op) == op.size = 8 /\ op.id >= RSP
Imm(v, size) == SubSeq(v, 1, size \div 8)
Wide(size) == IF size = 8 THEN 0 ELSE 1
Named(op, id) == op.kind = "reg" /\ op.id = id

(* A symbol is addressed relative to RIP; the displacement is relocated. *)
SymToMem(op) ==
  IF op.kind # "sym" THEN op
  ELSE [kind |-> "mem", size |-> op.size, base |-> RIP, index |-> None, scale |-> 0, disp |-> Zeros(4)]

-----------------------------------------------------------------------------
(* Forms shared by instructions.  "ext" extends the opcode in ModRM.reg. *)

BinaryOpRegImm(opcode, ext, reg, v, immSize) ==
  IF immSize \in {reg.size, 8} \/ (reg.size = 64 /\ immSize = 32)
  THEN Fields(reg.size, IsLow8(reg), opcode, ext, RegRM(reg.id), Imm(v, immSize)) ELSE Rejected

BinaryOpRegReg(opcode, dst, src) ==
  IF dst.size = src.size
  THEN Fields(dst.size, IsLow8(dst) \/ IsLow8(src), opcode, src.id, RegRM(dst.id), <<>>) ELSE Rejected

BinaryOpRegMem(opcode, reg, m) == MemFields(reg.size, IsLow8(reg), opcode, reg.id, m, <<>>)

BinaryOpMemImm(opcode, ext, m, v, immSize) ==
  IF immSize = 64 /\ v[8] < 128 /\ SubSeq(v, 5, 8) # Zeros(4) THEN Rejected
  ELSE MemFields(m.size, FALSE, opcode, ext, m, Imm(v, IF immSize = 64 THEN 32 ELSE immSize))

(* The bits s (a byte, sign extended) and w of the opcode. *)
ImmOpcode(opcode, size, immSize) ==
  <<opcode + Wide(size) + IF immSize = 8 /\ size # 8 THEN 2 ELSE 0>>

MathBinaryOpRegImm(opcode, ext, reg, v, immSize) ==
  BinaryOpRegImm(ImmOpcode(opcode, reg.size, immSize), ext, reg, v, immSize)
MathBinaryOpRegReg(opcode, dst, src) == BinaryOpRegReg(<<opcode + Wide(dst.size)>>, dst, src)
MathBinaryOpRegMem(opcode, regDst, reg, m) ==
  BinaryOpRegMem(<<opcode + Wide(reg.size) + IF regDst THEN 2 ELSE 0>>, reg, m)
MathBinaryOpMemImm(opcode, ext, m, v, immSize) ==
  BinaryOpMemImm(ImmOpcode(opcode, m.size, immSize), ext, m, v, immSize)

MathUnaryOpReg(opcode, ext, reg) ==
  Fields(reg.size, IsLow8(reg), <<opcode + Wide(reg.size)>>, ext, RegRM(reg.id), <<>>)
MathUnaryOpMem(opcode, ext, m) ==
  MemFields(m.size, FALSE, <<opcode + Wide(m.size)>>, ext, m, <<>>)
MathUnaryOp(opcode, ext, op) ==
  CASE op.kind = "reg" -> MathUnaryOpReg(opcode, ext, op)
    [] op.kind = "mem" -> MathUnaryOpMem(opcode, ext, op)
    [] OTHER -> Rejected

(* add, or, adc, sbb, and, sub, xor, cmp: number n of the group. *)
MathBinaryOp(n, dst0, src0) ==
  LET dst == SymToMem(dst0)
      src == SymToMem(src0)
      size == IF src.size = 64 THEN 32 ELSE src.size
      fits == src.kind = "imm" /\ (src.size = 64 => ImmFitsIn32Bits(src.val))
  IN  CASE dst0.kind = "sym" /\ src0.kind = "sym" -> Rejected
        [] dst.kind = "reg" /\ src.kind = "imm" /\ fits ->
             MathBinaryOpRegImm(\h80, n, dst, src.val, IF SignExtends(src.val, 1) THEN 8 ELSE size)
        [] dst.kind = "reg" /\ src.kind = "reg" -> MathBinaryOpRegReg(8 * n, dst, src)
        [] dst.kind = "reg" /\ src.kind = "mem" -> MathBinaryOpRegMem(8 * n, TRUE, dst, src)
        [] dst.kind = "mem" /\ src.kind = "imm" /\ fits ->
             MathBinaryOpMemImm(\h80, n, dst, src.val, size)
        [] dst.kind = "mem" /\ src.kind = "reg" -> MathBinaryOpRegMem(8 * n, FALSE, src, dst)
        [] OTHER -> Rejected

MathBinary == [add |-> 0, or |-> 1, adc |-> 2, sbb |-> 3, and |-> 4, sub |-> 5, xor |-> 6, cmp |-> 7]
MathUnary == [not |-> <<\hF6, 2>>, neg |-> <<\hF6, 3>>, mul |-> <<\hF6, 4>>, div |-> <<\hF6, 6>>,
              idiv |-> <<\hF6, 7>>, inc |-> <<\hFE, 0>>, dec |-> <<\hFE, 1>>]

-----------------------------------------------------------------------------
(* mov, movsx, movzx *)

MovRegImm(reg, v, immSize) ==
  LET short == SignExtends(v, 4)
      rm == RegRM(reg.id)
  IN  CASE reg.size = 64 /\ short -> Fields(64, FALSE, <<\hC7>>, 0, rm, Imm(v, 32))
        [] reg.size = immSize /\ ~(reg.size = 64 /\ short) ->
             [Fields(reg.size, IsLow8(reg), <<(IF reg.size = 8 THEN \hB0 ELSE \hB8) + Lo(reg.id)>>,
                     0, rm, Imm(v, reg.size)) EXCEPT !.modrm = <<>>]
        [] OTHER -> Rejected

MovMemImm(m, v, immSize) ==
  IF immSize = 64 /\ ~SignExtends(v, 4) THEN Rejected
  ELSE MemFields(immSize, FALSE, <<\hC6 + Wide(immSize)>>, 0, m, Imm(v, IF immSize = 64 THEN 32 ELSE immSize))

Mov(dst0, src0) ==
  LET dst == SymToMem(dst0)
      src == SymToMem(src0)
  IN  CASE dst0.kind = "sym" /\ src0.kind = "sym" -> Rejected
        [] dst.kind = "reg" /\ src.kind = "imm" -> MovRegImm(dst, src.val, src.size)
        [] dst.kind = "reg" /\ src.kind = "reg" -> MathBinaryOpRegReg(\h88, dst, src)
        [] dst.kind = "reg" /\ src.kind = "mem" -> MathBinaryOpRegMem(\h88, TRUE, dst, src)
        [] dst.kind = "mem" /\ src.kind = "imm" -> MovMemImm(dst, src.val, src.size)
        [] dst.kind = "mem" /\ src.kind = "reg" -> MathBinaryOpRegMem(\h88, FALSE, src, dst)
        [] OTHER -> Rejected

ExtendRegReg(opcode, dst, src) ==
  Fields(dst.size, src.size = 8 /\ (dst.id >= RSP \/ src.id >= RSP), opcode, dst.id, RegRM(src.id), <<>>)
MovsxOpcode(size) == CASE size = 8 -> <<\h0F, \hBE>> [] size = 16 -> <<\h0F, \hBF>> [] OTHER -> <<\h63>>
MovsxRegReg(dst, src) == ExtendRegReg(MovsxOpcode(src.size), dst, src)
MovzxRegReg(dst, src) ==
  IF src.size \in {8, 16} THEN ExtendRegReg(<<\h0F, IF src.size = 8 THEN \hB6 ELSE \hB7>>, dst, src) ELSE Rejected

(* A symbol's or a memory operand of 32 bits is read with the opcode of the
   group 60 made to read (w and d set).                                       *)
Movsx(dst, src0) ==
  LET src == SymToMem(src0)
  IN  IF dst.kind # "reg" \/ dst.size <= src.size THEN Rejected
      ELSE CASE src.kind = "reg" -> MovsxRegReg(dst, src)
             [] src.kind = "mem" -> BinaryOpRegMem(MovsxOpcode(src.size), dst, src)
             [] OTHER -> Rejected

(* To 64 from 32 bits: a 32 bit move, or nothing when it is the same register. *)
MovzxIsNop(dst, src) == dst.size = 64 /\ src.size = 32 /\ Named(dst, dst.id) /\ Named(src, dst.id)
Movzx(dst, src0) ==
  LET src == SymToMem(src0)
  IN  IF dst.kind # "reg" \/ dst.size < src.size THEN Rejected
      ELSE IF dst.size = 64 /\ src.size = 32 THEN Mov([dst EXCEPT !.size = 32], src0)
      ELSE CASE src.kind = "reg" -> MovzxRegReg(dst, src)
             [] src.kind = "mem" /\ src.size \in {8, 16} ->
                  BinaryOpRegMem(<<\h0F, IF src.size = 8 THEN \hB6 ELSE \hB7>>, dst, src)
             [] OTHER -> Rejected

-----------------------------------------------------------------------------
(* imul, lea, test, setcc, shifts, push and pop *)

Imul3(dst, src, imm) ==
  LET short == imm.size = 8 \/ SignExtends(imm.val, 1)
  IN  IF dst.kind # "reg" \/ dst.size = 8 \/ imm.kind # "imm" \/ src.kind # "reg" \/ dst.size # src.size
      THEN Rejected
      ELSE Fields(dst.size, FALSE, <<IF short THEN \h6B ELSE \h69>>, dst.id, RegRM(src.id),
                  Imm(imm.val, IF short THEN 8 ELSE dst.size))

Imul(dst, src) ==
  IF dst.kind # "reg" THEN Rejected
  ELSE CASE src.kind = "mem" -> BinaryOpRegMem(<<\h0F, \hAF>>, dst, src)
         [] src.kind = "reg" -> BinaryOpRegReg(<<\h0F, \hAF>>, src, dst)    \* "op r, r/m"
         [] src.kind = "imm" -> Imul3(dst, dst, src)
         [] OTHER -> Rejected

Lea(dst, src) ==
  IF dst.kind # "reg" \/ src.kind \notin {"mem", "sym"} THEN Rejected
  ELSE BinaryOpRegMem(<<\h8D>>, dst, SymToMem(src))

Test(dst, src) ==
  LET opcode == <<(IF src.kind = "imm" THEN \hF6 ELSE \h84) + Wide(dst.size)>>
      fits == src.kind = "imm" /\ (src.size = 64 => ImmFitsIn32Bits(src.val))
  IN  IF ~(dst.size = src.size \/ (dst.size = 64 /\ src.size = 32)) THEN Rejected
      ELSE CASE dst.kind = "reg" /\ src.kind = "imm" /\ fits ->
                  BinaryOpRegImm(opcode, 0, dst, src.val, IF src.size = 64 THEN 32 ELSE src.size)
             [] dst.kind = "reg" /\ src.kind = "reg" -> BinaryOpRegReg(opcode, dst, src)
             [] dst.kind = "mem" /\ src.kind = "imm" -> BinaryOpMemImm(opcode, 0, dst, src.val, src.size)
             [] dst.kind = "mem" /\ src.kind = "reg" -> BinaryOpRegMem(opcode, src, dst)
             [] OTHER -> Rejected

Setcc(cc, dst) ==
  IF dst.kind # "reg" \/ dst.size # 8 THEN Rejected
  ELSE Fields(8, IsLow8(dst), <<\h0F, \h90 + cc>>, 0, RegRM(dst.id), <<>>)

Shifts == [rol |-> 0, ror |-> 1, rcl |-> 2, rcr |-> 3, shl |-> 4, sal |-> 4, shr |-> 5, sar |-> 7]

ShiftRotateOp(ext, op, shift) ==
  LET byImm == shift.kind = "imm"
      one == byImm /\ shift.val = <<1>> \o Zeros(7)
      opcode == <<\hC0 + Wide(op.size)>>
  IN  CASE one -> MathUnaryOp(\hD0, ext, op)
        [] byImm /\ ~one /\ op.kind = "reg" -> BinaryOpRegImm(opcode, ext, op, shift.val, 8)
        [] byImm /\ ~one /\ op.kind = "mem" -> BinaryOpMemImm(opcode, ext, op, shift.val, 8)
        [] Named(shift, CL) /\ shift.size = 8 -> MathUnaryOp(\hD2, ext, op)
        [] OTHER -> Rejected

StackOpReg(opcode, reg) ==
  IF reg.size \in {8, 32} THEN Rejected
  ELSE [Fields(IF reg.size = 16 THEN 16 ELSE 0, FALSE, <<opcode + Lo(reg.id)>>, 0, RegRM(reg.id), <<>>)
          EXCEPT !.modrm = <<>>]
StackOpMem(opcode, ext, m) ==
  IF m.size \in {8, 32} THEN Rejected
  ELSE MemFields(IF m.size = 16 THEN 16 ELSE 0, FALSE, <<opcode>>, ext, m, <<>>)

Push(op) ==
  CASE op.kind = "imm" /\ op.size # 64 ->
         [Rejected EXCEPT !.opcode = <<IF op.size = 8 THEN \h6A ELSE \h68>>,
                          !.imm = Imm(op.val, IF op.size = 8 THEN 8 ELSE 32)]
    [] op.kind = "reg" -> StackOpReg(\h50, op)
    [] op.kind = "mem" -> StackOpMem(\hFF, 6, op)
    [] OTHER -> Rejected
Pop(op) ==
  CASE op.kind = "reg" -> StackOpReg(\h58, op)
    [] op.kind = "mem" -> StackOpMem(\h8F, 0, op)
    [] OTHER -> Rejected

-----------------------------------------------------------------------------
(* jmp, call, jcc.  The displacement to a label is the assembler's. *)

JmpCallReg(ext, reg) ==
  IF reg.size # 64 THEN Rejected
  ELSE [Fields(0, FALSE, <<\hFF>>, ext, RegRM(reg.id), <<>>)
          EXCEPT !.rex = IF Hi(reg.id) = 1 THEN <<1, 0, 0, 1>> ELSE <<>>]
JmpCallMem(ext, m) == [MemFields(0, FALSE, <<\hFF>>, ext, m, <<>>) EXCEPT !.rex = <<>>]

JmpCallOp(opcode, ext, op) ==
  CASE op.kind \in {"lbl", "sym"} -> [Rejected EXCEPT !.opcode = <<opcode>>, !.disp = Zeros(4)]
    [] op.kind = "reg" -> JmpCallReg(ext, op)
    [] op.kind = "mem" -> JmpCallMem(ext, op)
    [] OTHER -> Rejected

Jcc(cc, op) ==
  IF op.kind # "lbl" THEN Rejected
  ELSE [Rejected EXCEPT !.opcode = <<\h0F, \h80 + cc>>, !.disp = Zeros(4)]

(* ret and the instructions that widen A or copy its sign to D. *)
Void(rexW, prefix, opcode) ==
  [Rejected EXCEPT !.prefix = prefix, !.opcode = <<opcode>>,
                   !.rex = IF rexW THEN <<1, 0, 0, 0>> ELSE <<>>]
Retn == Void(FALSE, <<>>, \hC3)
Widening == [cwd |-> Void(FALSE, <<\h66>>, \h99), cdq |-> Void(FALSE, <<>>, \h99), cqo |-> Void(TRUE, <<>>, \h99),
             cbw |-> Void(FALSE, <<\h66>>, \h98), cwde |-> Void(FALSE, <<>>, \h98), cdqe |-> Void(TRUE, <<>>, \h98)]

-----------------------------------------------------------------------------
(* SSE *)

SSEPrefix == [ps |-> <<>>, pd |-> <<\h66>>, sd |-> <<\hF2>>, ss |-> <<\hF3>>]

SSEOpcodes1 ==
  [add |-> \h58, andn |-> \h55, and |-> \h54, comi |-> \h2F, cvtsi2 |-> \h2A, cvt2si |-> \h2D,
   cvtt2si |-> \h2C, cvt2s |-> \h5A, div |-> \h5E, max |-> \h5F, min |-> \h5D, mul |-> \h59]
SSEOpcodes2 ==
  [or |-> \h56, rcp |-> \h53, rsqrt |-> \h52, sqrt |-> \h51, sub |-> \h5C, ucomi |-> \h2E,
   unpckh |-> \h15, unpckl |-> \h14, xor |-> \h57,
   punpcklbw |-> \h60, punpcklwd |-> \h61, punpckldq |-> \h62, punpcklqdq |-> \h6C,
   punpckhbw |-> \h68, punpckhwd |-> \h69, punpckhdq |-> \h6A, punpckhqdq |-> \h6D]

(* REX.W follows the general purpose register of a conversion, if there is one. *)
SSEBinaryOp(prefix, opcode, forceW, dst, src0) ==
  LET src == SymToMem(src0)
      w == forceW \/ (src.kind = "reg" /\ 64 \in {dst.size, src.size})
      size == IF w THEN 64 ELSE 0
      enc == CASE dst.kind = "reg" /\ src.kind = "reg" ->
                    Fields(size, FALSE, <<\h0F, opcode>>, dst.id, RegRM(src.id), <<>>)
               [] dst.kind = "reg" /\ src.kind = "mem" ->
                    MemFields(size, FALSE, <<\h0F, opcode>>, dst.id, src, <<>>)
               [] OTHER -> Rejected
  IN  IF Accepted(enc) THEN [enc EXCEPT !.prefix = SSEPrefix[prefix]] ELSE Rejected

(* To memory it is the next opcode, with the operands in the other order. *)
SSEMov(prefix, opcode, dst, src) ==
  CASE dst.kind = "reg" -> SSEBinaryOp(prefix, opcode, FALSE, dst, src)
    [] dst.kind \in {"mem", "sym"} -> SSEBinaryOp(prefix, opcode + 1, FALSE, src, dst)
    [] OTHER -> Rejected

Movq(dst, src) ==
  CASE dst.kind = "reg" /\ dst.size = 128 -> SSEBinaryOp("pd", \h6E, FALSE, src, dst)
    [] dst.kind = "reg" /\ dst.size # 128 -> SSEBinaryOp("pd", \h7E, TRUE, src, dst)
    [] OTHER -> Rejected

-----------------------------------------------------------------------------
(* The bytes. *)

InstrSize(enc) ==
  Len(enc.prefix) + (IF enc.rex = <<>> THEN 0 ELSE 1) + Len(enc.opcode)
  + (IF enc.modrm = <<>> THEN 0 ELSE 1) + (IF enc.sib = <<>> THEN 0 ELSE 1) + Len(enc.disp) + Len(enc.imm)

DispOffset(enc) ==
  Len(enc.prefix) + (IF enc.rex = <<>> THEN 0 ELSE 1) + Len(enc.opcode)
  + (IF enc.modrm = <<>> THEN 0 ELSE 1) + (IF enc.sib = <<>> THEN 0 ELSE 1)

PackRex(r) == IF r = <<>> THEN <<>> ELSE <<\h40 + 8 * r[1] + 4 * r[2] + 2 * r[3] + r[4]>>
PackByte(f) == IF f = <<>> THEN <<>> ELSE <<64 * f[1] + 8 * f[2] + f[3]>>

(* Prefixes, REX, opcode, ModRM, SIB, displacement, immediate. *)
EncodeInstr(enc) ==
  enc.prefix \o PackRex(enc.rex) \o enc.opcode \o PackByte(enc.modrm) \o PackByte(enc.sib)
    \o enc.disp \o enc.imm
=============================================================================

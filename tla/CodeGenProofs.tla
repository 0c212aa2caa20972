--------------------------- MODULE CodeGenProofs ---------------------------
(* For every program: the sections of the assembler are sound (TypeCorrect),
   every jump to a block that is placed leads there (Landing), and symbols do not
   overlap, hold what is relocated in their names and are aligned (Laying).

   The first part is about the encoder: whatever the machine IR instruction, the
   encoding that kInstrDesc chooses is well formed, a relocated displacement has
   four bytes, and that of a jump to a block is where the decoder reads it.

   The second part states the invariant.  A jump's field holds the distance to
   its block once that is placed (FieldsOK); before that the block's label has a
   reference for each of the jumps to it and no other (LabelStands), so that
   binding the label patches exactly their fields.  That rests on what the rest
   of the invariant says: a field is written once, where the section ended
   (ContextOK), blocks are placed once and the jumps between them are those of
   their own function (ScopeOK), whose labels are freed at its end.

   The third part takes every operation of the assembler in turn: it keeps what
   was emitted (Extends, Kept) and says what it does to labels; the next one
   takes every step of the translation.

   The last part is about the layout.  Symbols lie in their section apart from
   each other, and the function being emitted, which has no size yet, lies behind
   them (LaidOut).  What gets a place had none and begins where its section ended,
   which rests on where the walk is: what lies ahead has no bytes (AheadOK), the
   variables behind are aligned (BehindOK).  Every operation moves the symbols it
   is about and no other (Moved).                                             *)
EXTENDS CodeGen, SequenceTheorems, TLAPS

(* The parts of an encoding have lengths. *)
Encoded(e) ==
  /\ Len(e.prefix) \in Nat /\ Len(e.opcode) \in Nat /\ Len(e.disp) \in Nat /\ Len(e.imm) \in Nat

(* The displacement of an instruction that refers to a symbol is relocated. *)
Reloc(e) == Accepted(e) => Len(e.disp) = 4

Sizes == {8, 16, 32, 64, 128}
ImmSizes == {8, 16, 32, 64}
IsVal(v) == v \in Seq(Int) /\ Len(v) = 8
IsMem(m) == m.disp \in Seq(Int) /\ Len(m.disp) = 4

(* An operand as the functions of the assembler take it. *)
Operand(o) ==
  /\ o.kind \in {"reg", "imm", "mem", "sym", "lbl"}
  /\ o.kind # "lbl" => o.size \in Sizes
  /\ o.kind = "imm" => o.size \in ImmSizes /\ IsVal(o.val)
  /\ o.kind = "mem" => IsMem(o)

(* The encoding e of an instruction with the address m. *)
AtMem(e, m) == Encoded(e) /\ (m.base = RIP /\ m.index = None => Reloc(e))

(* A refused instruction has no bytes. *)
LEMMA RejectedEnc == Encoded(Rejected) /\ Reloc(Rejected)
BY DEF Encoded, Reloc, Accepted, Rejected

(* Its address does not matter. *)
LEMMA RejectedMem == \A m : AtMem(Rejected, m)
BY RejectedEnc DEF AtMem

(* n zero bytes. *)
LEMMA ZerosLen == \A n \in Nat : Zeros(n) \in Seq(Int) /\ Len(Zeros(n)) = n
BY DEF Zeros

(* An immediate has as many bytes as its size says. *)
LEMMA ImmLen ==
  ASSUME NEW v, IsVal(v), NEW size \in ImmSizes
  PROVE  Len(Imm(v, size)) \in Nat
BY DEF Imm, IsVal, ImmSizes

(* The displacement of an address, which has four bytes when the address is relative to RIP. *)
LEMMA AddressLen ==
  ASSUME NEW m, IsMem(m)
  PROVE  /\ Len(AddressRM(m).disp) \in Nat
         /\ m.base = RIP /\ m.index = None => Len(AddressRM(m).disp) = 4
BY DEF AddressRM, ShortDisp, RIP, None, IsMem

(* An opcode of one byte. *)
LEMMA OneLen == \A x : Len(<<x>>) \in Nat /\ Len(<<x>>) = 1
OBVIOUS

(* An opcode of two bytes. *)
LEMMA TwoLen == \A x, y : Len(<<x, y>>) \in Nat
OBVIOUS

(* A part that is left out. *)
LEMMA EmptyLen == Len(<<>>) \in Nat
OBVIOUS

(* A register has no displacement. *)
LEMMA RegLen == \A id : RegRM(id).disp = <<>> /\ Len(RegRM(id).disp) \in Nat
BY DEF RegRM

(* The fields of an instruction with a ModRM byte: the displacement is the operand's. *)
LEMMA FieldsEnc ==
  ASSUME NEW size, NEW low8, NEW opcode, Len(opcode) \in Nat, NEW reg, NEW rm, Len(rm.disp) \in Nat,
         NEW imm, Len(imm) \in Nat
  PROVE  /\ Encoded(Fields(size, low8, opcode, reg, rm, imm))
         /\ Fields(size, low8, opcode, reg, rm, imm).disp = rm.disp
BY DEF Fields, Encoded

(* ModRM of a register. *)
LEMMA RegFieldsEnc ==
  ASSUME NEW size, NEW low8, NEW opcode, Len(opcode) \in Nat, NEW reg, NEW id,
         NEW imm, Len(imm) \in Nat
  PROVE  Encoded(Fields(size, low8, opcode, reg, RegRM(id), imm))
BY RegLen, FieldsEnc

(* ModRM of an address. *)
LEMMA MemFieldsEnc ==
  ASSUME NEW size, NEW low8, NEW opcode, Len(opcode) \in Nat, NEW reg, NEW m, IsMem(m),
         NEW imm, Len(imm) \in Nat
  PROVE  AtMem(MemFields(size, low8, opcode, reg, m, imm), m)
<1>1. CASE AddressOk(m)
  <2>1. PICK rm : rm = AddressRM(m)
    OBVIOUS
  <2>2. Len(rm.disp) \in Nat /\ (m.base = RIP /\ m.index = None => Len(rm.disp) = 4)
    BY <2>1, AddressLen
  <2>3. PICK e : e = Fields(size, low8, opcode, reg, rm, imm)
    OBVIOUS
  <2>4. Encoded(e) /\ e.disp = rm.disp
    BY <2>2, <2>3, FieldsEnc
  <2>5. MemFields(size, low8, opcode, reg, m, imm) = e
    BY <1>1, <2>1, <2>3 DEF MemFields
  <2> QED
    BY <2>2, <2>4, <2>5 DEF AtMem, Reloc
<1>2. CASE ~AddressOk(m)
  BY <1>2, RejectedMem DEF MemFields
<1> QED
  BY <1>1, <1>2

(* jx64_binaryOp_reg_imm. *)
LEMMA RegImmEnc ==
  ASSUME NEW opcode, Len(opcode) \in Nat, NEW ext, NEW reg, NEW v, IsVal(v), NEW immSize \in ImmSizes
  PROVE  Encoded(BinaryOpRegImm(opcode, ext, reg, v, immSize))
<1>1. Len(Imm(v, immSize)) \in Nat
  BY ImmLen
<1>2. Encoded(Fields(reg.size, IsLow8(reg), opcode, ext, RegRM(reg.id), Imm(v, immSize)))
  BY <1>1, RegFieldsEnc
<1> QED
  BY <1>2, RejectedEnc DEF BinaryOpRegImm

(* jx64_binaryOp_reg_reg. *)
LEMMA RegRegEnc ==
  ASSUME NEW opcode, Len(opcode) \in Nat, NEW dst, NEW src
  PROVE  Encoded(BinaryOpRegReg(opcode, dst, src))
BY EmptyLen, RegFieldsEnc, RejectedEnc DEF BinaryOpRegReg

(* jx64_binaryOp_reg_mem. *)
LEMMA RegMemEnc ==
  ASSUME NEW opcode, Len(opcode) \in Nat, NEW reg, NEW m, IsMem(m)
  PROVE  AtMem(BinaryOpRegMem(opcode, reg, m), m)
BY EmptyLen, MemFieldsEnc DEF BinaryOpRegMem

(* jx64_binaryOp_mem_imm. *)
LEMMA MemImmEnc ==
  ASSUME NEW opcode, Len(opcode) \in Nat, NEW ext, NEW m, IsMem(m), NEW v, IsVal(v), NEW immSize \in ImmSizes
  PROVE  AtMem(BinaryOpMemImm(opcode, ext, m, v, immSize), m)
<1>1. PICK n : n = IF immSize = 64 THEN 32 ELSE immSize
  OBVIOUS
<1>2. n \in ImmSizes
  BY <1>1 DEF ImmSizes
<1>3. Len(Imm(v, n)) \in Nat
  BY <1>2, ImmLen
<1>4. AtMem(MemFields(m.size, FALSE, opcode, ext, m, Imm(v, n)), m)
  BY <1>3, MemFieldsEnc
<1> QED
  BY <1>1, <1>4, RejectedMem DEF BinaryOpMemImm

(* What is said of the encoding e of an instruction with the operands a and b. *)
Sound(e, a, b) == Encoded(e) /\ ("sym" \in {a.kind, b.kind} => Reloc(e))

(* What is refused needs no relocation. *)
LEMMA RejectedSound == \A a, b : Sound(Rejected, a, b)
BY RejectedEnc DEF Sound

(* How SymToMem turns the operand o into p. *)
Shown(o, p) ==
  /\ p = SymToMem(o)
  /\ p.kind \in {"reg", "imm", "mem", "lbl"}
  /\ o.kind # "sym" => p = o
  /\ o.kind = "sym" => p.kind = "mem" /\ p.base = RIP /\ p.index = None
  /\ p.kind = "mem" => IsMem(p)
  /\ p.kind = "imm" => IsVal(p.val) /\ p.size \in ImmSizes
  /\ p.size = o.size

(* Every operand is one of the five kinds, as the switches over operand types see it. *)
LEMMA Shows ==
  ASSUME NEW o, Operand(o)
  PROVE  \E p : Shown(o, p)
<1>1. PICK z : z = Zeros(4)
  OBVIOUS
<1>2. PICK p : p = IF o.kind # "sym" THEN o
                   ELSE [kind |-> "mem", size |-> o.size, base |-> RIP, index |-> None, scale |-> 0, disp |-> z]
  OBVIOUS
<1>3. p = SymToMem(o)
  BY <1>1, <1>2 DEF SymToMem
<1>4. z \in Seq(Int) /\ Len(z) = 4
  BY <1>1, ZerosLen
<1>5. CASE o.kind = "sym"
  <2>1. p.kind = "mem" /\ p.size = o.size /\ p.base = RIP /\ p.index = None /\ p.disp = z
    BY <1>2, <1>5
  <2>2. IsMem(p)
    BY <2>1, <1>4 DEF IsMem
  <2> QED
    BY <1>3, <1>5, <2>1, <2>2 DEF Shown
<1>6. CASE o.kind # "sym"
  BY <1>2, <1>3, <1>6 DEF Shown, Operand
<1> QED
  BY <1>5, <1>6

(* The encoding e has the operand o, shown as p, in its address. *)
LEMMA AtMemSound ==
  ASSUME NEW e, NEW p, NEW a, NEW b, AtMem(e, p),
         \/ Shown(a, p) /\ b.kind # "sym"
         \/ Shown(b, p) /\ a.kind # "sym"
  PROVE  Sound(e, a, b)
BY DEF AtMem, Shown, Sound

(* An instruction that names no symbol needs no relocation. *)
LEMMA EncodedSound ==
  ASSUME NEW e, NEW a, NEW b, Encoded(e), a.kind # "sym", b.kind # "sym"
  PROVE  Sound(e, a, b)
BY DEF Sound

(* Arithmetic on a register and an immediate. *)
LEMMA MathRegImm ==
  ASSUME NEW opcode, NEW ext, NEW d, NEW v, IsVal(v), NEW size \in ImmSizes
  PROVE  Encoded(MathBinaryOpRegImm(opcode, ext, d, v, size))
BY OneLen, RegImmEnc DEF MathBinaryOpRegImm, ImmOpcode

(* Arithmetic on two registers. *)
LEMMA MathRegReg ==
  ASSUME NEW opcode, NEW d, NEW s
  PROVE  Encoded(MathBinaryOpRegReg(opcode, d, s))
BY OneLen, RegRegEnc DEF MathBinaryOpRegReg

(* Arithmetic on a register and memory. *)
LEMMA MathRegMem ==
  ASSUME NEW opcode, NEW regDst, NEW d, NEW m, IsMem(m)
  PROVE  AtMem(MathBinaryOpRegMem(opcode, regDst, d, m), m)
BY OneLen, RegMemEnc DEF MathBinaryOpRegMem

(* Arithmetic on memory and an immediate. *)
LEMMA MathMemImm ==
  ASSUME NEW opcode, NEW ext, NEW m, IsMem(m), NEW v, IsVal(v), NEW size \in ImmSizes
  PROVE  AtMem(MathBinaryOpMemImm(opcode, ext, m, v, size), m)
BY OneLen, MemImmEnc DEF MathBinaryOpMemImm, ImmOpcode

(* add, or, and, sub, xor and cmp (jx64_math_binary_op), whatever their operands. *)
LEMMA MathBinaryOpSound ==
  ASSUME NEW n, NEW dst, Operand(dst), NEW src, Operand(src)
  PROVE  Sound(MathBinaryOp(n, dst, src), dst, src)
<1>1. PICK d : Shown(dst, d)
  BY Shows
<1>2. PICK s : Shown(src, s)
  BY Shows
<1>3. PICK k : k = IF s.size = 64 THEN 32 ELSE s.size
  OBVIOUS
<1>4. PICK j : j = IF SignExtends(s.val, 1) THEN 8 ELSE k
  OBVIOUS
<1>5. s.kind = "imm" => IsVal(s.val) /\ k \in ImmSizes /\ j \in ImmSizes
  BY <1>2, <1>3, <1>4 DEF Shown, ImmSizes
<1>6. CASE dst.kind = "sym" /\ src.kind = "sym"
  BY <1>1, <1>2, <1>6, RejectedSound DEF MathBinaryOp, Shown
<1>7. CASE ~(dst.kind = "sym" /\ src.kind = "sym") /\ s.kind = "imm" /\ ~(s.size = 64 => ImmFitsIn32Bits(s.val))
  BY <1>1, <1>2, <1>7, RejectedSound DEF MathBinaryOp, Shown
<1>8. CASE d.kind = "reg" /\ s.kind = "imm" /\ (s.size = 64 => ImmFitsIn32Bits(s.val))
  <2>1. MathBinaryOp(n, dst, src) = MathBinaryOpRegImm(\h80, n, d, s.val, j)
    BY <1>1, <1>2, <1>3, <1>4, <1>8 DEF MathBinaryOp, Shown
  <2>2. Encoded(MathBinaryOpRegImm(\h80, n, d, s.val, j)) /\ dst.kind # "sym" /\ src.kind # "sym"
    BY <1>1, <1>2, <1>5, <1>8, MathRegImm DEF Shown
  <2> QED
    BY <2>1, <2>2, EncodedSound
<1>9. CASE d.kind = "mem" /\ s.kind = "imm" /\ (s.size = 64 => ImmFitsIn32Bits(s.val))
  <2>1. MathBinaryOp(n, dst, src) = MathBinaryOpMemImm(\h80, n, d, s.val, k)
    BY <1>1, <1>2, <1>3, <1>9 DEF MathBinaryOp, Shown
  <2>2. AtMem(MathBinaryOpMemImm(\h80, n, d, s.val, k), d) /\ src.kind # "sym"
    BY <1>1, <1>2, <1>5, <1>9, MathMemImm DEF Shown
  <2> QED
    BY <1>1, <2>1, <2>2, AtMemSound
<1>10. CASE d.kind = "reg" /\ s.kind = "reg"
  <2>1. MathBinaryOp(n, dst, src) = MathBinaryOpRegReg(8 * n, d, s)
    BY <1>1, <1>2, <1>10 DEF MathBinaryOp, Shown
  <2>2. Encoded(MathBinaryOpRegReg(8 * n, d, s)) /\ dst.kind # "sym" /\ src.kind # "sym"
    BY <1>1, <1>2, <1>10, MathRegReg DEF Shown
  <2> QED
    BY <2>1, <2>2, EncodedSound
<1>11. CASE d.kind = "reg" /\ s.kind = "mem"
  <2>1. MathBinaryOp(n, dst, src) = MathBinaryOpRegMem(8 * n, TRUE, d, s)
    BY <1>1, <1>2, <1>11 DEF MathBinaryOp, Shown
  <2>2. AtMem(MathBinaryOpRegMem(8 * n, TRUE, d, s), s) /\ dst.kind # "sym"
    BY <1>1, <1>2, <1>11, MathRegMem DEF Shown
  <2> QED
    BY <1>2, <2>1, <2>2, AtMemSound
<1>12. CASE d.kind = "mem" /\ s.kind = "reg"
  <2>1. MathBinaryOp(n, dst, src) = MathBinaryOpRegMem(8 * n, FALSE, s, d)
    BY <1>1, <1>2, <1>12 DEF MathBinaryOp, Shown
  <2>2. AtMem(MathBinaryOpRegMem(8 * n, FALSE, s, d), d) /\ src.kind # "sym"
    BY <1>1, <1>2, <1>12, MathRegMem DEF Shown
  <2> QED
    BY <1>1, <2>1, <2>2, AtMemSound
<1>13. CASE /\ ~(dst.kind = "sym" /\ src.kind = "sym")
            /\ ~(d.kind \in {"reg", "mem"} /\ s.kind = "imm") /\ ~(d.kind = "reg" /\ s.kind \in {"reg", "mem"})
            /\ ~(d.kind = "mem" /\ s.kind = "reg")
  BY <1>1, <1>2, <1>13, RejectedSound DEF MathBinaryOp, Shown
<1> QED
  BY <1>6, <1>7, <1>8, <1>9, <1>10, <1>11, <1>12, <1>13

(* mov of an immediate to a register. *)
LEMMA MovRegImmEnc ==
  ASSUME NEW d, NEW v, IsVal(v), NEW size \in ImmSizes
  PROVE  Encoded(MovRegImm(d, v, size))
<1>1. 32 \in ImmSizes
  BY DEF ImmSizes
<1>2. Len(Imm(v, 32)) \in Nat /\ Len(Imm(v, size)) \in Nat
  BY <1>1, ImmLen
<1>3. PICK o : o = <<(IF d.size = 8 THEN \hB0 ELSE \hB8) + Lo(d.id)>>
  OBVIOUS
<1>4. Len(o) \in Nat
  BY <1>3, OneLen
<1>5. Encoded(Fields(64, FALSE, <<\hC7>>, 0, RegRM(d.id), Imm(v, 32)))
  BY <1>2, OneLen, RegFieldsEnc
<1>6. PICK e : e = Fields(size, IsLow8(d), o, 0, RegRM(d.id), Imm(v, size))
  OBVIOUS
<1>7. Encoded(e)
  BY <1>2, <1>4, <1>6, RegFieldsEnc
<1>8. PICK f : f = [e EXCEPT !.modrm = <<>>]
  OBVIOUS
<1>9. Encoded(f)
  BY <1>6, <1>7, <1>8 DEF Encoded, Fields
<1>10. CASE d.size = 64 /\ SignExtends(v, 4)
  BY <1>5, <1>10 DEF MovRegImm
<1>11. CASE d.size = size /\ ~(d.size = 64 /\ SignExtends(v, 4))
  BY <1>3, <1>6, <1>8, <1>9, <1>11 DEF MovRegImm
<1>12. CASE d.size # size /\ ~(d.size = 64 /\ SignExtends(v, 4))
  BY <1>12, RejectedEnc DEF MovRegImm
<1> QED
  BY <1>10, <1>11, <1>12

(* mov of an immediate to memory. *)
LEMMA MovMemImmEnc ==
  ASSUME NEW m, IsMem(m), NEW v, IsVal(v), NEW size \in ImmSizes
  PROVE  AtMem(MovMemImm(m, v, size), m)
<1>1. PICK n : n = IF size = 64 THEN 32 ELSE size
  OBVIOUS
<1>2. n \in ImmSizes
  BY <1>1 DEF ImmSizes
<1>3. Len(Imm(v, n)) \in Nat
  BY <1>2, ImmLen
<1>4. AtMem(MemFields(size, FALSE, <<\hC6 + Wide(size)>>, 0, m, Imm(v, n)), m)
  BY <1>3, OneLen, MemFieldsEnc
<1> QED
  BY <1>1, <1>4, RejectedMem DEF MovMemImm

(* mov (jx64_mov). *)
LEMMA MovSound ==
  ASSUME NEW dst, Operand(dst), NEW src, Operand(src)
  PROVE  Sound(Mov(dst, src), dst, src)
<1>1. PICK d : Shown(dst, d)
  BY Shows
<1>2. PICK s : Shown(src, s)
  BY Shows
<1>3. CASE dst.kind = "sym" /\ src.kind = "sym"
  BY <1>1, <1>2, <1>3, RejectedSound DEF Mov, Shown
<1>4. CASE d.kind = "reg" /\ s.kind = "imm"
  <2>1. Mov(dst, src) = MovRegImm(d, s.val, s.size)
    BY <1>1, <1>2, <1>4 DEF Mov, Shown
  <2>2. Encoded(MovRegImm(d, s.val, s.size)) /\ dst.kind # "sym" /\ src.kind # "sym"
    BY <1>1, <1>2, <1>4, MovRegImmEnc DEF Shown
  <2> QED
    BY <2>1, <2>2, EncodedSound
<1>5. CASE d.kind = "mem" /\ s.kind = "imm"
  <2>1. Mov(dst, src) = MovMemImm(d, s.val, s.size)
    BY <1>1, <1>2, <1>5 DEF Mov, Shown
  <2>2. AtMem(MovMemImm(d, s.val, s.size), d) /\ src.kind # "sym"
    BY <1>1, <1>2, <1>5, MovMemImmEnc DEF Shown
  <2> QED
    BY <1>1, <2>1, <2>2, AtMemSound
<1>6. CASE d.kind = "reg" /\ s.kind = "reg"
  <2>1. Mov(dst, src) = MathBinaryOpRegReg(\h88, d, s)
    BY <1>1, <1>2, <1>6 DEF Mov, Shown
  <2>2. Encoded(MathBinaryOpRegReg(\h88, d, s)) /\ dst.kind # "sym" /\ src.kind # "sym"
    BY <1>1, <1>2, <1>6, MathRegReg DEF Shown
  <2> QED
    BY <2>1, <2>2, EncodedSound
<1>7. CASE d.kind = "reg" /\ s.kind = "mem"
  <2>1. Mov(dst, src) = MathBinaryOpRegMem(\h88, TRUE, d, s)
    BY <1>1, <1>2, <1>7 DEF Mov, Shown
  <2>2. AtMem(MathBinaryOpRegMem(\h88, TRUE, d, s), s) /\ dst.kind # "sym"
    BY <1>1, <1>2, <1>7, MathRegMem DEF Shown
  <2> QED
    BY <1>2, <2>1, <2>2, AtMemSound
<1>8. CASE d.kind = "mem" /\ s.kind = "reg"
  <2>1. Mov(dst, src) = MathBinaryOpRegMem(\h88, FALSE, s, d)
    BY <1>1, <1>2, <1>8 DEF Mov, Shown
  <2>2. AtMem(MathBinaryOpRegMem(\h88, FALSE, s, d), d) /\ src.kind # "sym"
    BY <1>1, <1>2, <1>8, MathRegMem DEF Shown
  <2> QED
    BY <1>1, <2>1, <2>2, AtMemSound
<1>9. CASE /\ ~(dst.kind = "sym" /\ src.kind = "sym")
           /\ ~(d.kind \in {"reg", "mem"} /\ s.kind = "imm") /\ ~(d.kind = "reg" /\ s.kind \in {"reg", "mem"})
           /\ ~(d.kind = "mem" /\ s.kind = "reg")
  BY <1>1, <1>2, <1>9, RejectedSound DEF Mov, Shown
<1> QED
  BY <1>3, <1>4, <1>5, <1>6, <1>7, <1>8, <1>9

(* movsx and movzx of a register. *)
LEMMA ExtendEnc ==
  ASSUME NEW opcode, Len(opcode) \in Nat, NEW dst, NEW src
  PROVE  Encoded(ExtendRegReg(opcode, dst, src))
BY EmptyLen, RegFieldsEnc DEF ExtendRegReg

(* movsx (jx64_movsx). *)
LEMMA MovsxSound ==
  ASSUME NEW dst, Operand(dst), NEW src, Operand(src)
  PROVE  Sound(Movsx(dst, src), dst, src)
<1>1. PICK s : Shown(src, s)
  BY Shows
<1>2. PICK o : o = MovsxOpcode(s.size)
  OBVIOUS
<1>3. Len(o) \in Nat
  BY <1>2, OneLen, TwoLen DEF MovsxOpcode
<1>4. CASE dst.kind # "reg" \/ dst.size <= s.size
  BY <1>1, <1>4, RejectedSound DEF Movsx, Shown
<1>5. CASE ~(dst.kind # "reg" \/ dst.size <= s.size) /\ s.kind = "reg"
  <2>1. Movsx(dst, src) = ExtendRegReg(o, dst, s)
    BY <1>1, <1>2, <1>5 DEF Movsx, Shown, MovsxRegReg
  <2>2. src.kind # "sym" /\ dst.kind # "sym"
    BY <1>1, <1>5 DEF Shown
  <2> QED
    BY <1>3, <2>1, <2>2, ExtendEnc, EncodedSound
<1>6. CASE ~(dst.kind # "reg" \/ dst.size <= s.size) /\ s.kind = "mem"
  <2>1. Movsx(dst, src) = BinaryOpRegMem(o, dst, s)
    BY <1>1, <1>2, <1>6 DEF Movsx, Shown
  <2>2. AtMem(BinaryOpRegMem(o, dst, s), s) /\ dst.kind # "sym"
    BY <1>1, <1>3, <1>6, RegMemEnc DEF Shown
  <2> QED
    BY <1>1, <2>1, <2>2, AtMemSound
<1>7. CASE ~(dst.kind # "reg" \/ dst.size <= s.size) /\ s.kind \notin {"reg", "mem"}
  BY <1>1, <1>7, RejectedSound DEF Movsx, Shown
<1> QED
  BY <1>4, <1>5, <1>6, <1>7

(* movzx (jx64_movzx). *)
LEMMA MovzxSound ==
  ASSUME NEW dst, Operand(dst), NEW src, Operand(src)
  PROVE  Sound(Movzx(dst, src), dst, src)
<1>1. PICK s : Shown(src, s)
  BY Shows
<1>2. PICK o : o = <<\h0F, IF s.size = 8 THEN \hB6 ELSE \hB7>>
  OBVIOUS
<1>3. Len(o) \in Nat
  BY <1>2, TwoLen
<1>4. PICK low : low = [dst EXCEPT !.size = 32]
  OBVIOUS
<1>5. CASE dst.kind # "reg" \/ dst.size < s.size
  BY <1>1, <1>5, RejectedSound DEF Movzx, Shown
<1>6. CASE ~(dst.kind # "reg" \/ dst.size < s.size) /\ dst.size = 64 /\ s.size = 32
  <2>1. Movzx(dst, src) = Mov(low, src)
    BY <1>1, <1>4, <1>6 DEF Movzx, Shown
  <2>2. Operand(low) /\ low.kind = dst.kind
    BY <1>4, <1>6 DEF Operand, Sizes
  <2>3. Sound(Mov(low, src), low, src)
    BY <2>2, MovSound
  <2> QED
    BY <2>1, <2>2, <2>3 DEF Sound
<1>7. CASE ~(dst.kind # "reg" \/ dst.size < s.size) /\ ~(dst.size = 64 /\ s.size = 32) /\ s.kind = "reg"
  <2>1. Movzx(dst, src) = MovzxRegReg(dst, s)
    BY <1>1, <1>7 DEF Movzx, Shown
  <2>2. Encoded(MovzxRegReg(dst, s))
    BY <1>2, <1>3, ExtendEnc, RejectedEnc DEF MovzxRegReg
  <2>3. src.kind # "sym" /\ dst.kind # "sym"
    BY <1>1, <1>7 DEF Shown
  <2> QED
    BY <2>1, <2>2, <2>3, EncodedSound
<1>8. CASE /\ ~(dst.kind # "reg" \/ dst.size < s.size) /\ ~(dst.size = 64 /\ s.size = 32) /\ s.kind = "mem"
           /\ s.size \in {8, 16}
  <2>1. Movzx(dst, src) = BinaryOpRegMem(o, dst, s)
    BY <1>1, <1>2, <1>8 DEF Movzx, Shown
  <2>2. AtMem(BinaryOpRegMem(o, dst, s), s) /\ dst.kind # "sym"
    BY <1>1, <1>3, <1>8, RegMemEnc DEF Shown
  <2> QED
    BY <1>1, <2>1, <2>2, AtMemSound
<1>9. CASE /\ ~(dst.kind # "reg" \/ dst.size < s.size) /\ ~(dst.size = 64 /\ s.size = 32) /\ s.kind # "reg"
           /\ ~(s.kind = "mem" /\ s.size \in {8, 16})
  BY <1>1, <1>9, RejectedSound DEF Movzx, Shown
<1> QED
  BY <1>5, <1>6, <1>7, <1>8, <1>9

(* imul with three operands never takes a symbol. *)
LEMMA Imul3Sound ==
  ASSUME NEW dst, Operand(dst), dst.kind = "reg" => dst.size \in ImmSizes, NEW src, NEW imm, Operand(imm)
  PROVE  /\ Encoded(Imul3(dst, src, imm))
         /\ (dst.kind = "sym" \/ src.kind = "sym" \/ imm.kind = "sym" => Imul3(dst, src, imm) = Rejected)
<1>1. CASE dst.kind # "reg" \/ dst.size = 8 \/ imm.kind # "imm" \/ src.kind # "reg" \/ dst.size # src.size
  BY <1>1, RejectedEnc DEF Imul3
<1>2. CASE ~(dst.kind # "reg" \/ dst.size = 8 \/ imm.kind # "imm" \/ src.kind # "reg" \/ dst.size # src.size)
  <2>1. PICK short : short = (imm.size = 8 \/ SignExtends(imm.val, 1))
    OBVIOUS
  <2>2. PICK n : n = IF short THEN 8 ELSE dst.size
    OBVIOUS
  <2>3. n \in ImmSizes /\ IsVal(imm.val)
    BY <1>2, <2>2 DEF ImmSizes, Operand
  <2>4. Len(Imm(imm.val, n)) \in Nat
    BY <2>3, ImmLen
  <2>5. Encoded(Fields(dst.size, FALSE, <<IF short THEN \h6B ELSE \h69>>, dst.id, RegRM(src.id), Imm(imm.val, n)))
    BY <2>4, OneLen, RegFieldsEnc
  <2> QED
    BY <1>2, <2>1, <2>2, <2>5 DEF Imul3
<1> QED
  BY <1>1, <1>2

(* imul with two operands. *)
LEMMA ImulSound ==
  ASSUME NEW dst, Operand(dst), dst.kind = "reg" => dst.size \in ImmSizes, NEW src, Operand(src)
  PROVE  Sound(Imul(dst, src), dst, src)
<1>1. CASE dst.kind = "reg" /\ src.kind = "mem"
  <2>1. AtMem(BinaryOpRegMem(<<\h0F, \hAF>>, dst, src), src)
    BY <1>1, TwoLen, RegMemEnc DEF Operand
  <2> QED
    BY <1>1, <2>1, EncodedSound DEF Imul, AtMem
<1>2. CASE dst.kind = "reg" /\ src.kind = "reg"
  BY <1>2, TwoLen, RegRegEnc, EncodedSound DEF Imul
<1>3. CASE dst.kind = "reg" /\ src.kind = "imm"
  <2>1. Encoded(Imul3(dst, dst, src))
    BY <1>3, Imul3Sound
  <2> QED
    BY <1>3, <2>1, EncodedSound DEF Imul
<1>4. CASE ~(dst.kind = "reg" /\ src.kind \in {"mem", "reg", "imm"})
  BY <1>4, RejectedSound DEF Imul
<1> QED
  BY <1>1, <1>2, <1>3, <1>4

(* lea (jx64_lea). *)
LEMMA LeaSound ==
  ASSUME NEW dst, Operand(dst), NEW src, Operand(src)
  PROVE  Sound(Lea(dst, src), dst, src)
<1>1. PICK s : Shown(src, s)
  BY Shows
<1>2. CASE dst.kind = "reg" /\ src.kind \in {"mem", "sym"}
  <2>1. AtMem(BinaryOpRegMem(<<\h8D>>, dst, s), s)
    BY <1>1, <1>2, OneLen, RegMemEnc DEF Shown
  <2> QED
    BY <1>1, <1>2, <2>1, AtMemSound DEF Lea, Shown
<1>3. CASE ~(dst.kind = "reg" /\ src.kind \in {"mem", "sym"})
  BY <1>3, RejectedSound DEF Lea
<1> QED
  BY <1>2, <1>3

(* test (jx64_test). *)
LEMMA TestSound ==
  ASSUME NEW dst, Operand(dst), NEW src, Operand(src)
  PROVE  Sound(Test(dst, src), dst, src)
<1>1. PICK o : o = <<(IF src.kind = "imm" THEN \hF6 ELSE \h84) + Wide(dst.size)>>
  OBVIOUS
<1>2. Len(o) \in Nat
  BY <1>1, OneLen
<1>3. PICK k : k = IF src.size = 64 THEN 32 ELSE src.size
  OBVIOUS
<1>4. PICK same : same = (dst.size = src.size \/ (dst.size = 64 /\ src.size = 32))
  OBVIOUS
<1>5. CASE ~same \/ ~(dst.kind \in {"reg", "mem"} /\ src.kind \in {"reg", "mem", "imm"})
           \/ (dst.kind = "mem" /\ src.kind = "mem")
  BY <1>4, <1>5, RejectedSound DEF Test
<1>6. CASE same /\ dst.kind = "reg" /\ src.kind = "imm"
  <2>1. Encoded(BinaryOpRegImm(o, 0, dst, src.val, k))
    BY <1>2, <1>3, <1>6, RegImmEnc DEF Operand, ImmSizes
  <2>2. CASE src.size = 64 => ImmFitsIn32Bits(src.val)
    BY <1>1, <1>3, <1>4, <1>6, <2>1, <2>2, EncodedSound DEF Test
  <2>3. CASE ~(src.size = 64 => ImmFitsIn32Bits(src.val))
    BY <1>4, <1>6, <2>3, RejectedSound DEF Test
  <2> QED
    BY <2>2, <2>3
<1>7. CASE same /\ dst.kind = "reg" /\ src.kind = "reg"
  <2>1. Encoded(BinaryOpRegReg(o, dst, src))
    BY <1>2, RegRegEnc
  <2> QED
    BY <1>1, <1>4, <1>7, <2>1, EncodedSound DEF Test
<1>8. CASE same /\ dst.kind = "mem" /\ src.kind = "imm"
  <2>1. AtMem(BinaryOpMemImm(o, 0, dst, src.val, src.size), dst)
    BY <1>2, <1>8, MemImmEnc DEF Operand
  <2> QED
    BY <1>1, <1>4, <1>8, <2>1, EncodedSound DEF Test, AtMem
<1>9. CASE same /\ dst.kind = "mem" /\ src.kind = "reg"
  <2>1. AtMem(BinaryOpRegMem(o, src, dst), dst)
    BY <1>2, <1>9, RegMemEnc DEF Operand
  <2> QED
    BY <1>1, <1>4, <1>9, <2>1, EncodedSound DEF Test, AtMem
<1>10. CASE same /\ dst.kind = "reg" /\ src.kind = "mem"
  BY <1>4, <1>10, RejectedSound DEF Test
<1> QED
  BY <1>5, <1>6, <1>7, <1>8, <1>9, <1>10

(* set<cc> (jx64_setcc). *)
LEMMA SetccSound ==
  ASSUME NEW cc, NEW dst
  PROVE  Sound(Setcc(cc, dst), dst, dst)
<1>1. Encoded(Fields(8, IsLow8(dst), <<\h0F, \h90 + cc>>, 0, RegRM(dst.id), <<>>))
  BY EmptyLen, TwoLen, RegFieldsEnc
<1> QED
  BY <1>1, RejectedSound, EncodedSound DEF Setcc

(* idiv and div never take a symbol. *)
LEMMA MathUnaryOpSound ==
  ASSUME NEW opcode, NEW ext, NEW op, Operand(op)
  PROVE  Encoded(MathUnaryOp(opcode, ext, op)) /\ (op.kind = "sym" => MathUnaryOp(opcode, ext, op) = Rejected)
<1>1. CASE op.kind = "reg"
  BY <1>1, OneLen, EmptyLen, RegFieldsEnc DEF MathUnaryOp, MathUnaryOpReg
<1>2. CASE op.kind = "mem"
  <2>1. AtMem(MathUnaryOpMem(opcode, ext, op), op)
    BY <1>2, OneLen, EmptyLen, MemFieldsEnc DEF MathUnaryOpMem, Operand
  <2> QED
    BY <1>2, <2>1 DEF MathUnaryOp, AtMem
<1>3. CASE op.kind \notin {"reg", "mem"}
  BY <1>3, RejectedEnc DEF MathUnaryOp
<1> QED
  BY <1>1, <1>2, <1>3

(* shl, shr and sar. *)
LEMMA ShiftRotateOpSound ==
  ASSUME NEW ext, NEW op, Operand(op), NEW shift, Operand(shift)
  PROVE  Sound(ShiftRotateOp(ext, op, shift), op, shift)
<1>1. PICK one : one = (shift.kind = "imm" /\ shift.val = <<1>> \o Zeros(7))
  OBVIOUS
<1>2. PICK o : o = <<\hC0 + Wide(op.size)>>
  OBVIOUS
<1>3. Len(o) \in Nat /\ 8 \in ImmSizes
  BY <1>2, OneLen DEF ImmSizes
<1>4. PICK e : e = ShiftRotateOp(ext, op, shift)
  OBVIOUS
<1>5. CASE one
  <2>1. e = MathUnaryOp(\hD0, ext, op)
    BY <1>1, <1>4, <1>5 DEF ShiftRotateOp, Named
  <2>2. shift.kind # "sym"
    BY <1>1, <1>5
  <2> QED
    BY <1>4, <2>1, <2>2, MathUnaryOpSound, RejectedSound DEF Sound
<1>6. CASE ~one /\ shift.kind = "imm" /\ op.kind = "reg"
  <2>1. e = BinaryOpRegImm(o, ext, op, shift.val, 8)
    BY <1>1, <1>2, <1>4, <1>6 DEF ShiftRotateOp, Named
  <2>2. Encoded(e)
    BY <1>3, <1>6, <2>1, RegImmEnc DEF Operand
  <2> QED
    BY <1>4, <1>6, <2>2, EncodedSound
<1>7. CASE ~one /\ shift.kind = "imm" /\ op.kind = "mem"
  <2>1. e = BinaryOpMemImm(o, ext, op, shift.val, 8)
    BY <1>1, <1>2, <1>4, <1>7 DEF ShiftRotateOp, Named
  <2>2. AtMem(e, op)
    BY <1>3, <1>7, <2>1, MemImmEnc DEF Operand
  <2> QED
    BY <1>4, <1>7, <2>2, EncodedSound DEF AtMem
<1>8. CASE Named(shift, CL) /\ shift.size = 8
  <2>1. e = MathUnaryOp(\hD2, ext, op)
    BY <1>1, <1>4, <1>8 DEF ShiftRotateOp, Named
  <2>2. shift.kind # "sym"
    BY <1>8 DEF Named
  <2> QED
    BY <1>4, <2>1, <2>2, MathUnaryOpSound, RejectedSound DEF Sound
<1>9. CASE ~one /\ ~(shift.kind = "imm" /\ op.kind \in {"reg", "mem"}) /\ ~(Named(shift, CL) /\ shift.size = 8)
  BY <1>1, <1>4, <1>9, RejectedSound DEF ShiftRotateOp
<1> QED
  BY <1>5, <1>6, <1>7, <1>8, <1>9

(* push and pop of a register. *)
LEMMA StackOpRegEnc == \A opcode, reg : Encoded(StackOpReg(opcode, reg))
<1> TAKE opcode, reg
<1>1. PICK e : e = Fields(IF reg.size = 16 THEN 16 ELSE 0, FALSE, <<opcode + Lo(reg.id)>>, 0, RegRM(reg.id), <<>>)
  OBVIOUS
<1>2. Encoded(e)
  BY <1>1, OneLen, EmptyLen, RegFieldsEnc
<1>3. PICK f : f = [e EXCEPT !.modrm = <<>>]
  OBVIOUS
<1>4. Encoded(f)
  BY <1>1, <1>2, <1>3 DEF Encoded, Fields
<1> QED
  BY <1>1, <1>3, <1>4, RejectedEnc DEF StackOpReg

(* push and pop of memory. *)
LEMMA StackOpMemEnc ==
  ASSUME NEW opcode, NEW ext, NEW m, IsMem(m)
  PROVE  Encoded(StackOpMem(opcode, ext, m))
<1>1. AtMem(MemFields(IF m.size = 16 THEN 16 ELSE 0, FALSE, <<opcode>>, ext, m, <<>>), m)
  BY OneLen, EmptyLen, MemFieldsEnc
<1> QED
  BY <1>1, RejectedEnc DEF StackOpMem, AtMem

(* push (jx64_push). *)
LEMMA PushSound ==
  ASSUME NEW op, Operand(op)
  PROVE  Sound(Push(op), op, op)
<1>1. CASE op.kind = "imm" /\ op.size # 64
  <2>1. PICK n : n = IF op.size = 8 THEN 8 ELSE 32
    OBVIOUS
  <2>2. n \in ImmSizes
    BY <2>1 DEF ImmSizes
  <2>3. PICK v : v = Imm(op.val, n)
    OBVIOUS
  <2>4. Len(v) \in Nat
    BY <1>1, <2>2, <2>3, ImmLen DEF Operand
  <2>5. PICK o : o = <<IF op.size = 8 THEN \h6A ELSE \h68>>
    OBVIOUS
  <2>6. Len(o) \in Nat
    BY <2>5, OneLen
  <2>7. Push(op) = [Rejected EXCEPT !.opcode = o, !.imm = v]
    BY <1>1, <2>1, <2>3, <2>5 DEF Push
  <2>8. Encoded(Push(op))
    BY <2>4, <2>6, <2>7 DEF Encoded, Rejected
  <2> QED
    BY <1>1, <2>8, EncodedSound
<1>2. CASE op.kind = "reg"
  BY <1>2, StackOpRegEnc, EncodedSound DEF Push
<1>3. CASE op.kind = "mem"
  BY <1>3, StackOpMemEnc, EncodedSound DEF Push, Operand
<1>4. CASE ~(op.kind = "imm" /\ op.size # 64) /\ op.kind \notin {"reg", "mem"}
  BY <1>4, RejectedSound DEF Push
<1> QED
  BY <1>1, <1>2, <1>3, <1>4

(* pop (jx64_pop). *)
LEMMA PopSound ==
  ASSUME NEW op, Operand(op)
  PROVE  Sound(Pop(op), op, op)
<1>1. CASE op.kind = "reg"
  BY <1>1, StackOpRegEnc, EncodedSound DEF Pop
<1>2. CASE op.kind = "mem"
  BY <1>2, StackOpMemEnc, EncodedSound DEF Pop, Operand
<1>3. CASE op.kind \notin {"reg", "mem"}
  BY <1>3, RejectedSound DEF Pop
<1> QED
  BY <1>1, <1>2, <1>3

(* jmp and call; a jump to a label is its opcode and four bytes. *)
LEMMA JmpCallOpSound ==
  ASSUME NEW opcode, NEW ext, NEW op, Operand(op)
  PROVE  /\ Sound(JmpCallOp(opcode, ext, op), op, op)
         /\ op.kind = "lbl" => JmpCallOp(opcode, ext, op) = [Rejected EXCEPT !.opcode = <<opcode>>, !.disp = Zeros(4)]
<1>1. CASE op.kind \in {"lbl", "sym"}
  <2>1. PICK z : z = Zeros(4)
    OBVIOUS
  <2>2. Len(z) = 4
    BY <2>1, ZerosLen
  <2>3. JmpCallOp(opcode, ext, op) = [Rejected EXCEPT !.opcode = <<opcode>>, !.disp = z]
    BY <1>1, <2>1 DEF JmpCallOp
  <2>4. Encoded(JmpCallOp(opcode, ext, op)) /\ Reloc(JmpCallOp(opcode, ext, op))
    BY <2>2, <2>3, OneLen DEF Encoded, Reloc, Rejected
  <2> QED
    BY <2>1, <2>3, <2>4 DEF Sound
<1>2. CASE op.kind = "reg"
  <2>1. PICK e : e = Fields(0, FALSE, <<\hFF>>, ext, RegRM(op.id), <<>>)
    OBVIOUS
  <2>2. Encoded(e)
    BY <2>1, OneLen, EmptyLen, RegFieldsEnc
  <2>3. PICK f : f = [e EXCEPT !.rex = IF Hi(op.id) = 1 THEN <<1, 0, 0, 1>> ELSE <<>>]
    OBVIOUS
  <2>4. Encoded(f)
    BY <2>1, <2>2, <2>3 DEF Encoded, Fields
  <2> QED
    BY <1>2, <2>1, <2>3, <2>4, RejectedEnc, EncodedSound DEF JmpCallOp, JmpCallReg
<1>3. CASE op.kind = "mem"
  <2>1. PICK e : e = MemFields(0, FALSE, <<\hFF>>, ext, op, <<>>)
    OBVIOUS
  <2>2. Encoded(e)
    BY <1>3, <2>1, OneLen, EmptyLen, MemFieldsEnc DEF AtMem, Operand
  <2>3. PICK f : f = [e EXCEPT !.rex = <<>>]
    OBVIOUS
  <2>4. Encoded(f)
    BY <2>1, <2>2, <2>3 DEF Encoded, Fields, MemFields, Rejected
  <2> QED
    BY <1>3, <2>1, <2>3, <2>4, EncodedSound DEF JmpCallOp, JmpCallMem
<1>4. CASE op.kind \notin {"lbl", "sym", "reg", "mem"}
  BY <1>4, RejectedSound DEF JmpCallOp
<1> QED
  BY <1>1, <1>2, <1>3, <1>4

(* j<cc>; a jump to a label is its two bytes of opcode and four more. *)
LEMMA JccSound ==
  ASSUME NEW cc, NEW op
  PROVE  /\ Sound(Jcc(cc, op), op, op)
         /\ op.kind = "lbl" => Jcc(cc, op) = [Rejected EXCEPT !.opcode = <<\h0F, \h80 + cc>>, !.disp = Zeros(4)]
<1>1. CASE op.kind = "lbl"
  <2>1. PICK z : z = Zeros(4)
    OBVIOUS
  <2>2. Len(z) = 4
    BY <2>1, ZerosLen
  <2>3. Jcc(cc, op) = [Rejected EXCEPT !.opcode = <<\h0F, \h80 + cc>>, !.disp = z]
    BY <1>1, <2>1 DEF Jcc
  <2>4. Encoded(Jcc(cc, op))
    BY <2>2, <2>3, TwoLen DEF Encoded, Rejected
  <2> QED
    BY <1>1, <2>1, <2>3, <2>4 DEF Sound
<1>2. CASE op.kind # "lbl"
  BY <1>2, RejectedSound DEF Jcc
<1> QED
  BY <1>1, <1>2

(* Instructions without operands. *)
LEMMA VoidEnc == \A rexW, prefix, opcode : Len(prefix) \in Nat => Encoded(Void(rexW, prefix, opcode))
BY OneLen, EmptyLen DEF Void, Encoded, Rejected

(* ret. *)
LEMMA RetnEnc == Encoded(Retn)
BY VoidEnc, EmptyLen DEF Retn

(* cdq and cqo. *)
LEMMA WideningEnc == \A op \in {"cdq", "cqo"} : Encoded(Widening[op])
<1>1. Encoded(Void(FALSE, <<>>, \h99)) /\ Encoded(Void(TRUE, <<>>, \h99))
  BY VoidEnc, EmptyLen
<1>2. Widening["cdq"] = Void(FALSE, <<>>, \h99) /\ Widening["cqo"] = Void(TRUE, <<>>, \h99)
  BY DEF Widening
<1> QED
  BY <1>1, <1>2

(* The prefixes of the SSE instructions. *)
LEMMA SSEPrefixLen == \A p \in DOMAIN SSEPrefix : Len(SSEPrefix[p]) \in Nat
<1>1. DOMAIN SSEPrefix = {"ps", "pd", "sd", "ss"}
  BY DEF SSEPrefix
<1>2. /\ SSEPrefix["ps"] = <<>> /\ SSEPrefix["pd"] = <<\h66>>
      /\ SSEPrefix["sd"] = <<\hF2>> /\ SSEPrefix["ss"] = <<\hF3>>
  BY DEF SSEPrefix
<1> QED
  BY <1>1, <1>2, OneLen, EmptyLen

(* The SSE instructions with a register as their destination (jx64_sse_binary_op). *)
LEMMA SSEBinaryOpSound ==
  ASSUME NEW prefix \in DOMAIN SSEPrefix, NEW opcode, NEW forceW \in BOOLEAN,
         NEW dst, Operand(dst), NEW src, Operand(src)
  PROVE  Sound(SSEBinaryOp(prefix, opcode, forceW, dst, src), dst, src)
<1>1. PICK s : Shown(src, s)
  BY Shows
<1>2. PICK w : w = (forceW \/ (s.kind = "reg" /\ 64 \in {dst.size, s.size}))
  OBVIOUS
<1>3. PICK size : size = IF w THEN 64 ELSE 0
  OBVIOUS
<1>4. PICK o : o = <<\h0F, opcode>>
  OBVIOUS
<1>5. Len(o) \in Nat
  BY <1>4, TwoLen
<1>6. PICK e : e = CASE dst.kind = "reg" /\ s.kind = "reg" -> Fields(size, FALSE, o, dst.id, RegRM(s.id), <<>>)
                     [] dst.kind = "reg" /\ s.kind = "mem" -> MemFields(size, FALSE, o, dst.id, s, <<>>)
                     [] OTHER -> Rejected
  OBVIOUS
<1>7. PICK p : p = SSEPrefix[prefix]
  OBVIOUS
<1>8. PICK f : f = [e EXCEPT !.prefix = p]
  OBVIOUS
<1>9. PICK r : r = SSEBinaryOp(prefix, opcode, forceW, dst, src)
  OBVIOUS
<1>10. r = IF Accepted(e) THEN f ELSE Rejected
  BY <1>1, <1>2, <1>3, <1>4, <1>6, <1>7, <1>8, <1>9 DEF SSEBinaryOp, Shown
<1>11. Len(p) \in Nat
  BY <1>7, SSEPrefixLen
<1>12. CASE dst.kind = "reg" /\ s.kind = "reg"
  <2>1. e = Fields(size, FALSE, o, dst.id, RegRM(s.id), <<>>)
    BY <1>6, <1>12
  <2>2. Encoded(e)
    BY <1>5, <2>1, EmptyLen, RegFieldsEnc
  <2>3. Encoded(f)
    BY <1>8, <1>11, <2>1, <2>2 DEF Encoded, Fields
  <2>4. dst.kind # "sym" /\ src.kind # "sym"
    BY <1>1, <1>12 DEF Shown
  <2> QED
    BY <1>9, <1>10, <2>3, <2>4, EncodedSound, RejectedSound
<1>13. CASE dst.kind = "reg" /\ s.kind = "mem"
  <2>1. e = MemFields(size, FALSE, o, dst.id, s, <<>>)
    BY <1>6, <1>13
  <2>2. AtMem(e, s)
    BY <1>1, <1>5, <1>13, <2>1, EmptyLen, MemFieldsEnc DEF Shown
  <2>3. AtMem(f, s)
    BY <1>8, <1>11, <2>1, <2>2 DEF Encoded, Fields, MemFields, AtMem, Reloc, Accepted, Rejected
  <2>4. dst.kind # "sym"
    BY <1>13
  <2> QED
    BY <1>1, <1>9, <1>10, <2>3, <2>4, AtMemSound, RejectedSound
<1>14. CASE ~(dst.kind = "reg" /\ s.kind \in {"reg", "mem"})
  <2>1. e = Rejected
    BY <1>6, <1>14
  <2>2. r = Rejected
    BY <1>10, <2>1 DEF Accepted, Rejected
  <2> QED
    BY <1>9, <2>2, RejectedSound
<1> QED
  BY <1>12, <1>13, <1>14

(* Which operand is which does not matter. *)
LEMMA SoundSwap == \A e, a, b : Sound(e, a, b) => Sound(e, b, a)
BY DEF Sound

(* The SSE moves, in both directions. *)
LEMMA SSEMovSound ==
  ASSUME NEW prefix \in DOMAIN SSEPrefix, NEW opcode, NEW dst, Operand(dst), NEW src, Operand(src)
  PROVE  Sound(SSEMov(prefix, opcode, dst, src), dst, src)
<1>1. CASE dst.kind = "reg"
  BY <1>1, SSEBinaryOpSound DEF SSEMov
<1>2. CASE dst.kind \in {"mem", "sym"}
  <2>1. Sound(SSEBinaryOp(prefix, opcode + 1, FALSE, src, dst), src, dst)
    BY SSEBinaryOpSound
  <2>2. SSEMov(prefix, opcode, dst, src) = SSEBinaryOp(prefix, opcode + 1, FALSE, src, dst)
    BY <1>2 DEF SSEMov
  <2> QED
    BY <2>1, <2>2, SoundSwap
<1>3. CASE dst.kind \notin {"reg", "mem", "sym"}
  BY <1>3, RejectedSound DEF SSEMov
<1> QED
  BY <1>1, <1>2, <1>3

(* movq between the register files. *)
LEMMA MovqSound ==
  ASSUME NEW dst, Operand(dst), NEW src, Operand(src)
  PROVE  Sound(Movq(dst, src), dst, src)
<1>1. "pd" \in DOMAIN SSEPrefix
  BY DEF SSEPrefix
<1>2. PICK e : e = Movq(dst, src)
  OBVIOUS
<1>3. \/ e = Rejected
      \/ e = SSEBinaryOp("pd", \h6E, FALSE, src, dst)
      \/ e = SSEBinaryOp("pd", \h7E, TRUE, src, dst)
  BY <1>2 DEF Movq
<1>4. /\ Sound(SSEBinaryOp("pd", \h6E, FALSE, src, dst), src, dst)
      /\ Sound(SSEBinaryOp("pd", \h7E, TRUE, src, dst), src, dst)
  BY <1>1, SSEBinaryOpSound
<1> QED
  BY <1>2, <1>3, <1>4, SoundSwap, RejectedSound

(* Which operations the arms of kInstrDesc are for: no operation has two. *)
LEMMA Opcodes ==
  /\ DOMAIN MathBinary = {"add", "or", "adc", "sbb", "and", "sub", "xor", "cmp"}
  /\ {"mov", "mova", "movq"} \cap DOMAIN SSEOpcodes = {}
  /\ {"idiv", "shl", "shr", "sar", "movsx", "movzx", "lea", "test", "imul", "imul3", "set", "j", "jmp", "call",
      "push", "pop", "cdq", "cqo", "ret"} \cap DOMAIN SSEOpcodes = {}
  /\ "none" \notin DOMAIN SSEPrefix
<1>1. DOMAIN MathBinary = {"add", "or", "adc", "sbb", "and", "sub", "xor", "cmp"}
  BY DEF MathBinary
<1>2. DOMAIN SSEOpcodes1 = {"add", "andn", "and", "comi", "cvtsi2", "cvt2si", "cvtt2si", "cvt2s", "div", "max",
                            "min", "mul"}
  BY DEF SSEOpcodes1
<1>3. DOMAIN SSEOpcodes2 = {"or", "rcp", "rsqrt", "sqrt", "sub", "ucomi", "unpckh", "unpckl", "xor", "punpcklbw",
                            "punpcklwd", "punpckldq", "punpcklqdq", "punpckhbw", "punpckhwd", "punpckhdq",
                            "punpckhqdq"}
  BY DEF SSEOpcodes2
<1>4. DOMAIN SSEOpcodes = DOMAIN SSEOpcodes1 \union DOMAIN SSEOpcodes2
  BY DEF SSEOpcodes, Overwrite
<1>5. "none" \notin DOMAIN SSEPrefix
  BY DEF SSEPrefix
<1> QED
  BY <1>1, <1>2, <1>3, <1>4, <1>5

(* The encoding e of an instruction with the operands arg. *)
SoundFor(e, arg) == Encoded(e) /\ ((\E n \in DOMAIN arg : arg[n].kind = "sym") => Reloc(e))

(* From two operands to the list of them. *)
LEMMA SoundFor2 ==
  ASSUME NEW e, NEW arg, DOMAIN arg = 1 .. 2, Sound(e, arg[1], arg[2])
  PROVE  SoundFor(e, arg)
BY DEF Sound, SoundFor

(* From one operand to the list of it. *)
LEMMA SoundFor1 ==
  ASSUME NEW e, NEW arg, DOMAIN arg = 1 .. 1, Sound(e, arg[1], arg[1])
  PROVE  SoundFor(e, arg)
BY DEF Sound, SoundFor

(* The only operand. *)
LEMMA Operands1 ==
  ASSUME NEW arg, DOMAIN arg = 1 .. 1, \A n \in DOMAIN arg : Operand(arg[n])
  PROVE  Operand(arg[1])
OBVIOUS

(* The two operands. *)
LEMMA Operands2 ==
  ASSUME NEW arg, DOMAIN arg = 1 .. 2, \A n \in DOMAIN arg : Operand(arg[n])
  PROVE  Operand(arg[1]) /\ Operand(arg[2])
OBVIOUS

(* The three operands. *)
LEMMA Operands3 ==
  ASSUME NEW arg, DOMAIN arg = 1 .. 3, \A n \in DOMAIN arg : Operand(arg[n])
  PROVE  Operand(arg[1]) /\ Operand(arg[2]) /\ Operand(arg[3])
OBVIOUS

(* Whatever the machine IR instruction, the encoding that kInstrDesc chooses for it is well formed, and where it names a
   symbol it has the four bytes that the relocation patches. *)
LEMMA InstrDescSound ==
  ASSUME NEW instr, NEW blocks, MIRInstr(instr, blocks), NEW arg, DOMAIN arg = 1 .. Len(instr.args),
         \A n \in DOMAIN arg : Operand(arg[n]),
         instr.sse = "none" => \A n \in DOMAIN arg : arg[n].kind = "reg" => arg[n].size \in ImmSizes
  PROVE  SoundFor(InstrDesc(instr, arg), arg)
<1>1. CASE instr.sse # "none" /\ instr.op = "mov"
  <2>1. DOMAIN arg = 1 .. 2 /\ Operand(arg[1]) /\ Operand(arg[2])
    <3>1. Len(instr.args) = 2
      BY <1>1, Opcodes DEF MIRInstr
    <3>2. DOMAIN arg = 1 .. 2
      BY <3>1
    <3> QED
      BY <3>2, Operands2
  <2>2. InstrDesc(instr, arg) = SSEMov(instr.sse, \h10, arg[1], arg[2])
    BY <1>1, Opcodes DEF InstrDesc, MIRInstr
  <2>3. instr.sse \in DOMAIN SSEPrefix
    BY <1>1 DEF MIRInstr
  <2>4. Sound(SSEMov(instr.sse, \h10, arg[1], arg[2]), arg[1], arg[2])
    BY <2>1, <2>3, SSEMovSound
  <2> QED
    BY <2>1, <2>2, <2>4, SoundFor2
<1>2. CASE instr.sse # "none" /\ instr.op = "mova"
  <2>1. DOMAIN arg = 1 .. 2 /\ Operand(arg[1]) /\ Operand(arg[2])
    <3>1. Len(instr.args) = 2
      BY <1>2, Opcodes DEF MIRInstr
    <3>2. DOMAIN arg = 1 .. 2
      BY <3>1
    <3> QED
      BY <3>2, Operands2
  <2>2. InstrDesc(instr, arg) = SSEMov(instr.sse, \h28, arg[1], arg[2])
    BY <1>2, Opcodes DEF InstrDesc, MIRInstr
  <2>3. instr.sse \in DOMAIN SSEPrefix
    BY <1>2 DEF MIRInstr
  <2>4. Sound(SSEMov(instr.sse, \h28, arg[1], arg[2]), arg[1], arg[2])
    BY <2>1, <2>3, SSEMovSound
  <2> QED
    BY <2>1, <2>2, <2>4, SoundFor2
<1>3. CASE instr.sse # "none" /\ instr.op = "movq"
  <2>1. DOMAIN arg = 1 .. 2 /\ Operand(arg[1]) /\ Operand(arg[2])
    <3>1. Len(instr.args) = 2
      BY <1>3, Opcodes DEF MIRInstr
    <3>2. DOMAIN arg = 1 .. 2
      BY <3>1
    <3> QED
      BY <3>2, Operands2
  <2>2. InstrDesc(instr, arg) = Movq(arg[1], arg[2])
    BY <1>3, Opcodes DEF InstrDesc, MIRInstr
  <2>3. Sound(Movq(arg[1], arg[2]), arg[1], arg[2])
    BY <2>1, MovqSound
  <2> QED
    BY <2>1, <2>2, <2>3, SoundFor2
<1>4. CASE instr.sse # "none" /\ instr.op \in DOMAIN SSEOpcodes
  <2>1. DOMAIN arg = 1 .. 2 /\ Operand(arg[1]) /\ Operand(arg[2])
    <3>1. Len(instr.args) = 2
      BY <1>4, Opcodes DEF MIRInstr
    <3>2. DOMAIN arg = 1 .. 2
      BY <3>1
    <3> QED
      BY <3>2, Operands2
  <2>2. InstrDesc(instr, arg) = SSEBinaryOp(instr.sse, SSEOpcodes[instr.op], FALSE, arg[1], arg[2])
    BY <1>4, Opcodes DEF InstrDesc, MIRInstr
  <2>3. instr.sse \in DOMAIN SSEPrefix
    BY <1>4 DEF MIRInstr
  <2>4. Sound(SSEBinaryOp(instr.sse, SSEOpcodes[instr.op], FALSE, arg[1], arg[2]), arg[1], arg[2])
    BY <2>1, <2>3, SSEBinaryOpSound
  <2> QED
    BY <2>1, <2>2, <2>4, SoundFor2
<1>5. CASE instr.sse = "none" /\ instr.op \in DOMAIN MathBinary
  <2>1. DOMAIN arg = 1 .. 2 /\ Operand(arg[1]) /\ Operand(arg[2])
    <3>1. Len(instr.args) = 2
      BY <1>5, Opcodes DEF MIRInstr
    <3>2. DOMAIN arg = 1 .. 2
      BY <3>1
    <3> QED
      BY <3>2, Operands2
  <2>2. InstrDesc(instr, arg) = MathBinaryOp(MathBinary[instr.op], arg[1], arg[2])
    BY <1>5, Opcodes DEF InstrDesc, MIRInstr
  <2>3. Sound(MathBinaryOp(MathBinary[instr.op], arg[1], arg[2]), arg[1], arg[2])
    BY <2>1, MathBinaryOpSound
  <2> QED
    BY <2>1, <2>2, <2>3, SoundFor2
<1>6. CASE instr.sse = "none" /\ instr.op \in {"shl", "shr", "sar"}
  <2>1. DOMAIN arg = 1 .. 2 /\ Operand(arg[1]) /\ Operand(arg[2])
    <3>1. Len(instr.args) = 2
      BY <1>6, Opcodes DEF MIRInstr
    <3>2. DOMAIN arg = 1 .. 2
      BY <3>1
    <3> QED
      BY <3>2, Operands2
  <2>2. InstrDesc(instr, arg) = ShiftRotateOp(Shifts[instr.op], arg[1], arg[2])
    BY <1>6, Opcodes DEF InstrDesc, MIRInstr
  <2>3. Sound(ShiftRotateOp(Shifts[instr.op], arg[1], arg[2]), arg[1], arg[2])
    BY <2>1, ShiftRotateOpSound
  <2> QED
    BY <2>1, <2>2, <2>3, SoundFor2
<1>7. CASE instr.sse = "none" /\ instr.op = "mov"
  <2>1. DOMAIN arg = 1 .. 2 /\ Operand(arg[1]) /\ Operand(arg[2])
    <3>1. Len(instr.args) = 2
      BY <1>7, Opcodes DEF MIRInstr
    <3>2. DOMAIN arg = 1 .. 2
      BY <3>1
    <3> QED
      BY <3>2, Operands2
  <2>2. InstrDesc(instr, arg) = Mov(arg[1], arg[2])
    BY <1>7, Opcodes DEF InstrDesc, MIRInstr
  <2>3. Sound(Mov(arg[1], arg[2]), arg[1], arg[2])
    BY <2>1, MovSound
  <2> QED
    BY <2>1, <2>2, <2>3, SoundFor2
<1>8. CASE instr.sse = "none" /\ instr.op = "movsx"
  <2>1. DOMAIN arg = 1 .. 2 /\ Operand(arg[1]) /\ Operand(arg[2])
    <3>1. Len(instr.args) = 2
      BY <1>8, Opcodes DEF MIRInstr
    <3>2. DOMAIN arg = 1 .. 2
      BY <3>1
    <3> QED
      BY <3>2, Operands2
  <2>2. InstrDesc(instr, arg) = Movsx(arg[1], arg[2])
    BY <1>8, Opcodes DEF InstrDesc, MIRInstr
  <2>3. Sound(Movsx(arg[1], arg[2]), arg[1], arg[2])
    BY <2>1, MovsxSound
  <2> QED
    BY <2>1, <2>2, <2>3, SoundFor2
<1>9. CASE instr.sse = "none" /\ instr.op = "movzx"
  <2>1. DOMAIN arg = 1 .. 2 /\ Operand(arg[1]) /\ Operand(arg[2])
    <3>1. Len(instr.args) = 2
      BY <1>9, Opcodes DEF MIRInstr
    <3>2. DOMAIN arg = 1 .. 2
      BY <3>1
    <3> QED
      BY <3>2, Operands2
  <2>2. InstrDesc(instr, arg) = Movzx(arg[1], arg[2])
    BY <1>9, Opcodes DEF InstrDesc, MIRInstr
  <2>3. Sound(Movzx(arg[1], arg[2]), arg[1], arg[2])
    BY <2>1, MovzxSound
  <2> QED
    BY <2>1, <2>2, <2>3, SoundFor2
<1>10. CASE instr.sse = "none" /\ instr.op = "lea"
  <2>1. DOMAIN arg = 1 .. 2 /\ Operand(arg[1]) /\ Operand(arg[2])
    <3>1. Len(instr.args) = 2
      BY <1>10, Opcodes DEF MIRInstr
    <3>2. DOMAIN arg = 1 .. 2
      BY <3>1
    <3> QED
      BY <3>2, Operands2
  <2>2. InstrDesc(instr, arg) = Lea(arg[1], arg[2])
    BY <1>10, Opcodes DEF InstrDesc, MIRInstr
  <2>3. Sound(Lea(arg[1], arg[2]), arg[1], arg[2])
    BY <2>1, LeaSound
  <2> QED
    BY <2>1, <2>2, <2>3, SoundFor2
<1>11. CASE instr.sse = "none" /\ instr.op = "test"
  <2>1. DOMAIN arg = 1 .. 2 /\ Operand(arg[1]) /\ Operand(arg[2])
    <3>1. Len(instr.args) = 2
      BY <1>11, Opcodes DEF MIRInstr
    <3>2. DOMAIN arg = 1 .. 2
      BY <3>1
    <3> QED
      BY <3>2, Operands2
  <2>2. InstrDesc(instr, arg) = Test(arg[1], arg[2])
    BY <1>11, Opcodes DEF InstrDesc, MIRInstr
  <2>3. Sound(Test(arg[1], arg[2]), arg[1], arg[2])
    BY <2>1, TestSound
  <2> QED
    BY <2>1, <2>2, <2>3, SoundFor2
<1>12. CASE instr.sse = "none" /\ instr.op = "imul"
  <2>1. DOMAIN arg = 1 .. 2 /\ Operand(arg[1]) /\ Operand(arg[2])
    <3>1. Len(instr.args) = 2
      BY <1>12, Opcodes DEF MIRInstr
    <3>2. DOMAIN arg = 1 .. 2
      BY <3>1
    <3> QED
      BY <3>2, Operands2
  <2>2. InstrDesc(instr, arg) = Imul(arg[1], arg[2])
    BY <1>12, Opcodes DEF InstrDesc, MIRInstr
  <2>3. Sound(Imul(arg[1], arg[2]), arg[1], arg[2])
    BY <1>12, <2>1, ImulSound
  <2> QED
    BY <2>1, <2>2, <2>3, SoundFor2
<1>13. CASE instr.sse = "none" /\ instr.op \in {"idiv", "div"}
  <2>1. DOMAIN arg = 1 .. 1 /\ Operand(arg[1])
    <3>1. Len(instr.args) = 1
      BY <1>13, Opcodes DEF MIRInstr
    <3>2. DOMAIN arg = 1 .. 1
      BY <3>1
    <3> QED
      BY <3>2, Operands1
  <2>2. InstrDesc(instr, arg) = MathUnaryOp(MathUnary["idiv"][1], MathUnary["idiv"][2], arg[1])
    BY <1>13, Opcodes DEF InstrDesc, MIRInstr
  <2>3. Sound(MathUnaryOp(MathUnary["idiv"][1], MathUnary["idiv"][2], arg[1]), arg[1], arg[1])
    BY <2>1, MathUnaryOpSound, RejectedSound DEF Sound
  <2> QED
    BY <2>1, <2>2, <2>3, SoundFor1
<1>14. CASE instr.op = "set"
  <2>1. DOMAIN arg = 1 .. 1 /\ Operand(arg[1])
    <3>1. Len(instr.args) = 1
      BY <1>14, Opcodes DEF MIRInstr
    <3>2. DOMAIN arg = 1 .. 1
      BY <3>1
    <3> QED
      BY <3>2, Operands1
  <2>2. InstrDesc(instr, arg) = Setcc(instr.cc, arg[1])
    BY <1>14, Opcodes DEF InstrDesc, MIRInstr
  <2>3. Sound(Setcc(instr.cc, arg[1]), arg[1], arg[1])
    BY <2>1, SetccSound
  <2> QED
    BY <2>1, <2>2, <2>3, SoundFor1
<1>15. CASE instr.op = "j"
  <2>1. DOMAIN arg = 1 .. 1 /\ Operand(arg[1])
    <3>1. Len(instr.args) = 1
      BY <1>15, Opcodes DEF MIRInstr
    <3>2. DOMAIN arg = 1 .. 1
      BY <3>1
    <3> QED
      BY <3>2, Operands1
  <2>2. InstrDesc(instr, arg) = Jcc(instr.cc, arg[1])
    BY <1>15, Opcodes DEF InstrDesc, MIRInstr
  <2>3. Sound(Jcc(instr.cc, arg[1]), arg[1], arg[1])
    BY <2>1, JccSound
  <2> QED
    BY <2>1, <2>2, <2>3, SoundFor1
<1>16. CASE instr.op = "jmp"
  <2>1. DOMAIN arg = 1 .. 1 /\ Operand(arg[1])
    <3>1. Len(instr.args) = 1
      BY <1>16, Opcodes DEF MIRInstr
    <3>2. DOMAIN arg = 1 .. 1
      BY <3>1
    <3> QED
      BY <3>2, Operands1
  <2>2. InstrDesc(instr, arg) = JmpCallOp(\hE9, 4, arg[1])
    BY <1>16, Opcodes DEF InstrDesc, MIRInstr
  <2>3. Sound(JmpCallOp(\hE9, 4, arg[1]), arg[1], arg[1])
    BY <2>1, JmpCallOpSound
  <2> QED
    BY <2>1, <2>2, <2>3, SoundFor1
<1>17. CASE instr.op = "call"
  <2>1. DOMAIN arg = 1 .. 1 /\ Operand(arg[1])
    <3>1. Len(instr.args) = 1
      BY <1>17, Opcodes DEF MIRInstr
    <3>2. DOMAIN arg = 1 .. 1
      BY <3>1
    <3> QED
      BY <3>2, Operands1
  <2>2. InstrDesc(instr, arg) = JmpCallOp(\hE8, 2, arg[1])
    BY <1>17, Opcodes DEF InstrDesc, MIRInstr
  <2>3. Sound(JmpCallOp(\hE8, 2, arg[1]), arg[1], arg[1])
    BY <2>1, JmpCallOpSound
  <2> QED
    BY <2>1, <2>2, <2>3, SoundFor1
<1>18. CASE instr.op = "push"
  <2>1. DOMAIN arg = 1 .. 1 /\ Operand(arg[1])
    <3>1. Len(instr.args) = 1
      BY <1>18, Opcodes DEF MIRInstr
    <3>2. DOMAIN arg = 1 .. 1
      BY <3>1
    <3> QED
      BY <3>2, Operands1
  <2>2. InstrDesc(instr, arg) = Push(arg[1])
    BY <1>18, Opcodes DEF InstrDesc, MIRInstr
  <2>3. Sound(Push(arg[1]), arg[1], arg[1])
    BY <2>1, PushSound
  <2> QED
    BY <2>1, <2>2, <2>3, SoundFor1
<1>19. CASE instr.op = "pop"
  <2>1. DOMAIN arg = 1 .. 1 /\ Operand(arg[1])
    <3>1. Len(instr.args) = 1
      BY <1>19, Opcodes DEF MIRInstr
    <3>2. DOMAIN arg = 1 .. 1
      BY <3>1
    <3> QED
      BY <3>2, Operands1
  <2>2. InstrDesc(instr, arg) = Pop(arg[1])
    BY <1>19, Opcodes DEF InstrDesc, MIRInstr
  <2>3. Sound(Pop(arg[1]), arg[1], arg[1])
    BY <2>1, PopSound
  <2> QED
    BY <2>1, <2>2, <2>3, SoundFor1
<1>20. CASE instr.op = "imul3"
  <2>1. DOMAIN arg = 1 .. 3 /\ Operand(arg[1]) /\ Operand(arg[2]) /\ Operand(arg[3])
    <3>1. Len(instr.args) = 3
      BY <1>20, Opcodes DEF MIRInstr
    <3>2. DOMAIN arg = 1 .. 3
      BY <3>1
    <3> QED
      BY <3>2, Operands3
  <2>2. InstrDesc(instr, arg) = Imul3(arg[1], arg[2], arg[3])
    BY <1>20, Opcodes DEF InstrDesc, MIRInstr
  <2>3. arg[1].kind = "reg" => arg[1].size \in ImmSizes
    BY <1>20, <2>1, Opcodes DEF MIRInstr
  <2>4. PICK e : e = Imul3(arg[1], arg[2], arg[3])
    OBVIOUS
  <2>5. Encoded(e) /\ (arg[1].kind = "sym" \/ arg[2].kind = "sym" \/ arg[3].kind = "sym" => e = Rejected)
    BY <2>1, <2>3, <2>4, Imul3Sound
  <2>6. ASSUME NEW n \in DOMAIN arg, arg[n].kind = "sym" PROVE e = Rejected
    <3>1. n \in 1 .. 3
      BY <2>1
    <3>2. n = 1 \/ n = 2 \/ n = 3
      BY <3>1
    <3> QED
      BY <2>5, <2>6, <3>2
  <2> QED
    BY <2>2, <2>4, <2>5, <2>6, RejectedEnc DEF SoundFor
<1>21. CASE instr.op \in {"cdq", "cqo"}
  <2>1. DOMAIN arg = {}
    BY <1>21, Opcodes DEF MIRInstr
  <2>2. InstrDesc(instr, arg) = Widening[instr.op]
    BY <1>21, Opcodes DEF InstrDesc, MIRInstr
  <2> QED
    BY <1>21, <2>1, <2>2, WideningEnc DEF SoundFor
<1>22. CASE instr.op = "ret"
  <2>1. DOMAIN arg = {}
    BY <1>22, Opcodes DEF MIRInstr
  <2>2. InstrDesc(instr, arg) = Retn
    BY <1>22, Opcodes DEF InstrDesc, MIRInstr
  <2> QED
    BY <2>1, <2>2, RetnEnc DEF SoundFor
<1> QED
  BY <1>1, <1>2, <1>3, <1>4, <1>5, <1>6, <1>7, <1>8, <1>9, <1>10, <1>11,
     <1>12, <1>13, <1>14, <1>15, <1>16, <1>17, <1>18, <1>19, <1>20, <1>21, <1>22, Opcodes DEF MIRInstr

-----------------------------------------------------------------------------
(* The invariant *)

IsSeq(s) == \E S : s \in Seq(S)

(* A section's size never passes its capacity and its fields lie within it. *)
SectionOK(sec) ==
  /\ DOMAIN sec = {"size", "capacity", "field", "start"}
  /\ sec.size \in Nat /\ sec.capacity \in Nat
  /\ sec.size <= sec.capacity \/ sec.size = 0
  /\ DOMAIN sec.field \subseteq 0 .. sec.size - 1

SymbolOK(s) == DOMAIN s = {"kind", "name", "size", "offset", "relocs"} /\ IsName(s.name)
LabelOK(l) == l = [offset |-> l.offset, refs |-> l.refs] /\ l.offset \in Int

(* The shape of a context. *)
ContextOK(c) ==
  /\ DOMAIN c = {"section", "symbols", "labels", "curFunc", "buffer"}
  /\ DOMAIN c.section = {"text", "data"}
  /\ SectionOK(c.section["text"]) /\ SectionOK(c.section["data"])
  /\ IsSeq(c.symbols) /\ IsSeq(c.labels)
  /\ \A s \in DOMAIN c.symbols : SymbolOK(c.symbols[s])
  /\ \A l \in DOMAIN c.labels : LabelOK(c.labels[l])
  /\ c.curFunc \in 0 .. Len(c.symbols)

Declared == Len(prog.globals) + Len(prog.funcs)
InBody == at.step \in {"block", "instr"}

(* Where the walk over the program is, and the symbols it has declared. *)
WalkOK ==
  /\ prog \in Programs
  /\ DOMAIN at = {"step", "i", "j", "k", "limit"}
  /\ at.step \in Steps /\ at.i \in Nat \ {0}
  /\ at.step = "declareGlobals" => at.i <= Len(prog.globals) + 1 /\ Len(ctx.symbols) = at.i - 1
  /\ at.step = "declareFuncs" => at.i <= Len(prog.funcs) + 1 /\ Len(ctx.symbols) = Len(prog.globals) + at.i - 1
  /\ at.step \notin {"declareGlobals", "declareFuncs"} => Len(ctx.symbols) >= Declared
  /\ InBody => at.i <= Len(prog.funcs)
  /\ at.step = "block" => at.j \in 1 .. Len(Blocks) + 1
  /\ at.step = "instr" => at.j \in 1 .. Len(Blocks) /\ at.k \in Nat \ {0}
  /\ at.step = "stubs" => at.limit \in 0 .. Len(ctx.symbols)

(* The jumps to blocks that were emitted, and where blocks were placed. *)
IsBlock(t) == t[1] = "block"
Jumps == {m \in meant : IsBlock(m.target)}
Places == [t \in {u \in DOMAIN placed : IsBlock(u)} |-> placed[t].offset]

TextField(c) == c.section["text"].field

(* Every jump J has a field of its own, which leads to the block if that is placed. *)
FieldsOK(J, P, f) ==
  /\ \A m \in J : m.field \in DOMAIN f /\ m.next \in Int
  /\ \A m, n \in J : m.field = n.field => m = n
  /\ \A m \in J : m.target \in DOMAIN P => m.next + f[m.field] = P[m.target]

(* The jumps and the blocks placed are those of the functions up to n. *)
Before(n) == (\A m \in Jumps : m.target[2] \in 1 .. n) /\ (\A t \in DOMAIN Places : t[2] \in 1 .. n)

Begun == IF at.step = "block" THEN at.j - 1 ELSE at.j
ScopeOK ==
  /\ at.step \in {"declareGlobals", "declareFuncs"} => Before(0)
  /\ at.step \in {"declareGlobals", "declareFuncs", "func"} => ctx.labels = <<>>
  /\ at.step = "func" => Before(at.i - 1)
  /\ InBody => /\ Before(at.i)
               /\ \A t \in DOMAIN Places : t[2] = at.i => \E j \in 1 .. Begun : Blocks[j].id = t[3]

(* The label l of the block t is bound where the block was placed, or it has a
   reference for every jump to the block and for nothing else.                *)
LabelStands(l, t, J, P) ==
  /\ l.offset # Unbound => t \in DOMAIN P /\ P[t] = l.offset
  /\ l.offset = Unbound =>
       /\ t \notin DOMAIN P
       /\ \A m \in J : m.target = t => [disp |-> m.field, next |-> m.next] \in l.refs
       /\ \A r \in l.refs : \E m \in J : m.target = t /\ r.disp = m.field /\ r.next = m.next

LabelsStand(labels, i, J, P) ==
  \A b \in 0 .. prog.funcs[i].numBlocks - 1 : LabelStands(labels[LabelOf(b)], Block(i, b), J, P)
LabelsOK ==
  InBody => Len(ctx.labels) = prog.funcs[at.i].numBlocks /\ LabelsStand(ctx.labels, at.i, Jumps, Places)

Inv == ContextOK(ctx) /\ WalkOK /\ FieldsOK(Jumps, Places, TextField(ctx)) /\ ScopeOK /\ LabelsOK

-----------------------------------------------------------------------------
(* The operations of the assembler *)

(* An element of a sequence is replaced. *)
LEMMA UpdateSeq ==
  ASSUME NEW s, IsSeq(s), NEW i, NEW x
  PROVE  IsSeq([s EXCEPT ![i] = x]) /\ Len([s EXCEPT ![i] = x]) = Len(s)
<1>1. PICK S : s \in Seq(S)
  BY DEF IsSeq
<1>2. PICK u : u = [s EXCEPT ![i] = x]
  OBVIOUS
<1>3. s \in [1 .. Len(s) -> S] /\ Len(s) \in Nat
  BY <1>1
<1>4. u \in [1 .. Len(s) -> S \union {x}]
  BY <1>2, <1>3
<1>5. u \in Seq(S \union {x}) /\ Len(u) = Len(s)
  BY <1>3, <1>4
<1> QED
  BY <1>2, <1>5 DEF IsSeq

(* An element is appended. *)
LEMMA AppendSeq ==
  ASSUME NEW s, IsSeq(s), NEW x
  PROVE  /\ IsSeq(Append(s, x)) /\ Len(Append(s, x)) = Len(s) + 1
         /\ DOMAIN Append(s, x) = 1 .. Len(s) + 1
         /\ \A i \in DOMAIN s : Append(s, x)[i] = s[i]
         /\ Append(s, x)[Len(s) + 1] = x
<1>1. PICK S : s \in Seq(S)
  BY DEF IsSeq
<1>2. s \in Seq(S \union {x})
  BY <1>1
<1>3. Append(s, x) \in Seq(S \union {x})
  BY <1>2
<1> QED
  BY <1>1, <1>2, <1>3 DEF IsSeq

(* The indices of a sequence. *)
LEMMA SeqDomain == \A s : IsSeq(s) => Len(s) \in Nat /\ DOMAIN s = 1 .. Len(s)
BY DEF IsSeq

(* The larger of two numbers. *)
LEMMA MaxOfTwo == \A a, b \in Nat : Max({a, b}) \in Nat /\ Max({a, b}) >= a /\ Max({a, b}) >= b
<1> TAKE a, b \in Nat
<1>1. \E x \in {a, b} : \A y \in {a, b} : x >= y
  <2>1. CASE a >= b
    BY <2>1
  <2>2. CASE b >= a
    BY <2>2
  <2> QED
    BY <2>1, <2>2
<1>2. Max({a, b}) \in {a, b} /\ \A y \in {a, b} : Max({a, b}) >= y
  BY <1>1 DEF Max
<1> QED
  BY <1>2

(* Aligning moves forward. *)
LEMMA AlignedPosOK ==
  ASSUME NEW pos \in Nat, NEW alignment \in Nat \ {0}
  PROVE  AlignedPos(pos, alignment) \in Nat /\ AlignedPos(pos, alignment) >= pos
<1>1. PICK x : x = pos + alignment - 1
  OBVIOUS
<1>2. PICK q : q = x \div alignment
  OBVIOUS
<1>3. x \in Nat
  BY <1>1
<1>4. q \in Nat /\ x = (alignment * q) + (x % alignment) /\ x % alignment \in 0 .. alignment - 1
  BY <1>2, <1>3
<1>5. alignment * q \in Nat /\ alignment * q = q * alignment
  BY <1>4
<1>6. alignment * q > x - alignment
  BY <1>3, <1>4, <1>5
<1> QED
  BY <1>1, <1>2, <1>5, <1>6 DEF AlignedPos

(* What an emission does to a section. *)
Grown(sec, fields, n, new) ==
  /\ SectionOK(new) /\ new.size = sec.size + n
  /\ \A o \in DOMAIN sec.field : o \in DOMAIN new.field /\ new.field[o] = sec.field[o]
  /\ \A r \in DOMAIN fields : sec.size + r \in DOMAIN new.field /\ new.field[sec.size + r] = fields[r]

(* Growing keeps a section sound: old fields keep their values when the buffer is replaced, new ones lie where the
   bytes were appended. *)
LEMMA SectionGrows ==
  ASSUME NEW sec, SectionOK(sec), NEW fields, NEW n \in Nat, DOMAIN fields \subseteq 0 .. n - 1
  PROVE  Grown(sec, fields, n, Grow(sec, fields, n))
<1>a. PICK fits : fits = (sec.size + n <= sec.capacity)
  OBVIOUS
<1>b. PICK kept : kept = Restrict(sec.field, {o \in DOMAIN sec.field : fits \/ o < sec.capacity})
  OBVIOUS
<1>c. PICK emitted : emitted = [o \in {sec.size + r : r \in DOMAIN fields} |-> fields[o - sec.size]]
  OBVIOUS
<1>d. PICK new : new = Grow(sec, fields, n)
  OBVIOUS
<1>1. DOMAIN sec = {"size", "capacity", "field", "start"} /\ sec.size \in Nat /\ sec.capacity \in Nat
  BY DEF SectionOK
<1>2. PICK cap : cap = IF fits THEN sec.capacity ELSE NewCapacity(sec, n)
  OBVIOUS
<1>3. PICK f : f = Overwrite(kept, emitted)
  OBVIOUS
<1>4. new = [sec EXCEPT !.size = sec.size + n, !.capacity = cap, !.field = f]
  BY <1>1, <1>2, <1>3, <1>a, <1>b, <1>c, <1>d DEF Grow
<1>5. DOMAIN new = DOMAIN sec /\ new.size = sec.size + n /\ new.capacity = cap /\ new.field = f
  BY <1>1, <1>4
<1>6. cap \in Nat /\ (sec.size + n <= cap \/ sec.size + n = 0)
  <2>1. CASE fits
    BY <1>1, <1>2, <1>a, <2>1
  <2>2. CASE ~fits
    <3>1. Max({n, Chunk}) \in Nat /\ Max({n, Chunk}) >= n
      BY MaxOfTwo, AsmAssumption
    <3>2. cap = sec.capacity + Max({n, Chunk})
      BY <1>2, <2>2 DEF NewCapacity
    <3> QED
      BY <1>1, <3>1, <3>2 DEF SectionOK
  <2> QED
    BY <2>1, <2>2
<1>7. \A o \in DOMAIN sec.field : o \in Int /\ o >= 0 /\ o < sec.size /\ o < sec.capacity
  BY <1>1 DEF SectionOK
<1>8. DOMAIN kept = DOMAIN sec.field /\ \A o \in DOMAIN sec.field : kept[o] = sec.field[o]
  BY <1>7, <1>b DEF Restrict
<1>9. DOMAIN emitted = {sec.size + r : r \in DOMAIN fields}
  BY <1>c
<1>10. ASSUME NEW r \in DOMAIN fields
       PROVE  r \in 0 .. n - 1 /\ sec.size + r \in DOMAIN emitted /\ emitted[sec.size + r] = fields[r]
  <2>1. r \in 0 .. n - 1 /\ (sec.size + r) - sec.size = r
    BY <1>1
  <2>2. sec.size + r \in DOMAIN emitted
    BY <1>9
  <2> QED
    BY <1>c, <2>1, <2>2, <1>9
<1>11. \A o \in DOMAIN emitted : o \in sec.size .. sec.size + n - 1
  BY <1>1, <1>9, <1>10
<1>12. DOMAIN f = DOMAIN kept \union DOMAIN emitted
       /\ \A o \in DOMAIN f : f[o] = IF o \in DOMAIN emitted THEN emitted[o] ELSE kept[o]
  BY <1>3 DEF Overwrite
<1>13. DOMAIN f \subseteq 0 .. sec.size + n - 1
  BY <1>1, <1>7, <1>8, <1>11, <1>12
<1>14. SectionOK(new)
  <2>1. sec.size + n \in Nat
    BY <1>1
  <2>2. DOMAIN new = {"size", "capacity", "field", "start"}
    BY <1>1, <1>5
  <2>3. new.size \in Nat /\ new.capacity \in Nat /\ (new.size <= new.capacity \/ new.size = 0)
    BY <1>5, <1>6, <2>1
  <2>4. new.size = sec.size + n /\ new.field = f
    BY <1>5
  <2>5. ASSUME NEW o \in DOMAIN new.field PROVE o \in 0 .. new.size - 1
    BY <1>1, <1>13, <2>4
  <2> QED
    BY <2>2, <2>3, <2>5 DEF SectionOK
<1>15. ASSUME NEW o \in DOMAIN sec.field PROVE o \in DOMAIN f /\ f[o] = sec.field[o]
  <2>1. o \notin DOMAIN emitted
    BY <1>1, <1>7, <1>11
  <2> QED
    BY <1>8, <1>12, <2>1
<1>16. ASSUME NEW r \in DOMAIN fields PROVE sec.size + r \in DOMAIN f /\ f[sec.size + r] = fields[r]
  BY <1>10, <1>12
<1> QED
  BY <1>5, <1>14, <1>15, <1>16, <1>d DEF Grown

(* What EmitBytes does to a context. *)
Emitted(c, s, fields, n, d) ==
  /\ ContextOK(d)
  /\ d.symbols = c.symbols /\ d.labels = c.labels /\ d.curFunc = c.curFunc
  /\ \A t \in {"text", "data"} : t # s => d.section[t] = c.section[t]
  /\ Grown(c.section[s], fields, n, d.section[s])

(* The same for the section of a context. *)
LEMMA EmitBytesOK ==
  ASSUME NEW c, ContextOK(c), NEW s \in {"text", "data"}, NEW fields, NEW n \in Nat, DOMAIN fields \subseteq 0 .. n - 1
  PROVE  Emitted(c, s, fields, n, EmitBytes(c, s, fields, n))
<1>1. PICK sec : sec = c.section[s]
  OBVIOUS
<1>2. PICK new : new = Grow(sec, fields, n)
  OBVIOUS
<1>6. SectionOK(sec)
  BY <1>1 DEF ContextOK
<1>7. Grown(sec, fields, n, new)
  BY <1>2, <1>6, SectionGrows
<1>8. PICK d : d = EmitBytes(c, s, fields, n)
  OBVIOUS
<1>9. DOMAIN c = {"section", "symbols", "labels", "curFunc", "buffer"} /\ DOMAIN c.section = {"text", "data"}
  BY DEF ContextOK
<1>10. d = [c EXCEPT !.section[s] = new]
  BY <1>1, <1>2, <1>8, <1>9 DEF EmitBytes
<1>11. /\ DOMAIN d = DOMAIN c /\ d.symbols = c.symbols /\ d.labels = c.labels /\ d.curFunc = c.curFunc
       /\ DOMAIN d.section = {"text", "data"} /\ d.section[s] = new
       /\ \A t \in {"text", "data"} : t # s => d.section[t] = c.section[t]
  BY <1>9, <1>10
<1>12. \A t \in {"text", "data"} : SectionOK(d.section[t])
  BY <1>7, <1>11 DEF Grown, ContextOK
<1>13. ContextOK(d)
  BY <1>9, <1>11, <1>12 DEF ContextOK
<1> QED
  BY <1>1, <1>7, <1>8, <1>11, <1>13 DEF Emitted

(* d is c after more was emitted and declared. *)
Extends(c, d) ==
  /\ ContextOK(d)
  /\ Len(c.symbols) <= Len(d.symbols) /\ TextSize(c) <= TextSize(d)
  /\ \A o \in DOMAIN TextField(c) : o \in DOMAIN TextField(d) /\ TextField(d)[o] = TextField(c)[o]
Kept(c, d) == Extends(c, d) /\ d.labels = c.labels

(* One extension after the other. *)
LEMMA ExtendsTrans ==
  ASSUME NEW c, ContextOK(c), NEW d, Extends(c, d), NEW e, Extends(d, e)
  PROVE  Extends(c, e)
<1>1. Len(c.symbols) \in Nat /\ Len(d.symbols) \in Nat /\ Len(e.symbols) \in Nat
  BY SeqDomain DEF Extends, ContextOK
<1>2. TextSize(c) \in Nat /\ TextSize(d) \in Nat /\ TextSize(e) \in Nat
  BY DEF Extends, ContextOK, SectionOK, TextSize
<1> QED
  BY <1>1, <1>2 DEF Extends

(* The same when the labels are kept. *)
LEMMA KeptTrans ==
  ASSUME NEW c, ContextOK(c), NEW d, Kept(c, d), NEW e, Kept(d, e)
  PROVE  Kept(c, e)
BY ExtendsTrans DEF Kept

(* Nothing is an extension. *)
LEMMA KeptSelf ==
  ASSUME NEW c, ContextOK(c)
  PROVE  Kept(c, c)
<1>1. Len(c.symbols) \in Nat
  BY SeqDomain DEF ContextOK
<1>2. TextSize(c) \in Nat
  BY DEF ContextOK, SectionOK, TextSize
<1> QED
  BY <1>1, <1>2 DEF Kept, Extends

(* Emitting keeps what was emitted. *)
LEMMA EmittedKept ==
  ASSUME NEW c, ContextOK(c), NEW s \in {"text", "data"}, NEW fields, NEW n \in Nat, NEW d, Emitted(c, s, fields, n, d)
  PROVE  Kept(c, d)
<1>1. Len(c.symbols) \in Nat
  BY SeqDomain DEF ContextOK
<1>2. c.section[s].size \in Nat /\ c.section["text"].size \in Nat
  BY DEF ContextOK, SectionOK
<1>3. CASE s = "text"
  BY <1>1, <1>2, <1>3 DEF Emitted, Grown, Kept, Extends, TextSize, TextField
<1>4. CASE s # "text"
  <2>1. d.section["text"] = c.section["text"]
    BY <1>4 DEF Emitted
  <2> QED
    BY <1>1, <1>2, <2>1 DEF Emitted, Kept, Extends, TextSize, TextField
<1> QED
  BY <1>3, <1>4

(* The same of jx64_emitBytes. *)
LEMMA EmitBytesKept ==
  ASSUME NEW c, ContextOK(c), NEW s \in {"text", "data"}, NEW fields, NEW n \in Nat, DOMAIN fields \subseteq 0 .. n - 1
  PROVE  Kept(c, EmitBytes(c, s, fields, n)) /\ EmitBytes(c, s, fields, n).curFunc = c.curFunc
<1>1. PICK d : d = EmitBytes(c, s, fields, n)
  OBVIOUS
<1>2. Emitted(c, s, fields, n, d)
  BY <1>1, EmitBytesOK
<1>3. Kept(c, d)
  BY <1>2, EmittedKept
<1> QED
  BY <1>1, <1>2, <1>3 DEF Emitted

(* d is c with other symbols and another function begun. *)
Resymboled(c, d) ==
  /\ DOMAIN d = {"section", "symbols", "labels", "curFunc", "buffer"}
  /\ d.section = c.section /\ d.labels = c.labels
  /\ IsSeq(d.symbols) /\ Len(c.symbols) <= Len(d.symbols)
  /\ \A s \in DOMAIN d.symbols : SymbolOK(d.symbols[s])
  /\ d.curFunc \in 0 .. Len(d.symbols)

(* A change of the symbols keeps the text. *)
LEMMA ResymboledKept ==
  ASSUME NEW c, ContextOK(c), NEW d, Resymboled(c, d)
  PROVE  Kept(c, d)
<1>1. TextSize(c) \in Nat /\ TextSize(d) = TextSize(c) /\ TextField(d) = TextField(c)
  BY DEF ContextOK, SectionOK, TextSize, TextField, Resymboled
<1>2. ContextOK(d)
  BY DEF ContextOK, Resymboled
<1> QED
  BY <1>1, <1>2 DEF Kept, Extends, Resymboled

(* A symbol is declared: one more. *)
LEMMA DeclareKept ==
  ASSUME NEW c, ContextOK(c), NEW kind, NEW name, IsName(name)
  PROVE  /\ Kept(c, Declare(c, kind, name)) /\ Declare(c, kind, name).curFunc = c.curFunc
         /\ Len(Declare(c, kind, name).symbols) = Len(c.symbols) + 1
<1>1. PICK new : new = [kind |-> kind, name |-> name, size |-> 0, offset |-> Unbound, relocs |-> <<>>]
  OBVIOUS
<1>2. SymbolOK(new)
  BY <1>1 DEF SymbolOK
<1>3. PICK d : d = Declare(c, kind, name)
  OBVIOUS
<1>4. PICK syms : syms = Append(c.symbols, new)
  OBVIOUS
<1>5. d = [c EXCEPT !.symbols = syms] /\ DOMAIN c = {"section", "symbols", "labels", "curFunc", "buffer"}
  BY <1>1, <1>3, <1>4 DEF Declare, ContextOK
<1>6. DOMAIN d = DOMAIN c /\ d.symbols = syms /\ d.section = c.section /\ d.labels = c.labels /\ d.curFunc = c.curFunc
  BY <1>5
<1>7. IsSeq(c.symbols) /\ Len(c.symbols) \in Nat /\ DOMAIN c.symbols = 1 .. Len(c.symbols)
  BY SeqDomain DEF ContextOK
<1>8. /\ IsSeq(syms) /\ Len(syms) = Len(c.symbols) + 1 /\ DOMAIN syms = 1 .. Len(c.symbols) + 1
      /\ \A i \in DOMAIN c.symbols : syms[i] = c.symbols[i]
      /\ syms[Len(c.symbols) + 1] = new
  BY <1>4, <1>7, AppendSeq
<1>9. ASSUME NEW s \in DOMAIN syms PROVE SymbolOK(syms[s])
  <2>1. CASE s = Len(c.symbols) + 1
    BY <1>2, <1>8, <2>1
  <2>2. CASE s # Len(c.symbols) + 1
    <3>1. s \in DOMAIN c.symbols
      BY <1>7, <1>8, <2>2
    <3> QED
      BY <1>8, <3>1 DEF ContextOK
  <2> QED
    BY <2>1, <2>2
<1>10. c.curFunc \in 0 .. Len(c.symbols)
  BY DEF ContextOK
<1>11. Resymboled(c, d)
  BY <1>5, <1>6, <1>7, <1>8, <1>9, <1>10 DEF Resymboled
<1> QED
  BY <1>3, <1>6, <1>8, <1>11, ResymboledKept

(* u is the symbol t with another size, offset or other relocations. *)
Retouched(t, u) == SymbolOK(t) => SymbolOK(u)

(* A symbol is replaced by one that is as sound. *)
LEMMA ResymbolKept ==
  ASSUME NEW c, ContextOK(c), NEW i, NEW u, Retouched(c.symbols[i], u)
  PROVE  /\ Kept(c, [c EXCEPT !.symbols = [c.symbols EXCEPT ![i] = u]])
         /\ [c EXCEPT !.symbols = [c.symbols EXCEPT ![i] = u]].curFunc = c.curFunc
<1>1. PICK syms : syms = [c.symbols EXCEPT ![i] = u]
  OBVIOUS
<1>2. PICK d : d = [c EXCEPT !.symbols = syms]
  OBVIOUS
<1>3. DOMAIN c = {"section", "symbols", "labels", "curFunc", "buffer"}
  BY DEF ContextOK
<1>4. DOMAIN d = DOMAIN c /\ d.symbols = syms /\ d.section = c.section /\ d.labels = c.labels /\ d.curFunc = c.curFunc
  BY <1>2, <1>3
<1>5. IsSeq(c.symbols) /\ Len(c.symbols) \in Nat
  BY SeqDomain DEF ContextOK
<1>6. IsSeq(syms) /\ Len(syms) = Len(c.symbols)
  BY <1>1, <1>5, UpdateSeq
<1>7. ASSUME NEW s \in DOMAIN syms PROVE SymbolOK(syms[s])
  <2>1. s \in DOMAIN c.symbols /\ syms[s] = IF s = i THEN u ELSE c.symbols[s]
    BY <1>1
  <2>2. SymbolOK(c.symbols[s])
    BY <2>1 DEF ContextOK
  <2> QED
    BY <2>1, <2>2 DEF Retouched
<1>8. Resymboled(c, d)
  <2>1. c.curFunc \in 0 .. Len(c.symbols)
    BY DEF ContextOK
  <2> QED
    BY <1>3, <1>4, <1>5, <1>6, <1>7, <2>1 DEF Resymboled
<1> QED
  BY <1>1, <1>2, <1>4, <1>8, ResymboledKept

(* A relocation is added to a symbol. *)
LEMMA SymbolAddRelocationKept ==
  ASSUME NEW c, ContextOK(c), NEW sym, NEW kind, NEW offset, NEW name
  PROVE  /\ Kept(c, SymbolAddRelocation(c, sym, kind, offset, name))
         /\ SymbolAddRelocation(c, sym, kind, offset, name).curFunc = c.curFunc
<1>1. PICK r : r = Append(c.symbols[sym].relocs, [kind |-> kind, offset |-> offset, name |-> name])
  OBVIOUS
<1>2. PICK u : u = [c.symbols[sym] EXCEPT !.relocs = r]
  OBVIOUS
<1>3. DOMAIN c = {"section", "symbols", "labels", "curFunc", "buffer"}
  BY DEF ContextOK
<1>4. SymbolAddRelocation(c, sym, kind, offset, name) = [c EXCEPT !.symbols = [c.symbols EXCEPT ![sym] = u]]
  BY <1>1, <1>2, <1>3 DEF SymbolAddRelocation
<1>5. Retouched(c.symbols[sym], u)
  BY <1>2 DEF Retouched, SymbolOK
<1> QED
  BY <1>4, <1>5, ResymbolKept

PutSymbol(c, sym, offset, size) == [c EXCEPT !.symbols[sym].offset = offset, !.symbols[sym].size = size]

(* A symbol gets its place. *)
LEMMA PutSymbolKept ==
  ASSUME NEW c, ContextOK(c), NEW sym, NEW offset, NEW size
  PROVE  Kept(c, PutSymbol(c, sym, offset, size)) /\ PutSymbol(c, sym, offset, size).curFunc = c.curFunc
<1>1. PICK u : u = [c.symbols[sym] EXCEPT !.offset = offset]
  OBVIOUS
<1>2. DOMAIN c = {"section", "symbols", "labels", "curFunc", "buffer"}
  BY DEF ContextOK
<1>3. PICK d : d = [c EXCEPT !.symbols = [c.symbols EXCEPT ![sym] = u]]
  OBVIOUS
<1>4. Retouched(c.symbols[sym], u)
  BY <1>1 DEF Retouched, SymbolOK
<1>5. Kept(c, d) /\ d.curFunc = c.curFunc
  BY <1>3, <1>4, ResymbolKept
<1>6. PICK v : v = [d.symbols[sym] EXCEPT !.size = size]
  OBVIOUS
<1>7. PICK e : e = [d EXCEPT !.symbols = [d.symbols EXCEPT ![sym] = v]]
  OBVIOUS
<1>8. Retouched(d.symbols[sym], v)
  BY <1>6 DEF Retouched, SymbolOK
<1>9. ContextOK(d)
  BY <1>5 DEF Kept, Extends
<1>10. Kept(d, e) /\ e.curFunc = d.curFunc
  BY <1>7, <1>8, <1>9, ResymbolKept
<1>11. PutSymbol(c, sym, offset, size) = e
  <2>1. d = [c EXCEPT !.symbols[sym].offset = offset]
    BY <1>1, <1>2, <1>3
  <2>2. e = [d EXCEPT !.symbols[sym].size = size]
    BY <1>2, <1>3, <1>6, <1>7
  <2> QED
    BY <2>1, <2>2 DEF PutSymbol
<1> QED
  BY <1>5, <1>10, <1>11, KeptTrans

(* jx64_globalVarDefine keeps the text section. *)
LEMMA GlobalVarDefineKept ==
  ASSUME NEW c, ContextOK(c), NEW gv, NEW fields, NEW sz \in Nat, DOMAIN fields \subseteq 0 .. sz - 1,
         NEW alignment \in Nat \ {0}
  PROVE  /\ Kept(c, GlobalVarDefine(c, gv, fields, sz, alignment))
         /\ GlobalVarDefine(c, gv, fields, sz, alignment).curFunc = c.curFunc
<1>1. PICK pos : pos = c.section["data"].size
  OBVIOUS
<1>2. PICK aligned : aligned = AlignedPos(pos, alignment)
  OBVIOUS
<1>3. pos \in Nat
  BY <1>1 DEF ContextOK, SectionOK
<1>4. aligned \in Nat /\ aligned >= pos
  BY <1>2, <1>3, AlignedPosOK
<1>5. PICK padded : padded = IF aligned = pos THEN c ELSE EmitBytes(c, "data", NoField, aligned - pos)
  OBVIOUS
<1>6. Kept(c, padded) /\ padded.curFunc = c.curFunc
  <2>1. CASE aligned = pos
    BY <1>5, <2>1, KeptSelf
  <2>2. CASE aligned # pos
    <3>1. aligned - pos \in Nat /\ DOMAIN NoField \subseteq 0 .. (aligned - pos) - 1
      BY <1>3, <1>4 DEF NoField
    <3> QED
      BY <1>5, <2>2, <3>1, EmitBytesKept
  <2> QED
    BY <2>1, <2>2
<1>7. ContextOK(padded)
  BY <1>6 DEF Kept, Extends
<1>8. PICK x : x = padded.section["data"].size
  OBVIOUS
<1>9. PICK d : d = PutSymbol(padded, gv, x, sz)
  OBVIOUS
<1>10. Kept(padded, d) /\ d.curFunc = padded.curFunc
  BY <1>7, <1>9, PutSymbolKept
<1>11. ContextOK(d)
  BY <1>10 DEF Kept, Extends
<1>12. PICK e : e = EmitBytes(d, "data", fields, sz)
  OBVIOUS
<1>13. Kept(d, e) /\ e.curFunc = d.curFunc
  BY <1>11, <1>12, EmitBytesKept
<1>14. e = GlobalVarDefine(c, gv, fields, sz, alignment)
  BY <1>1, <1>2, <1>5, <1>8, <1>9, <1>12 DEF GlobalVarDefine, PutSymbol
<1>15. Kept(c, d)
  BY <1>6, <1>10, KeptTrans
<1> QED
  BY <1>6, <1>10, <1>13, <1>14, <1>15, KeptTrans

(* jx64_funcBegin. *)
LEMMA FuncBeginKept ==
  ASSUME NEW c, ContextOK(c), NEW func \in 0 .. Len(c.symbols)
  PROVE  Kept(c, FuncBegin(c, func))
<1>1. CASE c.curFunc # NoSymbol
  BY <1>1, KeptSelf DEF FuncBegin
<1>2. CASE c.curFunc = NoSymbol
  <2>1. PICK u : u = [c.symbols[func] EXCEPT !.offset = TextSize(c)]
    OBVIOUS
  <2>2. DOMAIN c = {"section", "symbols", "labels", "curFunc", "buffer"}
    BY DEF ContextOK
  <2>3. PICK d : d = [c EXCEPT !.symbols = [c.symbols EXCEPT ![func] = u]]
    OBVIOUS
  <2>4. Retouched(c.symbols[func], u)
    BY <2>1 DEF Retouched, SymbolOK
  <2>5. Kept(c, d)
    BY <2>3, <2>4, ResymbolKept
  <2>6. PICK e : e = [d EXCEPT !.curFunc = func]
    OBVIOUS
  <2>7. e = FuncBegin(c, func)
    BY <1>2, <2>1, <2>2, <2>3, <2>6 DEF FuncBegin
  <2>8. ContextOK(d) /\ Len(d.symbols) >= Len(c.symbols)
    BY <2>5, SeqDomain DEF Kept, Extends
  <2>9. /\ DOMAIN e = DOMAIN d /\ e.section = d.section /\ e.labels = d.labels /\ e.symbols = d.symbols
        /\ e.curFunc = func
    BY <2>2, <2>3, <2>6
  <2>10. Resymboled(d, e)
    <3>1. Len(d.symbols) \in Nat /\ Len(c.symbols) \in Nat
      BY <2>8, SeqDomain DEF ContextOK
    <3>2. func \in 0 .. Len(d.symbols)
      BY <3>1, <2>8
    <3> QED
      BY <2>8, <2>9, <3>1, <3>2 DEF Resymboled, ContextOK
  <2>11. Kept(d, e)
    BY <2>8, <2>10, ResymboledKept
  <2> QED
    BY <2>5, <2>7, <2>11, KeptTrans
<1> QED
  BY <1>1, <1>2

(* jx64_funcEnd. *)
LEMMA FuncEndKept ==
  ASSUME NEW c, ContextOK(c)
  PROVE  Kept(c, FuncEnd(c))
<1>1. CASE c.curFunc = NoSymbol
  BY <1>1, KeptSelf DEF FuncEnd
<1>2. CASE c.curFunc # NoSymbol
  <2>1. PICK u : u = [c.symbols[c.curFunc] EXCEPT !.size = FuncSize(c, c.curFunc)]
    OBVIOUS
  <2>2. DOMAIN c = {"section", "symbols", "labels", "curFunc", "buffer"}
    BY DEF ContextOK
  <2>3. PICK d : d = [c EXCEPT !.symbols = [c.symbols EXCEPT ![c.curFunc] = u]]
    OBVIOUS
  <2>4. Retouched(c.symbols[c.curFunc], u)
    BY <2>1 DEF Retouched, SymbolOK
  <2>5. Kept(c, d)
    BY <2>3, <2>4, ResymbolKept
  <2>6. PICK e : e = [d EXCEPT !.curFunc = NoSymbol]
    OBVIOUS
  <2>7. e = FuncEnd(c)
    BY <1>2, <2>1, <2>2, <2>3, <2>6 DEF FuncEnd
  <2>8. ContextOK(d)
    BY <2>5 DEF Kept, Extends
  <2>9. /\ DOMAIN e = DOMAIN d /\ e.section = d.section /\ e.labels = d.labels /\ e.symbols = d.symbols
        /\ e.curFunc = 0
    BY <2>2, <2>3, <2>6 DEF NoSymbol
  <2>10. Resymboled(d, e)
    <3>1. Len(d.symbols) \in Nat
      BY <2>8, SeqDomain DEF ContextOK
    <3> QED
      BY <2>8, <2>9, <3>1 DEF Resymboled, ContextOK
  <2>11. Kept(d, e)
    BY <2>8, <2>10, ResymboledKept
  <2> QED
    BY <2>5, <2>7, <2>11, KeptTrans
<1> QED
  BY <1>1, <1>2

(* An instruction that names a symbol is emitted. *)
LEMMA UseSymbolKept ==
  ASSUME NEW c, ContextOK(c), NEW sym, NEW opcode \in Nat, NEW imm \in Nat
  PROVE  Kept(c, UseSymbol(c, sym, opcode, imm))
<1>1. PICK where : where = TextSize(c) - c.symbols[c.curFunc].offset + opcode
  OBVIOUS
<1>2. PICK kind : kind = [rel |-> TRUE, delta |-> RelocDelta(imm)]
  OBVIOUS
<1>3. PICK d : d = SymbolAddRelocation(c, c.curFunc, kind, where, c.symbols[sym].name)
  OBVIOUS
<1>4. Kept(c, d)
  BY <1>3, SymbolAddRelocationKept
<1>5. ContextOK(d)
  BY <1>4 DEF Kept, Extends
<1>6. PICK fields : fields = [o \in {opcode} |-> 0]
  OBVIOUS
<1>7. DOMAIN fields \subseteq 0 .. (opcode + 4 + imm) - 1 /\ opcode + 4 + imm \in Nat
  BY <1>6
<1>8. Kept(d, EmitBytes(d, "text", fields, opcode + 4 + imm))
  BY <1>5, <1>7, EmitBytesKept
<1>9. UseSymbol(c, sym, opcode, imm) = EmitBytes(d, "text", fields, opcode + 4 + imm)
  BY <1>1, <1>2, <1>3, <1>6 DEF UseSymbol
<1> QED
  BY <1>4, <1>8, <1>9, KeptTrans

(* A sequence of parts is a name. *)
LEMMA NamesAreSeqs ==
  ASSUME NEW S, NEW s \in Seq(S), s[1] # "block"
  PROVE  IsName(s)
<1>1. s \in [1 .. Len(s) -> S] /\ Len(s) \in Nat
  OBVIOUS
<1>2. s \in [1 .. Len(s) -> Range(s)]
  BY <1>1 DEF Range
<1>3. s \in Seq(Range(s))
  BY <1>1, <1>2
<1> QED
  BY <1>3 DEF IsName

(* The name of a floating point constant is never a block. *)
LEMMA ConstantNameOK == \A op : IsName(ConstantName(op))
<1> TAKE op
<1>1. PICK s : s = ConstantName(op)
  OBVIOUS
<1>2. s = <<IF op.type = "f32" THEN "f32c_" ELSE "f64c_", op.bits>>
  BY <1>1 DEF ConstantName
<1>3. PICK S : S = {"f32c_", "f64c_", op.bits}
  OBVIOUS
<1>4. s \in Seq(S)
  BY <1>2, <1>3
<1>5. s[1] # "block"
  BY <1>2
<1> QED
  BY <1>1, <1>4, <1>5, NamesAreSeqs

(* Nor is that of an external function's slot. *)
LEMMA IATNameOK ==
  ASSUME NEW name, IsName(name)
  PROVE  IsName(IATName(name))
<1>1. PICK S : S = Range(name) \union {"__iat_"}
  OBVIOUS
<1>2. name \in Seq(S)
  <2>1. name \in Seq(Range(name))
    BY DEF IsName
  <2> QED
    BY <1>1, <2>1
<1>3. PICK head : head = <<"__iat_">>
  OBVIOUS
<1>4. head \in Seq(S) /\ Len(head) = 1 /\ head[1] = "__iat_"
  BY <1>1, <1>3
<1>5. PICK s : s = head \o name
  OBVIOUS
<1>6. s \in Seq(S)
  BY <1>2, <1>4, <1>5
<1>7. s[1] = head[1]
  BY <1>2, <1>4, <1>5, ConcatProperties
<1>8. s = IATName(name)
  BY <1>3, <1>5 DEF IATName
<1>9. s[1] # "block"
  BY <1>4, <1>7
<1> QED
  BY <1>6, <1>8, <1>9, NamesAreSeqs

(* A constant is defined while the function is being emitted. *)
LEMMA WithConstantKept ==
  ASSUME NEW c, ContextOK(c), NEW op, op.type \in {"f32", "f64"}
  PROVE  Kept(c, WithConstant(c, op))
<1>1. PICK d : d = Declare(c, "variable", ConstantName(op))
  OBVIOUS
<1>2. Kept(c, d)
  BY <1>1, ConstantNameOK, DeclareKept
<1>3. ContextOK(d)
  BY <1>2 DEF Kept, Extends
<1>4. PICK n : n = BitsOf[op.type] \div 8
  OBVIOUS
<1>5. n \in Nat \ {0}
  BY <1>4 DEF BitsOf
<1>6. DOMAIN NoField \subseteq 0 .. n - 1
  BY DEF NoField
<1>7. PICK e : e = GlobalVarDefine(d, Len(c.symbols) + 1, NoField, n, n)
  OBVIOUS
<1>8. Kept(d, e)
  BY <1>3, <1>5, <1>6, <1>7, GlobalVarDefineKept
<1>9. Kept(c, e)
  BY <1>2, <1>8, KeptTrans
<1>10. WithConstant(c, op) = c \/ WithConstant(c, op) = e
  BY <1>1, <1>4, <1>7 DEF WithConstant
<1> QED
  BY <1>9, <1>10, KeptSelf

(* An operand is converted. *)
LEMMA WithOperandKept ==
  ASSUME NEW c, ContextOK(c), NEW op, NEW n, MIROperand(op, n)
  PROVE  Kept(c, WithOperand(c, op))
<1>1. CASE op.kind = "float"
  <2>1. op.type \in {"f32", "f64"}
    BY <1>1 DEF MIROperand
  <2>2. WithOperand(c, op) = WithConstant(c, op)
    BY <1>1 DEF WithOperand
  <2> QED
    BY <2>1, <2>2, WithConstantKept
<1>2. CASE op.kind = "ext"
  <2>1. PICK d : d = Declare(c, "function", op.name)
    OBVIOUS
  <2>2. IsName(op.name)
    BY <1>2 DEF MIROperand
  <2>3. Kept(c, d)
    BY <2>1, <2>2, DeclareKept
  <2>4. WithOperand(c, op) = WithIntrinsic(c, op.name)
    BY <1>2 DEF WithOperand
  <2>5. WithOperand(c, op) = c \/ WithOperand(c, op) = d
    BY <2>1, <2>4 DEF WithIntrinsic
  <2> QED
    BY <2>3, <2>5, KeptSelf
<1>3. CASE op.kind \notin {"float", "ext"}
  <2>1. WithOperand(c, op) = c
    BY <1>3 DEF WithOperand
  <2> QED
    BY <2>1, KeptSelf
<1> QED
  BY <1>1, <1>2, <1>3

(* The operands are converted, one after the other. *)
LEMMA WithOperandsKept ==
  ASSUME NEW c, ContextOK(c), NEW args, NEW n, \A i \in DOMAIN args : MIROperand(args[i], n),
         args \in Seq(Range(args)), Len(args) \in 0 .. 3
  PROVE  Kept(c, WithOperands(c, args))
<1>0. DOMAIN args = 1 .. Len(args) /\ Len(args) \in {0, 1, 2, 3}
  OBVIOUS
<1>1. CASE Len(args) = 0
  <2>1. WithOperands(c, args) = c
    BY <1>1 DEF WithOperands
  <2> QED
    BY <2>1, KeptSelf
<1>2. CASE Len(args) \in {1, 2, 3}
  <2>1. PICK d : d = WithOperand(c, args[1])
    OBVIOUS
  <2>2. MIROperand(args[1], n)
    BY <1>0, <1>2
  <2>3. Kept(c, d)
    BY <2>1, <2>2, WithOperandKept
  <2>4. ContextOK(d)
    BY <2>3 DEF Kept, Extends
  <2>5. CASE Len(args) = 1
    <3>1. WithOperands(c, args) = d
      BY <2>1, <2>5 DEF WithOperands
    <3> QED
      BY <2>3, <3>1
  <2>6. CASE Len(args) \in {2, 3}
    <3>1. PICK e : e = WithOperand(d, args[2])
      OBVIOUS
    <3>2. MIROperand(args[2], n)
      BY <1>0, <2>6
    <3>3. Kept(d, e)
      BY <2>4, <3>1, <3>2, WithOperandKept
    <3>4. ContextOK(e) /\ Kept(c, e)
      BY <2>3, <3>3, KeptTrans DEF Kept, Extends
    <3>5. CASE Len(args) = 2
      <4>1. WithOperands(c, args) = e
        BY <2>1, <3>1, <3>5 DEF WithOperands
      <4> QED
        BY <3>4, <4>1
    <3>6. CASE Len(args) = 3
      <4>1. PICK f : f = WithOperand(e, args[3])
        OBVIOUS
      <4>2. MIROperand(args[3], n)
        BY <1>0, <3>6
      <4>3. Kept(e, f)
        BY <3>4, <4>1, <4>2, WithOperandKept
      <4>4. WithOperands(c, args) = f
        BY <2>1, <3>1, <3>6, <4>1 DEF WithOperands
      <4> QED
        BY <3>4, <4>3, <4>4, KeptTrans
    <3> QED
      BY <2>6, <3>5, <3>6
  <2> QED
    BY <1>2, <2>5, <2>6
<1> QED
  BY <1>0, <1>1, <1>2

(* The stub of an external function, the slot of an external variable. *)
LEMMA DefineExternalKept ==
  ASSUME NEW c, ContextOK(c), NEW sym \in 1 .. Len(c.symbols)
  PROVE  Kept(c, DefineExternal(c, sym))
<1>1. PICK name : name = c.symbols[sym].name
  OBVIOUS
<1>2. IsName(name)
  BY <1>1, SeqDomain DEF ContextOK, SymbolOK
<1>3. PICK addr : addr = [o \in {0} |-> ExternalAddress(name)]
  OBVIOUS
<1>4. DOMAIN addr \subseteq 0 .. 8 - 1
  BY <1>3
<1>5. CASE c.symbols[sym].size # 0
  BY <1>5, KeptSelf DEF DefineExternal
<1>6. CASE c.symbols[sym].size = 0 /\ c.symbols[sym].kind # "function"
  <2>1. PICK d : d = GlobalVarDefine(c, sym, addr, 8, 8)
    OBVIOUS
  <2>2. Kept(c, d)
    BY <1>4, <2>1, GlobalVarDefineKept
  <2>3. DefineExternal(c, sym) = d
    BY <1>1, <1>3, <1>6, <2>1 DEF DefineExternal
  <2> QED
    BY <2>2, <2>3
<1>7. CASE c.symbols[sym].size = 0 /\ c.symbols[sym].kind = "function"
  <2>1. PICK d : d = Declare(c, "variable", IATName(name))
    OBVIOUS
  <2>2. Kept(c, d)
    BY <1>2, <2>1, IATNameOK, DeclareKept
  <2>3. ContextOK(d)
    BY <2>2 DEF Kept, Extends
  <2>4. PICK iat : iat = GlobalVarDefine(d, Len(c.symbols) + 1, addr, 8, 8)
    OBVIOUS
  <2>5. Kept(d, iat)
    BY <1>4, <2>3, <2>4, GlobalVarDefineKept
  <2>6. Kept(c, iat)
    BY <2>2, <2>5, KeptTrans
  <2>7. ContextOK(iat) /\ sym \in 0 .. Len(iat.symbols)
    BY <2>6, SeqDomain DEF Kept, Extends, ContextOK
  <2>8. PICK e : e = FuncBegin(iat, sym)
    OBVIOUS
  <2>9. Kept(iat, e)
    BY <2>7, <2>8, FuncBeginKept
  <2>10. Kept(c, e) /\ ContextOK(e)
    BY <2>6, <2>9, KeptTrans DEF Kept, Extends
  <2>11. PICK f : f = UseSymbol(e, Len(iat.symbols), 2, 0)
    OBVIOUS
  <2>12. Kept(e, f)
    BY <2>10, <2>11, UseSymbolKept
  <2>13. Kept(c, f) /\ ContextOK(f)
    BY <2>10, <2>12, KeptTrans DEF Kept, Extends
  <2>14. Kept(c, FuncEnd(f))
    BY <2>13, FuncEndKept, KeptTrans
  <2>15. iat = IATEntry(c, name)
    BY <1>3, <2>1, <2>4 DEF IATEntry
  <2>16. DefineExternal(c, sym) = FuncEnd(f)
    BY <1>1, <1>7, <2>8, <2>11, <2>15 DEF DefineExternal
  <2> QED
    BY <2>14, <2>16
<1> QED
  BY <1>5, <1>6, <1>7

(* The pointers of a variable become relocations. *)
LEMMA AddPointersKept ==
  ASSUME NEW c, ContextOK(c), NEW i
  PROVE  Kept(c, AddPointers(c, i))
<1>1. PICK ps : ps = prog.globals[i].pointers
  OBVIOUS
<1>2. PICK r : r = c.symbols[i].relocs \o [n \in DOMAIN ps |->
         [kind |-> [rel |-> FALSE, delta |-> 0], offset |-> ps[n].at, name |-> ps[n].name]]
  OBVIOUS
<1>3. PICK u : u = [c.symbols[i] EXCEPT !.relocs = r]
  OBVIOUS
<1>4. DOMAIN c = {"section", "symbols", "labels", "curFunc", "buffer"}
  BY DEF ContextOK
<1>5. AddPointers(c, i) = [c EXCEPT !.symbols = [c.symbols EXCEPT ![i] = u]]
  <2>1. AddPointers(c, i) = [c EXCEPT !.symbols[i].relocs = r]
    BY <1>1, <1>2, <1>4 DEF AddPointers, GlobalSym
  <2> QED
    BY <1>3, <1>4, <2>1
<1>6. Retouched(c.symbols[i], u)
  BY <1>3 DEF Retouched, SymbolOK
<1> QED
  BY <1>5, <1>6, ResymbolKept

(* d is c with other labels. *)
Relabeled(c, d, labels) ==
  /\ DOMAIN d = {"section", "symbols", "labels", "curFunc", "buffer"}
  /\ d.section = c.section /\ d.symbols = c.symbols /\ d.curFunc = c.curFunc
  /\ d.labels = labels
LabelSeq(labels) == IsSeq(labels) /\ \A l \in DOMAIN labels : LabelOK(labels[l])

(* A change of the labels keeps everything else. *)
LEMMA RelabeledExtends ==
  ASSUME NEW c, ContextOK(c), NEW labels, LabelSeq(labels), NEW d, Relabeled(c, d, labels)
  PROVE  Extends(c, d) /\ d.labels = labels
<1>1. Len(c.symbols) \in Nat /\ TextSize(c) \in Nat
  BY SeqDomain DEF ContextOK, SectionOK, TextSize
<1>2. TextSize(d) = TextSize(c) /\ TextField(d) = TextField(c)
  BY DEF Relabeled, TextSize, TextField
<1>3. ContextOK(d)
  BY DEF ContextOK, Relabeled, LabelSeq
<1> QED
  BY <1>1, <1>2, <1>3 DEF Extends, Relabeled

(* The labels are freed. *)
LEMMA FreeLabelsOK ==
  ASSUME NEW c, ContextOK(c)
  PROVE  Extends(c, FreeLabels(c)) /\ FreeLabels(c).labels = <<>>
<1>1. PICK d : d = FreeLabels(c)
  OBVIOUS
<1>2. DOMAIN c = {"section", "symbols", "labels", "curFunc", "buffer"}
  BY DEF ContextOK
<1>3. Relabeled(c, d, <<>>)
  BY <1>1, <1>2 DEF FreeLabels, Relabeled
<1>4. <<>> \in Seq({})
  OBVIOUS
<1>5. LabelSeq(<<>>)
  BY <1>4 DEF LabelSeq, IsSeq
<1> QED
  BY <1>1, <1>3, <1>5, RelabeledExtends

(* Labels that are not bound and that nothing refers to. *)
Fresh(labels, n) ==
  Len(labels) = n /\ \A l \in 1 .. n : labels[l].offset = Unbound /\ labels[l].refs = {}

(* The labels of a function are allocated. *)
LEMMA LabelAllocOK ==
  ASSUME NEW c, ContextOK(c), c.labels = <<>>, NEW n \in Nat
  PROVE  Extends(c, LabelAlloc(c, n)) /\ Fresh(LabelAlloc(c, n).labels, n)
<1>1. PICK d : d = LabelAlloc(c, n)
  OBVIOUS
<1>2. PICK new : new = [offset |-> Unbound, refs |-> {}]
  OBVIOUS
<1>3. PICK labels : labels = [l \in 1 .. n |-> new]
  OBVIOUS
<1>4. labels \in Seq({new}) /\ Len(labels) = n /\ DOMAIN labels = 1 .. n
  BY <1>3
<1>5. <<>> \o labels = labels
  BY <1>4
<1>6. DOMAIN c = {"section", "symbols", "labels", "curFunc", "buffer"}
  BY DEF ContextOK
<1>7. d = [c EXCEPT !.labels = labels]
  BY <1>1, <1>2, <1>3, <1>5, <1>6 DEF LabelAlloc
<1>8. Relabeled(c, d, labels)
  BY <1>6, <1>7 DEF Relabeled
<1>9. LabelOK(new) /\ new.offset = Unbound /\ new.refs = {}
  BY <1>2 DEF LabelOK, Unbound
<1>10. \A l \in 1 .. n : labels[l] = new
  BY <1>3
<1>11. LabelSeq(labels)
  BY <1>4, <1>9, <1>10 DEF LabelSeq, IsSeq
<1>12. Fresh(labels, n)
  BY <1>4, <1>9, <1>10 DEF Fresh
<1> QED
  BY <1>1, <1>8, <1>11, <1>12, RelabeledExtends

(* The sections are joined in the code buffer. *)
LEMMA JoinSectionsOK ==
  ASSUME NEW c, ContextOK(c)
  PROVE  Kept(c, JoinSections(c))
<1>1. PICK d : d = JoinSections(c)
  OBVIOUS
<1>2. DOMAIN c = {"section", "symbols", "labels", "curFunc", "buffer"} /\ DOMAIN c.section = {"text", "data"}
  BY DEF ContextOK
<1>3. PICK start : start = [s \in {"text", "data"} |-> IF s = "text" THEN 0 ELSE DataStart(c)]
  OBVIOUS
<1>4. PICK secs : secs = [s \in DOMAIN c.section |-> [c.section[s] EXCEPT !.start = start[s]]]
  OBVIOUS
<1>5. DOMAIN d = DOMAIN c /\ d.section = secs /\ d.symbols = c.symbols /\ d.labels = c.labels /\ d.curFunc = c.curFunc
  BY <1>1, <1>2, <1>3, <1>4 DEF JoinSections
<1>6. ASSUME NEW s \in {"text", "data"}
      PROVE  /\ SectionOK(secs[s])
             /\ secs[s].size = c.section[s].size /\ secs[s].field = c.section[s].field
  <2>1. SectionOK(c.section[s])
    BY DEF ContextOK
  <2>2. secs[s] = [c.section[s] EXCEPT !.start = start[s]]
    BY <1>2, <1>4
  <2> QED
    BY <2>1, <2>2 DEF SectionOK
<1>7. ContextOK(d)
  BY <1>2, <1>4, <1>5, <1>6 DEF ContextOK
<1>8. TextSize(d) = TextSize(c) /\ TextField(d) = TextField(c)
  BY <1>5, <1>6 DEF TextSize, TextField
<1>9. Len(c.symbols) \in Nat /\ TextSize(c) \in Nat
  BY SeqDomain DEF ContextOK, SectionOK, TextSize
<1> QED
  BY <1>1, <1>5, <1>7, <1>8, <1>9 DEF Kept, Extends

(* A relocation writes to the code buffer only. *)
LEMMA ApplyRelocationOK ==
  ASSUME NEW c, ContextOK(c), NEW sym, NEW reloc
  PROVE  Kept(c, ApplyRelocation(c, sym, reloc))
<1>1. PICK d : d = ApplyRelocation(c, sym, reloc)
  OBVIOUS
<1>2. DOMAIN c = {"section", "symbols", "labels", "curFunc", "buffer"}
  BY DEF ContextOK
<1>3. PICK target : target = InBuffer(c, SymbolGetByName(c, reloc.name))
  OBVIOUS
<1>4. PICK patch : patch = InBuffer(c, sym) + reloc.offset
  OBVIOUS
<1>5. PICK x : x = IF reloc.kind.rel THEN c.buffer[patch] + target - (patch + 4 + reloc.kind.delta)
                   ELSE BufferAddress + target
  OBVIOUS
<1>6. d = [c EXCEPT !.buffer[patch] = x]
  BY <1>1, <1>2, <1>3, <1>4, <1>5 DEF ApplyRelocation
<1>7. DOMAIN d = DOMAIN c /\ d.section = c.section /\ d.symbols = c.symbols /\ d.labels = c.labels /\ d.curFunc = c.curFunc
  BY <1>2, <1>6
<1>8. Len(c.symbols) \in Nat /\ \A s \in DOMAIN c.symbols : SymbolOK(c.symbols[s])
  BY SeqDomain DEF ContextOK
<1>9. Resymboled(c, d)
  BY <1>2, <1>7, <1>8 DEF Resymboled, ContextOK
<1> QED
  BY <1>1, <1>9, ResymboledKept

(* What binding the label l does. *)
Patched(c, l, d) ==
  /\ ContextOK(d)
  /\ d.symbols = c.symbols
  /\ Len(d.labels) = Len(c.labels) /\ d.labels[l].offset = TextSize(c)
  /\ \A k \in 1 .. Len(c.labels) : k # l => d.labels[k] = c.labels[k]
  /\ DOMAIN TextField(d) = DOMAIN TextField(c)
  /\ \A o \in DOMAIN TextField(c) :
       IF \E r \in c.labels[l].refs : r.disp = o
       THEN \E r \in c.labels[l].refs : r.disp = o /\ TextField(d)[o] = TextSize(c) - r.next
       ELSE TextField(d)[o] = TextField(c)[o]

(* jx64_labelBind patches exactly the fields that the label refers to. *)
LEMMA LabelBindOK ==
  ASSUME NEW c, ContextOK(c), NEW l \in 1 .. Len(c.labels),
         \A r \in c.labels[l].refs : r.disp \in DOMAIN TextField(c)
  PROVE  Patched(c, l, LabelBind(c, l))
<1>1. PICK d : d = LabelBind(c, l)
  OBVIOUS
<1>2. DOMAIN c = {"section", "symbols", "labels", "curFunc", "buffer"} /\ DOMAIN c.section = {"text", "data"}
  BY DEF ContextOK
<1>3. PICK refs : refs = c.labels[l].refs
  OBVIOUS
<1>4. PICK here : here = TextSize(c)
  OBVIOUS
<1>5. PICK patches : patches = [o \in {r.disp : r \in refs} |-> here - (CHOOSE r \in refs : r.disp = o).next]
  OBVIOUS
<1>6. PICK f : f = Overwrite(TextField(c), patches)
  OBVIOUS
<1>7. PICK lab : lab = [c.labels[l] EXCEPT !.offset = here]
  OBVIOUS
<1>8. PICK labels : labels = [c.labels EXCEPT ![l] = lab]
  OBVIOUS
<1>9. PICK text : text = [c.section["text"] EXCEPT !.field = f]
  OBVIOUS
<1>10. PICK secs : secs = [c.section EXCEPT !["text"] = text]
  OBVIOUS
<1>11. d = [c EXCEPT !.labels = labels, !.section = secs]
  <2>1. d = [c EXCEPT !.labels[l].offset = here, !.section["text"].field = f]
    BY <1>1, <1>2, <1>3, <1>4, <1>5, <1>6 DEF LabelBind, TextField
  <2> QED
    BY <1>2, <1>7, <1>8, <1>9, <1>10, <2>1
<1>12. /\ DOMAIN d = DOMAIN c /\ d.labels = labels /\ d.section = secs
       /\ d.symbols = c.symbols /\ d.curFunc = c.curFunc
  BY <1>2, <1>11
<1>13. IsSeq(c.labels) /\ Len(c.labels) \in Nat /\ DOMAIN c.labels = 1 .. Len(c.labels)
  BY SeqDomain DEF ContextOK
<1>14. IsSeq(labels) /\ Len(labels) = Len(c.labels) /\ DOMAIN labels = 1 .. Len(c.labels)
  BY <1>8, <1>13, UpdateSeq, SeqDomain
<1>15. labels[l] = lab /\ \A k \in 1 .. Len(c.labels) : k # l => labels[k] = c.labels[k]
  BY <1>8, <1>13
<1>16. here \in Nat /\ SectionOK(c.section["text"])
  BY <1>4 DEF ContextOK, SectionOK, TextSize
<1>17. LabelOK(c.labels[l])
  BY <1>13 DEF ContextOK
<1>18. LabelOK(lab) /\ lab.offset = here
  BY <1>7, <1>16, <1>17 DEF LabelOK
<1>19. \A k \in DOMAIN labels : LabelOK(labels[k])
  BY <1>13, <1>14, <1>15, <1>18 DEF ContextOK
<1>20. DOMAIN patches = {r.disp : r \in refs}
  BY <1>5
<1>21. DOMAIN f = DOMAIN TextField(c) /\ \A o \in DOMAIN f : f[o] = IF o \in DOMAIN patches THEN patches[o] ELSE TextField(c)[o]
  <2>1. DOMAIN patches \subseteq DOMAIN TextField(c)
    BY <1>3, <1>20
  <2> QED
    BY <1>6, <2>1 DEF Overwrite
<1>22. text.field = f /\ SectionOK(text)
  <2>1. DOMAIN f = DOMAIN c.section["text"].field
    BY <1>21 DEF TextField
  <2> QED
    BY <1>9, <1>16, <2>1 DEF SectionOK
<1>23. DOMAIN secs = {"text", "data"} /\ secs["text"] = text /\ secs["data"] = c.section["data"]
  BY <1>2, <1>10
<1>24. ContextOK(d)
  <2>1. SectionOK(d.section["text"]) /\ SectionOK(d.section["data"])
    BY <1>12, <1>22, <1>23 DEF ContextOK
  <2> QED
    BY <1>2, <1>12, <1>14, <1>19, <1>23, <2>1 DEF ContextOK
<1>25. TextField(d) = f
  BY <1>12, <1>22, <1>23 DEF TextField
<1>26. ASSUME NEW o \in DOMAIN TextField(c)
       PROVE  IF \E r \in refs : r.disp = o
              THEN \E r \in refs : r.disp = o /\ f[o] = here - r.next
              ELSE f[o] = TextField(c)[o]
  <2>1. CASE \E r \in refs : r.disp = o
    <3>1. PICK q : q = CHOOSE r \in refs : r.disp = o
      OBVIOUS
    <3>2. q \in refs /\ q.disp = o
      BY <2>1, <3>1
    <3>3. o \in DOMAIN patches
      BY <1>20, <3>2
    <3>4. patches[o] = here - q.next
      BY <1>5, <1>20, <3>1, <3>3
    <3>5. f[o] = here - q.next
      BY <1>21, <3>3, <3>4
    <3> QED
      BY <2>1, <3>2, <3>5
  <2>2. CASE ~ \E r \in refs : r.disp = o
    <3>1. o \notin DOMAIN patches
      BY <1>20, <2>2
    <3> QED
      BY <1>21, <2>2, <3>1
  <2> QED
    BY <2>1, <2>2
<1>27. DOMAIN TextField(d) = DOMAIN TextField(c)
  BY <1>21, <1>25
<1>28. d.labels[l].offset = TextSize(c) /\ Len(d.labels) = Len(c.labels)
       /\ \A k \in 1 .. Len(c.labels) : k # l => d.labels[k] = c.labels[k]
  BY <1>4, <1>12, <1>14, <1>15, <1>18
<1> QED
  BY <1>1, <1>3, <1>4, <1>12, <1>24, <1>25, <1>26, <1>27, <1>28 DEF Patched

(* What a jump to the label l does. *)
Jumped(c, l, opcode, d) ==
  /\ Extends(c, d)
  /\ TextSize(c) + opcode \in DOMAIN TextField(d)
  /\ IF c.labels[l].offset # Unbound
     THEN /\ d.labels = c.labels
          /\ TextField(d)[TextSize(c) + opcode] = c.labels[l].offset - TextSize(c) - (opcode + 4)
     ELSE d.labels = [c.labels EXCEPT ![l] = [c.labels[l] EXCEPT !.refs = c.labels[l].refs \union {LabelRef(c, opcode)}]]

(* A jump to a bound label is complete; one to a label that is not leaves a reference. *)
LEMMA JumpToLabelOK ==
  ASSUME NEW c, ContextOK(c), NEW l \in 1 .. Len(c.labels), NEW opcode \in Nat
  PROVE  Jumped(c, l, opcode, JumpToLabel(c, l, opcode))
<1>1. PICK e : e = JumpToLabel(c, l, opcode)
  OBVIOUS
<1>2. PICK bound : bound = (c.labels[l].offset # Unbound)
  OBVIOUS
<1>3. PICK n : n = opcode + 4
  OBVIOUS
<1>4. PICK disp : disp = IF bound THEN c.labels[l].offset - TextSize(c) - n ELSE -n
  OBVIOUS
<1>5. PICK refs : refs = IF bound THEN c.labels[l].refs ELSE c.labels[l].refs \union {LabelRef(c, opcode)}
  OBVIOUS
<1>6. PICK lab : lab = [c.labels[l] EXCEPT !.refs = refs]
  OBVIOUS
<1>7. PICK labels : labels = [c.labels EXCEPT ![l] = lab]
  OBVIOUS
<1>8. PICK d : d = [c EXCEPT !.labels = labels]
  OBVIOUS
<1>9. PICK fields : fields = [o \in {opcode} |-> disp]
  OBVIOUS
<1>10. DOMAIN c = {"section", "symbols", "labels", "curFunc", "buffer"}
  BY DEF ContextOK
<1>11. e = EmitBytes(d, "text", fields, n)
  <2>1. d = [c EXCEPT !.labels[l].refs = refs]
    BY <1>6, <1>7, <1>8, <1>10
  <2>2. d = [c EXCEPT !.labels[l].refs = IF bound THEN @ ELSE @ \union {LabelRef(c, opcode)}]
    BY <1>5, <2>1
  <2> QED
    BY <1>1, <1>2, <1>3, <1>4, <1>9, <2>2 DEF JumpToLabel
<1>12. IsSeq(c.labels) /\ Len(c.labels) \in Nat /\ DOMAIN c.labels = 1 .. Len(c.labels)
  BY SeqDomain DEF ContextOK
<1>13. IsSeq(labels) /\ Len(labels) = Len(c.labels) /\ DOMAIN labels = 1 .. Len(c.labels)
  BY <1>7, <1>12, UpdateSeq, SeqDomain
<1>14. labels[l] = lab /\ \A k \in 1 .. Len(c.labels) : k # l => labels[k] = c.labels[k]
  BY <1>7, <1>12
<1>15. LabelOK(c.labels[l])
  BY <1>12 DEF ContextOK
<1>16. LabelOK(lab)
  BY <1>6, <1>15 DEF LabelOK
<1>17. LabelSeq(labels)
  BY <1>12, <1>13, <1>14, <1>16 DEF LabelSeq, ContextOK
<1>18. Relabeled(c, d, labels)
  BY <1>8, <1>10 DEF Relabeled
<1>19. Extends(c, d) /\ d.labels = labels /\ ContextOK(d)
  BY <1>17, <1>18, RelabeledExtends DEF Extends
<1>20. n \in Nat /\ DOMAIN fields \subseteq 0 .. n - 1 /\ fields[opcode] = disp /\ opcode \in DOMAIN fields
  BY <1>3, <1>9
<1>21. Emitted(d, "text", fields, n, e)
  BY <1>11, <1>19, <1>20, EmitBytesOK
<1>22. Kept(d, e)
  BY <1>20, <1>21, <1>19, EmittedKept
<1>23. Extends(c, e) /\ e.labels = labels
  BY <1>19, <1>22, ExtendsTrans DEF Kept
<1>24. TextSize(d) = TextSize(c)
  BY <1>18 DEF Relabeled, TextSize
<1>25. TextSize(c) + opcode \in DOMAIN TextField(e) /\ TextField(e)[TextSize(c) + opcode] = disp
  BY <1>20, <1>21, <1>24 DEF Emitted, Grown, TextSize, TextField
<1>26. CASE bound
  <2>1. lab = c.labels[l]
    BY <1>5, <1>6, <1>15, <1>26 DEF LabelOK
  <2>2. labels = c.labels
    <3>1. PICK S : c.labels \in Seq(S)
      BY <1>12 DEF IsSeq
    <3>2. c.labels \in [1 .. Len(c.labels) -> S]
      BY <3>1
    <3>3. labels = [c.labels EXCEPT ![l] = c.labels[l]]
      BY <1>7, <2>1
    <3> QED
      BY <3>2, <3>3
  <2> QED
    BY <1>1, <1>2, <1>3, <1>4, <1>23, <1>25, <1>26, <2>2 DEF Jumped
<1>27. CASE ~bound
  BY <1>1, <1>2, <1>5, <1>6, <1>7, <1>23, <1>25, <1>27 DEF Jumped
<1> QED
  BY <1>26, <1>27

(* Bytes by their position. *)
LEMMA FunctionsAreSeqs == \A n \in Nat : \A s \in [1 .. n -> Int] : s \in Seq(Int) /\ Len(s) = n
OBVIOUS

(* A constant is extended to eight bytes. *)
LEMMA SignExtended ==
  ASSUME NEW v \in [1 .. 8 -> 0 .. 255], NEW n \in 1 .. 8
  PROVE  IsVal(SignExtend(v, n, 8))
<1>1. PICK s : s = SignExtend(v, n, 8)
  OBVIOUS
<1>2. s = [i \in 1 .. 8 |-> IF i <= n THEN v[i] ELSE SignByte(v[n])]
  BY <1>1 DEF SignExtend
<1>3. SignByte(v[n]) \in Int
  BY DEF SignByte
<1>4. s \in [1 .. 8 -> Int]
  BY <1>2, <1>3
<1>5. s \in Seq(Int) /\ Len(s) = 8
  BY <1>4, FunctionsAreSeqs
<1> QED
  BY <1>1, <1>5 DEF IsVal

(* What an operand of machine IR becomes. *)
Converts(op, o) ==
  /\ Operand(o)
  /\ o.kind = "lbl" <=> op.kind = "bb"
  /\ op.kind = "bb" => o.block = op.block
  /\ op.kind = "reg" <=> o.kind = "reg"
  /\ op.kind = "reg" /\ ~IsXMM(op.type) => o.size \in ImmSizes

(* jx_x64gen_convertMIROperand gives the assembler an operand that it knows. *)
LEMMA ConvertedOperand ==
  ASSUME NEW op, NEW n, MIROperand(op, n)
  PROVE  Converts(op, ConvertMIROperand(op))
<1>1. PICK o : o = ConvertMIROperand(op)
  OBVIOUS
<1>2. op.kind \in {"reg", "const", "float", "bb", "ext", "mem"}
  BY DEF MIROperand
<1>3. CASE op.kind = "reg"
  <2>1. PICK size : size = IF IsXMM(op.type) THEN 128 ELSE BitsOf[op.type]
    OBVIOUS
  <2>2. o = [kind |-> "reg", id |-> op.id, size |-> size]
    BY <1>1, <1>3, <2>1 DEF ConvertMIROperand
  <2>3. op.type \in {"i8", "i16", "i32", "i64", "ptr", "f32", "f64", "f128"}
    BY <1>3 DEF MIROperand, BitsOf
  <2>4. size \in Sizes /\ (~IsXMM(op.type) => size \in ImmSizes)
    BY <2>1, <2>3 DEF BitsOf, Sizes, ImmSizes, IsXMM
  <2> QED
    BY <1>1, <1>3, <2>2, <2>4 DEF Converts, Operand
<1>4. CASE op.kind = "const"
  <2>1. PICK bits : bits = BitsOf[op.type]
    OBVIOUS
  <2>2. op.type \in {"i8", "i16", "i32", "i64", "ptr"} /\ op.val \in [1 .. 8 -> 0 .. 255]
    BY <1>4 DEF MIROperand
  <2>3. bits \in ImmSizes /\ bits \in Sizes
    BY <2>1, <2>2 DEF BitsOf, Sizes, ImmSizes
  <2>4. PICK v : v = SignExtend(op.val, bits \div 8, 8)
    OBVIOUS
  <2>5. IsVal(v)
    <3>1. bits \div 8 \in 1 .. 8
      BY <2>3 DEF ImmSizes
    <3> QED
      BY <2>2, <2>4, <3>1, SignExtended
  <2>6. o = [kind |-> "imm", size |-> bits, val |-> v]
    BY <1>1, <1>4, <2>1, <2>4 DEF ConvertMIROperand
  <2> QED
    BY <1>1, <1>4, <2>3, <2>5, <2>6 DEF Converts, Operand
<1>5. CASE op.kind \in {"float", "ext"}
  <2>1. PICK bits : bits = IF op.kind = "ext" THEN 64 ELSE BitsOf[op.type]
    OBVIOUS
  <2>2. op.kind = "float" => op.type \in {"f32", "f64"}
    BY DEF MIROperand
  <2>3. bits \in Sizes
    BY <1>5, <2>1, <2>2 DEF BitsOf, Sizes
  <2>4. o = [kind |-> "sym", size |-> bits, name |-> SymbolName(op)]
    BY <1>1, <1>5, <2>1 DEF ConvertMIROperand
  <2> QED
    BY <1>1, <1>5, <2>3, <2>4 DEF Converts, Operand
<1>6. CASE op.kind = "bb"
  <2>1. o = [kind |-> "lbl", block |-> op.block]
    BY <1>1, <1>6 DEF ConvertMIROperand
  <2> QED
    BY <1>1, <1>6, <2>1 DEF Converts, Operand
<1>7. CASE op.kind = "mem"
  <2>1. PICK bits : bits = BitsOf[op.type]
    OBVIOUS
  <2>2. op.type \in {"i8", "i16", "i32", "i64", "ptr", "f32", "f64", "f128"} /\ op.disp \in [1 .. 4 -> 0 .. 255]
    BY <1>7 DEF MIROperand, BitsOf
  <2>3. bits \in Sizes
    BY <2>1, <2>2 DEF BitsOf, Sizes
  <2>4. op.disp \in Seq(Int) /\ Len(op.disp) = 4
    <3>1. op.disp \in [1 .. 4 -> Int]
      BY <2>2
    <3> QED
      BY <3>1, FunctionsAreSeqs
  <2>5. o = [kind |-> "mem", size |-> bits, base |-> op.base, index |-> op.index,
             scale |-> LogScale[op.scale], disp |-> op.disp]
    BY <1>1, <1>7, <2>1 DEF ConvertMIROperand
  <2> QED
    BY <1>1, <1>7, <2>3, <2>4, <2>5 DEF Converts, Operand, IsMem
<1> QED
  BY <1>2, <1>3, <1>4, <1>5, <1>6, <1>7

(* The size of an instruction and where its displacement begins. *)
LEMMA SizesOK ==
  ASSUME NEW enc, Encoded(enc)
  PROVE  /\ InstrSize(enc) \in Nat /\ DispOffset(enc) \in Nat
         /\ Len(enc.disp) = 4 => InstrSize(enc) - DispOffset(enc) - 4 \in Nat
<1>1. PICK p, o, d, i : p = Len(enc.prefix) /\ o = Len(enc.opcode) /\ d = Len(enc.disp) /\ i = Len(enc.imm)
  OBVIOUS
<1>2. p \in Nat /\ o \in Nat /\ d \in Nat /\ i \in Nat
  BY <1>1 DEF Encoded
<1>3. PICK r : r = IF enc.rex = <<>> THEN 0 ELSE 1
  OBVIOUS
<1>4. PICK m : m = IF enc.modrm = <<>> THEN 0 ELSE 1
  OBVIOUS
<1>5. PICK s : s = IF enc.sib = <<>> THEN 0 ELSE 1
  OBVIOUS
<1>6. r \in Nat /\ m \in Nat /\ s \in Nat
  BY <1>3, <1>4, <1>5
<1>7. InstrSize(enc) = p + r + o + m + s + d + i
  BY <1>1, <1>3, <1>4, <1>5 DEF InstrSize
<1>8. DispOffset(enc) = p + r + o + m + s
  BY <1>1, <1>3, <1>4, <1>5 DEF DispOffset
<1>9. InstrSize(enc) = DispOffset(enc) + d + i
  BY <1>7, <1>8
<1>10. InstrSize(enc) \in Nat /\ DispOffset(enc) \in Nat
  BY <1>2, <1>6, <1>7, <1>8
<1>11. d = 4 => InstrSize(enc) - DispOffset(enc) - 4 = i
  BY <1>2, <1>9, <1>10
<1> QED
  BY <1>1, <1>2, <1>10, <1>11

(* An instruction without a label keeps what was emitted. *)
LEMMA EmitKept ==
  ASSUME NEW c, ContextOK(c), NEW enc, NEW arg, NEW k, DOMAIN arg = 1 .. k, SoundFor(enc, arg), Accepted(enc),
         \A n \in DOMAIN arg : arg[n].kind # "lbl"
  PROVE  Kept(c, Emit(c, enc, arg))
<1>1. PICK lbls : lbls = {i \in DOMAIN arg : arg[i].kind = "lbl"}
  OBVIOUS
<1>2. PICK syms : syms = {i \in DOMAIN arg : arg[i].kind = "sym"}
  OBVIOUS
<1>3. lbls = {}
  BY <1>1
<1>4. Encoded(enc)
  BY DEF SoundFor
<1>5. CASE syms = {}
  <2>1. Emit(c, enc, arg) = EmitBytes(c, "text", NoField, InstrSize(enc))
    BY <1>1, <1>2, <1>3, <1>5 DEF Emit
  <2>2. InstrSize(enc) \in Nat /\ DOMAIN NoField \subseteq 0 .. InstrSize(enc) - 1
    BY <1>4, SizesOK DEF NoField
  <2> QED
    BY <2>1, <2>2, EmitBytesKept
<1>6. CASE syms # {}
  <2>1. PICK sym : sym = SymbolGetByName(c, arg[Min(syms)].name)
    OBVIOUS
  <2>2. PICK o, imm : o = DispOffset(enc) /\ imm = InstrSize(enc) - DispOffset(enc) - 4
    OBVIOUS
  <2>3. Emit(c, enc, arg) = UseSymbol(c, sym, o, imm)
    BY <1>1, <1>2, <1>3, <1>6, <2>1, <2>2 DEF Emit
  <2>4. Len(enc.disp) = 4
    BY <1>2, <1>6 DEF SoundFor, Reloc
  <2>5. o \in Nat /\ imm \in Nat
    BY <1>4, <2>2, <2>4, SizesOK
  <2> QED
    BY <2>3, <2>5, UseSymbolKept
<1> QED
  BY <1>5, <1>6

(* The processor reads the displacement of a relative jump after the opcode and continues after it. *)
LEMMA RelDecoded ==
  ASSUME NEW s, NEW row, row.form = "rel", row.imm = "none", RowOf(Header(s, 1)) = row, Header(s, 1).m \in Nat
  PROVE  Decode(s, 1).field = Header(s, 1).m /\ Decode(s, 1).next = Header(s, 1).m + 4
<1>1. PICK h : h = Header(s, 1)
  OBVIOUS
<1>2. PICK m : m = h.m
  OBVIOUS
<1>3. PICK size : size = OperandSize(h, row)
  OBVIOUS
<1>4. PICK name : name = Name(h, row)
  OBVIOUS
<1>5. ImmLength(row, size) = 0
  BY DEF ImmLength
<1>6. PICK rm : rm = [arg |-> XRel, next |-> m + 4, field |-> m]
  OBVIOUS
<1>7. Decode(s, 1) = Instruction(s, h, row, name, row.op = "sse", size, rm, 0)
  BY <1>1, <1>2, <1>3, <1>4, <1>5, <1>6 DEF Decode, DecodeFrom, DecodeRow, DecodeSized
<1>8. Decode(s, 1).next = rm.next + 0 /\ Decode(s, 1).field = rm.field
  BY <1>7 DEF Instruction
<1>9. rm.next = m + 4 /\ rm.field = m
  BY <1>6
<1> QED
  BY <1>1, <1>2, <1>8, <1>9

(* It reads E9 as a jump. *)
LEMMA JmpDecoded ==
  ASSUME NEW s, s[1] = \hE9
  PROVE  Decode(s, 1).field = 2 /\ Decode(s, 1).next = 6
<1>1. Header(s, 1) = HeaderFrom(s, 1, 1)
  BY DEF Header
<1>2. HeaderFrom(s, 1, 1).m = 2
  BY DEF HeaderFrom, HeaderAt
<1>3. HeaderFrom(s, 1, 1).opc = \hE9
  BY DEF HeaderFrom, HeaderAt
<1>4. HeaderFrom(s, 1, 1).two = FALSE
  <2>1. PICK o : o = IF s[1] \div 16 = 4 THEN 1 + 1 ELSE 1
    OBVIOUS
  <2>2. s[o] # \h0F
    BY <2>1
  <2>4. PICK prefixes : prefixes = {s[i] : i \in 1 .. 1 - 1}
    OBVIOUS
  <2>5. HeaderFrom(s, 1, 1) = HeaderAt(s, prefixes, 1, s[1] \div 16 = 4, o, s[o] = \h0F)
    BY <2>1, <2>4 DEF HeaderFrom
  <2>6. HeaderAt(s, prefixes, 1, s[1] \div 16 = 4, o, s[o] = \h0F).two = FALSE
    BY Zenon, <2>2 DEF HeaderAt
  <2> QED
    BY Zenon, <2>5, <2>6
<1>5. PICK row : row = Row("jmp", "rel", "none")
  OBVIOUS
<1>6. RowOf(Header(s, 1)) = row
  BY <1>1, <1>3, <1>4, <1>5 DEF RowOf, OneByte
<1>7. row.form = "rel" /\ row.imm = "none"
  BY <1>5 DEF Row
<1> QED
  BY <1>1, <1>2, <1>6, <1>7, RelDecoded

(* It reads 0F 80 to 0F 8F as conditional jumps. *)
LEMMA JccDecoded ==
  ASSUME NEW s, s[1] = \h0F, s[2] \in \h80 .. \h8F
  PROVE  Decode(s, 1).field = 3 /\ Decode(s, 1).next = 7
<1>1. Header(s, 1) = HeaderFrom(s, 1, 1)
  BY DEF Header
<1>2. HeaderFrom(s, 1, 1).m = 3
  BY DEF HeaderFrom, HeaderAt
<1>3. HeaderFrom(s, 1, 1).opc = s[2]
  BY DEF HeaderFrom, HeaderAt
<1>4. HeaderFrom(s, 1, 1).two = TRUE
  <2>1. PICK o : o = IF s[1] \div 16 = 4 THEN 1 + 1 ELSE 1
    OBVIOUS
  <2>2. s[o] = \h0F
    BY <2>1
  <2>4. PICK prefixes : prefixes = {s[i] : i \in 1 .. 1 - 1}
    OBVIOUS
  <2>5. HeaderFrom(s, 1, 1) = HeaderAt(s, prefixes, 1, s[1] \div 16 = 4, o, s[o] = \h0F)
    BY <2>1, <2>4 DEF HeaderFrom
  <2>6. HeaderAt(s, prefixes, 1, s[1] \div 16 = 4, o, s[o] = \h0F).two = TRUE
    BY Zenon, <2>2 DEF HeaderAt
  <2> QED
    BY Zenon, <2>5, <2>6
<1>5. PICK row : row = Row("j", "rel", "none")
  OBVIOUS
<1>6. RowOf(Header(s, 1)) = row
  BY <1>1, <1>3, <1>4, <1>5 DEF RowOf, TwoByte
<1>7. row.form = "rel" /\ row.imm = "none"
  BY <1>5 DEF Row
<1> QED
  BY <1>1, <1>2, <1>6, <1>7, RelDecoded

OpcodeAndDisp(opcode, disp) == [Rejected EXCEPT !.opcode = opcode, !.disp = disp]

(* An encoding of an opcode and a displacement begins with the opcode. *)
LEMMA OpcodeFirst ==
  ASSUME NEW opcode \in Seq(Int), NEW disp \in Seq(Int)
  PROVE  /\ DispOffset(OpcodeAndDisp(opcode, disp)) = Len(opcode)
         /\ \A i \in 1 .. Len(opcode) : EncodeInstr(OpcodeAndDisp(opcode, disp))[i] = opcode[i]
<1>0. PICK enc : enc = OpcodeAndDisp(opcode, disp)
  OBVIOUS
<1>1. /\ enc.prefix = <<>> /\ enc.rex = <<>> /\ enc.modrm = <<>> /\ enc.sib = <<>> /\ enc.imm = <<>>
      /\ enc.opcode = opcode /\ enc.disp = disp
  BY <1>0 DEF Rejected, OpcodeAndDisp
<1>2. PackRex(<<>>) = <<>> /\ PackByte(<<>>) = <<>>
  BY DEF PackRex, PackByte
<1>3. EncodeInstr(enc) = <<>> \o <<>> \o opcode \o <<>> \o <<>> \o disp \o <<>>
  BY <1>1, <1>2 DEF EncodeInstr
<1>4. <<>> \o <<>> \o opcode \o <<>> \o <<>> = opcode
  OBVIOUS
<1>5. opcode \o disp \o <<>> = opcode \o disp
  OBVIOUS
<1>6. EncodeInstr(enc) = opcode \o disp
  BY <1>3, <1>4, <1>5
<1>7. \A i \in 1 .. Len(opcode) : (opcode \o disp)[i] = opcode[i]
  OBVIOUS
<1>8. DispOffset(enc) = Len(opcode)
  BY <1>1 DEF DispOffset
<1> QED
  BY <1>0, <1>6, <1>7, <1>8

(* What the encoding of a jump to a block looks like: its displacement follows
   the opcode's bytes, ends the instruction and is where the processor reads it. *)
JumpEncoded(enc, off) ==
  /\ Accepted(enc) /\ DispOffset(enc) = off
  /\ Decode(EncodeInstr(enc), 1).field = off + 1 /\ Decode(EncodeInstr(enc), 1).next = off + 5

(* jmp, as written by the assembler and read by the processor. *)
LEMMA JmpEncoded ==
  ASSUME NEW enc, enc = [Rejected EXCEPT !.opcode = <<\hE9>>, !.disp = Zeros(4)]
  PROVE  JumpEncoded(enc, 1)
<1>1. PICK opcode : opcode = <<\hE9>>
  OBVIOUS
<1>2. opcode \in Seq(Int) /\ Len(opcode) = 1 /\ opcode[1] = \hE9
  BY <1>1
<1>3. PICK disp : disp = Zeros(4)
  OBVIOUS
<1>4. disp \in Seq(Int)
  BY <1>3, ZerosLen
<1>5. enc = OpcodeAndDisp(opcode, disp)
  BY <1>1, <1>3 DEF OpcodeAndDisp
<1>6. DispOffset(enc) = 1 /\ EncodeInstr(enc)[1] = \hE9
  <2>1. /\ DispOffset(OpcodeAndDisp(opcode, disp)) = Len(opcode)
        /\ \A i \in 1 .. Len(opcode) : EncodeInstr(OpcodeAndDisp(opcode, disp))[i] = opcode[i]
    BY <1>2, <1>4, OpcodeFirst
  <2> QED
    BY <1>2, <1>5, <2>1
<1>7. enc.opcode = opcode
  BY <1>5 DEF Rejected, OpcodeAndDisp
<1>8. Accepted(enc)
  BY <1>2, <1>7 DEF Accepted
<1> QED
  BY <1>6, <1>8, JmpDecoded DEF JumpEncoded

(* j<cc>, likewise. *)
LEMMA JccEncoded ==
  ASSUME NEW cc \in 0 .. 15, NEW enc, enc = [Rejected EXCEPT !.opcode = <<\h0F, \h80 + cc>>, !.disp = Zeros(4)]
  PROVE  JumpEncoded(enc, 2)
<1>1. PICK opcode : opcode = <<\h0F, \h80 + cc>>
  OBVIOUS
<1>2. opcode \in Seq(Int) /\ Len(opcode) = 2 /\ opcode[1] = \h0F /\ opcode[2] \in \h80 .. \h8F
  BY <1>1
<1>3. PICK disp : disp = Zeros(4)
  OBVIOUS
<1>4. disp \in Seq(Int)
  BY <1>3, ZerosLen
<1>5. enc = OpcodeAndDisp(opcode, disp)
  BY <1>1, <1>3 DEF OpcodeAndDisp
<1>6. DispOffset(enc) = 2 /\ EncodeInstr(enc)[1] = \h0F /\ EncodeInstr(enc)[2] = opcode[2]
  <2>1. /\ DispOffset(OpcodeAndDisp(opcode, disp)) = Len(opcode)
        /\ \A i \in 1 .. Len(opcode) : EncodeInstr(OpcodeAndDisp(opcode, disp))[i] = opcode[i]
    BY <1>2, <1>4, OpcodeFirst
  <2> QED
    BY <1>2, <1>5, <2>1
<1>7. enc.opcode = opcode
  BY <1>5 DEF Rejected, OpcodeAndDisp
<1>8. Accepted(enc)
  BY <1>2, <1>7 DEF Accepted
<1> QED
  BY <1>2, <1>6, <1>8, JccDecoded DEF JumpEncoded

(* Every jump to a block is encoded in one of these two ways. *)
LEMMA JumpEncoding ==
  ASSUME NEW instr, NEW n, MIRInstr(instr, n), \E k \in DOMAIN instr.args : instr.args[k].kind = "bb",
         NEW arg, Operand(arg[1]), arg[1].kind = "lbl"
  PROVE  \E off \in {1, 2} : JumpEncoded(InstrDesc(instr, arg), off)
<1>1. instr.op \in {"j", "jmp"}
  BY DEF MIRInstr
<1>2. instr.sse = "none"
  BY <1>1, Opcodes DEF MIRInstr
<1>3. PICK enc : enc = InstrDesc(instr, arg)
  OBVIOUS
<1>4. CASE instr.op = "j"
  <2>1. enc = Jcc(instr.cc, arg[1])
    BY <1>2, <1>3, <1>4, Opcodes DEF InstrDesc
  <2>2. PICK cc : cc = instr.cc
    OBVIOUS
  <2>3. cc \in 0 .. 15
    BY <1>4, <2>2 DEF MIRInstr
  <2>4. enc = [Rejected EXCEPT !.opcode = <<\h0F, \h80 + cc>>, !.disp = Zeros(4)]
    BY <2>1, <2>2, JccSound
  <2> QED
    BY <1>3, <2>3, <2>4, JccEncoded
<1>5. CASE instr.op = "jmp"
  <2>1. enc = JmpCallOp(\hE9, 4, arg[1])
    BY <1>2, <1>3, <1>5, Opcodes DEF InstrDesc
  <2>2. enc = [Rejected EXCEPT !.opcode = <<\hE9>>, !.disp = Zeros(4)]
    BY <2>1 DEF JmpCallOp
  <2> QED
    BY <1>3, <2>2, JmpEncoded
<1> QED
  BY <1>1, <1>4, <1>5

-----------------------------------------------------------------------------
(* The invariant holds *)

(* What was emitted stays where it leads. *)
LEMMA FieldsKept ==
  ASSUME NEW J, NEW P, NEW c, FieldsOK(J, P, TextField(c)), NEW d, Extends(c, d)
  PROVE  FieldsOK(J, P, TextField(d))
BY DEF FieldsOK, Extends

(* What is of the functions up to m is of those up to n. *)
LEMMA ScopeMoves ==
  ASSUME NEW m \in Nat, NEW n \in Nat, m <= n, Before(m)
  PROVE  Before(n)
BY DEF Before

(* The invariant holds at the start. *)
LEMMA InitHolds == Init => Inv
<1> SUFFICES ASSUME Init PROVE Inv
  OBVIOUS
<1>1. \A i : i \notin {} /\ <<>> \in Seq({}) /\ Len(<<>>) = 0 /\ DOMAIN <<>> = {}
  OBVIOUS
<1>2. PICK sec : sec = [size |-> 0, capacity |-> 0, field |-> NoField, start |-> 0]
  OBVIOUS
<1>3. SectionOK(sec)
  BY <1>2 DEF SectionOK, NoField
<1>4. ctx = [section |-> [s \in {"text", "data"} |-> sec],
             symbols |-> <<>>, labels |-> <<>>, curFunc |-> 0, buffer |-> NoField]
  BY <1>2 DEF Init, CreateContext, NoSymbol
<1>5. ContextOK(ctx)
  BY <1>1, <1>3, <1>4 DEF ContextOK, IsSeq
<1>6. Jumps = {} /\ DOMAIN Places = {}
  BY DEF Init, Jumps, Places, NoField
<1>7. at = [step |-> "declareGlobals", i |-> 1, j |-> 1, k |-> 1, limit |-> 0] /\ prog \in Programs
  BY DEF Init
<1>8. Len(prog.globals) \in Nat
  BY <1>7, ProgramsAssumption
<1>9. Len(ctx.symbols) = 0 /\ ctx.labels = <<>>
  BY <1>1, <1>4
<1>10. WalkOK
  BY <1>7, <1>8, <1>9 DEF WalkOK, Steps, InBody
<1>11. FieldsOK(Jumps, Places, TextField(ctx))
  BY <1>6 DEF FieldsOK
<1>12. ScopeOK
  BY <1>6, <1>7, <1>9 DEF ScopeOK, Before, InBody
<1>13. LabelsOK
  BY <1>7 DEF LabelsOK, InBody
<1> QED
  BY <1>5, <1>10, <1>11, <1>12, <1>13 DEF Inv

(* What the invariant says of the program. *)
LEMMA ProgramOK ==
  ASSUME Inv
  PROVE  /\ Len(prog.globals) \in Nat /\ Len(prog.funcs) \in Nat
         /\ \A i \in 1 .. Len(prog.globals) : MIRGlobal(prog.globals[i])
         /\ \A i \in 1 .. Len(prog.funcs) : MIRFunction(prog.funcs[i])
         /\ Len(ctx.symbols) \in Nat
<1>1. prog \in Programs
  BY DEF Inv, WalkOK
<1>2. /\ prog.globals \in Seq(Range(prog.globals)) /\ \A i \in DOMAIN prog.globals : MIRGlobal(prog.globals[i])
      /\ prog.funcs \in Seq(Range(prog.funcs)) /\ \A i \in DOMAIN prog.funcs : MIRFunction(prog.funcs[i])
  BY <1>1, ProgramsAssumption
<1>3. Len(ctx.symbols) \in Nat
  BY SeqDomain DEF Inv, ContextOK
<1> QED
  BY <1>2, <1>3

(* A step that places no block and jumps to none. *)
LEMMA Frame ==
  ASSUME Inv, Extends(ctx, ctx'), Jumps' = Jumps, Places' = Places
  PROVE  ContextOK(ctx') /\ FieldsOK(Jumps', Places', TextField(ctx'))
<1>1. FieldsOK(Jumps, Places, TextField(ctx'))
  BY FieldsKept DEF Inv
<1> QED
  BY <1>1 DEF Extends

(* No jump and no block is recorded. *)
LEMMA SameBlocks ==
  ASSUME UNCHANGED <<meant, placed>>
  PROVE  Jumps' = Jumps /\ Places' = Places
BY DEF Jumps, Places

(* A variable or a function is declared. *)
LEMMA DeclareStep ==
  ASSUME Inv, DeclareGlobal \/ DeclareFunc
  PROVE  Inv'
<1>1. PICK kind, name : ctx' = Declare(ctx, kind, name) /\ IsName(name)
  <2>1. CASE DeclareGlobal
    <3>1. at.i \in 1 .. Len(prog.globals)
      BY <2>1, ProgramOK DEF Inv, WalkOK, DeclareGlobal
    <3>2. IsName(prog.globals[at.i].name)
      BY <3>1, ProgramOK DEF MIRGlobal
    <3> QED
      BY <2>1, <3>2 DEF DeclareGlobal
  <2>2. CASE DeclareFunc
    <3>1. at.i \in 1 .. Len(prog.funcs)
      BY <2>2, ProgramOK DEF Inv, WalkOK, DeclareFunc
    <3>2. IsName(prog.funcs[at.i].name)
      BY <3>1, ProgramOK DEF MIRFunction
    <3> QED
      BY <2>2, <3>2 DEF DeclareFunc
  <2> QED
    BY <2>1, <2>2
<1>2. Kept(ctx, ctx') /\ Len(ctx'.symbols) = Len(ctx.symbols) + 1
  BY <1>1, DeclareKept DEF Inv
<1>3. Jumps' = Jumps /\ Places' = Places
  BY SameBlocks DEF DeclareGlobal, DeclareFunc
<1>4. ContextOK(ctx') /\ FieldsOK(Jumps', Places', TextField(ctx'))
  BY <1>2, <1>3, Frame DEF Kept
<1>5. /\ at' = [at EXCEPT !.i = at.i + 1] /\ prog' = prog
      /\ \/ at.step = "declareGlobals" /\ at.i <= Len(prog.globals)
         \/ at.step = "declareFuncs" /\ at.i <= Len(prog.funcs)
  BY DEF DeclareGlobal, DeclareFunc
<1>6. DOMAIN at = {"step", "i", "j", "k", "limit"}
  BY DEF Inv, WalkOK
<1>7. at'.step = at.step /\ at'.i = at.i + 1 /\ DOMAIN at' = {"step", "i", "j", "k", "limit"}
  BY <1>5, <1>6
<1>8. WalkOK'
  <2>1. prog' \in Programs /\ at'.step \in Steps /\ at.i \in Nat \ {0} /\ at'.i \in Nat \ {0}
    BY <1>5, <1>7 DEF Inv, WalkOK
  <2>2. at'.step = "declareGlobals" => at'.i <= Len(prog'.globals) + 1 /\ Len(ctx'.symbols) = at'.i - 1
    BY <1>2, <1>5, <1>7, <2>1, ProgramOK DEF Inv, WalkOK
  <2>3. at'.step = "declareFuncs" =>
          at'.i <= Len(prog'.funcs) + 1 /\ Len(ctx'.symbols) = Len(prog'.globals) + at'.i - 1
    <3>1. at.step = "declareFuncs" => Len(ctx.symbols) = Len(prog.globals) + at.i - 1
      BY DEF Inv, WalkOK
    <3>2. Len(prog.globals) \in Nat /\ Len(prog.funcs) \in Nat /\ Len(ctx.symbols) \in Nat
      BY ProgramOK
    <3>3. SUFFICES ASSUME at.step = "declareFuncs"
                   PROVE  at.i + 1 <= Len(prog.funcs) + 1 /\ Len(ctx'.symbols) = Len(prog.globals) + (at.i + 1) - 1
      BY <1>5, <1>7
    <3>4. at.i <= Len(prog.funcs)
      BY <1>5, <3>3
    <3>5. Len(ctx'.symbols) = Len(ctx.symbols) + 1
      BY <1>2
    <3>6. at.i \in Nat
      BY <2>1
    <3>7. Len(ctx.symbols) = Len(prog.globals) + at.i - 1
      BY <3>1, <3>3
    <3> HIDE DEF Inv
    <3> QED
      BY <3>2, <3>4, <3>5, <3>6, <3>7
  <2>4. at'.step \in {"declareGlobals", "declareFuncs"}
    BY <1>5, <1>7
  <2> QED
    BY <1>7, <2>1, <2>2, <2>3, <2>4 DEF WalkOK, InBody
<1>9. ScopeOK'
  BY <1>2, <1>3, <1>5, <1>7 DEF Inv, ScopeOK, InBody, Before, Kept
<1>10. LabelsOK'
  BY <1>5, <1>7 DEF LabelsOK, InBody
<1> QED
  BY <1>4, <1>8, <1>9, <1>10 DEF Inv

(* What the invariant says of the walk's position. *)
LEMMA AtFields ==
  ASSUME Inv
  PROVE  /\ DOMAIN at = {"step", "i", "j", "k", "limit"} /\ at.step \in Steps
         /\ at.i \in Nat \ {0} /\ at.i \in Nat /\ at.i >= 1 /\ at.i + 1 \in Nat \ {0} /\ prog \in Programs
<1>1. at.i \in Nat \ {0}
  BY DEF Inv, WalkOK
<1>2. at.i \in Nat /\ at.i >= 1 /\ at.i + 1 \in Nat \ {0}
  BY <1>1
<1> QED
  BY <1>1, <1>2 DEF Inv, WalkOK

(* What the walk's next position must satisfy. *)
LEMMA WalkMoves ==
  ASSUME Inv, prog' = prog, DOMAIN at' = {"step", "i", "j", "k", "limit"},
         at'.step \in Steps \ {"declareGlobals", "declareFuncs"}, at'.i \in Nat \ {0},
         Len(ctx'.symbols) >= Declared,
         at'.step \in {"block", "instr"} => at'.i <= Len(prog.funcs),
         at'.step = "block" => at'.j \in 1 .. Len(prog.funcs[at'.i].blocks) + 1,
         at'.step = "instr" => at'.j \in 1 .. Len(prog.funcs[at'.i].blocks) /\ at'.k \in Nat \ {0},
         at'.step = "stubs" => at'.limit \in 0 .. Len(ctx'.symbols)
  PROVE  WalkOK'
<1>1. prog' \in Programs
  BY DEF Inv, WalkOK
<1> QED
  BY <1>1 DEF WalkOK, InBody, Declared, Blocks

(* Sums of numbers. *)
LEMMA NatSum == \A a, b \in Nat : a + b \in Nat
OBVIOUS

(* Declared symbols remain. *)
LEMMA DeclaredKept ==
  ASSUME Inv, at.step \notin {"declareGlobals", "declareFuncs"}, Extends(ctx, ctx')
  PROVE  Len(ctx'.symbols) >= Declared
<1>1. Len(ctx.symbols) >= Declared
  BY DEF Inv, WalkOK
<1>2. Len(ctx.symbols) \in Nat /\ Len(ctx'.symbols) \in Nat /\ Len(ctx.symbols) <= Len(ctx'.symbols)
  BY ProgramOK, SeqDomain DEF Extends, ContextOK
<1>3. Declared \in Nat
  <2>1. Len(prog.globals) \in Nat /\ Len(prog.funcs) \in Nat
    BY ProgramOK
  <2> QED
    BY Zenon, <2>1, NatSum DEF Declared
<1> HIDE DEF Declared
<1> QED
  BY <1>1, <1>2, <1>3

(* Outside of the functions nothing is said of labels. *)
LEMMA AfterBody ==
  ASSUME at'.step \in {"globals", "stubs", "relocate", "done", "failed", "refused"}
  PROVE  ScopeOK' /\ LabelsOK'
BY DEF ScopeOK, LabelsOK, InBody

(* The steps after the functions. *)
LEMMA LaterStep ==
  ASSUME Inv, prog' = prog, Jumps' = Jumps, Places' = Places, Extends(ctx, ctx'),
         at.step \notin {"declareGlobals", "declareFuncs"}, DOMAIN at' = {"step", "i", "j", "k", "limit"},
         at'.step \in {"globals", "stubs", "relocate", "done", "failed", "refused"}, at'.i \in Nat \ {0},
         at'.step = "stubs" => at'.limit \in 0 .. Len(ctx'.symbols)
  PROVE  Inv'
<1>2. ContextOK(ctx') /\ FieldsOK(Jumps', Places', TextField(ctx'))
  BY Frame
<1>3. ScopeOK' /\ LabelsOK'
  BY AfterBody
<1>4. at'.step \in Steps \ {"declareGlobals", "declareFuncs"}
  BY DEF Steps
<1>5. WalkOK'
  BY <1>4, DeclaredKept, WalkMoves
<1> QED
  BY <1>2, <1>3, <1>5 DEF Inv

(* The context may stay as it is. *)
LEMMA ExtendsSelf ==
  ASSUME Inv
  PROVE  Extends(ctx, ctx)
BY KeptSelf DEF Kept, Inv

(* The walk goes to the next list. *)
LEMMA NextListStep ==
  ASSUME Inv, NextList
  PROVE  Inv'
<1>1. UNCHANGED <<prog, ctx, meant, placed>>
  BY DEF NextList
<1>2. Jumps' = Jumps /\ Places' = Places
  BY <1>1, SameBlocks
<1>3. Extends(ctx, ctx')
  BY <1>1, ExtendsSelf
<1>4. ContextOK(ctx') /\ FieldsOK(Jumps', Places', TextField(ctx'))
  BY <1>2, <1>3, Frame
<1>5. Len(prog.globals) \in Nat /\ Len(prog.funcs) \in Nat /\ Len(ctx.symbols) \in Nat
  BY ProgramOK
<1>6. at.i \in Nat /\ DOMAIN at = {"step", "i", "j", "k", "limit"}
  BY AtFields
<1>7. CASE at.step = "declareGlobals" /\ at.i > Len(prog.globals) /\ at' = [at EXCEPT !.step = "declareFuncs", !.i = 1]
  <2>1. at'.step = "declareFuncs" /\ at'.i = 1 /\ DOMAIN at' = {"step", "i", "j", "k", "limit"}
    BY <1>6, <1>7
  <2>2. at.i <= Len(prog.globals) + 1 /\ Len(ctx.symbols) = at.i - 1
    BY <1>7 DEF Inv, WalkOK
  <2>3. Len(ctx.symbols) = Len(prog.globals) + 1 - 1 /\ 1 <= Len(prog.funcs) + 1
    BY <1>5, <1>6, <1>7, <2>2
  <2>4. WalkOK'
    BY <1>1, <2>1, <2>3, AtFields DEF WalkOK, Steps, InBody
  <2>5. ScopeOK' /\ LabelsOK'
    BY <1>1, <1>2, <1>7, <2>1 DEF Inv, ScopeOK, LabelsOK, InBody, Before
  <2> QED
    BY <1>4, <2>4, <2>5 DEF Inv
<1>8. CASE at.step = "declareFuncs" /\ at.i > Len(prog.funcs) /\ at' = [at EXCEPT !.step = "func", !.i = 1]
  <2>1. at'.step = "func" /\ at'.i = 1 /\ DOMAIN at' = {"step", "i", "j", "k", "limit"}
    BY <1>6, <1>8
  <2>2. at.i <= Len(prog.funcs) + 1 /\ Len(ctx.symbols) = Len(prog.globals) + at.i - 1
    BY <1>8 DEF Inv, WalkOK
  <2>3. Len(ctx.symbols) = Len(prog.globals) + Len(prog.funcs)
    <3>1. at.i > Len(prog.funcs) /\ at.i \in Nat
      BY <1>6, <1>8
    <3>2. at.i = Len(prog.funcs) + 1
      BY <1>5, <2>2, <3>1
    <3> QED
      BY <1>5, <2>2, <3>2
  <2>4. Len(ctx'.symbols) >= Declared
    BY <1>1, <1>5, <2>3 DEF Declared
  <2>5. at'.step \in Steps \ {"declareGlobals", "declareFuncs"} /\ at'.i \in Nat \ {0}
    BY <2>1 DEF Steps
  <2>6. WalkOK'
    BY <1>1, <2>1, <2>4, <2>5, WalkMoves
  <2>7. Before(0) /\ ctx.labels = <<>>
    BY <1>8 DEF Inv, ScopeOK
  <2>8. Before(1 - 1)'
    BY <1>2, <2>7 DEF Before
  <2>9. ScopeOK' /\ LabelsOK'
    BY <1>1, <2>1, <2>7, <2>8 DEF ScopeOK, LabelsOK, InBody
  <2> QED
    BY <1>4, <2>6, <2>9 DEF Inv
<1>9. CASE at.step = "func" /\ at' = [at EXCEPT !.step = "globals", !.i = 1]
  <2>1. at'.step = "globals" /\ at'.i \in Nat \ {0} /\ DOMAIN at' = {"step", "i", "j", "k", "limit"}
    BY <1>6, <1>9
  <2> QED
    BY <1>1, <1>2, <1>3, <1>9, <2>1, LaterStep
<1>10. CASE at.step = "globals" /\ at' = [at EXCEPT !.step = "stubs", !.i = 1, !.limit = Len(ctx.symbols)]
  <2>1. /\ at'.step = "stubs" /\ at'.i \in Nat \ {0} /\ DOMAIN at' = {"step", "i", "j", "k", "limit"}
        /\ at'.limit = Len(ctx.symbols)
    BY <1>6, <1>10
  <2>2. at'.limit \in 0 .. Len(ctx'.symbols)
    BY <1>1, <1>5, <2>1
  <2> QED
    BY <1>1, <1>2, <1>3, <1>10, <2>1, <2>2, LaterStep
<1> QED
  BY <1>7, <1>8, <1>9, <1>10 DEF NextList

(* An external function is skipped. *)
LEMMA SkipStep ==
  ASSUME Inv, SkipExternalFunc
  PROVE  Inv'
<1>1. UNCHANGED <<prog, ctx, meant, placed>> /\ at.step = "func" /\ at' = [at EXCEPT !.i = at.i + 1]
  BY DEF SkipExternalFunc
<1>2. Jumps' = Jumps /\ Places' = Places
  BY <1>1, SameBlocks
<1>3. Extends(ctx, ctx')
  BY <1>1, ExtendsSelf
<1>4. ContextOK(ctx') /\ FieldsOK(Jumps', Places', TextField(ctx'))
  BY <1>2, <1>3, Frame
<1>5. /\ at'.step = "func" /\ at'.i = at.i + 1 /\ at'.i \in Nat \ {0}
      /\ DOMAIN at' = {"step", "i", "j", "k", "limit"} /\ at.i \in Nat /\ at.i >= 1
  BY <1>1, AtFields
<1>6. at'.step \in Steps \ {"declareGlobals", "declareFuncs"} /\ at.step \notin {"declareGlobals", "declareFuncs"}
  BY <1>1, <1>5 DEF Steps
<1>7. WalkOK'
  BY <1>1, <1>3, <1>5, <1>6, DeclaredKept, WalkMoves
<1>8. Before(at.i - 1) /\ ctx.labels = <<>>
  BY <1>1 DEF Inv, ScopeOK
<1>9. Before(at.i)
  <2>1. at.i - 1 \in Nat /\ at.i \in Nat /\ at.i - 1 <= at.i
    BY <1>5
  <2> QED
    BY <1>8, <2>1, ScopeMoves
<1>10. at'.i - 1 = at.i
  BY <1>5
<1>11. Before(at.i - 1)'
  BY <1>2, <1>9, <1>10 DEF Before
<1>12. ScopeOK' /\ LabelsOK'
  BY <1>1, <1>5, <1>8, <1>11 DEF ScopeOK, LabelsOK, InBody
<1> QED
  BY <1>4, <1>7, <1>12 DEF Inv

(* What is placed under other names. *)
LEMMA SamePlaces ==
  ASSUME NEW new, \A t \in DOMAIN new : ~IsBlock(t), placed' = Overwrite(placed, new)
  PROVE  Places' = Places
<1>1. DOMAIN placed' = DOMAIN placed \union DOMAIN new
      /\ \A t \in DOMAIN placed' : placed'[t] = IF t \in DOMAIN new THEN new[t] ELSE placed[t]
  BY DEF Overwrite
<1>2. PICK A : A = {u \in DOMAIN placed : IsBlock(u)}
  OBVIOUS
<1>3. {u \in DOMAIN placed' : IsBlock(u)} = A
  BY <1>1, <1>2
<1>4. \A t \in A : placed'[t] = placed[t]
  BY <1>1, <1>2
<1>5. Places = [t \in A |-> placed[t].offset] /\ Places' = [t \in A |-> placed'[t].offset]
  BY <1>2, <1>3 DEF Places
<1> QED
  BY <1>4, <1>5

(* What is recorded for other targets. *)
LEMMA SameJumps ==
  ASSUME NEW new, \A m \in new : ~IsBlock(m.target), meant' = meant \union new
  PROVE  Jumps' = Jumps
BY DEF Jumps

(* A name is never a block. *)
LEMMA NoBlockName ==
  ASSUME NEW name, IsName(name)
  PROVE  ~IsBlock(name)
BY DEF IsName, IsBlock

(* A variable is defined. *)
LEMMA DefineGlobalStep ==
  ASSUME Inv, DefineGlobal
  PROVE  Inv'
<1>1. PICK g : g = prog.globals[at.i]
  OBVIOUS
<1>2. at.step = "globals" /\ at.i \in 1 .. Len(prog.globals) /\ at' = [at EXCEPT !.i = at.i + 1] /\ prog' = prog
  <2>1. at.step = "globals" /\ at.i <= Len(prog.globals) /\ at' = [at EXCEPT !.i = at.i + 1] /\ prog' = prog
    BY DEF DefineGlobal
  <2>2. at.i \in Nat /\ at.i >= 1
    BY AtFields
  <2>3. at.i \in 1 .. Len(prog.globals)
    BY <2>1, <2>2, ProgramOK
  <2> QED
    BY <2>1, <2>3
<1>3. MIRGlobal(g)
  BY <1>1, <1>2, ProgramOK
<1>4. PICK fields : fields = [o \in {p.at : p \in Range(g.pointers)} |-> 0]
  OBVIOUS
<1>5. PICK c : c = IF IsExternalVar(at.i) THEN ctx ELSE GlobalVarDefine(ctx, GlobalSym(at.i), fields, g.size, g.align)
  OBVIOUS
<1>6. PICK here : here = c.symbols[GlobalSym(at.i)].offset
  OBVIOUS
<1>7. PICK new : new = {[section |-> "data", field |-> here + p.at, next |-> 0, target |-> p.name] : p \in Range(g.pointers)}
  OBVIOUS
<1>8. /\ ctx' = AddPointers(c, at.i)
      /\ placed' = IF IsExternalVar(at.i) THEN placed ELSE Place(g.name, "data", here)
      /\ meant' = meant \union new
  BY <1>1, <1>4, <1>5, <1>6, <1>7 DEF DefineGlobal
<1>9. ASSUME NEW p \in Range(g.pointers) PROVE p.at \in 0 .. g.size - 1 /\ IsName(p.name)
  <2>1. PICK n \in DOMAIN g.pointers : p = g.pointers[n]
    BY DEF Range
  <2>2. p.at \in 0 .. g.size - 8 /\ IsName(p.name) /\ g.size \in Nat
    BY <1>3, <2>1 DEF MIRGlobal
  <2> QED
    BY <2>2
<1>10. ContextOK(ctx)
  BY DEF Inv
<1>11. Kept(ctx, c)
  <2>1. DOMAIN fields \subseteq 0 .. g.size - 1
    BY <1>4, <1>9
  <2>2. g.size \in Nat /\ g.align \in Nat \ {0}
    BY <1>3 DEF MIRGlobal
  <2>3. PICK d : d = GlobalVarDefine(ctx, GlobalSym(at.i), fields, g.size, g.align)
    OBVIOUS
  <2>4. Kept(ctx, d)
    BY <1>10, <2>1, <2>2, <2>3, GlobalVarDefineKept
  <2>5. Kept(ctx, ctx)
    BY <1>10, KeptSelf
  <2> QED
    BY <1>5, <2>3, <2>4, <2>5
<1>12. Kept(ctx, ctx')
  <2>1. ContextOK(c)
    BY <1>11 DEF Kept, Extends
  <2>2. Kept(c, ctx')
    BY <1>8, <2>1, AddPointersKept
  <2> QED
    BY <1>10, <1>11, <2>2, KeptTrans
<1>13. Jumps' = Jumps
  <2>1. \A m \in new : ~IsBlock(m.target)
    BY <1>7, <1>9, NoBlockName
  <2> QED
    BY <1>8, <2>1, SameJumps
<1>14. Places' = Places
  <2>1. CASE IsExternalVar(at.i)
    BY <1>8, <2>1 DEF Places
  <2>2. CASE ~IsExternalVar(at.i)
    <3>1. PICK put : put = [t \in {g.name} |-> [section |-> "data", offset |-> here]]
      OBVIOUS
    <3>2. placed' = Overwrite(placed, put)
      BY <1>8, <2>2, <3>1 DEF Place
    <3>3. IsName(g.name)
      BY <1>3 DEF MIRGlobal
    <3>4. \A t \in DOMAIN put : ~IsBlock(t)
      BY <3>1, <3>3, NoBlockName
    <3> QED
      BY <3>2, <3>4, SamePlaces
  <2> QED
    BY <2>1, <2>2
<1>15. at'.step = "globals" /\ at'.i \in Nat \ {0} /\ DOMAIN at' = {"step", "i", "j", "k", "limit"}
  BY <1>2, AtFields
<1> QED
  BY <1>2, <1>12, <1>13, <1>14, <1>15, LaterStep DEF Kept

(* An external symbol is defined. *)
LEMMA EmitStubStep ==
  ASSUME Inv, EmitStub
  PROVE  Inv'
<1>1. /\ at.step = "stubs" /\ at.i <= at.limit /\ ctx' = DefineExternal(ctx, at.i)
      /\ at' = [at EXCEPT !.i = at.i + 1] /\ UNCHANGED <<prog, meant, placed>>
  BY DEF EmitStub
<1>2. at.limit \in 0 .. Len(ctx.symbols) /\ ContextOK(ctx)
  BY <1>1 DEF Inv, WalkOK
<1>3. Len(ctx.symbols) \in Nat
  BY ProgramOK
<1>4. at.i \in 1 .. Len(ctx.symbols)
  <2>1. at.i \in Nat /\ at.i >= 1 /\ at.i <= at.limit
    BY <1>1, AtFields
  <2> QED
    BY <1>2, <1>3, <2>1
<1>5. Kept(ctx, ctx')
  BY <1>1, <1>2, <1>4, DefineExternalKept
<1>6. /\ at'.step = "stubs" /\ at'.i \in Nat \ {0} /\ DOMAIN at' = {"step", "i", "j", "k", "limit"}
      /\ at'.limit = at.limit
  BY <1>1, AtFields
<1>7. at'.limit \in 0 .. Len(ctx'.symbols)
  <2>1. Len(ctx.symbols) <= Len(ctx'.symbols) /\ Len(ctx'.symbols) \in Nat
    BY <1>5, SeqDomain DEF Kept, Extends, ContextOK
  <2> QED
    BY <1>2, <1>3, <1>6, <2>1
<1> QED
  BY <1>1, <1>5, <1>6, <1>7, SameBlocks, LaterStep DEF Kept

(* The sections are joined. *)
LEMMA JoinStep ==
  ASSUME Inv, Join
  PROVE  Inv'
<1>1. /\ at.step = "stubs" /\ ctx' = JoinSections(ctx)
      /\ at' = [at EXCEPT !.step = "relocate", !.i = 1, !.j = 1] /\ UNCHANGED <<prog, meant, placed>>
  BY DEF Join
<1>2. Kept(ctx, ctx')
  BY <1>1, JoinSectionsOK DEF Inv
<1>3. at'.step = "relocate" /\ at'.i \in Nat \ {0} /\ DOMAIN at' = {"step", "i", "j", "k", "limit"}
  BY <1>1, AtFields
<1> QED
  BY <1>1, <1>2, <1>3, SameBlocks, LaterStep DEF Kept

(* A relocation is applied, or it cannot be. *)
LEMMA RelocateStep ==
  ASSUME Inv, Relocate
  PROVE  Inv'
<1>1. at.step = "relocate" /\ UNCHANGED <<prog, meant, placed>>
  BY DEF Relocate
<1>2. Jumps' = Jumps /\ Places' = Places
  BY <1>1, SameBlocks
<1>3. CASE at' = [at EXCEPT !.step = "failed"] /\ UNCHANGED ctx
  <2>1. at'.step = "failed" /\ at'.i \in Nat \ {0} /\ DOMAIN at' = {"step", "i", "j", "k", "limit"}
    BY <1>3, AtFields
  <2>2. Extends(ctx, ctx')
    BY <1>3, ExtendsSelf
  <2> QED
    BY <1>1, <1>2, <2>1, <2>2, LaterStep
<1>4. CASE ctx' = ApplyRelocation(ctx, at.i, Relocs[at.j]) /\ at' = [at EXCEPT !.j = at.j + 1]
  <2>1. at'.step = "relocate" /\ at'.i \in Nat \ {0} /\ DOMAIN at' = {"step", "i", "j", "k", "limit"}
    BY <1>1, <1>4, AtFields
  <2>2. Kept(ctx, ctx')
    BY <1>4, ApplyRelocationOK DEF Inv
  <2> QED
    BY <1>1, <1>2, <2>1, <2>2, LaterStep DEF Kept
<1> QED
  BY <1>3, <1>4 DEF Relocate

(* The relocation of the next symbol, and the end. *)
LEMMA LastSteps ==
  ASSUME Inv, NextSymbol \/ Finish
  PROVE  Inv'
<1>1. at.step = "relocate" /\ UNCHANGED <<prog, ctx, meant, placed>>
  BY DEF NextSymbol, Finish
<1>2. Jumps' = Jumps /\ Places' = Places
  BY <1>1, SameBlocks
<1>3. Extends(ctx, ctx')
  BY <1>1, ExtendsSelf
<1>4. at'.step \in {"relocate", "done"} /\ at'.i \in Nat \ {0} /\ DOMAIN at' = {"step", "i", "j", "k", "limit"}
  <2>1. CASE NextSymbol
    <3>1. at' = [at EXCEPT !.i = at.i + 1, !.j = 1]
      BY <2>1 DEF NextSymbol
    <3> QED
      BY <1>1, <3>1, AtFields
  <2>2. CASE Finish
    <3>1. at' = [at EXCEPT !.step = "done"]
      BY <2>2 DEF Finish
    <3> QED
      BY <3>1, AtFields
  <2> QED
    BY <2>1, <2>2
<1> QED
  BY <1>1, <1>2, <1>3, <1>4, LaterStep

(* The labels of a new function stand: nothing jumps to its blocks and none is placed. *)
LEMMA FreshStand ==
  ASSUME NEW i \in Nat, NEW n \in Nat, Before(i - 1), n = prog.funcs[i].numBlocks,
         NEW labels, Fresh(labels, n)
  PROVE  LabelsStand(labels, i, Jumps, Places)
<1>1. SUFFICES ASSUME NEW b \in 0 .. n - 1
               PROVE  LabelStands(labels[LabelOf(b)], Block(i, b), Jumps, Places)
  BY DEF LabelsStand
<1>2. PICK l : l = labels[LabelOf(b)]
  OBVIOUS
<1>3. LabelOf(b) \in 1 .. n
  BY DEF LabelOf
<1>4. l.offset = Unbound /\ l.refs = {}
  BY <1>2, <1>3 DEF Fresh
<1>5. PICK t : t = Block(i, b)
  OBVIOUS
<1>6. t[2] = i /\ i \notin 1 .. i - 1
  BY <1>5 DEF Block
<1>7. t \notin DOMAIN Places /\ \A m \in Jumps : m.target # t
  BY <1>6 DEF Before
<1>8. LabelStands(l, t, Jumps, Places)
  BY <1>4, <1>7 DEF LabelStands
<1> QED
  BY <1>2, <1>5, <1>8

(* A function begins. *)
LEMMA BeginFuncStep ==
  ASSUME Inv, BeginFunc
  PROVE  Inv'
<1>1. PICK n : n = prog.funcs[at.i].numBlocks
  OBVIOUS
<1>2. /\ at.step = "func" /\ at.i <= Len(prog.funcs) /\ prog' = prog /\ meant' = meant
      /\ ctx' = FuncBegin(LabelAlloc(ctx, n), FuncSym(at.i))
      /\ placed' = Place(prog.funcs[at.i].name, "text", TextSize(ctx))
      /\ at' = [at EXCEPT !.step = "block", !.j = 1]
  BY <1>1 DEF BeginFunc
<1>3. at.i \in 1 .. Len(prog.funcs)
  <2>1. at.i \in Nat /\ at.i >= 1 /\ at.i <= Len(prog.funcs)
    BY <1>2, AtFields
  <2> QED
    BY <2>1, ProgramOK
<1>4. MIRFunction(prog.funcs[at.i])
  BY <1>3, ProgramOK
<1>5. n \in Nat /\ IsName(prog.funcs[at.i].name) /\ Len(prog.funcs[at.i].blocks) \in Nat
  BY <1>1, <1>4 DEF MIRFunction
<1>6. ContextOK(ctx) /\ ctx.labels = <<>> /\ Before(at.i - 1)
  BY <1>2 DEF Inv, ScopeOK
<1>7. PICK d : d = LabelAlloc(ctx, n)
  OBVIOUS
<1>8. Extends(ctx, d) /\ Fresh(d.labels, n)
  BY <1>5, <1>6, <1>7, LabelAllocOK
<1>9. FuncSym(at.i) \in 0 .. Len(d.symbols)
  <2>1. PICK g, f, s, e : g = Len(prog.globals) /\ f = Len(prog.funcs) /\ s = Len(ctx.symbols) /\ e = Len(d.symbols)
    OBVIOUS
  <2>2. g \in Nat /\ f \in Nat /\ s \in Nat /\ e \in Nat
    BY <1>8, <2>1, ProgramOK, SeqDomain DEF Extends, ContextOK
  <2>3. s <= e
    BY <1>8, <2>1 DEF Extends
  <2>4. s >= g + f
    BY <1>2, <2>1 DEF Inv, WalkOK, Declared
  <2>5. at.i \in 1 .. f
    BY <1>3, <2>1
  <2>6. g + at.i \in 0 .. e
    BY <2>2, <2>3, <2>4, <2>5
  <2> QED
    BY Zenon, <2>1, <2>6 DEF FuncSym
<1>10. Kept(d, ctx')
  BY <1>2, <1>7, <1>8, <1>9, FuncBeginKept DEF Extends
<1>11. Extends(ctx, ctx') /\ Fresh(ctx'.labels, n)
  BY <1>6, <1>8, <1>10, ExtendsTrans DEF Kept
<1>12. Jumps' = Jumps
  BY <1>2 DEF Jumps
<1>13. Places' = Places
  <2>1. PICK put : put = [t \in {prog.funcs[at.i].name} |-> [section |-> "text", offset |-> TextSize(ctx)]]
    OBVIOUS
  <2>2. placed' = Overwrite(placed, put)
    BY <1>2, <2>1 DEF Place
  <2>3. \A t \in DOMAIN put : ~IsBlock(t)
    BY <1>5, <2>1, NoBlockName
  <2> QED
    BY <2>2, <2>3, SamePlaces
<1>14. ContextOK(ctx') /\ FieldsOK(Jumps', Places', TextField(ctx'))
  BY <1>11, <1>12, <1>13, Frame
<1>15. at'.step = "block" /\ at'.j = 1 /\ at'.i = at.i /\ DOMAIN at' = {"step", "i", "j", "k", "limit"} /\ at.i \in Nat \ {0}
  BY <1>2, AtFields
<1>16. WalkOK'
  <2>1. at'.step \in Steps \ {"declareGlobals", "declareFuncs"} /\ at.step \notin {"declareGlobals", "declareFuncs"}
    BY <1>2, <1>15 DEF Steps
  <2>2. Len(ctx'.symbols) >= Declared
    BY <1>11, <2>1, DeclaredKept
  <2>3. at'.j \in 1 .. Len(prog.funcs[at'.i].blocks) + 1
    BY <1>5, <1>15
  <2>4. at'.i <= Len(prog.funcs) /\ at'.i \in Nat \ {0}
    BY <1>2, <1>15
  <2> QED
    BY <1>2, <1>15, <2>1, <2>2, <2>3, <2>4, WalkMoves
<1>17. Before(at.i) /\ \A t \in DOMAIN Places : t[2] # at.i
  <2>1. at.i - 1 \in Nat /\ at.i \in Nat /\ at.i - 1 <= at.i /\ at.i \notin 1 .. at.i - 1
    BY <1>15
  <2>2. Before(at.i)
    BY <1>6, <2>1, ScopeMoves
  <2> QED
    BY <1>6, <2>1, <2>2 DEF Before
<1>18. ScopeOK'
  BY <1>12, <1>13, <1>15, <1>17 DEF ScopeOK, Before, InBody
<1>19. LabelsOK'
  <2>1. LabelsStand(ctx'.labels, at.i, Jumps, Places)
    BY <1>1, <1>5, <1>6, <1>11, <1>15, FreshStand
  <2>2. Len(ctx'.labels) = n
    BY <1>11 DEF Fresh
  <2> QED
    BY <1>1, <1>2, <1>15, <2>1, <2>2, <1>12, <1>13 DEF LabelsOK, InBody, LabelsStand
<1> QED
  BY <1>14, <1>16, <1>18, <1>19 DEF Inv

(* A step within a function that binds no label and places no block. *)
LEMMA BodyFrame ==
  ASSUME Inv, at.step \in {"block", "instr"}, prog' = prog, Kept(ctx, ctx'), Jumps' = Jumps, Places' = Places,
         DOMAIN at' = {"step", "i", "j", "k", "limit"}, at'.i = at.i, at'.step \in {"block", "instr"}, Begun' = Begun,
         at'.step = "block" => at'.j \in 1 .. Len(Blocks) + 1,
         at'.step = "instr" => at'.j \in 1 .. Len(Blocks) /\ at'.k \in Nat \ {0}
  PROVE  Inv'
<1>1. Extends(ctx, ctx') /\ ctx'.labels = ctx.labels
  BY DEF Kept
<1>2. ContextOK(ctx') /\ FieldsOK(Jumps', Places', TextField(ctx'))
  BY <1>1, Frame
<1>3. WalkOK'
  <2>1. at'.step \in Steps \ {"declareGlobals", "declareFuncs"} /\ at.step \notin {"declareGlobals", "declareFuncs"}
    BY DEF Steps
  <2>2. Len(ctx'.symbols) >= Declared
    BY <1>1, <2>1, DeclaredKept
  <2>3. at'.i <= Len(prog.funcs) /\ at'.i \in Nat \ {0}
    BY DEF Inv, WalkOK, InBody
  <2> QED
    BY <2>1, <2>2, <2>3, WalkMoves DEF Blocks
<1>4. ScopeOK'
  <2>1. Before(at.i) /\ \A t \in DOMAIN Places : t[2] = at.i => \E j \in 1 .. Begun : Blocks[j].id = t[3]
    BY DEF Inv, ScopeOK, InBody
  <2>2. Before(at.i)'
    BY <2>1 DEF Before
  <2>3. Blocks' = Blocks
    BY DEF Blocks
  <2> QED
    BY <2>1, <2>2, <2>3 DEF ScopeOK, InBody
<1>5. LabelsOK'
  BY <1>1 DEF Inv, LabelsOK, InBody, LabelsStand
<1> QED
  BY <1>2, <1>3, <1>4, <1>5 DEF Inv

(* What the invariant says within a function. *)
LEMMA BodyOK ==
  ASSUME Inv, at.step \in {"block", "instr"}
  PROVE  /\ at.i \in 1 .. Len(prog.funcs) /\ MIRFunction(prog.funcs[at.i]) /\ Len(Blocks) \in Nat
         /\ prog.funcs[at.i].numBlocks \in Nat
         /\ \A j \in 1 .. Len(Blocks) : MIRBlock(Blocks[j], prog.funcs[at.i].numBlocks)
         /\ \A j, k \in 1 .. Len(Blocks) : Blocks[j].id = Blocks[k].id => j = k
         /\ Len(ctx.labels) = prog.funcs[at.i].numBlocks /\ LabelsStand(ctx.labels, at.i, Jumps, Places)
<1>1. at.i \in Nat /\ at.i >= 1 /\ at.i <= Len(prog.funcs)
  BY AtFields DEF Inv, WalkOK, InBody
<1>2. at.i \in 1 .. Len(prog.funcs)
  BY <1>1, ProgramOK
<1>3. MIRFunction(prog.funcs[at.i])
  BY <1>2, ProgramOK
<1>4. Len(ctx.labels) = prog.funcs[at.i].numBlocks /\ LabelsStand(ctx.labels, at.i, Jumps, Places)
  BY DEF Inv, LabelsOK, InBody
<1> QED
  BY <1>2, <1>3, <1>4 DEF MIRFunction, Blocks

(* A block ends. *)
LEMMA EndBlockStep ==
  ASSUME Inv, EndBlock
  PROVE  Inv'
<1>1. at.step = "instr" /\ at' = [at EXCEPT !.step = "block", !.j = at.j + 1] /\ UNCHANGED <<prog, ctx, meant, placed>>
  BY DEF EndBlock
<1>2. /\ at'.step = "block" /\ at'.j = at.j + 1 /\ at'.i = at.i /\ DOMAIN at' = {"step", "i", "j", "k", "limit"}
  BY <1>1, AtFields
<1>3. at.j \in 1 .. Len(Blocks) /\ Len(Blocks) \in Nat
  BY <1>1, BodyOK DEF Inv, WalkOK
<1>4. at'.j \in 1 .. Len(Blocks) + 1 /\ Begun' = Begun
  <2>1. at.j + 1 \in 1 .. Len(Blocks) + 1 /\ (at.j + 1) - 1 = at.j
    BY <1>3
  <2> QED
    BY <1>1, <1>2, <2>1 DEF Begun
<1>5. Kept(ctx, ctx')
  BY <1>1, KeptSelf DEF Inv
<1> QED
  BY <1>1, <1>2, <1>4, <1>5, SameBlocks, BodyFrame

(* A function ends. *)
LEMMA EndFuncStep ==
  ASSUME Inv, EndFunc
  PROVE  Inv'
<1>1. /\ at.step = "block" /\ at' = [at EXCEPT !.step = "func", !.i = at.i + 1] /\ UNCHANGED <<prog, meant, placed>>
      /\ ctx' = FreeLabels(FuncEnd(ctx))
  BY DEF EndFunc
<1>2. /\ at'.step = "func" /\ at'.i = at.i + 1 /\ at'.i \in Nat \ {0} /\ at.i \in Nat
      /\ DOMAIN at' = {"step", "i", "j", "k", "limit"}
  BY <1>1, AtFields
<1>3. PICK d : d = FuncEnd(ctx)
  OBVIOUS
<1>4. Extends(ctx, d) /\ ContextOK(ctx)
  BY <1>3, FuncEndKept DEF Kept, Inv
<1>5. Extends(d, ctx') /\ ctx'.labels = <<>>
  BY <1>1, <1>3, <1>4, FreeLabelsOK DEF Extends
<1>6. Extends(ctx, ctx')
  BY <1>4, <1>5, ExtendsTrans
<1>7. Jumps' = Jumps /\ Places' = Places
  BY <1>1, SameBlocks
<1>8. ContextOK(ctx') /\ FieldsOK(Jumps', Places', TextField(ctx'))
  BY <1>6, <1>7, Frame
<1>9. WalkOK'
  <2>1. at'.step \in Steps \ {"declareGlobals", "declareFuncs"} /\ at.step \notin {"declareGlobals", "declareFuncs"}
    BY <1>1, <1>2 DEF Steps
  <2>2. Len(ctx'.symbols) >= Declared
    BY <1>6, <2>1, DeclaredKept
  <2> QED
    BY <1>1, <1>2, <2>1, <2>2, WalkMoves
<1>10. ScopeOK'
  <2>1. Before(at.i)
    BY <1>1 DEF Inv, ScopeOK, InBody
  <2>2. at'.i - 1 = at.i
    BY <1>2
  <2>3. Before(at.i - 1)'
    BY <1>7, <2>1, <2>2 DEF Before
  <2> QED
    BY <1>2, <1>5, <2>3 DEF ScopeOK, InBody
<1>11. LabelsOK'
  BY <1>2 DEF LabelsOK, InBody
<1> QED
  BY <1>8, <1>9, <1>10, <1>11 DEF Inv

(* P2 is P with t placed at here. *)
Put(P, t, here, P2) ==
  /\ DOMAIN P2 = DOMAIN P \union {t} /\ P2[t] = here
  /\ \A u \in DOMAIN P : u # t => P2[u] = P[u]

(* The fields f2 are those of f, with what the references refs of a label that is bound at here say. *)
PatchedFields(f, refs, here, f2) ==
  /\ DOMAIN f2 = DOMAIN f
  /\ \A o \in DOMAIN f :
       IF \E r \in refs : r.disp = o THEN \E r \in refs : r.disp = o /\ f2[o] = here - r.next ELSE f2[o] = f[o]

(* When a label is bound where its block is placed, every jump to the block lands: those that were emitted are exactly
   the label's references, and no two jumps share a field. *)
LEMMA Binding ==
  ASSUME NEW J, NEW P, NEW f, FieldsOK(J, P, f), NEW l, NEW t, l.offset = Unbound, LabelStands(l, t, J, P),
         NEW here \in Nat, NEW P2, Put(P, t, here, P2), NEW f2, PatchedFields(f, l.refs, here, f2)
  PROVE  FieldsOK(J, P2, f2)
<1>1. /\ t \notin DOMAIN P
      /\ \A m \in J : m.target = t => [disp |-> m.field, next |-> m.next] \in l.refs
      /\ \A r \in l.refs : \E m \in J : m.target = t /\ r.disp = m.field /\ r.next = m.next
  BY DEF LabelStands
<1>2. /\ \A m \in J : m.field \in DOMAIN f /\ m.next \in Int
      /\ \A m, n \in J : m.field = n.field => m = n
      /\ \A m \in J : m.target \in DOMAIN P => m.next + f[m.field] = P[m.target]
  BY DEF FieldsOK
<1>3. \A m \in J : m.field \in DOMAIN f2
  BY <1>2 DEF PatchedFields
<1>4. ASSUME NEW m \in J, m.target \in DOMAIN P2
      PROVE  m.next + f2[m.field] = P2[m.target]
  <2>1. CASE m.target = t
    <3>1. PICK q : q = [disp |-> m.field, next |-> m.next]
      OBVIOUS
    <3>2. q \in l.refs /\ q.disp = m.field
      BY <1>1, <2>1, <3>1
    <3>3. PICK r \in l.refs : r.disp = m.field /\ f2[m.field] = here - r.next
      BY <1>2, <3>2 DEF PatchedFields
    <3>4. PICK n \in J : n.target = t /\ r.disp = n.field /\ r.next = n.next
      BY <1>1
    <3>5. n = m
      BY <1>2, <3>3, <3>4
    <3>6. f2[m.field] = here - m.next /\ m.next \in Int
      BY <1>2, <3>3, <3>4, <3>5
    <3>7. m.next + (here - m.next) = here
      BY <3>6
    <3>8. P2[m.target] = here
      BY <2>1 DEF Put
    <3> QED
      BY <3>6, <3>7, <3>8
  <2>2. CASE m.target # t
    <3>1. ~ \E r \in l.refs : r.disp = m.field
      BY <1>1, <1>2, <2>2
    <3>2. f2[m.field] = f[m.field]
      BY <1>2, <3>1 DEF PatchedFields
    <3>3. m.target \in DOMAIN P /\ P2[m.target] = P[m.target]
      BY <1>4, <2>2 DEF Put
    <3> QED
      BY <1>2, <3>2, <3>3
  <2> QED
    BY <2>1, <2>2
<1> QED
  BY <1>2, <1>3, <1>4 DEF FieldsOK

(* The labels of the other blocks stand as before. *)
LEMMA OtherStands ==
  ASSUME NEW J, NEW P, NEW l, NEW t, NEW u, t # u, LabelStands(l, u, J, P), NEW here, NEW P2, Put(P, t, here, P2)
  PROVE  LabelStands(l, u, J, P2)
BY DEF LabelStands, Put

(* The label that was bound stands. *)
LEMMA BoundStands ==
  ASSUME NEW J, NEW P, NEW l, NEW t, NEW P2, Put(P, t, l.offset, P2), l.offset # Unbound
  PROVE  LabelStands(l, t, J, P2)
BY DEF LabelStands, Put

(* One more block is placed. *)
LEMMA PlacesPut ==
  ASSUME NEW t, IsBlock(t), NEW here, placed' = Place(t, "text", here)
  PROVE  Put(Places, t, here, Places')
<1>1. PICK new : new = [u \in {t} |-> [section |-> "text", offset |-> here]]
  OBVIOUS
<1>2. DOMAIN placed' = DOMAIN placed \union {t}
      /\ \A u \in DOMAIN placed' : placed'[u] = IF u = t THEN new[t] ELSE placed[u]
  <2>1. placed' = Overwrite(placed, new)
    BY <1>1 DEF Place
  <2>2. DOMAIN new = {t}
    BY <1>1
  <2> QED
    BY <2>1, <2>2 DEF Overwrite
<1>3. new[t].offset = here
  BY <1>1
<1>4. PICK A, B : A = {u \in DOMAIN placed : IsBlock(u)} /\ B = {u \in DOMAIN placed' : IsBlock(u)}
  OBVIOUS
<1>5. B = A \union {t}
  BY <1>2, <1>4
<1>6. Places = [u \in A |-> placed[u].offset] /\ Places' = [u \in B |-> placed'[u].offset]
  BY <1>4 DEF Places
<1>7. Places'[t] = here /\ DOMAIN Places' = DOMAIN Places \union {t}
  BY <1>2, <1>3, <1>4, <1>5, <1>6
<1>8. \A u \in DOMAIN Places : u # t => Places'[u] = Places[u]
  BY <1>2, <1>4, <1>5, <1>6
<1> QED
  BY <1>7, <1>8 DEF Put

(* A block begins: it was not placed before since no two blocks of a function have the same id. *)
LEMMA BeginBlockStep ==
  ASSUME Inv, BeginBlock
  PROVE  Inv'
<1>1. PICK b, l, t, here, n : /\ b = Blocks[at.j].id /\ l = LabelOf(b) /\ t = Block(at.i, b)
                              /\ here = TextSize(ctx) /\ n = prog.funcs[at.i].numBlocks
  OBVIOUS
<1>2. /\ at.step = "block" /\ at.j <= Len(Blocks) /\ prog' = prog /\ meant' = meant
      /\ ctx' = LabelBind(ctx, l) /\ placed' = Place(t, "text", here)
      /\ at' = [at EXCEPT !.step = "instr", !.k = 1]
  BY <1>1 DEF BeginBlock
<1>3. at.j \in 1 .. Len(Blocks)
  BY <1>2, BodyOK DEF Inv, WalkOK
<1>4. n \in Nat /\ b \in 0 .. n - 1 /\ Len(ctx.labels) = n
  BY <1>1, <1>2, <1>3, BodyOK DEF MIRBlock
<1>5. l \in 1 .. Len(ctx.labels)
  BY <1>1, <1>4 DEF LabelOf
<1>6. LabelsStand(ctx.labels, at.i, Jumps, Places)
  BY <1>2, BodyOK
<1>7. LabelStands(ctx.labels[l], t, Jumps, Places)
  BY <1>1, <1>4, <1>6 DEF LabelsStand
<1>8. t[1] = "block" /\ t[2] = at.i /\ t[3] = b
  BY <1>1 DEF Block
<1>9. t \notin DOMAIN Places
  <2>1. \A u \in DOMAIN Places : u[2] = at.i => \E j \in 1 .. at.j - 1 : Blocks[j].id = u[3]
    BY <1>2 DEF Inv, ScopeOK, InBody, Begun
  <2>2. SUFFICES ASSUME t \in DOMAIN Places PROVE FALSE
    OBVIOUS
  <2>3. PICK j \in 1 .. at.j - 1 : Blocks[j].id = b
    BY <1>8, <2>1, <2>2
  <2>4. j \in 1 .. Len(Blocks) /\ j # at.j
    BY <1>2, <1>3, BodyOK
  <2> QED
    BY <1>1, <1>2, <1>3, <2>3, <2>4, BodyOK
<1>10. ctx.labels[l].offset = Unbound
  BY <1>7, <1>9 DEF LabelStands
<1>11. ContextOK(ctx) /\ FieldsOK(Jumps, Places, TextField(ctx)) /\ here \in Nat
  BY <1>1 DEF Inv, ContextOK, SectionOK, TextSize
<1>12. \A r \in ctx.labels[l].refs : r.disp \in DOMAIN TextField(ctx)
  BY <1>7, <1>10, <1>11 DEF LabelStands, FieldsOK
<1>13. Patched(ctx, l, ctx')
  BY <1>2, <1>5, <1>11, <1>12, LabelBindOK
<1>14. PatchedFields(TextField(ctx), ctx.labels[l].refs, here, TextField(ctx'))
  BY <1>1, <1>13 DEF Patched, PatchedFields
<1>15. Put(Places, t, here, Places')
  BY <1>2, <1>8, PlacesPut DEF IsBlock
<1>16. Jumps' = Jumps
  BY <1>2 DEF Jumps
<1>17. FieldsOK(Jumps', Places', TextField(ctx'))
  BY <1>7, <1>10, <1>11, <1>14, <1>15, <1>16, Binding
<1>18. ContextOK(ctx') /\ ctx'.symbols = ctx.symbols /\ Len(ctx'.labels) = n /\ ctx'.labels[l].offset = here
       /\ \A k \in 1 .. Len(ctx.labels) : k # l => ctx'.labels[k] = ctx.labels[k]
  BY <1>1, <1>4, <1>13 DEF Patched
<1>19. at'.step = "instr" /\ at'.i = at.i /\ at'.j = at.j /\ at'.k = 1 /\ DOMAIN at' = {"step", "i", "j", "k", "limit"}
  BY <1>2, AtFields
<1>20. WalkOK'
  <2>1. at'.step \in Steps \ {"declareGlobals", "declareFuncs"} /\ at.step \notin {"declareGlobals", "declareFuncs"}
    BY <1>2, <1>19 DEF Steps
  <2>2. Len(ctx'.symbols) >= Declared
    BY <1>18, <2>1 DEF Inv, WalkOK
  <2>3. at'.i <= Len(prog.funcs) /\ at'.i \in Nat \ {0}
    BY <1>2, <1>19 DEF Inv, WalkOK, InBody
  <2>4. at'.j \in 1 .. Len(prog.funcs[at'.i].blocks) /\ at'.k \in Nat \ {0}
    BY <1>3, <1>19 DEF Blocks
  <2> QED
    BY <1>2, <1>19, <2>1, <2>2, <2>3, <2>4, WalkMoves
<1>21. ScopeOK'
  <2>1. Before(at.i) /\ \A u \in DOMAIN Places : u[2] = at.i => \E j \in 1 .. at.j - 1 : Blocks[j].id = u[3]
    BY <1>2 DEF Inv, ScopeOK, InBody, Begun
  <2>2. at.i \in 1 .. at.i
    BY AtFields
  <2>3. Before(at.i)'
    <3>1. (\A m \in Jumps : m.target[2] \in 1 .. at.i) /\ (\A u \in DOMAIN Places : u[2] \in 1 .. at.i)
      BY <2>1 DEF Before
    <3>2. \A u \in DOMAIN Places' : u[2] \in 1 .. at.i
      BY <1>8, <1>15, <2>2, <3>1 DEF Put
    <3> QED
      BY <1>16, <1>19, <3>1, <3>2 DEF Before
  <2>4. \A u \in DOMAIN Places' : u[2] = at.i => \E j \in 1 .. at.j : Blocks[j].id = u[3]
    <3>1. at.j \in 1 .. at.j /\ 1 .. at.j - 1 \subseteq 1 .. at.j
      BY <1>3, BodyOK, <1>2
    <3> QED
      BY <1>1, <1>8, <1>15, <2>1, <3>1 DEF Put
  <2>5. Blocks' = Blocks
    BY <1>2, <1>19 DEF Blocks
  <2> QED
    BY <1>19, <2>3, <2>4, <2>5 DEF ScopeOK, InBody, Begun
<1>22. LabelsStand(ctx'.labels, at.i, Jumps, Places')
  <2>1. SUFFICES ASSUME NEW c \in 0 .. n - 1
                 PROVE  LabelStands(ctx'.labels[LabelOf(c)], Block(at.i, c), Jumps, Places')
    BY <1>1 DEF LabelsStand
  <2>2. CASE c = b
    <3>1. here # Unbound
      BY <1>11 DEF Unbound
    <3>2. LabelStands(ctx'.labels[l], t, Jumps, Places')
      BY <1>15, <1>18, <3>1, BoundStands
    <3> QED
      BY <1>1, <2>2, <3>2
  <2>3. CASE c # b
    <3>1. PICK k, u : k = LabelOf(c) /\ u = Block(at.i, c)
      OBVIOUS
    <3>2. k \in 1 .. Len(ctx.labels) /\ k # l
      BY <1>1, <1>4, <2>3, <3>1 DEF LabelOf
    <3>3. u[3] = c
      BY <3>1 DEF Block
    <3>4. t # u
      BY <1>8, <2>3, <3>3
    <3>5. LabelStands(ctx.labels[k], u, Jumps, Places)
      BY <1>1, <1>6, <3>1 DEF LabelsStand
    <3>6. LabelStands(ctx'.labels[k], u, Jumps, Places')
      BY <1>15, <1>18, <3>2, <3>4, <3>5, OtherStands
    <3> QED
      BY <3>1, <3>6
  <2> QED
    BY <2>2, <2>3
<1>23. LabelsOK'
  BY <1>1, <1>2, <1>16, <1>18, <1>19, <1>22 DEF LabelsOK, InBody, LabelsStand
<1> QED
  BY <1>17, <1>18, <1>20, <1>21, <1>23 DEF Inv

(* The constants that are defined on the way are not blocks. *)
LEMMA DefiningPlaces ==
  ASSUME Inv, NEW c, ContextOK(c), Defining(c)
  PROVE  Places' = Places
<1>1. PICK news : news = {s \in Len(ctx.symbols) + 1 .. Len(c.symbols) : c.symbols[s].kind = "variable"}
  OBVIOUS
<1>2. PICK names : names = {c.symbols[s].name : s \in news}
  OBVIOUS
<1>3. PICK new : new = [n \in names |-> [section |-> "data", offset |-> c.symbols[SymbolGetByName(c, n)].offset]]
  OBVIOUS
<1>4. placed' = Overwrite(placed, new)
  BY <1>1, <1>2, <1>3 DEF Defining
<1>5. DOMAIN new = names
  BY <1>3
<1>6. news \subseteq DOMAIN c.symbols
  <2>1. Len(ctx.symbols) \in Nat /\ Len(c.symbols) \in Nat /\ DOMAIN c.symbols = 1 .. Len(c.symbols)
    BY ProgramOK, SeqDomain DEF ContextOK
  <2> QED
    BY <1>1, <2>1
<1>7. \A n \in names : IsName(n)
  BY <1>2, <1>6 DEF ContextOK, SymbolOK
<1>8. \A t \in DOMAIN new : ~IsBlock(t)
  BY <1>5, <1>7, NoBlockName
<1> QED
  BY <1>4, <1>8, SamePlaces

(* The instruction instr at the walk's position, its converted operands arg and
   the context c once they are there.                                         *)
Prepared(instr, arg, c) ==
  /\ at.step = "instr" /\ prog' = prog
  /\ MIRInstr(instr, prog.funcs[at.i].numBlocks)
  /\ Len(instr.args) \in 0 .. 3 /\ DOMAIN instr.args = 1 .. Len(instr.args) /\ DOMAIN arg = 1 .. Len(instr.args)
  /\ \A n \in 1 .. Len(instr.args) : Converts(instr.args[n], arg[n])
  /\ c = WithOperands(ctx, instr.args) /\ Kept(ctx, c)

(* The operands of the instruction are converted. *)
LEMMA InstrPrepared ==
  ASSUME Inv, EmitInstr
  PROVE  \E instr, arg, c : Prepared(instr, arg, c) /\ EmitConverted(instr, arg, c)
<1>1. PICK instr : instr = Code[at.k]
  OBVIOUS
<1>2. PICK arg : arg = [n \in DOMAIN instr.args |-> ConvertMIROperand(instr.args[n])]
  OBVIOUS
<1>3. PICK c : c = WithOperands(ctx, instr.args)
  OBVIOUS
<1>4. at.step = "instr" /\ at.k <= Len(Code) /\ prog' = prog /\ EmitConverted(instr, arg, c)
  BY <1>1, <1>2, <1>3 DEF EmitInstr, AtInstr
<1>5. PICK n : n = prog.funcs[at.i].numBlocks
  OBVIOUS
<1>6. MIRInstr(instr, n)
  <2>1. at.j \in 1 .. Len(Blocks) /\ at.k \in Nat \ {0}
    BY <1>4 DEF Inv, WalkOK
  <2>2. MIRBlock(Blocks[at.j], n)
    BY <1>4, <1>5, <2>1, BodyOK
  <2>3. Code \in Seq(Range(Code)) /\ \A k \in DOMAIN Code : MIRInstr(Code[k], n)
    BY <2>2 DEF MIRBlock, Code
  <2>4. at.k \in DOMAIN Code
    BY <1>4, <2>1, <2>3
  <2> QED
    BY <1>1, <2>3, <2>4
<1>7. instr.args \in Seq(Range(instr.args)) /\ Len(instr.args) \in 0 .. 3
      /\ \A i \in DOMAIN instr.args : MIROperand(instr.args[i], n)
  BY <1>6 DEF MIRInstr
<1>8. DOMAIN instr.args = 1 .. Len(instr.args) /\ DOMAIN arg = 1 .. Len(instr.args)
  BY <1>2, <1>7
<1>9. \A i \in 1 .. Len(instr.args) : Converts(instr.args[i], arg[i])
  <2>1. ASSUME NEW i \in 1 .. Len(instr.args)
        PROVE  Converts(instr.args[i], arg[i])
    <3>1. arg[i] = ConvertMIROperand(instr.args[i])
      BY <1>2, <1>8
    <3>2. MIROperand(instr.args[i], n)
      BY <1>7, <1>8
    <3> QED
      BY <3>1, <3>2, ConvertedOperand
  <2> QED
    BY <2>1
<1>10. Kept(ctx, c)
  BY <1>3, <1>7, WithOperandsKept DEF Inv
<1> QED
  BY <1>3, <1>4, <1>5, <1>6, <1>7, <1>8, <1>9, <1>10 DEF Prepared

(* The walk goes on within the block. *)
LEMMA NextInstr ==
  ASSUME Inv, at.step = "instr", prog' = prog, at' = [at EXCEPT !.k = at.k + 1]
  PROVE  /\ DOMAIN at' = {"step", "i", "j", "k", "limit"} /\ at'.i = at.i /\ at'.step = "instr" /\ Begun' = Begun
         /\ at'.j = at.j /\ at'.j \in 1 .. Len(Blocks) /\ at'.k \in Nat \ {0}
<1>1. at.j \in 1 .. Len(Blocks) /\ at.k \in Nat \ {0}
  BY DEF Inv, WalkOK
<1>2. /\ DOMAIN at' = {"step", "i", "j", "k", "limit"} /\ at'.i = at.i /\ at'.step = "instr"
      /\ at'.j = at.j /\ at'.k = at.k + 1
  BY AtFields
<1> QED
  BY <1>1, <1>2 DEF Begun

(* An instruction without bytes. *)
LEMMA EmitNothingStep ==
  ASSUME Inv, NEW instr, NEW arg, NEW c, Prepared(instr, arg, c), EmitNothing(instr, c)
  PROVE  Inv'
<1>1. at.step = "instr" /\ prog' = prog /\ Kept(ctx, c)
  BY DEF Prepared
<1>2. at' = [at EXCEPT !.k = at.k + 1] /\ ctx' = c /\ Defining(c) /\ meant' = meant
  BY DEF EmitNothing
<1>3. ContextOK(c)
  BY <1>1 DEF Kept, Extends
<1>4. Jumps' = Jumps /\ Places' = Places
  BY <1>2, <1>3, DefiningPlaces DEF Jumps
<1> QED
  BY <1>1, <1>2, <1>4, NextInstr, BodyFrame

(* An instruction that is refused. *)
LEMMA RefusedStep ==
  ASSUME Inv, at.step = "instr", prog' = prog, at' = [at EXCEPT !.step = "refused"], UNCHANGED <<ctx, meant, placed>>
  PROVE  Inv'
<1>1. at'.step = "refused" /\ at'.i = at.i /\ DOMAIN at' = {"step", "i", "j", "k", "limit"} /\ at'.i \in Nat \ {0}
  BY AtFields
<1>2. Extends(ctx, ctx')
  BY ExtendsSelf
<1> QED
  BY <1>1, <1>2, SameBlocks, LaterStep

(* An instruction that is not a jump to a block. *)
LEMMA EmitPlainStep ==
  ASSUME Inv, NEW instr, NEW arg, NEW c, Prepared(instr, arg, c), NEW enc, enc = InstrDesc(instr, arg), Accepted(enc),
         NEW bytes, EmitBytesOf(instr, arg, c, enc, bytes), \A n \in DOMAIN instr.args : instr.args[n].kind # "bb"
  PROVE  Inv'
<1>1. /\ at.step = "instr" /\ prog' = prog /\ Kept(ctx, c) /\ MIRInstr(instr, prog.funcs[at.i].numBlocks)
      /\ DOMAIN instr.args = 1 .. Len(instr.args) /\ DOMAIN arg = 1 .. Len(instr.args)
      /\ \A n \in DOMAIN arg : Converts(instr.args[n], arg[n])
  BY DEF Prepared
<1>2. at' = [at EXCEPT !.k = at.k + 1] /\ ctx' = Emit(c, enc, arg) /\ Defining(c) /\ meant' = meant \union Means(instr, bytes)
  BY DEF EmitBytesOf
<1>3. ContextOK(c) /\ ContextOK(ctx)
  BY <1>1 DEF Kept, Extends, Inv
<1>4. /\ \A n \in DOMAIN arg : Operand(arg[n]) /\ arg[n].kind # "lbl"
      /\ instr.sse = "none" => \A n \in DOMAIN arg : arg[n].kind = "reg" => arg[n].size \in ImmSizes
  BY <1>1 DEF Converts, MIRInstr
<1>5. SoundFor(enc, arg)
  BY <1>1, <1>4, InstrDescSound
<1>6. Kept(c, ctx')
  BY <1>1, <1>2, <1>3, <1>4, <1>5, EmitKept
<1>7. Kept(ctx, ctx')
  BY <1>1, <1>3, <1>6, KeptTrans
<1>8. Places' = Places
  BY <1>2, <1>3, DefiningPlaces
<1>9. \A op \in Range(instr.args) : MIROperand(op, prog.funcs[at.i].numBlocks) /\ op.kind # "bb"
  BY <1>1 DEF MIRInstr, Range
<1>10. ASSUME NEW t \in Targets(instr)
       PROVE  ~IsBlock(t)
  <2>1. PICK op \in Range(instr.args) :
          /\ op.kind \in {"bb", "ext", "float"}
          /\ t = CASE op.kind = "bb" -> Block(at.i, op.block) [] op.kind = "ext" -> op.name [] OTHER -> ConstantName(op)
    BY DEF Targets
  <2>2. CASE op.kind = "ext"
    <3>1. t = op.name /\ IsName(op.name)
      BY <1>9, <2>1, <2>2 DEF MIROperand
    <3> QED
      BY <3>1, NoBlockName
  <2>3. CASE op.kind = "float"
    <3>1. t = ConstantName(op)
      BY <2>1, <2>3
    <3> QED
      BY <3>1, ConstantNameOK, NoBlockName
  <2> QED
    BY <1>9, <2>1, <2>2, <2>3
<1>11. \A m \in Means(instr, bytes) : ~IsBlock(m.target)
  BY <1>10 DEF Means, MeansRead
<1>12. Jumps' = Jumps
  BY <1>2, <1>11, SameJumps
<1> QED
  BY <1>1, <1>2, <1>7, <1>8, <1>12, NextInstr, BodyFrame

(* A jump joins the others: it has a new field. *)
LEMMA JumpJoins ==
  ASSUME NEW J, NEW P, NEW f, FieldsOK(J, P, f), NEW f2, \A o \in DOMAIN f : o \in DOMAIN f2 /\ f2[o] = f[o],
         NEW m0, m0.field \in DOMAIN f2, m0.field \notin DOMAIN f, m0.next \in Int,
         m0.target \in DOMAIN P => m0.next + f2[m0.field] = P[m0.target]
  PROVE  FieldsOK(J \union {m0}, P, f2)
BY DEF FieldsOK

(* A jump elsewhere, or to a block that is placed, changes no label. *)
LEMMA JumpStands ==
  ASSUME NEW J, NEW P, NEW l, NEW t, LabelStands(l, t, J, P), NEW m0, m0.target # t \/ l.offset # Unbound
  PROVE  LabelStands(l, t, J \union {m0}, P)
BY DEF LabelStands

(* A jump to a block that is not placed is one more reference of its label. *)
LEMMA JumpRefers ==
  ASSUME NEW J, NEW P, NEW l, NEW t, LabelStands(l, t, J, P), l.offset = Unbound,
         NEW m0, m0.target = t, NEW ref, ref = [disp |-> m0.field, next |-> m0.next],
         NEW l2, l2.offset = l.offset, l2.refs = l.refs \union {ref}
  PROVE  LabelStands(l2, t, J \union {m0}, P)
<1>1. ref.disp = m0.field /\ ref.next = m0.next
  OBVIOUS
<1>2. t \notin DOMAIN P
  BY DEF LabelStands
<1>3. \A m \in J \union {m0} : m.target = t => [disp |-> m.field, next |-> m.next] \in l2.refs
  BY DEF LabelStands
<1>4. \A r \in l2.refs : \E m \in J \union {m0} : m.target = t /\ r.disp = m.field /\ r.next = m.next
  BY <1>1 DEF LabelStands
<1> QED
  BY <1>2, <1>3, <1>4 DEF LabelStands

(* The jump to a block is the only operand of its instruction. *)
LEMMA JumpOperand ==
  ASSUME NEW instr, NEW n, MIRInstr(instr, n), NEW k \in DOMAIN instr.args, instr.args[k].kind = "bb",
         DOMAIN instr.args = 1 .. Len(instr.args)
  PROVE  Len(instr.args) = 1 /\ instr.args[1].kind = "bb" /\ instr.args[1].block \in 0 .. n - 1
<1>1. instr.op \in {"j", "jmp"}
  BY DEF MIRInstr
<1>2. Len(instr.args) = 1
  BY <1>1, Opcodes DEF MIRInstr, MathBinary
<1>3. k = 1
  BY <1>2
<1>4. MIROperand(instr.args[1], n)
  BY <1>3 DEF MIRInstr
<1> QED
  BY <1>2, <1>3, <1>4 DEF MIROperand

(* What is emitted for it. *)
LEMMA JumpEmitted ==
  ASSUME NEW c, NEW enc, NEW arg, DOMAIN arg = 1 .. 1, arg[1].kind = "lbl"
  PROVE  Emit(c, enc, arg) = JumpToLabel(c, arg[1].block + 1, DispOffset(enc))
<1>1. PICK lbls : lbls = {i \in DOMAIN arg : arg[i].kind = "lbl"}
  OBVIOUS
<1>2. lbls = {1}
  BY <1>1
<1>3. Min(lbls) = 1
  BY <1>2 DEF Min
<1>4. PICK syms : syms = {i \in DOMAIN arg : arg[i].kind = "sym"}
  OBVIOUS
<1> QED
  BY <1>1, <1>2, <1>3 DEF Emit

(* What is recorded of it: its field and the block it goes to. *)
JumpTo(t, field, next) == [section |-> "text", field |-> field, next |-> next, target |-> t]

(* Its field and its end are where the processor finds them. *)
LEMMA JumpMeant ==
  ASSUME NEW instr, instr.args \in Seq(Range(instr.args)), Len(instr.args) = 1, instr.args[1].kind = "bb",
         NEW bytes, NEW off \in Nat, Decode(bytes, 1).field = off + 1, Decode(bytes, 1).next = off + 5, TextSize(ctx) \in Nat
  PROVE  Means(instr, bytes) = {JumpTo(Block(at.i, instr.args[1].block), TextSize(ctx) + off, TextSize(ctx) + off + 4)}
<1>1. PICK op : op = instr.args[1]
  OBVIOUS
<1>2. Range(instr.args) = {op}
  BY <1>1 DEF Range
<1>3. PICK t : t = Block(at.i, op.block)
  OBVIOUS
<1>4. Targets(instr) = {t}
  <2>1. {o \in Range(instr.args) : o.kind \in {"bb", "ext", "float"}} = {op}
    BY <1>1, <1>2
  <2>2. \A x \in {op} : (CASE x.kind = "bb" -> Block(at.i, x.block) [] x.kind = "ext" -> x.name [] OTHER -> ConstantName(x)) = t
    BY <1>1, <1>3
  <2> QED
    BY <2>1, <2>2 DEF Targets
<1>5. PICK read : read = Decode(bytes, 1)
  OBVIOUS
<1>6. TextSize(ctx) + read.field - 1 = TextSize(ctx) + off /\ TextSize(ctx) + read.next - 1 = TextSize(ctx) + off + 4
  BY <1>5
<1>7. MeansRead(instr, read) =
        {[section |-> "text", field |-> TextSize(ctx) + off, next |-> TextSize(ctx) + off + 4, target |-> u] : u \in {t}}
  BY <1>4, <1>6 DEF MeansRead
<1> QED
  BY <1>1, <1>3, <1>5, <1>7 DEF Means, JumpTo

(* A jump to a block is emitted. *)
LEMMA EmitJumpStep ==
  ASSUME Inv, NEW instr, NEW arg, NEW c, Prepared(instr, arg, c), NEW enc, enc = InstrDesc(instr, arg), Accepted(enc),
         NEW bytes, bytes = EncodeInstr(enc), EmitBytesOf(instr, arg, c, enc, bytes),
         NEW k \in DOMAIN instr.args, instr.args[k].kind = "bb"
  PROVE  Inv'
<1>1. PICK n, block, l, t : /\ n = prog.funcs[at.i].numBlocks /\ block = instr.args[1].block
                            /\ l = LabelOf(block) /\ t = Block(at.i, block)
  OBVIOUS
<1>2. /\ at.step = "instr" /\ prog' = prog /\ MIRInstr(instr, n)
      /\ DOMAIN instr.args = 1 .. Len(instr.args) /\ DOMAIN arg = 1 .. Len(instr.args)
      /\ \A i \in DOMAIN arg : Converts(instr.args[i], arg[i])
      /\ c = WithOperands(ctx, instr.args) /\ Kept(ctx, c)
  BY <1>1 DEF Prepared
<1>3. at' = [at EXCEPT !.k = at.k + 1] /\ ctx' = Emit(c, enc, arg) /\ Defining(c) /\ meant' = meant \union Means(instr, bytes)
  BY DEF EmitBytesOf
<1>4. Len(instr.args) = 1 /\ instr.args[1].kind = "bb" /\ block \in 0 .. n - 1
  BY <1>1, <1>2, JumpOperand
<1>5. Converts(instr.args[1], arg[1])
  BY <1>2, <1>4
<1>6. Operand(arg[1]) /\ arg[1].kind = "lbl" /\ arg[1].block = block
  BY <1>1, <1>4, <1>5 DEF Converts
<1>7. PICK off \in {1, 2} : JumpEncoded(enc, off)
  BY <1>2, <1>6, JumpEncoding
<1>8. DispOffset(enc) = off /\ Decode(bytes, 1).field = off + 1 /\ Decode(bytes, 1).next = off + 5
  BY <1>7 DEF JumpEncoded
<1>9. c = ctx
  <2>1. WithOperands(ctx, instr.args) = WithOperand(ctx, instr.args[1])
    BY <1>4 DEF WithOperands
  <2>2. WithOperand(ctx, instr.args[1]) = ctx
    BY <1>4 DEF WithOperand
  <2> QED
    BY <1>2, <2>1, <2>2
<1>10. ctx' = JumpToLabel(ctx, l, off)
  BY <1>1, <1>2, <1>3, <1>4, <1>6, <1>8, <1>9, JumpEmitted DEF LabelOf
<1>11. ContextOK(ctx) /\ n \in Nat /\ Len(ctx.labels) = n /\ LabelsStand(ctx.labels, at.i, Jumps, Places)
  BY <1>1, <1>2, BodyOK DEF Inv
<1>12. l \in 1 .. Len(ctx.labels)
  BY <1>1, <1>4, <1>11 DEF LabelOf
<1>13. PICK size : size = TextSize(ctx)
  OBVIOUS
<1>14. size \in Nat /\ DOMAIN TextField(ctx) \subseteq 0 .. size - 1
  BY <1>11, <1>13 DEF ContextOK, SectionOK, TextSize, TextField
<1>15. Jumped(ctx, l, off, ctx')
  BY <1>10, <1>11, <1>12, JumpToLabelOK
<1>16. PICK m0 : m0 = JumpTo(t, size + off, size + off + 4)
  OBVIOUS
<1>17. m0.target = t /\ m0.field = size + off /\ m0.next = size + off + 4
  BY <1>16 DEF JumpTo
<1>18. meant' = meant \union {m0}
  <2>1. instr.args \in Seq(Range(instr.args))
    BY <1>2 DEF MIRInstr
  <2>2. Means(instr, bytes) = {JumpTo(Block(at.i, instr.args[1].block), TextSize(ctx) + off, TextSize(ctx) + off + 4)}
    BY <1>4, <1>7, <1>8, <1>13, <1>14, <2>1, JumpMeant
  <2> QED
    BY <1>1, <1>3, <1>13, <1>16, <2>2
<1>19. t[1] = "block" /\ t[2] = at.i /\ t[3] = block
  BY <1>1 DEF Block
<1>20. Jumps' = Jumps \union {m0}
  BY <1>17, <1>18, <1>19 DEF Jumps, IsBlock
<1>21. Places' = Places
  BY <1>3, <1>9, <1>11, DefiningPlaces
<1>22. Extends(ctx, ctx') /\ size + off \in DOMAIN TextField(ctx')
  BY <1>13, <1>15 DEF Jumped
<1>23. PICK lab : lab = ctx.labels[l]
  OBVIOUS
<1>24. LabelStands(lab, t, Jumps, Places) /\ lab.offset \in Int
  <2>1. LabelStands(lab, t, Jumps, Places)
    BY <1>1, <1>4, <1>11, <1>23 DEF LabelsStand
  <2>2. LabelOK(lab)
    BY <1>11, <1>12, <1>23, SeqDomain DEF ContextOK
  <2> QED
    BY <2>1, <2>2 DEF LabelOK
<1>25. FieldsOK(Jumps', Places', TextField(ctx'))
  <2>1. m0.field \notin DOMAIN TextField(ctx)
    <3>1. size + off \notin 0 .. size - 1
      BY <1>14
    <3> QED
      BY <1>14, <1>17, <3>1
  <2>2. \A o \in DOMAIN TextField(ctx) : o \in DOMAIN TextField(ctx') /\ TextField(ctx')[o] = TextField(ctx)[o]
    BY <1>22 DEF Extends
  <2>3. m0.field \in DOMAIN TextField(ctx') /\ m0.next \in Int
    BY <1>14, <1>17, <1>22
  <2>4. m0.target \in DOMAIN Places => m0.next + TextField(ctx')[m0.field] = Places[m0.target]
    <3>1. SUFFICES ASSUME t \in DOMAIN Places
                   PROVE  m0.next + TextField(ctx')[m0.field] = Places[t]
      BY <1>17
    <3>2. lab.offset # Unbound /\ Places[t] = lab.offset
      BY <1>24, <3>1 DEF LabelStands
    <3>3. TextField(ctx')[size + off] = lab.offset - size - (off + 4)
      BY <1>13, <1>15, <1>23, <3>2 DEF Jumped
    <3>4. (size + off + 4) + (lab.offset - size - (off + 4)) = lab.offset
      BY <1>14, <1>24
    <3> QED
      BY <1>17, <3>2, <3>3, <3>4
  <2>5. FieldsOK(Jumps, Places, TextField(ctx))
    BY DEF Inv
  <2>6. FieldsOK(Jumps \union {m0}, Places, TextField(ctx'))
    BY <2>1, <2>2, <2>3, <2>4, <2>5, JumpJoins
  <2> QED
    BY <1>20, <1>21, <2>6
<1>26. /\ DOMAIN at' = {"step", "i", "j", "k", "limit"} /\ at'.i = at.i /\ at'.step = "instr" /\ Begun' = Begun
       /\ at'.j = at.j /\ at'.j \in 1 .. Len(Blocks) /\ at'.k \in Nat \ {0}
  BY <1>2, <1>3, NextInstr
<1>27. WalkOK'
  <2>1. at'.step \in Steps \ {"declareGlobals", "declareFuncs"} /\ at.step \notin {"declareGlobals", "declareFuncs"}
    BY <1>2, <1>26 DEF Steps
  <2>2. Len(ctx'.symbols) >= Declared
    BY <1>22, <2>1, DeclaredKept
  <2>3. at'.i <= Len(prog.funcs) /\ at'.i \in Nat \ {0}
    BY <1>2, <1>26 DEF Inv, WalkOK, InBody
  <2> QED
    BY <1>2, <1>26, <2>1, <2>2, <2>3, WalkMoves DEF Blocks
<1>28. ScopeOK'
  <2>1. Before(at.i) /\ \A u \in DOMAIN Places : u[2] = at.i => \E j \in 1 .. Begun : Blocks[j].id = u[3]
    BY <1>2 DEF Inv, ScopeOK, InBody
  <2>2. at.i \in 1 .. at.i
    BY AtFields
  <2>3. Before(at.i)'
    BY <1>17, <1>19, <1>20, <1>21, <1>26, <2>1, <2>2 DEF Before
  <2>4. Blocks' = Blocks
    BY <1>2, <1>26 DEF Blocks
  <2> QED
    BY <1>21, <1>26, <2>1, <2>3, <2>4 DEF ScopeOK, InBody
<1>29. Len(ctx'.labels) = n /\ LabelsStand(ctx'.labels, at.i, Jumps \union {m0}, Places)
  <2>1. IsSeq(ctx.labels) /\ DOMAIN ctx.labels = 1 .. Len(ctx.labels)
    BY <1>11, SeqDomain DEF ContextOK
  <2>2. CASE lab.offset # Unbound
    <3>1. ctx'.labels = ctx.labels
      BY <1>15, <1>23, <2>2 DEF Jumped
    <3>2. ASSUME NEW b \in 0 .. n - 1
          PROVE  LabelStands(ctx.labels[LabelOf(b)], Block(at.i, b), Jumps \union {m0}, Places)
      <4>1. PICK q, u : q = ctx.labels[LabelOf(b)] /\ u = Block(at.i, b)
        OBVIOUS
      <4>2. LabelStands(q, u, Jumps, Places)
        BY <1>1, <1>11, <4>1 DEF LabelsStand
      <4>3. u[3] = b
        BY <4>1 DEF Block
      <4>4. u # t \/ q.offset # Unbound
        BY <1>1, <1>19, <1>23, <2>2, <4>1, <4>3
      <4>5. LabelStands(q, u, Jumps \union {m0}, Places)
        BY <1>17, <4>2, <4>4, JumpStands
      <4> QED
        BY <4>1, <4>5
    <3> QED
      BY <1>1, <1>11, <3>1, <3>2 DEF LabelsStand
  <2>3. CASE lab.offset = Unbound
    <3>1. PICK ref : ref = LabelRef(ctx, off)
      OBVIOUS
    <3>2. ref = [disp |-> m0.field, next |-> m0.next]
      BY <1>13, <1>17, <3>1 DEF LabelRef
    <3>3. PICK lab2 : lab2 = [lab EXCEPT !.refs = lab.refs \union {ref}]
      OBVIOUS
    <3>4. ctx'.labels = [ctx.labels EXCEPT ![l] = lab2]
      BY <1>15, <1>23, <2>3, <3>1, <3>3 DEF Jumped
    <3>5. LabelOK(lab)
      BY <1>11, <1>12, <1>23, <2>1 DEF ContextOK
    <3>6. lab2.offset = lab.offset /\ lab2.refs = lab.refs \union {ref}
      BY <3>3, <3>5 DEF LabelOK
    <3>7. ctx'.labels[l] = lab2 /\ \A q \in 1 .. Len(ctx.labels) : q # l => ctx'.labels[q] = ctx.labels[q]
      BY <1>12, <2>1, <3>4
    <3>8. Len(ctx'.labels) = n
      BY <1>11, <1>12, <2>1, <3>4, UpdateSeq, SeqDomain
    <3>9. LabelStands(lab2, t, Jumps \union {m0}, Places)
      BY <1>17, <1>24, <2>3, <3>2, <3>6, JumpRefers
    <3>10. ASSUME NEW b \in 0 .. n - 1
           PROVE  LabelStands(ctx'.labels[LabelOf(b)], Block(at.i, b), Jumps \union {m0}, Places)
      <4>1. PICK q, u : q = LabelOf(b) /\ u = Block(at.i, b)
        OBVIOUS
      <4>2. CASE b = block
        BY <1>1, <3>7, <3>9, <4>2
      <4>3. CASE b # block
        <5>1. q \in 1 .. Len(ctx.labels) /\ q # l
          BY <1>1, <1>4, <1>11, <4>1, <4>3 DEF LabelOf
        <5>2. u[3] = b
          BY <4>1 DEF Block
        <5>3. LabelStands(ctx.labels[q], u, Jumps, Places)
          BY <1>1, <1>11, <4>1 DEF LabelsStand
        <5>4. u # t
          BY <1>19, <4>3, <5>2
        <5>5. LabelStands(ctx.labels[q], u, Jumps \union {m0}, Places)
          BY <1>17, <5>3, <5>4, JumpStands
        <5> QED
          BY <3>7, <4>1, <5>1, <5>5
      <4> QED
        BY <4>2, <4>3
    <3> QED
      BY <1>1, <3>8, <3>10 DEF LabelsStand
  <2> QED
    BY <2>2, <2>3
<1>30. LabelsOK'
  BY <1>1, <1>2, <1>20, <1>21, <1>26, <1>29 DEF LabelsOK, InBody, LabelsStand
<1> QED
  BY <1>22, <1>25, <1>27, <1>28, <1>30 DEF Inv, Extends

(* An instruction is emitted. *)
LEMMA EmitInstrStep ==
  ASSUME Inv, EmitInstr
  PROVE  Inv'
<1>1. PICK instr, arg, c : Prepared(instr, arg, c) /\ EmitConverted(instr, arg, c)
  BY InstrPrepared
<1>2. CASE EmitsNothing(instr, arg)
  <2>1. EmitNothing(instr, c)
    BY <1>1, <1>2 DEF EmitConverted
  <2> QED
    BY <1>1, <2>1, EmitNothingStep
<1>3. CASE ~EmitsNothing(instr, arg)
  <2>1. PICK enc : enc = InstrDesc(instr, arg)
    OBVIOUS
  <2>2. EmitEncoded(instr, arg, c, enc)
    BY <1>1, <1>3, <2>1 DEF EmitConverted
  <2>3. CASE Accepted(enc)
    <3>1. PICK bytes : bytes = EncodeInstr(enc)
      OBVIOUS
    <3>2. EmitBytesOf(instr, arg, c, enc, bytes)
      BY <2>2, <2>3, <3>1 DEF EmitEncoded
    <3>3. CASE \A n \in DOMAIN instr.args : instr.args[n].kind # "bb"
      BY <1>1, <2>1, <2>3, <3>2, <3>3, EmitPlainStep
    <3>4. CASE \E n \in DOMAIN instr.args : instr.args[n].kind = "bb"
      BY <1>1, <2>1, <2>3, <3>1, <3>2, <3>4, EmitJumpStep
    <3> QED
      BY <3>3, <3>4
  <2>4. CASE ~Accepted(enc)
    <3>1. at' = [at EXCEPT !.step = "refused"] /\ UNCHANGED <<ctx, meant, placed>>
      BY <2>2, <2>4 DEF EmitEncoded
    <3>2. at.step = "instr" /\ prog' = prog
      BY <1>1 DEF Prepared
    <3> QED
      BY <3>1, <3>2, RefusedStep
  <2> QED
    BY <2>3, <2>4
<1> QED
  BY <1>2, <1>3

(* Nothing happens. *)
LEMMA StutterStep ==
  ASSUME Inv, UNCHANGED vars
  PROVE  Inv'
<1>1. prog' = prog /\ ctx' = ctx /\ at' = at /\ meant' = meant /\ placed' = placed
  BY DEF vars
<1>2. Jumps' = Jumps /\ Places' = Places
  BY <1>1, SameBlocks
<1>3. Inv /\ TextField(ctx') = TextField(ctx)
  BY <1>1
<1>4. FieldsOK(Jumps', Places', TextField(ctx'))
  BY <1>2, <1>3 DEF Inv
<1>5. ContextOK(ctx') /\ WalkOK'
  BY <1>1 DEF Inv, WalkOK, InBody, Blocks, Declared
<1>6. ScopeOK'
  BY <1>1, <1>2 DEF Inv, ScopeOK, InBody, Before, Begun, Blocks
<1>7. LabelsOK'
  BY <1>1, <1>2 DEF Inv, LabelsOK, InBody, LabelsStand
<1> QED
  BY <1>4, <1>5, <1>6, <1>7 DEF Inv

(* Inv is inductive. *)
LEMMA InvNext ==
  ASSUME Inv, [Next]_vars
  PROVE  Inv'
<1>1. CASE DeclareGlobal \/ DeclareFunc
  BY <1>1, DeclareStep
<1>2. CASE NextList
  BY <1>2, NextListStep
<1>3. CASE SkipExternalFunc
  BY <1>3, SkipStep
<1>4. CASE BeginFunc
  BY <1>4, BeginFuncStep
<1>5. CASE BeginBlock
  BY <1>5, BeginBlockStep
<1>6. CASE EndBlock
  BY <1>6, EndBlockStep
<1>7. CASE EndFunc
  BY <1>7, EndFuncStep
<1>8. CASE EmitInstr
  BY <1>8, EmitInstrStep
<1>9. CASE DefineGlobal
  BY <1>9, DefineGlobalStep
<1>10. CASE EmitStub
  BY <1>10, EmitStubStep
<1>11. CASE Join
  BY <1>11, JoinStep
<1>12. CASE Relocate
  BY <1>12, RelocateStep
<1>13. CASE NextSymbol \/ Finish
  BY <1>13, LastSteps
<1>14. CASE UNCHANGED vars
  BY <1>14, StutterStep
<1> QED
  BY <1>1, <1>2, <1>3, <1>4, <1>5, <1>6, <1>7, <1>8, <1>9, <1>10, <1>11, <1>12, <1>13, <1>14 DEF Next

(* The invariant. *)
THEOREM Invariance == Spec => []Inv
<1>1. Init => Inv
  BY InitHolds
<1>2. Inv /\ [Next]_vars => Inv'
  BY InvNext
<1> QED
  BY <1>1, <1>2, PTL DEF Spec

(* In every state the walk is at a known step, the current function is a symbol, no section is larger than its buffer
   and no field lies outside of its section. *)
THEOREM TypeCorrect == Spec => []TypeOK
<1>1. Inv => TypeOK
  BY DEF Inv, WalkOK, ContextOK, SectionOK, TypeOK
<1> QED
  BY <1>1, Invariance, PTL

(* Whatever the program, once a block is placed every jump to it leads to its first instruction, from before or after it
   and at whatever distance (jx64_labelBind, jx64_jcc_lbl, jx64_jmp_lbl). *)
THEOREM Landing == Spec => []BranchesLand
<1>1. Inv => BranchesLand
  <2> SUFFICES ASSUME Inv, NEW m \in meant, m.target[1] = "block", m.target \in DOMAIN placed
               PROVE  m.next + ctx.section["text"].field[m.field] = placed[m.target].offset
    BY DEF BranchesLand
  <2>1. m \in Jumps
    BY DEF Jumps, IsBlock
  <2>2. PICK A : A = {u \in DOMAIN placed : IsBlock(u)}
    OBVIOUS
  <2>3. m.target \in A
    BY <2>2 DEF IsBlock
  <2>4. Places = [t \in A |-> placed[t].offset]
    BY <2>2 DEF Places
  <2>5. m.target \in DOMAIN Places /\ Places[m.target] = placed[m.target].offset
    BY <2>3, <2>4
  <2>6. FieldsOK(Jumps, Places, TextField(ctx))
    BY DEF Inv
  <2> QED
    BY <2>1, <2>5, <2>6 DEF FieldsOK, TextField
<1> QED
  BY <1>1, Invariance, PTL

-----------------------------------------------------------------------------
(* The layout *)

(* A multiple has no remainder, *)
LEMMA MultipleMod == \A a \in Nat \ {0} : \A k \in Nat : (a * k) % a = 0
OBVIOUS

(* and what has none is a multiple. *)
LEMMA ModMultiple == \A a \in Nat \ {0} : \A x \in Nat : x % a = 0 => \E k \in Nat : x = a * k
<1> TAKE a \in Nat \ {0}
<1> TAKE x \in Nat
<1>1. PICK q, r : q = x \div a /\ r = x % a
  OBVIOUS
<1>2. q \in Nat /\ r \in 0 .. a - 1 /\ x = a * q + r
  BY <1>1
<1> HAVE x % a = 0
<1>3. r = 0
  BY <1>1
<1>4. x = a * q
  BY <1>2, <1>3
<1> QED
  BY <1>2, <1>4

(* An aligned position is a multiple of the alignment. *)
LEMMA AlignedPosMod ==
  ASSUME NEW pos \in Nat, NEW alignment \in Nat \ {0}
  PROVE  AlignedPos(pos, alignment) % alignment = 0
<1>1. PICK k : k = (pos + alignment - 1) \div alignment
  OBVIOUS
<1>2. pos + alignment - 1 \in Nat
  OBVIOUS
<1>3. k \in Nat
  BY <1>1, <1>2
<1>4. AlignedPos(pos, alignment) = alignment * k
  BY <1>1, <1>3 DEF AlignedPos
<1> QED
  BY <1>3, <1>4, MultipleMod

(* An offset that is aligned in its section is aligned in the buffer, where the section begins at a page. *)
LEMMA AlignedInBuffer ==
  ASSUME NEW start \in Nat, NEW page \in Nat \ {0}, NEW offset \in Nat, NEW a \in Nat \ {0},
         start % page = 0, page % a = 0, offset % a = 0
  PROVE  (start + offset) % a = 0
<1>1. PICK q \in Nat : start = page * q
  BY ModMultiple
<1>2. PICK p \in Nat : page = a * p
  BY ModMultiple
<1>3. PICK o \in Nat : offset = a * o
  BY ModMultiple
<1>4. PICK k : k = p * q + o
  OBVIOUS
<1>5. k \in Nat
  BY <1>4
<1>6. start = a * (p * q)
  BY <1>1, <1>2
<1>7. start + offset = a * k
  BY <1>3, <1>4, <1>6
<1> QED
  BY <1>5, <1>7, MultipleMod

(* The bytes of a relocated field, and relocations within n bytes. *)
Width(r) == IF r.kind.rel THEN 4 + r.kind.delta ELSE 8
WithinOne(r, n) == r.offset \in Int /\ Width(r) \in Int /\ r.offset + Width(r) \in 1 .. n
Within(relocs, n) == IsSeq(relocs) /\ \A k \in DOMAIN relocs : WithinOne(relocs[k], n)

(* A symbol that lies below bound in its section, if it is placed, as what is relocated in its name does within it. *)
Lies(t, bound) ==
  /\ t.size \in Nat /\ t.offset \in Int
  /\ t.size # 0 => t.offset \in Nat /\ t.offset + t.size <= bound
  /\ Within(t.relocs, t.size)

(* Two symbols of a section. *)
Apart(t, u) == t.size = 0 \/ u.size = 0 \/ t.offset + t.size <= u.offset \/ u.offset + u.size <= t.offset

(* Where the symbols of a section end: the function being emitted is not one of them yet. *)
Function(c) == c.symbols[c.curFunc]
End(c, s) == IF s = "data" THEN c.section["data"].size ELSE IF c.curFunc = 0 THEN TextSize(c) ELSE Function(c).offset
Section(t) == SectionOf(t.kind)

(* The function being emitted. *)
Open(f, n) == f.kind = "function" /\ f.size = 0 /\ f.offset \in 0 .. n /\ Within(f.relocs, n - f.offset)

LaidOut(c) ==
  /\ ContextOK(c)
  /\ \A i \in DOMAIN c.symbols : i # c.curFunc => Lies(c.symbols[i], End(c, Section(c.symbols[i])))
  /\ \A i, j \in DOMAIN c.symbols : i # j /\ Section(c.symbols[i]) = Section(c.symbols[j]) => Apart(c.symbols[i], c.symbols[j])
  /\ c.curFunc # 0 => Open(Function(c), TextSize(c))

(* Nothing is relocated in a symbol without bytes. *)
LEMMA NothingWithin ==
  ASSUME NEW n \in Int
  PROVE  Within(<<>>, n)
<1>1. <<>> \in Seq({}) /\ DOMAIN <<>> = {}
  OBVIOUS
<1> QED
  BY <1>1 DEF Within, IsSeq

(* Nothing that is relocated leaves a larger symbol. *)
LEMMA WithinMore ==
  ASSUME NEW relocs, NEW m \in Int, NEW n \in Int, m <= n, Within(relocs, m)
  PROVE  Within(relocs, n)
<1>1. ASSUME NEW k \in DOMAIN relocs PROVE WithinOne(relocs[k], n)
  <2>1. WithinOne(relocs[k], m)
    BY DEF Within
  <2> QED
    BY <2>1 DEF WithinOne
<1> QED
  BY <1>1 DEF Within

(* Nor does what lies in its section when that grows. *)
LEMMA LiesMore ==
  ASSUME NEW t, NEW m \in Int, NEW n \in Int, m <= n, Lies(t, m)
  PROVE  Lies(t, n)
BY DEF Lies

(* Sizes of the sections, and where symbols end. *)
LEMMA EndsOK ==
  ASSUME NEW c, LaidOut(c)
  PROVE  /\ TextSize(c) \in Nat /\ c.section["data"].size \in Nat /\ \A s : End(c, s) \in Nat
         /\ End(c, "text") <= TextSize(c) /\ c.curFunc \in 0 .. Len(c.symbols) /\ Len(c.symbols) \in Nat
         /\ DOMAIN c.symbols = 1 .. Len(c.symbols)
<1>1. TextSize(c) \in Nat /\ c.section["data"].size \in Nat /\ c.curFunc \in 0 .. Len(c.symbols)
  BY DEF LaidOut, ContextOK, SectionOK, TextSize
<1>2. Len(c.symbols) \in Nat /\ DOMAIN c.symbols = 1 .. Len(c.symbols)
  BY SeqDomain DEF LaidOut, ContextOK
<1>3. CASE c.curFunc = 0
  BY <1>1, <1>2, <1>3 DEF End
<1>4. CASE c.curFunc # 0
  <2>1. Function(c).offset \in 0 .. TextSize(c)
    BY <1>4 DEF LaidOut, Open
  <2> QED
    BY <1>1, <1>2, <1>4, <2>1 DEF End
<1> QED
  BY <1>3, <1>4

(* A symbol u that is new, has no bytes, begins where its section ended, or stands where it stood, as i did in c. *)
Clear(c, i, u) ==
  \/ u.size = 0
  \/ u.offset >= End(c, Section(u)) /\ u.offset \in Nat
  \/ /\ i \in DOMAIN c.symbols /\ i # c.curFunc
     /\ Section(u) = Section(c.symbols[i]) /\ u.size = c.symbols[i].size /\ u.offset = c.symbols[i].offset

(* What stands clear is apart from the others. *)
LEMMA ClearApart ==
  ASSUME NEW c, LaidOut(c), NEW i, NEW u, Clear(c, i, u),
         NEW j \in DOMAIN c.symbols, j # i, Section(u) = Section(c.symbols[j])
  PROVE  Apart(u, c.symbols[j]) /\ Apart(c.symbols[j], u)
<1>1. CASE u.size = 0
  BY <1>1 DEF Apart
<1>2. CASE u.offset >= End(c, Section(u)) /\ u.offset \in Nat
  <2>1. CASE j = c.curFunc
    <3>1. c.symbols[j].size = 0
      <4>1. j # 0
        BY EndsOK
      <4> QED
        BY <2>1, <4>1 DEF LaidOut, Open, Function
    <3> QED
      BY <3>1 DEF Apart
  <2>2. CASE j # c.curFunc
    <3>1. PICK t, e : t = c.symbols[j] /\ e = End(c, Section(u))
      OBVIOUS
    <3>2. Lies(t, e)
      BY <2>2, <3>1 DEF LaidOut
    <3>3. e \in Nat
      BY <3>1, EndsOK
    <3>4. t.size = 0 \/ t.offset + t.size <= u.offset
      BY <1>2, <3>1, <3>2, <3>3 DEF Lies
    <3> QED
      BY <3>1, <3>4 DEF Apart
  <2> QED
    BY <2>1, <2>2
<1>3. CASE /\ i \in DOMAIN c.symbols
           /\ Section(u) = Section(c.symbols[i]) /\ u.size = c.symbols[i].size /\ u.offset = c.symbols[i].offset
  <2>1. Apart(c.symbols[i], c.symbols[j]) /\ Apart(c.symbols[j], c.symbols[i])
    BY <1>3 DEF LaidOut
  <2> QED
    BY <1>3, <2>1 DEF Apart
<1> QED
  BY <1>1, <1>2, <1>3 DEF Clear

(* One symbol changes, or is new. *)
OneOther(c, d, i) == \A j \in DOMAIN d.symbols : j # i => j \in DOMAIN c.symbols /\ d.symbols[j] = c.symbols[j]

(* The layout is sound again when it stands clear, and sections only grow. *)
LEMMA Changed ==
  ASSUME NEW c, LaidOut(c), NEW d, ContextOK(d), NEW i \in DOMAIN d.symbols, OneOther(c, d, i),
         \A s \in {"text", "data"} : End(d, s) \in Nat /\ End(c, s) <= End(d, s),
         c.curFunc = d.curFunc \/ {c.curFunc, d.curFunc} \subseteq {0, i},
         d.curFunc # 0 => Open(Function(d), TextSize(d)),
         i # d.curFunc => Lies(d.symbols[i], End(d, Section(d.symbols[i]))),
         Clear(c, i, d.symbols[i])
  PROVE  LaidOut(d)
<1>1. DOMAIN c.symbols = 1 .. Len(c.symbols) /\ Len(c.symbols) \in Nat /\ \A s : End(c, s) \in Nat
  BY EndsOK
<1>2. ASSUME NEW j \in DOMAIN d.symbols, j # d.curFunc
      PROVE  Lies(d.symbols[j], End(d, Section(d.symbols[j])))
  <2>1. CASE j = i
    BY <1>2, <2>1
  <2>2. CASE j # i
    <3>1. j \in DOMAIN c.symbols /\ d.symbols[j] = c.symbols[j]
      BY <2>2 DEF OneOther
    <3>2. j # c.curFunc
      <4>1. j # 0
        BY <1>1, <3>1
      <4> QED
        BY <1>2, <2>2, <4>1
    <3>3. PICK t : t = c.symbols[j]
      OBVIOUS
    <3>4. Section(t) \in {"text", "data"}
      BY DEF Section, SectionOf
    <3>5. Lies(t, End(c, Section(t)))
      BY <3>1, <3>2, <3>3 DEF LaidOut
    <3>6. PICK m, n : m = End(c, Section(t)) /\ n = End(d, Section(t))
      OBVIOUS
    <3>7. m \in Int /\ n \in Int /\ m <= n
      BY <1>1, <3>4, <3>6
    <3>8. Lies(t, n)
      BY <3>5, <3>6, <3>7, LiesMore
    <3> QED
      BY <3>1, <3>3, <3>6, <3>8
  <2> QED
    BY <2>1, <2>2
<1>3. ASSUME NEW j \in DOMAIN d.symbols, NEW k \in DOMAIN d.symbols, j # k,
             Section(d.symbols[j]) = Section(d.symbols[k])
      PROVE  Apart(d.symbols[j], d.symbols[k])
  <2>1. CASE j = i
    <3>1. k \in DOMAIN c.symbols /\ d.symbols[k] = c.symbols[k] /\ k # i
      BY <1>3, <2>1 DEF OneOther
    <3>2. PICK u : u = d.symbols[i]
      OBVIOUS
    <3>3. Section(u) = Section(c.symbols[k]) /\ Clear(c, i, u)
      BY <1>3, <2>1, <3>1, <3>2
    <3>4. Apart(u, c.symbols[k])
      BY <3>1, <3>3, ClearApart
    <3> QED
      BY <2>1, <3>1, <3>2, <3>4
  <2>2. CASE k = i
    <3>1. j \in DOMAIN c.symbols /\ d.symbols[j] = c.symbols[j] /\ j # i
      BY <1>3, <2>2 DEF OneOther
    <3>2. PICK u : u = d.symbols[i]
      OBVIOUS
    <3>3. Section(u) = Section(c.symbols[j]) /\ Clear(c, i, u)
      BY <1>3, <2>2, <3>1, <3>2
    <3>4. Apart(c.symbols[j], u)
      BY <3>1, <3>3, ClearApart
    <3> QED
      BY <2>2, <3>1, <3>2, <3>4
  <2>3. CASE j # i /\ k # i
    <3>1. /\ j \in DOMAIN c.symbols /\ d.symbols[j] = c.symbols[j]
          /\ k \in DOMAIN c.symbols /\ d.symbols[k] = c.symbols[k]
      BY <2>3 DEF OneOther
    <3> QED
      BY <1>3, <3>1 DEF LaidOut
  <2> QED
    BY <2>1, <2>2, <2>3
<1> QED
  BY <1>2, <1>3 DEF LaidOut

(* d is laid out like c: the symbols but those of X stand where they stood, and none changes its kind. *)
Moved(c, d, X) ==
  /\ LaidOut(d) /\ Len(c.symbols) <= Len(d.symbols)
  /\ \A i \in DOMAIN c.symbols : d.symbols[i].kind = c.symbols[i].kind
  /\ \A i \in DOMAIN c.symbols :
       i \notin X => d.symbols[i].size = c.symbols[i].size /\ d.symbols[i].offset = c.symbols[i].offset

(* One change after the other. *)
LEMMA MovedTrans ==
  ASSUME NEW c, LaidOut(c), NEW d, NEW X, Moved(c, d, X), NEW e, NEW Y, Moved(d, e, Y), Y \cap DOMAIN c.symbols \subseteq X
  PROVE  Moved(c, e, X)
<1>1. /\ Len(c.symbols) \in Nat /\ Len(d.symbols) \in Nat /\ Len(e.symbols) \in Nat
      /\ DOMAIN c.symbols = 1 .. Len(c.symbols) /\ DOMAIN d.symbols = 1 .. Len(d.symbols)
  BY EndsOK DEF Moved
<1>2. Len(c.symbols) <= Len(d.symbols) /\ Len(d.symbols) <= Len(e.symbols)
  BY DEF Moved
<1>3. DOMAIN c.symbols \subseteq DOMAIN d.symbols /\ Len(c.symbols) <= Len(e.symbols)
  BY <1>1, <1>2
<1>4. ASSUME NEW i \in DOMAIN c.symbols
      PROVE  /\ e.symbols[i].kind = c.symbols[i].kind
             /\ i \notin X => e.symbols[i].size = c.symbols[i].size /\ e.symbols[i].offset = c.symbols[i].offset
  <2>1. i \in DOMAIN d.symbols /\ (i \notin X => i \notin Y)
    BY <1>3
  <2> QED
    BY <2>1 DEF Moved
<1> QED
  BY <1>3, <1>4 DEF Moved

(* Sections grow and labels change; no symbol does. *)
LEMMA SameSymbols ==
  ASSUME NEW c, LaidOut(c), NEW d, ContextOK(d), d.symbols = c.symbols, d.curFunc = c.curFunc,
         TextSize(c) <= TextSize(d), c.section["data"].size <= d.section["data"].size
  PROVE  Moved(c, d, {})
<1>1. /\ Len(c.symbols) \in Nat /\ TextSize(c) \in Nat /\ c.section["data"].size \in Nat
      /\ \A s : End(c, s) \in Nat
  BY EndsOK
<1>2. TextSize(d) \in Nat /\ d.section["data"].size \in Nat
  BY DEF ContextOK, SectionOK, TextSize
<1>3. Function(d) = Function(c)
  BY DEF Function
<1>4. ASSUME NEW s PROVE End(d, s) \in Nat /\ End(c, s) <= End(d, s)
  <2>1. CASE s = "data"
    BY <1>1, <1>2, <2>1 DEF End
  <2>2. CASE s # "data" /\ d.curFunc = 0
    BY <1>1, <1>2, <2>2 DEF End
  <2>3. CASE s # "data" /\ d.curFunc # 0
    <3>1. End(d, s) = End(c, s)
      BY <1>3, <2>3 DEF End
    <3>2. End(c, s) \in Nat
      BY <1>1
    <3> QED
      BY <3>1, <3>2
  <2> QED
    BY <2>1, <2>2, <2>3
<1>5. ASSUME NEW i \in DOMAIN d.symbols, i # d.curFunc
      PROVE  Lies(d.symbols[i], End(d, Section(d.symbols[i])))
  <2>1. PICK t : t = c.symbols[i]
    OBVIOUS
  <2>2. PICK m, n : m = End(c, Section(t)) /\ n = End(d, Section(t))
    OBVIOUS
  <2>3. Lies(t, m)
    BY <1>5, <2>1, <2>2 DEF LaidOut
  <2>4. m \in Int /\ n \in Int /\ m <= n
    BY <1>1, <1>4, <2>2
  <2>5. Lies(t, n)
    BY <2>3, <2>4, LiesMore
  <2> QED
    BY <2>1, <2>2, <2>5
<1>6. d.curFunc # 0 => Open(Function(d), TextSize(d))
  <2>1. SUFFICES ASSUME d.curFunc # 0 PROVE Open(Function(d), TextSize(d))
    OBVIOUS
  <2>2. PICK f : f = Function(c)
    OBVIOUS
  <2>3. Open(f, TextSize(c))
    BY <2>1, <2>2 DEF LaidOut
  <2>4. PICK m, n : m = TextSize(c) - f.offset /\ n = TextSize(d) - f.offset
    OBVIOUS
  <2>5. f.offset \in 0 .. TextSize(c) /\ Within(f.relocs, m)
    BY <2>3, <2>4 DEF Open
  <2>6. m \in Int /\ n \in Int /\ m <= n /\ f.offset \in 0 .. TextSize(d)
    BY <1>1, <1>2, <2>4, <2>5
  <2>7. Within(f.relocs, n)
    BY <2>5, <2>6, WithinMore
  <2> QED
    BY <1>3, <2>2, <2>3, <2>4, <2>6, <2>7 DEF Open
<1>7. LaidOut(d)
  BY <1>5, <1>6 DEF LaidOut
<1> QED
  BY <1>1, <1>7 DEF Moved

(* Bytes are emitted. *)
LEMMA EmitBytesMoved ==
  ASSUME NEW c, LaidOut(c), NEW s \in {"text", "data"}, NEW fields, NEW n \in Nat, DOMAIN fields \subseteq 0 .. n - 1
  PROVE  Moved(c, EmitBytes(c, s, fields, n), {}) /\ EmitBytes(c, s, fields, n).curFunc = c.curFunc
<1>1. PICK d : d = EmitBytes(c, s, fields, n)
  OBVIOUS
<1>2. ContextOK(c)
  BY DEF LaidOut
<1>3. Emitted(c, s, fields, n, d)
  BY <1>1, <1>2, EmitBytesOK
<1>4. \A t \in {"text", "data"} : c.section[t].size \in Nat
  BY <1>2 DEF ContextOK, SectionOK
<1>5. \A t \in {"text", "data"} : c.section[t].size <= d.section[t].size
  BY <1>3, <1>4 DEF Emitted, Grown
<1>6. TextSize(c) <= TextSize(d) /\ c.section["data"].size <= d.section["data"].size
  BY <1>5 DEF TextSize
<1>7. ContextOK(d) /\ d.symbols = c.symbols /\ d.curFunc = c.curFunc
  BY <1>3 DEF Emitted
<1> QED
  BY <1>1, <1>6, <1>7, SameSymbols

(* A symbol is declared. *)
LEMMA DeclareMoved ==
  ASSUME NEW c, LaidOut(c), NEW kind, NEW name, IsName(name), NEW d, d = Declare(c, kind, name)
  PROVE  /\ Moved(c, d, {}) /\ d.curFunc = c.curFunc /\ Len(d.symbols) = Len(c.symbols) + 1
         /\ d.symbols[Len(c.symbols) + 1].kind = kind /\ d.symbols[Len(c.symbols) + 1].size = 0
<1>1. PICK new : new = [kind |-> kind, name |-> name, size |-> 0, offset |-> Unbound, relocs |-> <<>>]
  OBVIOUS
<1>2. d = Declare(c, kind, name)
  OBVIOUS
<1>3. PICK syms : syms = Append(c.symbols, new)
  OBVIOUS
<1>4. PICK i : i = Len(c.symbols) + 1
  OBVIOUS
<1>5. ContextOK(c)
  BY DEF LaidOut
<1>6. ContextOK(d)
  BY <1>2, <1>5, DeclareKept DEF Kept, Extends
<1>7. d = [c EXCEPT !.symbols = syms] /\ DOMAIN c = {"section", "symbols", "labels", "curFunc", "buffer"}
  BY <1>1, <1>2, <1>3, <1>5 DEF Declare, ContextOK
<1>8. d.symbols = syms /\ d.section = c.section /\ d.curFunc = c.curFunc
  BY <1>7
<1>9. /\ IsSeq(c.symbols) /\ Len(c.symbols) \in Nat /\ DOMAIN c.symbols = 1 .. Len(c.symbols)
      /\ c.curFunc \in 0 .. Len(c.symbols)
  BY <1>5, SeqDomain DEF ContextOK
<1>10. /\ Len(syms) = i /\ DOMAIN syms = 1 .. i /\ syms[i] = new
       /\ \A j \in DOMAIN c.symbols : syms[j] = c.symbols[j]
  BY <1>3, <1>4, <1>9, AppendSeq
<1>11. i \in DOMAIN d.symbols /\ i \notin DOMAIN c.symbols /\ i # d.curFunc /\ i \in Nat
  BY <1>4, <1>8, <1>9, <1>10
<1>12. OneOther(c, d, i)
  <2>1. \A j \in 1 .. i : j # i => j \in 1 .. Len(c.symbols)
    BY <1>4, <1>9
  <2> QED
    BY <1>8, <1>9, <1>10, <2>1 DEF OneOther
<1>13. \A s : End(d, s) = End(c, s)
  <2>1. c.curFunc # 0 => d.symbols[c.curFunc] = c.symbols[c.curFunc]
    BY <1>8, <1>9, <1>10
  <2> QED
    BY <1>8, <2>1 DEF End, Function, TextSize
<1>14. \A s \in {"text", "data"} : End(d, s) \in Nat /\ End(c, s) <= End(d, s)
  BY <1>13, EndsOK
<1>15. d.curFunc # 0 => Open(Function(d), TextSize(d))
  <2>1. c.curFunc # 0 => d.symbols[c.curFunc] = c.symbols[c.curFunc]
    BY <1>8, <1>9, <1>10
  <2> QED
    BY <1>8, <2>1 DEF LaidOut, Function, TextSize
<1>16. Lies(new, End(d, Section(new)))
  BY <1>1, NothingWithin DEF Lies, Unbound
<1>17. Clear(c, i, new)
  BY <1>1 DEF Clear
<1>18. LaidOut(d)
  BY <1>6, <1>8, <1>10, <1>11, <1>12, <1>14, <1>15, <1>16, <1>17, Changed
<1>19. Moved(c, d, {})
  <2>1. Len(c.symbols) <= Len(d.symbols)
    BY <1>4, <1>8, <1>9, <1>10
  <2> QED
    BY <1>8, <1>10, <1>18, <2>1 DEF Moved
<1>20. d.symbols[i].kind = kind  /\ d.symbols[i].size = 0
  BY <1>1, <1>8, <1>10
<1> QED
  BY <1>2, <1>4, <1>8, <1>10, <1>19, <1>20

(* What jx64_globalVarDefine does: the variable stands at an aligned offset, from where its section ended, and the
   section ends with it. *)
Defined(c, gv, sz, alignment, d) ==
  LET x == d.symbols[gv].offset
  IN  /\ ContextOK(d) /\ d.curFunc = c.curFunc /\ TextSize(d) = TextSize(c)
      /\ Len(d.symbols) = Len(c.symbols) /\ OneOther(c, d, gv)
      /\ x \in Nat /\ x >= c.section["data"].size /\ x % alignment = 0 /\ d.section["data"].size = x + sz
      /\ d.symbols[gv].size = sz /\ d.symbols[gv].kind = c.symbols[gv].kind /\ d.symbols[gv].relocs = c.symbols[gv].relocs

LEMMA GlobalVarDefineOK ==
  ASSUME NEW c, ContextOK(c), NEW gv \in DOMAIN c.symbols, NEW fields, NEW sz \in Nat, DOMAIN fields \subseteq 0 .. sz - 1,
         NEW alignment \in Nat \ {0}
  PROVE  Defined(c, gv, sz, alignment, GlobalVarDefine(c, gv, fields, sz, alignment))
<1>1. PICK pos : pos = c.section["data"].size
  OBVIOUS
<1>2. PICK x : x = AlignedPos(pos, alignment)
  OBVIOUS
<1>3. pos \in Nat
  BY <1>1 DEF ContextOK, SectionOK
<1>4. x \in Nat /\ x >= pos /\ x % alignment = 0
  BY <1>2, <1>3, AlignedPosOK, AlignedPosMod
<1>5. PICK p : p = IF x = pos THEN c ELSE EmitBytes(c, "data", NoField, x - pos)
  OBVIOUS
<1>6. /\ ContextOK(p) /\ p.symbols = c.symbols /\ p.curFunc = c.curFunc /\ p.section["text"] = c.section["text"]
      /\ p.section["data"].size = x
  <2>1. CASE x = pos
    BY <1>1, <1>5, <2>1
  <2>2. CASE x # pos
    <3>1. x - pos \in Nat /\ DOMAIN NoField \subseteq 0 .. (x - pos) - 1
      BY <1>3, <1>4 DEF NoField
    <3>2. Emitted(c, "data", NoField, x - pos, p)
      BY <1>5, <2>2, <3>1, EmitBytesOK
    <3>3. p.section["data"].size = pos + (x - pos)
      BY <1>1, <3>2 DEF Emitted, Grown
    <3> QED
      BY <1>3, <1>4, <3>2, <3>3 DEF Emitted
  <2> QED
    BY <2>1, <2>2
<1>7. PICK u : u = [c.symbols[gv] EXCEPT !.offset = x, !.size = sz]
  OBVIOUS
<1>8. PICK q : q = PutSymbol(p, gv, x, sz)
  OBVIOUS
<1>9. ContextOK(q)
  BY <1>6, <1>8, PutSymbolKept DEF Kept, Extends
<1>10. DOMAIN p = {"section", "symbols", "labels", "curFunc", "buffer"}
  BY <1>6 DEF ContextOK
<1>11. q.symbols = [c.symbols EXCEPT ![gv] = u] /\ q.section = p.section /\ q.curFunc = c.curFunc
  <2>1. q = [p EXCEPT !.symbols[gv].offset = x, !.symbols[gv].size = sz]
    BY <1>8 DEF PutSymbol
  <2> QED
    BY <1>6, <1>7, <1>10, <2>1
<1>12. PICK d : d = EmitBytes(q, "data", fields, sz)
  OBVIOUS
<1>13. Emitted(q, "data", fields, sz, d)
  BY <1>9, <1>12, EmitBytesOK
<1>14. d = GlobalVarDefine(c, gv, fields, sz, alignment)
  BY <1>1, <1>2, <1>5, <1>6, <1>8, <1>12 DEF GlobalVarDefine, PutSymbol
<1>15. ContextOK(d) /\ d.symbols = [c.symbols EXCEPT ![gv] = u] /\ d.curFunc = c.curFunc
  BY <1>11, <1>13 DEF Emitted
<1>16. TextSize(d) = TextSize(c) /\ d.section["data"].size = x + sz
  BY <1>6, <1>11, <1>13 DEF Emitted, Grown, TextSize
<1>17. d.symbols[gv] = u /\ OneOther(c, d, gv)
  BY <1>15 DEF OneOther
<1>18. DOMAIN c.symbols[gv] = {"kind", "name", "size", "offset", "relocs"}
  BY DEF ContextOK, SymbolOK
<1>19. u.offset = x /\ u.size = sz /\ u.kind = c.symbols[gv].kind /\ u.relocs = c.symbols[gv].relocs
  BY <1>7, <1>18
<1>20. Len(d.symbols) = Len(c.symbols)
  BY <1>15, UpdateSeq DEF ContextOK
<1> QED
  BY <1>1, <1>4, <1>14, <1>15, <1>16, <1>17, <1>19, <1>20 DEF Defined

(* The variable had no bytes: it stands clear of the others. *)
LEMMA DefinedMoved ==
  ASSUME NEW c, LaidOut(c), NEW gv \in DOMAIN c.symbols, c.symbols[gv].kind # "function", c.symbols[gv].size = 0,
         NEW sz \in Nat, NEW alignment, NEW d, Defined(c, gv, sz, alignment, d)
  PROVE  /\ Moved(c, d, {gv}) /\ d.curFunc = c.curFunc /\ Len(d.symbols) = Len(c.symbols)
         /\ d.symbols[gv].size = sz /\ d.symbols[gv].offset \in Nat /\ d.symbols[gv].offset % alignment = 0
<1>2. PICK x : x = d.symbols[gv].offset
  OBVIOUS
<1>4. /\ ContextOK(d) /\ d.curFunc = c.curFunc /\ TextSize(d) = TextSize(c)
      /\ Len(d.symbols) = Len(c.symbols) /\ OneOther(c, d, gv)
      /\ x \in Nat /\ x >= c.section["data"].size /\ x % alignment = 0 /\ d.section["data"].size = x + sz
      /\ d.symbols[gv].size = sz /\ d.symbols[gv].kind = c.symbols[gv].kind /\ d.symbols[gv].relocs = c.symbols[gv].relocs
  BY <1>2 DEF Defined
<1>5. /\ TextSize(c) \in Nat /\ c.section["data"].size \in Nat /\ \A s : End(c, s) \in Nat
      /\ c.curFunc \in 0 .. Len(c.symbols) /\ DOMAIN c.symbols = 1 .. Len(c.symbols) /\ Len(c.symbols) \in Nat
  BY EndsOK
<1>6. gv # c.curFunc /\ gv \in DOMAIN d.symbols
  <2>1. gv # 0 /\ gv \in 1 .. Len(d.symbols)
    BY <1>4, <1>5
  <2>2. DOMAIN d.symbols = 1 .. Len(d.symbols)
    BY <1>4, SeqDomain DEF ContextOK
  <2> QED
    BY <2>1, <2>2 DEF LaidOut, Open, Function
<1>7. c.curFunc # 0 => Function(d) = Function(c)
  <2>1. SUFFICES ASSUME c.curFunc # 0 PROVE d.symbols[c.curFunc] = c.symbols[c.curFunc]
    BY <1>4 DEF Function
  <2>2. DOMAIN d.symbols = 1 .. Len(c.symbols)
    BY <1>4, SeqDomain DEF ContextOK
  <2>3. c.curFunc \in DOMAIN d.symbols
    BY <1>5, <2>1, <2>2
  <2> QED
    BY <1>4, <1>6, <2>3 DEF OneOther
<1>8. End(d, "text") = End(c, "text") /\ End(c, "data") = c.section["data"].size /\ End(d, "data") = x + sz
  BY <1>4, <1>7 DEF End
<1>9. \A s \in {"text", "data"} : End(d, s) \in Nat /\ End(c, s) <= End(d, s)
  BY <1>4, <1>5, <1>8
<1>10. d.curFunc # 0 => Open(Function(d), TextSize(d))
  BY <1>4, <1>7 DEF LaidOut
<1>11. PICK u : u = d.symbols[gv]
  OBVIOUS
<1>12. Section(u) = "data"
  BY <1>4, <1>11 DEF Section, SectionOf
<1>13. Within(u.relocs, u.size)
  <2>1. Within(c.symbols[gv].relocs, 0)
    BY <1>6 DEF LaidOut, Lies
  <2> QED
    BY <1>4, <1>11, <2>1, WithinMore
<1>14. Lies(u, x + sz)
  BY <1>2, <1>4, <1>11, <1>13 DEF Lies
<1>15. Clear(c, gv, u)
  BY <1>2, <1>4, <1>8, <1>11, <1>12 DEF Clear
<1>16. Lies(u, End(d, Section(u)))
  BY <1>8, <1>12, <1>14
<1>17. LaidOut(d)
  BY <1>4, <1>6, <1>9, <1>10, <1>11, <1>15, <1>16, Changed
<1>18. Moved(c, d, {gv})
  <2>1. DOMAIN d.symbols = DOMAIN c.symbols
    BY <1>4, <1>5, SeqDomain DEF ContextOK
  <2>2. Len(c.symbols) <= Len(d.symbols)
    BY <1>4, <1>5
  <2> QED
    BY <1>4, <1>17, <2>1, <2>2 DEF Moved, OneOther
<1> QED
  BY <1>2, <1>4, <1>18

(* A symbol is replaced by another, u; the sections may grow. *)
Replaced(c, d, i, u, curFunc, text) ==
  /\ ContextOK(d) /\ d.symbols = [c.symbols EXCEPT ![i] = u] /\ d.curFunc = curFunc
  /\ TextSize(d) = text /\ d.section["data"].size = c.section["data"].size

(* What is replaced stands clear, is the function that begins or ends, or is the function being emitted. *)
LEMMA ReplacedMoved ==
  ASSUME NEW c, LaidOut(c), NEW i \in DOMAIN c.symbols, NEW u, NEW d, NEW curFunc \in {0, i, c.curFunc}, NEW text \in Nat,
         Replaced(c, d, i, u, curFunc, text), u.kind = c.symbols[i].kind, Clear(c, i, u),
         text >= TextSize(c), c.curFunc = curFunc \/ c.curFunc \in {0, i}, curFunc = i => Open(u, text),
         curFunc = i => u.offset >= End(c, "text"),
         i # curFunc => Lies(u, IF Section(u) = "data" THEN c.section["data"].size ELSE text),
         i # curFunc => curFunc = 0 \/ Section(u) = "data"
  PROVE  Moved(c, d, {i})
<1>1. /\ TextSize(c) \in Nat /\ c.section["data"].size \in Nat /\ \A s : End(c, s) \in Nat
      /\ End(c, "text") <= TextSize(c)
      /\ c.curFunc \in 0 .. Len(c.symbols) /\ DOMAIN c.symbols = 1 .. Len(c.symbols) /\ Len(c.symbols) \in Nat
  BY EndsOK
<1>2. /\ DOMAIN d.symbols = DOMAIN c.symbols /\ d.symbols[i] = u /\ OneOther(c, d, i) /\ Len(d.symbols) = Len(c.symbols)
      /\ d.curFunc = curFunc /\ TextSize(d) = text /\ d.section["data"].size = c.section["data"].size
  BY UpdateSeq DEF Replaced, OneOther, LaidOut, ContextOK
<1>3. i # 0
  BY <1>1
<1>4. curFunc \notin {0, i} => Function(d) = Function(c) /\ curFunc = c.curFunc
  <2>1. SUFFICES ASSUME curFunc \notin {0, i} PROVE d.symbols[curFunc] = c.symbols[curFunc] /\ curFunc = c.curFunc
    BY <1>2 DEF Function
  <2>2. curFunc \in DOMAIN d.symbols /\ curFunc = c.curFunc
    BY <1>1, <1>2, <2>1
  <2> QED
    BY <1>2, <2>1, <2>2 DEF OneOther
<1>5. curFunc = i => Function(d) = u
  BY <1>2 DEF Function
<1>6. curFunc # 0 => Open(Function(d), TextSize(d))
  <2>1. CASE curFunc = i
    BY <1>2, <1>5, <2>1
  <2>2. CASE curFunc \notin {0, i}
    <3>1. PICK f : f = Function(c)
      OBVIOUS
    <3>2. Open(f, TextSize(c))
      BY <1>4, <2>2, <3>1 DEF LaidOut
    <3>3. PICK m, n : m = TextSize(c) - f.offset /\ n = text - f.offset
      OBVIOUS
    <3>4. f.offset \in 0 .. TextSize(c) /\ Within(f.relocs, m)
      BY <3>2, <3>3 DEF Open
    <3>5. m \in Int /\ n \in Int /\ m <= n /\ f.offset \in 0 .. text
      BY <1>1, <3>3, <3>4
    <3>6. Within(f.relocs, n)
      BY <3>4, <3>5, WithinMore
    <3> QED
      BY <1>2, <1>4, <2>2, <3>1, <3>2, <3>3, <3>5, <3>6 DEF Open
  <2> QED
    BY <2>1, <2>2
<1>7. End(d, "data") = End(c, "data")
  BY <1>2 DEF End
<1>8. End(d, "text") \in Nat /\ End(c, "text") <= End(d, "text")
  <2>1. CASE curFunc = 0
    <3>1. End(d, "text") = text
      BY <1>2, <2>1 DEF End
    <3> QED
      BY <1>1, <3>1
  <2>2. CASE curFunc = i
    <3>1. End(d, "text") = u.offset
      BY <1>2, <1>3, <1>5, <2>2 DEF End
    <3>2. u.offset \in 0 .. text
      BY <2>2 DEF Open
    <3> QED
      BY <2>2, <3>1, <3>2
  <2>3. CASE curFunc \notin {0, i}
    <3>1. End(d, "text") = End(c, "text")
      BY <1>2, <1>4, <2>3 DEF End
    <3> QED
      BY <1>1, <3>1
  <2> QED
    BY <2>1, <2>2, <2>3
<1>9. \A s \in {"text", "data"} : End(d, s) \in Nat /\ End(c, s) <= End(d, s)
  BY <1>1, <1>7, <1>8
<1>10. i # d.curFunc => Lies(u, End(d, Section(u)))
  BY <1>2 DEF End, Section, SectionOf
<1>11. LaidOut(d)
  BY <1>2, <1>6, <1>9, <1>10, Changed DEF Replaced
<1> QED
  BY <1>1, <1>2, <1>11 DEF Moved, OneOther

(* A function begins. *)
LEMMA FuncBeginMoved ==
  ASSUME NEW c, LaidOut(c), c.curFunc = 0, NEW i \in DOMAIN c.symbols, c.symbols[i].kind = "function", c.symbols[i].size = 0
  PROVE  Moved(c, FuncBegin(c, i), {i}) /\ FuncBegin(c, i).curFunc = i
<1>1. /\ TextSize(c) \in Nat /\ DOMAIN c.symbols = 1 .. Len(c.symbols) /\ Len(c.symbols) \in Nat
      /\ End(c, "text") <= TextSize(c) /\ End(c, "text") = TextSize(c)
  BY EndsOK DEF End
<1>2. PICK d : d = FuncBegin(c, i)
  OBVIOUS
<1>3. ContextOK(c) /\ i \in 0 .. Len(c.symbols)
  BY <1>1 DEF LaidOut
<1>4. ContextOK(d)
  BY <1>2, <1>3, FuncBeginKept DEF Kept, Extends
<1>5. PICK u : u = [c.symbols[i] EXCEPT !.offset = TextSize(c)]
  OBVIOUS
<1>6. DOMAIN c.symbols[i] = {"kind", "name", "size", "offset", "relocs"}
  BY <1>3 DEF ContextOK, SymbolOK
<1>7. u.offset = TextSize(c) /\ u.size = 0 /\ u.kind = "function" /\ u.relocs = c.symbols[i].relocs
  BY <1>5, <1>6
<1>8. DOMAIN c = {"section", "symbols", "labels", "curFunc", "buffer"}
  BY <1>3 DEF ContextOK
<1>9. d.symbols = [c.symbols EXCEPT ![i] = u] /\ d.section = c.section /\ d.curFunc = i
  BY <1>2, <1>5, <1>8 DEF FuncBegin, NoSymbol
<1>10. Replaced(c, d, i, u, i, TextSize(c))
  BY <1>4, <1>9 DEF Replaced, TextSize
<1>11. Within(u.relocs, 0)
  BY <1>1, <1>7 DEF LaidOut, Lies
<1>12. Open(u, TextSize(c))
  <2>1. TextSize(c) - TextSize(c) = 0 /\ TextSize(c) \in 0 .. TextSize(c)
    BY <1>1
  <2> QED
    BY <1>7, <1>11, <2>1 DEF Open
<1>13. Clear(c, i, u)
  BY <1>7 DEF Clear
<1>14. TextSize(c) >= TextSize(c) /\ u.offset >= End(c, "text")
  BY <1>1, <1>7
<1>15. Moved(c, d, {i})
  BY <1>1, <1>7, <1>10, <1>12, <1>13, <1>14, ReplacedMoved
<1> QED
  BY <1>2, <1>9, <1>15

(* A function ends: it is placed where it began, and reaches to the end of the section. *)
LEMMA FuncEndMoved ==
  ASSUME NEW c, LaidOut(c), c.curFunc # 0
  PROVE  Moved(c, FuncEnd(c), {c.curFunc}) /\ FuncEnd(c).curFunc = 0
<1>1. PICK i, n : i = c.curFunc /\ n = TextSize(c)
  OBVIOUS
<1>2. /\ n \in Nat /\ DOMAIN c.symbols = 1 .. Len(c.symbols) /\ Len(c.symbols) \in Nat
      /\ c.curFunc \in 0 .. Len(c.symbols)
  BY <1>1, EndsOK
<1>3. i \in DOMAIN c.symbols /\ ContextOK(c)
  BY <1>1, <1>2 DEF LaidOut
<1>4. PICK d : d = FuncEnd(c)
  OBVIOUS
<1>5. ContextOK(d)
  BY <1>3, <1>4, FuncEndKept DEF Kept, Extends
<1>6. PICK u : u = [c.symbols[i] EXCEPT !.size = n - c.symbols[i].offset]
  OBVIOUS
<1>7. DOMAIN c.symbols[i] = {"kind", "name", "size", "offset", "relocs"}
  BY <1>3 DEF ContextOK, SymbolOK
<1>8. u.offset = c.symbols[i].offset /\ u.size = n - u.offset /\ u.kind = c.symbols[i].kind /\ u.relocs = c.symbols[i].relocs
  BY <1>6, <1>7
<1>9. DOMAIN c = {"section", "symbols", "labels", "curFunc", "buffer"}
  BY <1>3 DEF ContextOK
<1>10. d.symbols = [c.symbols EXCEPT ![i] = u] /\ d.section = c.section /\ d.curFunc = 0
  BY <1>1, <1>4, <1>6, <1>9 DEF FuncEnd, FuncSize, NoSymbol
<1>11. Replaced(c, d, i, u, 0, n)
  BY <1>1, <1>5, <1>10 DEF Replaced, TextSize
<1>12. Open(c.symbols[i], n)
  BY <1>1 DEF LaidOut, Function
<1>13. u.kind = "function" /\ u.offset \in 0 .. n /\ Within(u.relocs, u.size)
  BY <1>8, <1>12 DEF Open
<1>14. u.size \in Nat /\ u.offset \in Nat /\ u.offset + u.size <= n
  BY <1>2, <1>8, <1>13
<1>15. Section(u) = "text"
  BY <1>13 DEF Section, SectionOf
<1>16. Lies(u, n)
  BY <1>13, <1>14 DEF Lies
<1>17. Clear(c, i, u)
  <2>1. End(c, "text") = u.offset
    BY <1>1, <1>8 DEF End, Function
  <2> QED
    BY <1>14, <1>15, <2>1 DEF Clear
<1>18. n >= TextSize(c) /\ i # 0
  BY <1>1, <1>2
<1>19. Moved(c, d, {i})
  BY <1>1, <1>2, <1>3, <1>8, <1>11, <1>15, <1>16, <1>17, <1>18, ReplacedMoved
<1> QED
  BY <1>1, <1>4, <1>10, <1>19

(* One more relocation. *)
LEMMA WithinAppend ==
  ASSUME NEW relocs, NEW m \in Int, NEW n \in Int, m <= n, Within(relocs, m), NEW r, WithinOne(r, n)
  PROVE  Within(Append(relocs, r), n)
<1>1. IsSeq(relocs) /\ Len(relocs) \in Nat /\ DOMAIN relocs = 1 .. Len(relocs)
  BY SeqDomain DEF Within
<1>2. PICK s : s = Append(relocs, r)
  OBVIOUS
<1>3. /\ IsSeq(s) /\ DOMAIN s = 1 .. Len(relocs) + 1 /\ s[Len(relocs) + 1] = r
      /\ \A k \in DOMAIN relocs : s[k] = relocs[k]
  BY <1>1, <1>2, AppendSeq
<1>4. ASSUME NEW k \in DOMAIN s PROVE WithinOne(s[k], n)
  <2>1. CASE k = Len(relocs) + 1
    BY <1>3, <2>1
  <2>2. CASE k # Len(relocs) + 1
    <3>1. k \in DOMAIN relocs
      BY <1>1, <1>3, <2>2
    <3> QED
      BY <1>3, <3>1, WithinMore DEF Within
  <2> QED
    BY <2>1, <2>2
<1> QED
  BY <1>2, <1>3, <1>4 DEF Within

(* Only the function being emitted changes. *)
MovedWithin(c, d) == Moved(c, d, {c.curFunc}) /\ d.curFunc = c.curFunc

(* An instruction that names a symbol: its relocation lies within its bytes. *)
LEMMA UseSymbolMoved ==
  ASSUME NEW c, LaidOut(c), c.curFunc # 0, NEW sym, NEW opcode \in Nat, NEW imm \in Nat,
         NEW d, d = UseSymbol(c, sym, opcode, imm)
  PROVE  MovedWithin(c, d)
<1>1. PICK i, n : i = c.curFunc /\ n = TextSize(c)
  OBVIOUS
<1>2. /\ n \in Nat /\ DOMAIN c.symbols = 1 .. Len(c.symbols) /\ Len(c.symbols) \in Nat
      /\ c.curFunc \in 0 .. Len(c.symbols)
  BY <1>1, EndsOK
<1>3. i \in DOMAIN c.symbols /\ ContextOK(c) /\ i # 0
  BY <1>1, <1>2 DEF LaidOut
<1>4. PICK where : where = n - c.symbols[i].offset + opcode
  OBVIOUS
<1>5. PICK kind : kind = [rel |-> TRUE, delta |-> RelocDelta(imm)]
  OBVIOUS
<1>6. PICK r : r = [kind |-> kind, offset |-> where, name |-> c.symbols[sym].name]
  OBVIOUS
<1>7. PICK e : e = SymbolAddRelocation(c, i, kind, where, c.symbols[sym].name)
  OBVIOUS
<1>8. ContextOK(e)
  BY <1>3, <1>7, SymbolAddRelocationKept DEF Kept, Extends
<1>9. PICK u : u = [c.symbols[i] EXCEPT !.relocs = Append(c.symbols[i].relocs, r)]
  OBVIOUS
<1>10. DOMAIN c.symbols[i] = {"kind", "name", "size", "offset", "relocs"}
       /\ DOMAIN c = {"section", "symbols", "labels", "curFunc", "buffer"}
  BY <1>3 DEF ContextOK, SymbolOK
<1>11. /\ u.offset = c.symbols[i].offset /\ u.size = c.symbols[i].size /\ u.kind = c.symbols[i].kind
       /\ u.relocs = Append(c.symbols[i].relocs, r)
  BY <1>9, <1>10
<1>12. e.symbols = [c.symbols EXCEPT ![i] = u] /\ e.section = c.section /\ e.curFunc = i
  BY <1>1, <1>6, <1>7, <1>9, <1>10 DEF SymbolAddRelocation
<1>13. PICK fields : fields = [o \in {opcode} |-> 0]
  OBVIOUS
<1>14. PICK size : size = opcode + 4 + imm
  OBVIOUS
<1>15. DOMAIN fields \subseteq 0 .. size - 1 /\ size \in Nat
  BY <1>13, <1>14
<1>16. d = EmitBytes(e, "text", fields, size)
  BY <1>1, <1>4, <1>5, <1>7, <1>13, <1>14 DEF UseSymbol
<1>17. Emitted(e, "text", fields, size, d)
  BY <1>8, <1>15, <1>16, EmitBytesOK
<1>19. Replaced(c, d, i, u, i, n + size)
  BY <1>1, <1>12, <1>17 DEF Replaced, Emitted, Grown, TextSize
<1>20. Open(c.symbols[i], n)
  BY <1>1, <1>3 DEF LaidOut, Function
<1>21. PICK f : f = c.symbols[i].offset
  OBVIOUS
<1>22. c.symbols[i].kind = "function" /\ c.symbols[i].size = 0 /\ f \in 0 .. n /\ Within(c.symbols[i].relocs, n - f)
  BY <1>20, <1>21 DEF Open
<1>23. WithinOne(r, (n + size) - f)
  <2>1. r.offset = (n - f) + opcode /\ Width(r) = 4 + imm
    BY <1>4, <1>5, <1>6, <1>21 DEF Width, RelocDelta
  <2>2. r.offset + Width(r) = (n + size) - f
    <3>1. n \in Int /\ f \in Int
      BY <1>2, <1>22
    <3> QED
      BY <1>14, <2>1, <3>1
  <2>3. r.offset \in Int /\ Width(r) \in Int /\ r.offset + Width(r) \in 1 .. (n + size) - f
    BY <1>2, <1>14, <1>22, <2>1, <2>2
  <2> QED
    BY <2>3 DEF WithinOne
<1>24. Within(u.relocs, (n + size) - f)
  <2>1. n - f \in Int /\ (n + size) - f \in Int /\ n - f <= (n + size) - f
    BY <1>2, <1>15, <1>22
  <2> QED
    BY <1>11, <1>22, <1>23, <2>1, WithinAppend
<1>25. Open(u, n + size)
  <2>1. f \in 0 .. n + size
    BY <1>2, <1>15, <1>22
  <2> QED
    BY <1>11, <1>21, <1>22, <1>24, <2>1 DEF Open
<1>26. Clear(c, i, u)
  BY <1>11, <1>22 DEF Clear
<1>27. n + size >= TextSize(c) /\ n + size \in Nat /\ u.offset >= End(c, "text")
  <2>1. End(c, "text") = f
    BY <1>1, <1>3, <1>21 DEF End, Function
  <2> QED
    BY <1>1, <1>2, <1>11, <1>15, <1>21, <1>22, <2>1
<1>28. Moved(c, d, {i})
  BY <1>1, <1>3, <1>11, <1>19, <1>25, <1>26, <1>27, ReplacedMoved
<1>29. d.curFunc = i
  BY <1>19 DEF Replaced
<1> QED
  BY <1>1, <1>28, <1>29 DEF MovedWithin

(* A change that moves nothing moves nothing of X. *)
LEMMA MovedMore ==
  ASSUME NEW c, NEW d, Moved(c, d, {}), NEW X
  PROVE  Moved(c, d, X)
BY DEF Moved

(* Nor does no change. *)
LEMMA MovedSelf ==
  ASSUME NEW c, LaidOut(c), NEW X
  PROVE  Moved(c, c, X)
BY EndsOK DEF Moved

(* The labels of a function are allocated, and freed. *)
LEMMA LabelsMoved ==
  ASSUME NEW c, LaidOut(c), NEW labels, NEW d, d = [c EXCEPT !.labels = labels], ContextOK(d)
  PROVE  Moved(c, d, {}) /\ d.curFunc = c.curFunc /\ d.symbols = c.symbols
<1>1. DOMAIN c = {"section", "symbols", "labels", "curFunc", "buffer"}
  BY DEF LaidOut, ContextOK
<1>2. d.symbols = c.symbols /\ d.curFunc = c.curFunc /\ d.section = c.section
  BY <1>1
<1>3. TextSize(c) <= TextSize(d) /\ c.section["data"].size <= d.section["data"].size
  BY <1>2, EndsOK DEF TextSize
<1> QED
  BY <1>2, <1>3, SameSymbols

(* A label is bound: fields change. *)
LEMMA LabelBindMoved ==
  ASSUME NEW c, LaidOut(c), NEW l, ContextOK(LabelBind(c, l))
  PROVE  Moved(c, LabelBind(c, l), {}) /\ LabelBind(c, l).curFunc = c.curFunc
<1>1. PICK d : d = LabelBind(c, l)
  OBVIOUS
<1>2. PICK labels : labels = [c.labels EXCEPT ![l].offset = TextSize(c)]
  OBVIOUS
<1>3. PICK f : f = Overwrite(c.section["text"].field,
                             [o \in {r.disp : r \in c.labels[l].refs} |->
                                TextSize(c) - (CHOOSE r \in c.labels[l].refs : r.disp = o).next])
  OBVIOUS
<1>4. ContextOK(c) /\ DOMAIN c = {"section", "symbols", "labels", "curFunc", "buffer"} /\ DOMAIN c.section = {"text", "data"}
  BY DEF LaidOut, ContextOK
<1>5. d = [c EXCEPT !.labels = labels, !.section = [c.section EXCEPT !["text"] = [c.section["text"] EXCEPT !.field = f]]]
  BY <1>1, <1>2, <1>3, <1>4 DEF LabelBind
<1>6. d.symbols = c.symbols /\ d.curFunc = c.curFunc
      /\ d.section = [c.section EXCEPT !["text"] = [c.section["text"] EXCEPT !.field = f]]
  BY <1>4, <1>5
<1>7. DOMAIN c.section["text"] = {"size", "capacity", "field", "start"}
  BY <1>4 DEF ContextOK, SectionOK
<1>8. d.section["data"] = c.section["data"] /\ d.section["text"].size = c.section["text"].size
  BY <1>4, <1>6, <1>7
<1>9. TextSize(c) <= TextSize(d) /\ c.section["data"].size <= d.section["data"].size
  BY <1>8, EndsOK DEF TextSize
<1> QED
  BY <1>1, <1>6, <1>9, SameSymbols

(* A jump to a label is emitted. *)
LEMMA JumpToLabelMoved ==
  ASSUME NEW c, LaidOut(c), NEW l \in 1 .. Len(c.labels), NEW opcode \in Nat
  PROVE  Moved(c, JumpToLabel(c, l, opcode), {}) /\ JumpToLabel(c, l, opcode).curFunc = c.curFunc
<1>1. PICK e : e = JumpToLabel(c, l, opcode)
  OBVIOUS
<1>2. ContextOK(c)
  BY DEF LaidOut
<1>3. Extends(c, e)
  BY <1>1, <1>2, JumpToLabelOK DEF Jumped
<1>4. PICK bound, size : bound = (c.labels[l].offset # Unbound) /\ size = opcode + 4
  OBVIOUS
<1>5. PICK fields : fields = [o \in {opcode} |-> IF bound THEN c.labels[l].offset - TextSize(c) - size ELSE -size]
  OBVIOUS
<1>6. PICK labels : labels = [c.labels EXCEPT ![l].refs = IF bound THEN c.labels[l].refs
                                                         ELSE c.labels[l].refs \union {LabelRef(c, opcode)}]
  OBVIOUS
<1>7. PICK d : d = [c EXCEPT !.labels = labels]
  OBVIOUS
<1>8. DOMAIN c = {"section", "symbols", "labels", "curFunc", "buffer"} /\ DOMAIN c.section = {"text", "data"}
  BY <1>2 DEF ContextOK
<1>9. e = EmitBytes(d, "text", fields, size)
  BY <1>1, <1>4, <1>5, <1>6, <1>7, <1>8 DEF JumpToLabel
<1>10. PICK new : new = Grow(c.section["text"], fields, size)
  OBVIOUS
<1>11. d.symbols = c.symbols /\ d.curFunc = c.curFunc /\ d.section = c.section /\ DOMAIN d = DOMAIN c
  BY <1>7, <1>8
<1>12. e = [d EXCEPT !.section["text"] = new]
  BY <1>9, <1>10, <1>11 DEF EmitBytes
<1>13. e.symbols = c.symbols /\ e.curFunc = c.curFunc /\ e.section["data"] = c.section["data"]
  BY <1>8, <1>11, <1>12
<1>14. TextSize(c) <= TextSize(e) /\ c.section["data"].size <= e.section["data"].size /\ ContextOK(e)
  BY <1>3, <1>13, EndsOK DEF Extends
<1> QED
  BY <1>1, <1>13, <1>14, SameSymbols

(* A constant is defined. *)
LEMMA WithConstantMoved ==
  ASSUME NEW c, LaidOut(c), NEW op, op.type \in {"f32", "f64"}
  PROVE  Moved(c, WithConstant(c, op), {}) /\ WithConstant(c, op).curFunc = c.curFunc
<1>1. PICK d : d = Declare(c, "variable", ConstantName(op))
  OBVIOUS
<1>2. PICK i : i = Len(c.symbols) + 1
  OBVIOUS
<1>3. /\ Moved(c, d, {}) /\ d.curFunc = c.curFunc /\ Len(d.symbols) = Len(c.symbols) + 1
      /\ d.symbols[i].kind = "variable" /\ d.symbols[i].size = 0
  BY <1>1, <1>2, ConstantNameOK, DeclareMoved
<1>4. LaidOut(d) /\ DOMAIN d.symbols = 1 .. i /\ i \in DOMAIN d.symbols /\ i \notin DOMAIN c.symbols
  <2>1. LaidOut(d)
    BY <1>3 DEF Moved
  <2>2. DOMAIN d.symbols = 1 .. Len(d.symbols) /\ DOMAIN c.symbols = 1 .. Len(c.symbols) /\ Len(c.symbols) \in Nat
    BY <2>1, EndsOK
  <2> QED
    BY <1>2, <1>3, <2>1, <2>2
<1>5. PICK n : n = BitsOf[op.type] \div 8
  OBVIOUS
<1>6. n \in Nat \ {0} /\ n \in Nat
  BY <1>5 DEF BitsOf
<1>7. PICK fields : fields = NoField
  OBVIOUS
<1>8. PICK e : e = GlobalVarDefine(d, i, fields, n, n)
  OBVIOUS
<1>9. Moved(d, e, {i}) /\ e.curFunc = d.curFunc
  <2>1. DOMAIN fields \subseteq 0 .. n - 1 /\ d.symbols[i].kind # "function" /\ d.symbols[i].size = 0
    BY <1>3, <1>7 DEF NoField
  <2>2. Defined(d, i, n, n, e)
    BY <1>4, <1>6, <1>8, <2>1, GlobalVarDefineOK DEF LaidOut
  <2>3. Moved(d, e, {i})
    BY <1>4, <1>6, <2>1, <2>2, DefinedMoved
  <2> QED
    BY <2>2, <2>3 DEF Defined
<1>10. Moved(c, e, {})
  BY <1>3, <1>4, <1>9, MovedTrans
<1>11. WithConstant(c, op) = c \/ WithConstant(c, op) = e
  BY <1>1, <1>2, <1>5, <1>7, <1>8 DEF WithConstant
<1> QED
  BY <1>3, <1>9, <1>10, <1>11, MovedSelf

(* An operand is converted. *)
LEMMA WithOperandMoved ==
  ASSUME NEW c, LaidOut(c), NEW op, NEW n, MIROperand(op, n)
  PROVE  Moved(c, WithOperand(c, op), {}) /\ WithOperand(c, op).curFunc = c.curFunc
<1>1. CASE op.kind = "float"
  <2>1. op.type \in {"f32", "f64"}
    BY <1>1 DEF MIROperand
  <2>2. WithOperand(c, op) = WithConstant(c, op)
    BY <1>1 DEF WithOperand
  <2> QED
    BY <2>1, <2>2, WithConstantMoved
<1>2. CASE op.kind = "ext"
  <2>1. PICK d : d = Declare(c, "function", op.name)
    OBVIOUS
  <2>2. IsName(op.name)
    BY <1>2 DEF MIROperand
  <2>3. Moved(c, d, {}) /\ d.curFunc = c.curFunc
    BY <2>1, <2>2, DeclareMoved
  <2>4. WithOperand(c, op) = WithIntrinsic(c, op.name)
    BY <1>2 DEF WithOperand
  <2>5. WithOperand(c, op) = c \/ WithOperand(c, op) = d
    BY <2>1, <2>4 DEF WithIntrinsic
  <2> QED
    BY <2>3, <2>5, MovedSelf
<1>3. CASE op.kind \notin {"float", "ext"}
  <2>1. WithOperand(c, op) = c
    BY <1>3 DEF WithOperand
  <2> QED
    BY <2>1, MovedSelf
<1> QED
  BY <1>1, <1>2, <1>3

(* The operands are converted, one after the other. *)
LEMMA WithOperandsMoved ==
  ASSUME NEW c, LaidOut(c), NEW args, NEW n, \A i \in DOMAIN args : MIROperand(args[i], n),
         args \in Seq(Range(args)), Len(args) \in 0 .. 3
  PROVE  Moved(c, WithOperands(c, args), {}) /\ WithOperands(c, args).curFunc = c.curFunc
<1>0. DOMAIN args = 1 .. Len(args) /\ Len(args) \in {0, 1, 2, 3}
  OBVIOUS
<1>1. PICK d : d = WithOperand(c, args[1])
  OBVIOUS
<1>2. PICK e : e = WithOperand(d, args[2])
  OBVIOUS
<1>3. PICK f : f = WithOperand(e, args[3])
  OBVIOUS
<1>4. CASE Len(args) = 0
  <2>1. WithOperands(c, args) = c
    BY <1>4 DEF WithOperands
  <2> QED
    BY <2>1, MovedSelf
<1>5. Len(args) \in {1, 2, 3} => Moved(c, d, {}) /\ d.curFunc = c.curFunc /\ LaidOut(d)
  <2>1. SUFFICES ASSUME Len(args) \in {1, 2, 3} PROVE Moved(c, d, {}) /\ d.curFunc = c.curFunc
    BY DEF Moved
  <2>2. MIROperand(args[1], n)
    BY <1>0, <2>1
  <2> QED
    BY <1>1, <2>2, WithOperandMoved
<1>6. Len(args) \in {2, 3} => Moved(c, e, {}) /\ e.curFunc = c.curFunc /\ LaidOut(e)
  <2>1. SUFFICES ASSUME Len(args) \in {2, 3} PROVE Moved(c, e, {}) /\ e.curFunc = c.curFunc
    BY DEF Moved
  <2>2. MIROperand(args[2], n)
    BY <1>0, <2>1
  <2>3. Moved(d, e, {}) /\ e.curFunc = d.curFunc
    BY <1>2, <1>5, <2>1, <2>2, WithOperandMoved
  <2>4. {} \cap DOMAIN c.symbols \subseteq {}
    OBVIOUS
  <2> QED
    BY <1>5, <2>1, <2>3, <2>4, MovedTrans
<1>7. Len(args) = 3 => Moved(c, f, {}) /\ f.curFunc = c.curFunc
  <2>1. SUFFICES ASSUME Len(args) = 3 PROVE Moved(c, f, {}) /\ f.curFunc = c.curFunc
    OBVIOUS
  <2>2. MIROperand(args[3], n)
    BY <1>0, <2>1
  <2>3. Moved(e, f, {}) /\ f.curFunc = e.curFunc
    BY <1>3, <1>6, <2>1, <2>2, WithOperandMoved
  <2>4. {} \cap DOMAIN c.symbols \subseteq {}
    OBVIOUS
  <2> QED
    BY <1>6, <2>1, <2>3, <2>4, MovedTrans
<1>8. /\ Len(args) = 1 => WithOperands(c, args) = d
      /\ Len(args) = 2 => WithOperands(c, args) = e
      /\ Len(args) = 3 => WithOperands(c, args) = f
  BY <1>1, <1>2, <1>3 DEF WithOperands
<1> QED
  BY <1>0, <1>4, <1>5, <1>6, <1>7, <1>8

(* An instruction without a label is emitted. *)
LEMMA EmitMoved ==
  ASSUME NEW c, LaidOut(c), c.curFunc # 0, NEW enc, NEW arg, NEW k, DOMAIN arg = 1 .. k, SoundFor(enc, arg), Accepted(enc),
         \A n \in DOMAIN arg : arg[n].kind # "lbl"
  PROVE  MovedWithin(c, Emit(c, enc, arg))
<1>1. PICK lbls : lbls = {i \in DOMAIN arg : arg[i].kind = "lbl"}
  OBVIOUS
<1>2. PICK syms : syms = {i \in DOMAIN arg : arg[i].kind = "sym"}
  OBVIOUS
<1>3. lbls = {}
  BY <1>1
<1>4. Encoded(enc)
  BY DEF SoundFor
<1>5. CASE syms = {}
  <2>1. Emit(c, enc, arg) = EmitBytes(c, "text", NoField, InstrSize(enc))
    BY <1>1, <1>2, <1>3, <1>5 DEF Emit
  <2>2. PICK fields, n, d : fields = NoField /\ n = InstrSize(enc) /\ d = EmitBytes(c, "text", fields, n)
    OBVIOUS
  <2>3. n \in Nat /\ DOMAIN fields \subseteq 0 .. n - 1
    BY <1>4, <2>2, SizesOK DEF NoField
  <2>4. Moved(c, d, {}) /\ d.curFunc = c.curFunc
    BY <2>2, <2>3, EmitBytesMoved
  <2>5. Moved(c, d, {c.curFunc})
    BY <2>4, MovedMore
  <2> QED
    BY <2>1, <2>2, <2>4, <2>5 DEF MovedWithin
<1>6. CASE syms # {}
  <2>1. PICK sym : sym = SymbolGetByName(c, arg[Min(syms)].name)
    OBVIOUS
  <2>2. PICK o, imm : o = DispOffset(enc) /\ imm = InstrSize(enc) - DispOffset(enc) - 4
    OBVIOUS
  <2>3. PICK d : d = UseSymbol(c, sym, o, imm)
    OBVIOUS
  <2>4. Emit(c, enc, arg) = d
    BY <2>3, <1>1, <1>2, <1>3, <1>6, <2>1, <2>2 DEF Emit
  <2>5. Len(enc.disp) = 4
    BY <1>2, <1>6 DEF SoundFor, Reloc
  <2>6. o \in Nat /\ imm \in Nat
    BY <1>4, <2>2, <2>5, SizesOK
  <2>7. MovedWithin(c, d)
    BY <2>3, <2>6, UseSymbolMoved
  <2> QED
    BY <2>4, <2>7
<1> QED
  BY <1>5, <1>6

(* Relocations are added. *)
LEMMA WithinConcat ==
  ASSUME NEW s, NEW t, NEW n, Within(s, n), Within(t, n)
  PROVE  Within(s \o t, n)
<1>1. PICK S : s \in Seq(S)
  BY DEF Within, IsSeq
<1>2. PICK T : t \in Seq(T)
  BY DEF Within, IsSeq
<1>3. PICK U : U = S \union T
  OBVIOUS
<1>4. s \in Seq(U) /\ t \in Seq(U)
  BY <1>1, <1>2, <1>3
<1>5. PICK r : r = s \o t
  OBVIOUS
<1>6. /\ r \in Seq(U) /\ Len(r) = Len(s) + Len(t)
      /\ \A k \in 1 .. Len(s) + Len(t) : r[k] = IF k <= Len(s) THEN s[k] ELSE t[k - Len(s)]
  BY <1>4, <1>5, ConcatProperties
<1>7. Len(s) \in Nat /\ Len(t) \in Nat /\ DOMAIN s = 1 .. Len(s) /\ DOMAIN t = 1 .. Len(t) /\ DOMAIN r = 1 .. Len(r)
  BY <1>4, <1>6
<1>8. ASSUME NEW k \in DOMAIN r PROVE WithinOne(r[k], n)
  <2>1. CASE k <= Len(s)
    <3>1. k \in DOMAIN s /\ r[k] = s[k]
      BY <1>6, <1>7, <2>1
    <3> QED
      BY <3>1 DEF Within
  <2>2. CASE ~(k <= Len(s))
    <3>1. k - Len(s) \in DOMAIN t /\ r[k] = t[k - Len(s)]
      BY <1>6, <1>7, <2>2
    <3> QED
      BY <3>1 DEF Within
  <2> QED
    BY <2>1, <2>2
<1> QED
  BY <1>5, <1>6, <1>8 DEF Within, IsSeq

(* The pointers of a variable become relocations within it. *)
LEMMA AddPointersMoved ==
  ASSUME NEW c, LaidOut(c), NEW i \in DOMAIN c.symbols, c.symbols[i].kind # "function",
         NEW g, g = prog.globals[i], MIRGlobal(g), g.size = c.symbols[i].size
  PROVE  Moved(c, AddPointers(c, i), {}) /\ AddPointers(c, i).curFunc = c.curFunc
<1>1. PICK ps : ps = g.pointers
  OBVIOUS
<1>2. PICK added : added = [n \in DOMAIN ps |-> [kind |-> [rel |-> FALSE, delta |-> 0], offset |-> ps[n].at, name |-> ps[n].name]]
  OBVIOUS
<1>3. PICK u : u = [c.symbols[i] EXCEPT !.relocs = c.symbols[i].relocs \o added]
  OBVIOUS
<1>4. PICK d : d = AddPointers(c, i)
  OBVIOUS
<1>5. /\ TextSize(c) \in Nat /\ c.section["data"].size \in Nat
      /\ c.curFunc \in 0 .. Len(c.symbols) /\ DOMAIN c.symbols = 1 .. Len(c.symbols) /\ Len(c.symbols) \in Nat
  BY EndsOK
<1>6. ContextOK(c)
  BY DEF LaidOut
<1>7. ContextOK(d)
  BY <1>4, <1>6, AddPointersKept DEF Kept, Extends
<1>8. DOMAIN c = {"section", "symbols", "labels", "curFunc", "buffer"}
      /\ DOMAIN c.symbols[i] = {"kind", "name", "size", "offset", "relocs"}
  BY <1>6 DEF ContextOK, SymbolOK
<1>9. d.symbols = [c.symbols EXCEPT ![i] = u] /\ d.section = c.section /\ d.curFunc = c.curFunc
  <2>1. d = [c EXCEPT !.symbols[i].relocs = c.symbols[i].relocs \o added]
    BY <1>1, <1>2, <1>4, <1>8 DEF AddPointers, GlobalSym
  <2> QED
    BY <1>3, <1>8, <2>1
<1>10. /\ u.kind = c.symbols[i].kind /\ u.size = c.symbols[i].size /\ u.offset = c.symbols[i].offset
       /\ u.relocs = c.symbols[i].relocs \o added
  BY <1>3, <1>8
<1>11. i # c.curFunc
  <2>1. i # 0
    BY <1>5
  <2> QED
    BY <2>1 DEF LaidOut, Open, Function
<1>12. Section(u) = "data" /\ Section(c.symbols[i]) = "data"
  BY <1>10 DEF Section, SectionOf
<1>13. Lies(c.symbols[i], c.section["data"].size)
  BY <1>11, <1>12 DEF LaidOut, End
<1>14. Within(added, g.size)
  <2>1. ps \in Seq(Range(ps)) /\ g.size \in Nat /\ \A n \in DOMAIN ps : ps[n].at \in 0 .. g.size - 8
    BY <1>1 DEF MIRGlobal
  <2>2. Len(ps) \in Nat /\ DOMAIN ps = 1 .. Len(ps)
    BY <2>1
  <2>3. PICK R : R = {added[n] : n \in 1 .. Len(ps)}
    OBVIOUS
  <2>4. added \in [1 .. Len(ps) -> R]
    BY <1>2, <2>2, <2>3
  <2>5. added \in Seq(R) /\ DOMAIN added = DOMAIN ps
    BY <2>2, <2>4
  <2>6. ASSUME NEW n \in DOMAIN added PROVE WithinOne(added[n], g.size)
    <3>1. added[n].offset = ps[n].at /\ Width(added[n]) = 8
      BY <1>2, <2>5 DEF Width
    <3>2. ps[n].at \in 0 .. g.size - 8
      BY <2>1, <2>5
    <3>3. added[n].offset \in Int /\ added[n].offset + 8 \in 1 .. g.size
      BY <2>1, <3>1, <3>2
    <3> QED
      BY <3>1, <3>3 DEF WithinOne
  <2> QED
    BY <2>5, <2>6 DEF Within, IsSeq
<1>15. Within(u.relocs, u.size)
  <2>1. Within(c.symbols[i].relocs, u.size) /\ Within(added, u.size)
    BY <1>10, <1>13, <1>14 DEF Lies
  <2> QED
    BY <1>10, <2>1, WithinConcat
<1>16. Lies(u, c.section["data"].size)
  BY <1>10, <1>13, <1>15 DEF Lies
<1>17. Clear(c, i, u)
  BY <1>10, <1>11, <1>12 DEF Clear
<1>18. Replaced(c, d, i, u, c.curFunc, TextSize(c))
  BY <1>7, <1>9 DEF Replaced, TextSize
<1>19. TextSize(c) >= TextSize(c)
  BY <1>5
<1>20. Moved(c, d, {i})
  BY <1>5, <1>10, <1>11, <1>12, <1>16, <1>17, <1>18, <1>19, ReplacedMoved
<1>21. d.symbols[i] = u
  BY <1>9
<1>22. Moved(c, d, {})
  BY <1>10, <1>20, <1>21 DEF Moved
<1> QED
  BY <1>4, <1>9, <1>22

(* What jx64_finalize does about a symbol without a definition. *)
External(c, sym, d) ==
  Moved(c, d, {sym}) /\ d.curFunc = 0 /\ (c.symbols[sym].size # 0 => d = c)

LEMMA DefineExternalMoved ==
  ASSUME NEW c, LaidOut(c), c.curFunc = 0, NEW sym \in DOMAIN c.symbols
  PROVE  External(c, sym, DefineExternal(c, sym))
<1>1. PICK name : name = c.symbols[sym].name
  OBVIOUS
<1>2. IsName(name) /\ ContextOK(c)
  BY <1>1 DEF LaidOut, ContextOK, SymbolOK
<1>3. PICK addr : addr = [o \in {0} |-> ExternalAddress(name)]
  OBVIOUS
<1>4. DOMAIN addr \subseteq 0 .. 8 - 1 /\ 8 \in Nat /\ 8 \in Nat \ {0}
  BY <1>3
<1>5. CASE c.symbols[sym].size # 0
  BY <1>5, MovedSelf DEF DefineExternal, External
<1>6. CASE c.symbols[sym].size = 0 /\ c.symbols[sym].kind # "function"
  <2>1. PICK d : d = GlobalVarDefine(c, sym, addr, 8, 8)
    OBVIOUS
  <2>2. Defined(c, sym, 8, 8, d)
    BY <1>2, <1>4, <2>1, GlobalVarDefineOK
  <2>3. Moved(c, d, {sym})
    BY <1>4, <1>6, <2>2, DefinedMoved
  <2>4. d.curFunc = 0
    BY <2>2 DEF Defined
  <2>5. DefineExternal(c, sym) = d
    BY <1>1, <1>3, <1>6, <2>1 DEF DefineExternal
  <2> QED
    BY <1>6, <2>3, <2>4, <2>5 DEF External
<1>7. CASE c.symbols[sym].size = 0 /\ c.symbols[sym].kind = "function"
  <2>1. PICK d : d = Declare(c, "variable", IATName(name))
    OBVIOUS
  <2>2. PICK i : i = Len(c.symbols) + 1
    OBVIOUS
  <2>3. /\ Moved(c, d, {}) /\ d.curFunc = c.curFunc /\ Len(d.symbols) = Len(c.symbols) + 1
        /\ d.symbols[i].kind = "variable" /\ d.symbols[i].size = 0
    BY <1>2, <2>1, <2>2, IATNameOK, DeclareMoved
  <2>4. LaidOut(d) /\ ContextOK(d) /\ i \in DOMAIN d.symbols /\ i \notin DOMAIN c.symbols
    <3>1. LaidOut(d) /\ ContextOK(d)
      BY <2>3 DEF Moved, LaidOut
    <3>2. DOMAIN d.symbols = 1 .. Len(d.symbols) /\ DOMAIN c.symbols = 1 .. Len(c.symbols) /\ Len(c.symbols) \in Nat
      BY <3>1, EndsOK
    <3> QED
      BY <2>2, <2>3, <3>1, <3>2
  <2>5. PICK iat : iat = GlobalVarDefine(d, i, addr, 8, 8)
    OBVIOUS
  <2>6. Defined(d, i, 8, 8, iat)
    BY <1>4, <2>4, <2>5, GlobalVarDefineOK
  <2>7. Moved(d, iat, {i})
    <3>1. d.symbols[i].kind # "function"
      BY <2>3
    <3> QED
      BY <1>4, <2>3, <2>4, <2>6, <3>1, DefinedMoved
  <2>8. Moved(c, iat, {})
    BY <2>3, <2>4, <2>7, MovedTrans
  <2>9. /\ LaidOut(iat) /\ iat.curFunc = 0 /\ sym \in DOMAIN iat.symbols
        /\ iat.symbols[sym].kind = "function" /\ iat.symbols[sym].size = 0
    <3>1. LaidOut(iat) /\ Len(c.symbols) <= Len(iat.symbols)
      BY <2>8 DEF Moved
    <3>2. /\ DOMAIN iat.symbols = 1 .. Len(iat.symbols) /\ Len(iat.symbols) \in Nat
          /\ DOMAIN c.symbols = 1 .. Len(c.symbols) /\ Len(c.symbols) \in Nat
      BY <3>1, EndsOK
    <3>3. sym \in DOMAIN iat.symbols
      BY <3>1, <3>2
    <3>4. iat.curFunc = 0
      BY <2>3, <2>6 DEF Defined
    <3> QED
      BY <1>7, <2>8, <3>1, <3>3, <3>4 DEF Moved
  <2>10. PICK e : e = FuncBegin(iat, sym)
    OBVIOUS
  <2>11. Moved(iat, e, {sym}) /\ e.curFunc = sym
    BY <2>9, <2>10, FuncBeginMoved
  <2>12. LaidOut(e) /\ e.curFunc # 0
    <3>1. sym # 0
      BY EndsOK
    <3> QED
      BY <2>11, <3>1 DEF Moved
  <2>13. PICK f : f = UseSymbol(e, Len(iat.symbols), 2, 0)
    OBVIOUS
  <2>14. MovedWithin(e, f)
    BY <2>12, <2>13, UseSymbolMoved
  <2>15. Moved(e, f, {sym}) /\ f.curFunc = sym /\ f.curFunc # 0
    BY <2>11, <2>12, <2>14 DEF MovedWithin
  <2>16. PICK h : h = FuncEnd(f)
    OBVIOUS
  <2>17. Moved(f, h, {sym}) /\ h.curFunc = 0
    <3>1. LaidOut(f)
      BY <2>15 DEF Moved
    <3> QED
      BY <2>15, <2>16, <3>1, FuncEndMoved
  <2>18. Moved(c, iat, {sym})
    BY <2>8, MovedMore
  <2>19. Moved(c, e, {sym})
    <3>1. {sym} \cap DOMAIN c.symbols \subseteq {sym}
      OBVIOUS
    <3> QED
      BY <2>11, <2>18, <3>1, MovedTrans
  <2>20. Moved(c, f, {sym})
    <3>1. {sym} \cap DOMAIN c.symbols \subseteq {sym}
      OBVIOUS
    <3> QED
      BY <2>15, <2>19, <3>1, MovedTrans
  <2>21. Moved(c, h, {sym})
    <3>1. {sym} \cap DOMAIN c.symbols \subseteq {sym}
      OBVIOUS
    <3> QED
      BY <2>17, <2>20, <3>1, MovedTrans
  <2>22. iat = IATEntry(c, name)
    BY <1>3, <2>1, <2>2, <2>5 DEF IATEntry
  <2>23. DefineExternal(c, sym) = h
    BY <1>1, <1>7, <2>10, <2>13, <2>16, <2>22 DEF DefineExternal
  <2> QED
    BY <1>7, <2>17, <2>21, <2>23 DEF External
<1> QED
  BY <1>5, <1>6, <1>7

(* The sections are joined: the data begin at a page. *)
LEMMA JoinSectionsMoved ==
  ASSUME NEW c, LaidOut(c), NEW d, d = JoinSections(c)
  PROVE  /\ Moved(c, d, {}) /\ d.curFunc = c.curFunc
         /\ d.section["data"].start \in Nat /\ d.section["data"].start % PageSize = 0
<1>1. ContextOK(c)
  BY DEF LaidOut
<1>2. ContextOK(d)
  BY <1>1, JoinSectionsOK DEF Kept, Extends
<1>3. PICK start : start = [s \in {"text", "data"} |-> IF s = "text" THEN 0 ELSE DataStart(c)]
  OBVIOUS
<1>4. PICK secs : secs = [s \in DOMAIN c.section |-> [c.section[s] EXCEPT !.start = start[s]]]
  OBVIOUS
<1>5. DOMAIN c = {"section", "symbols", "labels", "curFunc", "buffer"} /\ DOMAIN c.section = {"text", "data"}
  BY <1>1 DEF ContextOK
<1>6. d.section = secs /\ d.symbols = c.symbols /\ d.curFunc = c.curFunc
  BY <1>3, <1>4, <1>5 DEF JoinSections
<1>7. /\ secs["text"] = [c.section["text"] EXCEPT !.start = start["text"]]
      /\ secs["data"] = [c.section["data"] EXCEPT !.start = start["data"]]
  BY <1>4, <1>5
<1>8. \A s \in {"text", "data"} : DOMAIN c.section[s] = {"size", "capacity", "field", "start"}
  BY <1>1 DEF ContextOK, SectionOK
<1>9. /\ secs["text"].size = c.section["text"].size /\ secs["data"].size = c.section["data"].size
      /\ secs["data"].start = start["data"]
  BY <1>7, <1>8
<1>10. secs["data"].start = AlignedPos(TextSize(c), PageSize)
  <2>1. start["data"] = DataStart(c)
    BY <1>3
  <2> QED
    BY <1>9, <2>1 DEF DataStart
<1>11. TextSize(c) \in Nat /\ c.section["data"].size \in Nat
  BY EndsOK
<1>12. TextSize(c) <= TextSize(d) /\ c.section["data"].size <= d.section["data"].size
  BY <1>6, <1>9, <1>11 DEF TextSize
<1>13. Moved(c, d, {})
  BY <1>2, <1>6, <1>12, SameSymbols
<1>14. secs["data"].start \in Nat /\ secs["data"].start % PageSize = 0
  BY <1>10, <1>11, AlignedPosOK, AlignedPosMod, AsmAssumption
<1> QED
  BY <1>6, <1>13, <1>14

(* A relocation writes to the buffer only. *)
LEMMA ApplyRelocationMoved ==
  ASSUME NEW c, LaidOut(c), NEW sym, NEW reloc, NEW d, d = ApplyRelocation(c, sym, reloc)
  PROVE  Moved(c, d, {}) /\ d.curFunc = c.curFunc /\ d.section = c.section
<1>1. ContextOK(c)
  BY DEF LaidOut
<1>2. ContextOK(d)
  BY <1>1, ApplyRelocationOK DEF Kept, Extends
<1>3. DOMAIN c = {"section", "symbols", "labels", "curFunc", "buffer"}
  BY <1>1 DEF ContextOK
<1>4. PICK patch, x : d = [c EXCEPT !.buffer[patch] = x]
  <2>1. PICK target : target = InBuffer(c, SymbolGetByName(c, reloc.name))
    OBVIOUS
  <2>2. PICK patch : patch = InBuffer(c, sym) + reloc.offset
    OBVIOUS
  <2>3. PICK x : x = IF reloc.kind.rel THEN c.buffer[patch] + target - (patch + 4 + reloc.kind.delta)
                     ELSE BufferAddress + target
    OBVIOUS
  <2>4. d = [c EXCEPT !.buffer[patch] = x]
    BY <1>3, <2>1, <2>2, <2>3 DEF ApplyRelocation
  <2> QED
    BY <2>4
<1>5. d.symbols = c.symbols /\ d.curFunc = c.curFunc /\ d.section = c.section
  BY <1>3, <1>4
<1>6. TextSize(c) <= TextSize(d) /\ c.section["data"].size <= d.section["data"].size
  BY <1>5, EndsOK DEF TextSize
<1> QED
  BY <1>2, <1>5, <1>6, SameSymbols

(* A declared symbol that nothing was emitted for yet. *)
Ahead(i) ==
  IF i <= Len(prog.globals)
  THEN \/ at.step \in {"declareGlobals", "declareFuncs", "func", "block", "instr"}
       \/ at.step = "globals" /\ i >= at.i
  ELSE \/ at.step \in {"declareGlobals", "declareFuncs"}
       \/ at.step = "func" /\ i >= FuncSym(at.i) /\ i <= Declared
       \/ InBody /\ i > FuncSym(at.i) /\ i <= Declared

(* A variable that was defined. *)
Behind(i) ==
  /\ i \in GlobalIds /\ ~IsExternalVar(i)
  /\ \/ at.step = "globals" /\ i < at.i
     \/ at.step \in {"stubs", "relocate", "done", "failed"}
AlignedVar(t, g) == t.size # 0 /\ t.offset \in Nat /\ t.offset % g.align = 0

KindOf(i) == IF i <= Len(prog.globals) THEN "variable" ELSE "function"
PageStart(n) == n \in Nat /\ n % PageSize = 0

(* The function being emitted is the walk's; what is ahead has no bytes; what is behind is aligned. *)
CurOK ==
  /\ InBody => ctx.curFunc = FuncSym(at.i)
  /\ at.step \notin {"block", "instr", "refused"} => ctx.curFunc = 0
KindsOK == \A i \in DOMAIN ctx.symbols : i <= Declared => ctx.symbols[i].kind = KindOf(i)
AheadOK == \A i \in DOMAIN ctx.symbols : Ahead(i) => ctx.symbols[i].size = 0
BehindOK == \A i \in GlobalIds : Behind(i) => i \in DOMAIN ctx.symbols /\ AlignedVar(ctx.symbols[i], prog.globals[i])
StartOK == at.step \in {"relocate", "done", "failed"} => PageStart(ctx.section["data"].start)

Layout == LaidOut(ctx) /\ CurOK /\ KindsOK /\ AheadOK /\ BehindOK /\ StartOK

(* The symbols that are declared are those of the program. *)
LEMMA DeclaredSymbols ==
  ASSUME Inv
  PROVE  /\ Declared \in Nat /\ Len(prog.globals) \in Nat /\ Len(prog.funcs) \in Nat
         /\ Declared = Len(prog.globals) + Len(prog.funcs)
         /\ Len(ctx.symbols) \in Nat /\ DOMAIN ctx.symbols = 1 .. Len(ctx.symbols)
         /\ at.step \notin {"declareGlobals", "declareFuncs"} => Len(ctx.symbols) >= Declared
<1>1. Len(prog.globals) \in Nat /\ Len(prog.funcs) \in Nat /\ Len(ctx.symbols) \in Nat
  BY ProgramOK
<1>2. Declared \in Nat
  BY Zenon, <1>1, NatSum DEF Declared
<1>3. DOMAIN ctx.symbols = 1 .. Len(ctx.symbols)
  BY SeqDomain DEF Inv, ContextOK
<1>4. at.step \notin {"declareGlobals", "declareFuncs"} => Len(ctx.symbols) >= Declared
  BY DEF Inv, WalkOK
<1>5. Declared = Len(prog.globals) + Len(prog.funcs)
  BY DEF Declared
<1> QED
  BY <1>1, <1>2, <1>3, <1>4, <1>5

(* Nothing is ahead that was not, or that has changed; what is behind was, and has not changed, or is aligned. *)
Orderly(X) ==
  /\ \A i \in DOMAIN ctx.symbols : Ahead(i)' => Ahead(i) /\ i \notin X
  /\ \A i \in GlobalIds : Behind(i)' =>
       \/ Behind(i) /\ i \notin X
       \/ i \in DOMAIN ctx'.symbols /\ AlignedVar(ctx'.symbols[i], prog.globals[i])

(* Symbols move, and none but those of X. *)
LEMMA LayoutMoves ==
  ASSUME Inv, Layout, prog' = prog, NEW X, Moved(ctx, ctx', X), Orderly(X), CurOK', StartOK',
         \A i \in DOMAIN ctx'.symbols \ DOMAIN ctx.symbols :
            i <= Declared => ctx'.symbols[i].kind = KindOf(i) /\ ctx'.symbols[i].size = 0,
         \A i \in DOMAIN ctx'.symbols \ DOMAIN ctx.symbols : Ahead(i)' => i <= Declared
  PROVE  Layout'
<1>1. LaidOut(ctx')
  BY DEF Moved
<1>2. \A i \in DOMAIN ctx.symbols : ctx'.symbols[i].kind = ctx.symbols[i].kind
  BY DEF Moved
<1>3. \A i \in DOMAIN ctx.symbols :
        i \notin X => ctx'.symbols[i].size = ctx.symbols[i].size /\ ctx'.symbols[i].offset = ctx.symbols[i].offset
  BY DEF Moved
<1>4. \A i \in DOMAIN ctx.symbols : i \in DOMAIN ctx'.symbols
  <2>1. Len(ctx.symbols) <= Len(ctx'.symbols)
    BY DEF Moved
  <2>2. Len(ctx'.symbols) \in Nat /\ DOMAIN ctx'.symbols = 1 .. Len(ctx'.symbols)
    BY <1>1, EndsOK
  <2> QED
    BY <2>1, <2>2, DeclaredSymbols
<1>5. KindsOK'
  <2>1. \A i \in DOMAIN ctx'.symbols : i <= Declared => ctx'.symbols[i].kind = KindOf(i)
    BY <1>2 DEF Layout, KindsOK
  <2>2. Declared' = Declared /\ \A i : KindOf(i)' = KindOf(i)
    BY DEF Declared, KindOf
  <2> QED
    BY <2>1, <2>2 DEF KindsOK
<1>6. AheadOK'
  <2>1. ASSUME NEW i \in DOMAIN ctx'.symbols, Ahead(i)'
        PROVE  ctx'.symbols[i].size = 0
    <3>1. CASE i \in DOMAIN ctx.symbols
      <4>1. Ahead(i) /\ i \notin X
        BY <2>1, <3>1 DEF Orderly
      <4> QED
        BY <1>3, <3>1, <4>1 DEF Layout, AheadOK
    <3>2. CASE i \notin DOMAIN ctx.symbols
      BY <2>1, <3>2
    <3> QED
      BY <3>1, <3>2
  <2> QED
    BY <2>1 DEF AheadOK
<1>7. BehindOK'
  <2>1. ASSUME NEW i \in GlobalIds, Behind(i)'
        PROVE  i \in DOMAIN ctx'.symbols /\ AlignedVar(ctx'.symbols[i], prog.globals[i])
    <3>1. CASE Behind(i) /\ i \notin X
      <4>1. i \in DOMAIN ctx.symbols /\ AlignedVar(ctx.symbols[i], prog.globals[i])
        BY <3>1 DEF Layout, BehindOK
      <4> QED
        BY <1>3, <1>4, <3>1, <4>1 DEF AlignedVar
    <3> QED
      BY <2>1, <3>1 DEF Orderly
  <2>2. GlobalIds' = GlobalIds /\ prog'.globals = prog.globals
    BY DEF GlobalIds
  <2> QED
    BY <2>1, <2>2 DEF BehindOK, AlignedVar
<1> QED
  BY <1>1, <1>5, <1>6, <1>7 DEF Layout

(* The symbols are declared. *)
Declaring(step) == step \in {"declareGlobals", "declareFuncs"}
LEMMA LaterMoves ==
  ASSUME Inv, Layout, prog' = prog, ~Declaring(at.step), ~Declaring(at'.step), NEW X, Moved(ctx, ctx', X), Orderly(X),
         CurOK', StartOK'
  PROVE  Layout'
<1>1. ASSUME NEW i \in DOMAIN ctx'.symbols \ DOMAIN ctx.symbols
      PROVE  ~(i <= Declared)
  <2>1. PICK e : e = Len(ctx.symbols)
    OBVIOUS
  <2>2. e \in Nat /\ e >= Declared /\ DOMAIN ctx.symbols = 1 .. e /\ Declared \in Nat
    BY <2>1, DeclaredSymbols DEF Declaring
  <2>3. DOMAIN ctx'.symbols = 1 .. Len(ctx'.symbols) /\ Len(ctx'.symbols) \in Nat
    BY EndsOK DEF Moved
  <2>4. i \in Nat /\ i >= 1 /\ ~(i \in 1 .. e)
    BY <1>1, <2>2, <2>3
  <2> QED
    BY <2>2, <2>4
<1>2. \A i : Ahead(i)' => i <= Declared \/ i <= Len(prog.globals)
  BY DEF Ahead, Declaring, Declared, InBody
<1>3. ASSUME NEW i \in DOMAIN ctx'.symbols \ DOMAIN ctx.symbols, Ahead(i)'
      PROVE  i <= Declared
  <2>1. DOMAIN ctx'.symbols = 1 .. Len(ctx'.symbols) /\ Len(ctx'.symbols) \in Nat
    BY EndsOK DEF Moved
  <2>2. i \in Nat
    BY <1>3, <2>1
  <2>3. PICK g, f, e : g = Len(prog.globals) /\ f = Len(prog.funcs) /\ e = Declared
    OBVIOUS
  <2>4. g \in Nat /\ f \in Nat /\ e \in Nat /\ e = g + f
    BY <2>3, DeclaredSymbols
  <2>5. i <= e \/ i <= g
    BY <1>2, <1>3, <2>3
  <2>6. i <= e
    BY <2>2, <2>4, <2>5
  <2> QED
    BY Zenon, <2>3, <2>6
<1> QED
  BY <1>1, <1>3, LayoutMoves

(* At the start there are no symbols. *)
LEMMA LayoutInit == Init => Layout
<1> SUFFICES ASSUME Init PROVE Layout
  OBVIOUS
<1>1. ContextOK(ctx)
  BY InitHolds DEF Inv
<1>2. ctx.symbols = <<>> /\ ctx.curFunc = 0
  BY DEF Init, CreateContext, NoSymbol
<1>3. DOMAIN ctx.symbols = {}
  BY <1>2
<1>4. at.step = "declareGlobals"
  BY DEF Init
<1>5. LaidOut(ctx)
  BY <1>1, <1>2, <1>3 DEF LaidOut
<1> QED
  BY <1>2, <1>3, <1>4, <1>5 DEF Layout, CurOK, KindsOK, AheadOK, BehindOK, Behind, StartOK, InBody

(* A variable or a function is declared: it has no bytes. *)
LEMMA DeclareLayout ==
  ASSUME Inv, Layout, DeclareGlobal \/ DeclareFunc
  PROVE  Layout'
<1>1. PICK e : e = Len(ctx.symbols)
  OBVIOUS
<1>2. PICK kind, name : ctx' = Declare(ctx, kind, name) /\ IsName(name) /\ kind = KindOf(e + 1) /\ e + 1 <= Declared
  <2>1. PICK g, f, k : g = Len(prog.globals) /\ f = Len(prog.funcs) /\ k = at.i
    OBVIOUS
  <2>2. g \in Nat /\ f \in Nat /\ k \in Nat /\ k >= 1 /\ Declared = g + f
    BY <2>1, DeclaredSymbols, AtFields
  <2>3. CASE DeclareGlobal
    <3>1. k <= g /\ e = k - 1 /\ ctx' = Declare(ctx, "variable", prog.globals[k].name)
      BY <1>1, <2>1, <2>3 DEF Inv, WalkOK, DeclareGlobal
    <3>2. k \in 1 .. g /\ e + 1 = k /\ k <= g + f
      BY <2>2, <3>1
    <3>3. IsName(prog.globals[k].name)
      BY <2>1, <3>2, ProgramOK DEF MIRGlobal
    <3>4. KindOf(e + 1) = "variable"
      BY <2>1, <3>1, <3>2 DEF KindOf
    <3> QED
      BY <2>2, <3>1, <3>2, <3>3, <3>4
  <2>4. CASE DeclareFunc
    <3>1. k <= f /\ e = g + k - 1 /\ ctx' = Declare(ctx, "function", prog.funcs[k].name)
      BY <1>1, <2>1, <2>4 DEF Inv, WalkOK, DeclareFunc
    <3>2. k \in 1 .. f /\ e + 1 = g + k /\ g + k <= g + f /\ ~(g + k <= g)
      BY <2>2, <3>1
    <3>3. IsName(prog.funcs[k].name)
      BY <2>1, <3>2, ProgramOK DEF MIRFunction
    <3>4. KindOf(e + 1) = "function"
      BY <2>1, <3>2 DEF KindOf
    <3> QED
      BY <2>2, <3>1, <3>2, <3>3, <3>4
  <2> QED
    BY <2>3, <2>4
<1>3. LaidOut(ctx) /\ ctx.curFunc = 0 /\ Declaring(at.step)
  BY DEF Layout, CurOK, DeclareGlobal, DeclareFunc, Declaring
<1>4. /\ Moved(ctx, ctx', {}) /\ ctx'.curFunc = 0 /\ Len(ctx'.symbols) = e + 1
      /\ ctx'.symbols[e + 1].kind = kind /\ ctx'.symbols[e + 1].size = 0
  BY <1>1, <1>2, <1>3, DeclareMoved
<1>5. prog' = prog /\ at'.step = at.step
  BY AtFields DEF DeclareGlobal, DeclareFunc
<1>6. CurOK' /\ StartOK'
  BY <1>3, <1>4, <1>5 DEF CurOK, StartOK, InBody, Declaring
<1>7. Orderly({})
  <2>1. \A i : Ahead(i)
    BY <1>3 DEF Ahead, Declaring
  <2>2. \A i : ~Behind(i)'
    BY <1>3, <1>5 DEF Behind, Declaring
  <2> QED
    BY <2>1, <2>2 DEF Orderly
<1>8. ASSUME NEW i \in DOMAIN ctx'.symbols \ DOMAIN ctx.symbols
      PROVE  i = e + 1
  <2>1. e \in Nat /\ DOMAIN ctx.symbols = 1 .. e
    BY <1>1, DeclaredSymbols
  <2>2. DOMAIN ctx'.symbols = 1 .. e + 1
    BY <1>4, EndsOK DEF Moved
  <2> QED
    BY <2>1, <2>2
<1> QED
  BY <1>2, <1>4, <1>5, <1>6, <1>7, <1>8, LayoutMoves

(* The functions come after the variables. *)
LEMMA FunctionIndex ==
  ASSUME Inv, NEW i
  PROVE  /\ FuncSym(i) = Len(prog.globals) + i
         /\ i \in Nat /\ i >= 1 /\ i <= Len(prog.funcs) => FuncSym(i) \in Nat /\ FuncSym(i) > Len(prog.globals) /\ FuncSym(i) <= Declared
<1>1. PICK g, f, e : g = Len(prog.globals) /\ f = Len(prog.funcs) /\ e = Declared
  OBVIOUS
<1>2. g \in Nat /\ f \in Nat /\ e = g + f
  BY <1>1, DeclaredSymbols
<1>3. i \in Nat /\ i >= 1 /\ i <= f => g + i \in Nat /\ g + i > g /\ g + i <= e
  BY <1>2
<1> QED
  BY Zenon, <1>1, <1>3 DEF FuncSym

(* A step within a function: only that changes. *)
LEMMA BodyLayout ==
  ASSUME Inv, Layout, prog' = prog, InBody, at'.step \in {"block", "instr", "refused"}, at'.i = at.i, MovedWithin(ctx, ctx')
  PROVE  Layout'
<1>1. ctx.curFunc = FuncSym(at.i) /\ FuncSym(at.i)' = FuncSym(at.i)
  BY DEF Layout, CurOK, FuncSym
<1>2. Moved(ctx, ctx', {FuncSym(at.i)}) /\ ctx'.curFunc = FuncSym(at.i)
  BY <1>1 DEF MovedWithin
<1>3. CurOK' /\ StartOK'
  BY <1>1, <1>2 DEF CurOK, StartOK, InBody
<1>4. Orderly({FuncSym(at.i)})
  <2>1. \A i : ~Behind(i)'
    BY DEF Behind
  <2>2. ASSUME NEW i \in DOMAIN ctx.symbols, Ahead(i)'
        PROVE  Ahead(i) /\ i # FuncSym(at.i)
    <3>1. PICK g, s : g = Len(prog.globals) /\ s = FuncSym(at.i)
      OBVIOUS
    <3>2. s \in Nat /\ s > g /\ g \in Nat
      <4>1. at.i \in Nat /\ at.i >= 1 /\ at.i <= Len(prog.funcs)
        BY AtFields DEF Inv, WalkOK
      <4> QED
        BY <3>1, <4>1, FunctionIndex, DeclaredSymbols
    <3>3. Declared' = Declared
      BY DEF Declared
    <3>4. CASE i <= g
      <4>1. Ahead(i)
        BY <3>1, <3>4 DEF Ahead, InBody
      <4>2. i # s
        BY <3>2, <3>4
      <4> QED
        BY <3>1, <4>1, <4>2
    <3>5. CASE ~(i <= g)
      <4>1. i > s /\ i <= Declared
        BY <1>1, <2>2, <3>1, <3>3, <3>5 DEF Ahead, InBody
      <4>2. Ahead(i)
        BY <3>1, <3>5, <4>1 DEF Ahead
      <4>3. i # s
        BY <3>2, <4>1
      <4> QED
        BY <3>1, <4>2, <4>3
    <3> QED
      BY <3>4, <3>5
  <2> QED
    BY <2>1, <2>2 DEF Orderly
<1>5. ~Declaring(at.step) /\ ~Declaring(at'.step)
  BY DEF InBody, Declaring
<1> QED
  BY <1>2, <1>3, <1>4, <1>5, LaterMoves

(* Before the variables are defined: what is ahead was, and none is behind. *)
LEMMA EarlyOrderly ==
  ASSUME NEW X, at'.step \in {"declareGlobals", "declareFuncs", "func", "block", "instr", "refused"},
         \A i \in DOMAIN ctx.symbols : Ahead(i)' => Ahead(i) /\ i \notin X
  PROVE  Orderly(X)
BY DEF Orderly, Behind

(* The walk goes on to the next list: nothing moves. *)
LEMMA NextListLayout ==
  ASSUME Inv, Layout, NextList
  PROVE  Layout'
<1>1. prog' = prog /\ ctx' = ctx
  BY DEF NextList
<1>2. Moved(ctx, ctx', {})
  BY <1>1, MovedSelf DEF Layout
<1>3. Len(prog.globals) \in Nat /\ at.i \in Nat
  BY DeclaredSymbols, AtFields
<1>4. /\ at'.step = CASE at.step = "declareGlobals" -> "declareFuncs" [] at.step = "declareFuncs" -> "func"
                      [] at.step = "func" -> "globals" [] at.step = "globals" -> "stubs"
      /\ at'.i = 1 /\ at.step \in {"declareGlobals", "declareFuncs", "func", "globals"}
      /\ at.step = "globals" => at.i > Len(prog.globals)
  BY AtFields DEF NextList
<1>5. CurOK' /\ StartOK'
  BY <1>1, <1>4 DEF Layout, CurOK, StartOK, InBody
<1>6. \A i \in DOMAIN ctx.symbols : Ahead(i)' => Ahead(i)
  BY <1>1, <1>4 DEF Ahead, Declared, InBody
<1>7. CASE at.step = "declareGlobals"
  <2>1. at'.step = "declareFuncs"
    BY <1>4, <1>7
  <2>2. Orderly({})
    BY <1>6, <2>1, EarlyOrderly
  <2> QED
    BY <1>1, <1>2, <1>5, <2>2, LayoutMoves
<1>8. CASE at.step # "declareGlobals"
  <2>1. Orderly({})
    <3>1. ASSUME NEW i \in GlobalIds, Behind(i)'
          PROVE  Behind(i)
      <4>1. ~IsExternalVar(i)
        BY <1>1, <3>1 DEF Behind, IsExternalVar
      <4>2. CASE at.step = "globals"
        <5>1. i < at.i
          BY <1>3, <1>4, <4>2 DEF GlobalIds
        <5> QED
          BY <4>1, <4>2, <5>1 DEF Behind
      <4>3. CASE at.step # "globals"
        <5>1. at'.step \in {"func", "globals"} /\ at'.i = 1
          BY <1>4, <1>8, <4>3
        <5>2. i \in Nat /\ i >= 1
          BY <1>3 DEF GlobalIds
        <5>3. ~(i < 1)
          BY <5>2
        <5> QED
          BY <3>1, <5>1, <5>3 DEF Behind
      <4> QED
        BY <4>2, <4>3
    <3> QED
      BY <1>6, <3>1 DEF Orderly
  <2>2. at'.step \in {"func", "globals", "stubs"}
    BY <1>4, <1>8
  <2>3. CASE at.step = "declareFuncs"
    <3>1. \A i \in DOMAIN ctx'.symbols \ DOMAIN ctx.symbols : FALSE
      BY <1>1
    <3> QED
      BY <1>1, <1>2, <1>5, <2>1, <3>1, LayoutMoves
  <2>4. CASE at.step # "declareFuncs"
    BY <1>1, <1>2, <1>4, <1>5, <1>8, <2>1, <2>2, <2>4, LaterMoves DEF Declaring
  <2> QED
    BY <2>3, <2>4
<1> QED
  BY <1>7, <1>8

(* An external function is skipped. *)
LEMMA SkipLayout ==
  ASSUME Inv, Layout, SkipExternalFunc
  PROVE  Layout'
<1>1. /\ at.step = "func" /\ at'.step = "func" /\ at'.i = at.i + 1 /\ prog' = prog /\ ctx' = ctx
  BY AtFields DEF SkipExternalFunc
<1>2. Moved(ctx, ctx', {})
  BY <1>1, MovedSelf DEF Layout
<1>3. CurOK' /\ StartOK'
  BY <1>1 DEF Layout, CurOK, StartOK, InBody
<1>4. ASSUME NEW i \in DOMAIN ctx.symbols, Ahead(i)'
      PROVE  Ahead(i)
  <2>1. PICK g, k : g = Len(prog.globals) /\ k = at.i
    OBVIOUS
  <2>2. g \in Nat /\ k \in Nat /\ i \in Nat
    BY <2>1, DeclaredSymbols, AtFields
  <2>3. i <= g \/ (i >= g + (k + 1) /\ i <= Declared)
    BY <1>1, <1>4, <2>1 DEF Ahead, InBody, FuncSym, Declared
  <2>4. i <= g \/ (i >= g + k /\ i <= Declared)
    BY <2>2, <2>3
  <2> QED
    BY <1>1, <2>1, <2>4 DEF Ahead, FuncSym
<1>5. Orderly({})
  BY <1>1, <1>4, EarlyOrderly
<1> QED
  BY <1>1, <1>2, <1>3, <1>5, LaterMoves DEF Declaring

(* A function begins: it is not ahead any longer. *)
LEMMA BeginFuncLayout ==
  ASSUME Inv, Layout, Inv', BeginFunc
  PROVE  Layout'
<1>1. PICK n, d, s : n = prog.funcs[at.i].numBlocks /\ d = LabelAlloc(ctx, n) /\ s = FuncSym(at.i)
  OBVIOUS
<1>2. /\ at.step = "func" /\ at.i <= Len(prog.funcs) /\ prog' = prog /\ ctx' = FuncBegin(d, s)
      /\ at'.step = "block" /\ at'.i = at.i
  BY <1>1, AtFields DEF BeginFunc
<1>3. at.i \in Nat /\ at.i >= 1
  BY AtFields
<1>4. at.i \in 1 .. Len(prog.funcs)
  BY <1>2, <1>3, DeclaredSymbols
<1>5. n \in Nat
  BY <1>1, <1>4, ProgramOK DEF MIRFunction
<1>6. LaidOut(ctx) /\ ctx.curFunc = 0
  BY <1>2 DEF Layout, CurOK
<1>7. ContextOK(d)
  BY <1>1, <1>2, <1>5, <1>6, LabelAllocOK DEF Inv, ScopeOK, Extends
<1>8. Moved(ctx, d, {}) /\ d.curFunc = 0 /\ d.symbols = ctx.symbols
  BY <1>1, <1>6, <1>7, LabelsMoved DEF LabelAlloc
<1>9. s \in Nat /\ s > Len(prog.globals) /\ s <= Declared
  BY <1>1, <1>2, <1>3, FunctionIndex
<1>10. s \in DOMAIN ctx.symbols /\ ~(s <= Len(prog.globals))
  <2>1. PICK g, e, k : g = Len(prog.globals) /\ e = Declared /\ k = Len(ctx.symbols)
    OBVIOUS
  <2>2. g \in Nat /\ e \in Nat /\ k \in Nat /\ k >= e /\ DOMAIN ctx.symbols = 1 .. k
    BY <1>2, <2>1, DeclaredSymbols
  <2>3. s \in Nat /\ s > g /\ s <= e
    BY <1>9, <2>1
  <2>4. s \in 1 .. k /\ ~(s <= g)
    BY <2>2, <2>3
  <2> QED
    BY <2>1, <2>2, <2>4
<1>11. Ahead(s)
  <2>1. s >= FuncSym(at.i)
    BY <1>1, <1>9
  <2> QED
    BY <1>2, <1>9, <1>10, <2>1 DEF Ahead
<1>12. ctx.symbols[s].kind = "function" /\ ctx.symbols[s].size = 0
  BY <1>9, <1>10, <1>11 DEF Layout, KindsOK, KindOf, AheadOK
<1>13. Moved(d, ctx', {s}) /\ ctx'.curFunc = s
  BY <1>2, <1>8, <1>10, <1>12, FuncBeginMoved DEF Moved
<1>14. Moved(ctx, ctx', {s})
  <2>1. Moved(ctx, d, {s})
    BY <1>8, MovedMore
  <2> QED
    BY <1>6, <1>13, <2>1, MovedTrans
<1>15. CurOK' /\ StartOK'
  BY <1>1, <1>2, <1>13 DEF CurOK, StartOK, InBody, FuncSym
<1>16. ASSUME NEW i \in DOMAIN ctx.symbols, Ahead(i)'
       PROVE  Ahead(i) /\ i # s
  <2>1. PICK g, e : g = Len(prog.globals) /\ e = Declared
    OBVIOUS
  <2>2. FuncSym(at.i)' = s /\ Declared' = e
    BY <1>1, <1>2, <2>1 DEF FuncSym, Declared
  <2>3. i <= g \/ (i > s /\ i <= e /\ ~(i <= g))
    BY <1>2, <1>16, <2>1, <2>2 DEF Ahead, InBody
  <2>4. g \in Nat /\ s \in Nat /\ s > g /\ i \in Nat
    BY <1>9, <2>1, DeclaredSymbols
  <2>5. i # s /\ (i <= g \/ (i >= s /\ i <= e))
    BY <2>3, <2>4
  <2> QED
    BY <1>1, <1>2, <2>1, <2>5 DEF Ahead
<1>17. Orderly({s})
  BY <1>2, <1>16, EarlyOrderly
<1> QED
  BY <1>2, <1>14, <1>15, <1>17, LaterMoves DEF Declaring

(* A block begins. *)
LEMMA BeginBlockLayout ==
  ASSUME Inv, Layout, Inv', BeginBlock
  PROVE  Layout'
<1>1. PICK l : l = LabelOf(Blocks[at.j].id)
  OBVIOUS
<1>2. at.step = "block" /\ prog' = prog /\ ctx' = LabelBind(ctx, l) /\ at'.step = "instr" /\ at'.i = at.i
  BY <1>1, AtFields DEF BeginBlock
<1>3. LaidOut(ctx) /\ ContextOK(ctx')
  BY DEF Layout, Inv
<1>4. Moved(ctx, ctx', {}) /\ ctx'.curFunc = ctx.curFunc
  BY <1>2, <1>3, LabelBindMoved
<1>5. MovedWithin(ctx, ctx')
  BY <1>4, MovedMore DEF MovedWithin
<1> QED
  BY <1>2, <1>5, BodyLayout DEF InBody

(* A block ends. *)
LEMMA EndBlockLayout ==
  ASSUME Inv, Layout, EndBlock
  PROVE  Layout'
<1>1. at.step = "instr" /\ prog' = prog /\ ctx' = ctx /\ at'.step = "block" /\ at'.i = at.i
  BY AtFields DEF EndBlock
<1>2. MovedWithin(ctx, ctx')
  BY <1>1, MovedSelf DEF MovedWithin, Layout
<1> QED
  BY <1>1, <1>2, BodyLayout DEF InBody

(* The bytes of an instruction, of a jump to a block or of another. *)
LEMMA BytesMoved ==
  ASSUME Inv, Layout, NEW instr, NEW arg, NEW c, Prepared(instr, arg, c), NEW enc, enc = InstrDesc(instr, arg),
         Accepted(enc), Moved(ctx, c, {}), c.curFunc = ctx.curFunc, NEW d, d = Emit(c, enc, arg)
  PROVE  MovedWithin(ctx, d)
<1>1. /\ at.step = "instr" /\ Kept(ctx, c) /\ MIRInstr(instr, prog.funcs[at.i].numBlocks)
      /\ DOMAIN instr.args = 1 .. Len(instr.args) /\ DOMAIN arg = 1 .. Len(instr.args)
      /\ \A n \in DOMAIN arg : Converts(instr.args[n], arg[n])
  BY DEF Prepared
<1>2. LaidOut(ctx) /\ LaidOut(c)
  BY DEF Layout, Moved
<1>3. CASE \A n \in DOMAIN instr.args : instr.args[n].kind # "bb"
  <2>1. /\ \A n \in DOMAIN arg : Operand(arg[n]) /\ arg[n].kind # "lbl"
        /\ instr.sse = "none" => \A n \in DOMAIN arg : arg[n].kind = "reg" => arg[n].size \in ImmSizes
    BY <1>1, <1>3 DEF Converts, MIRInstr
  <2>2. SoundFor(enc, arg)
    BY <1>1, <2>1, InstrDescSound
  <2>3. c.curFunc # 0
    <3>1. ctx.curFunc = FuncSym(at.i)
      BY <1>1 DEF Layout, CurOK, InBody
    <3>2. at.i \in Nat /\ at.i >= 1 /\ at.i <= Len(prog.funcs)
      BY <1>1, AtFields DEF Inv, WalkOK, InBody
    <3>3. FuncSym(at.i) \in Nat /\ FuncSym(at.i) > Len(prog.globals) /\ Len(prog.globals) \in Nat
      BY <3>2, FunctionIndex, DeclaredSymbols
    <3> QED
      BY <3>1, <3>3
  <2>4. MovedWithin(c, d)
    BY <1>1, <1>2, <2>1, <2>2, <2>3, EmitMoved
  <2>5. Moved(ctx, c, {ctx.curFunc})
    BY MovedMore
  <2>6. Moved(c, d, {ctx.curFunc}) /\ d.curFunc = ctx.curFunc
    BY <2>4 DEF MovedWithin
  <2>7. Moved(ctx, d, {ctx.curFunc})
    BY <1>2, <2>5, <2>6, MovedTrans
  <2> QED
    BY <2>6, <2>7 DEF MovedWithin
<1>4. CASE \E n \in DOMAIN instr.args : instr.args[n].kind = "bb"
  <2>1. PICK n : n = prog.funcs[at.i].numBlocks
    OBVIOUS
  <2>2. Len(instr.args) = 1 /\ instr.args[1].kind = "bb" /\ instr.args[1].block \in 0 .. n - 1
    BY <1>1, <1>4, <2>1, JumpOperand
  <2>3. Converts(instr.args[1], arg[1])
    BY <1>1, <2>2
  <2>4. Operand(arg[1]) /\ arg[1].kind = "lbl" /\ arg[1].block = instr.args[1].block
    BY <2>2, <2>3 DEF Converts
  <2>5. PICK off \in {1, 2} : JumpEncoded(enc, off)
    <3>1. MIRInstr(instr, n)
      BY <1>1, <2>1
    <3>2. \E off \in {1, 2} : JumpEncoded(InstrDesc(instr, arg), off)
      BY <1>4, <2>4, <3>1, JumpEncoding
    <3> QED
      BY <3>2
  <2>6. PICK l : l = arg[1].block + 1
    OBVIOUS
  <2>7. n \in Nat /\ Len(c.labels) = n
    BY <1>1, <2>1, BodyOK DEF Kept
  <2>8. l \in 1 .. Len(c.labels)
    BY <2>2, <2>4, <2>6, <2>7
  <2>9. d = JumpToLabel(c, l, off)
    BY <1>1, <2>2, <2>4, <2>5, <2>6, JumpEmitted DEF JumpEncoded
  <2>10. Moved(c, d, {}) /\ d.curFunc = c.curFunc
    BY <1>2, <2>8, <2>9, JumpToLabelMoved
  <2>11. Moved(ctx, d, {})
    BY <1>2, <2>10, MovedTrans
  <2> QED
    BY <2>10, <2>11, MovedMore DEF MovedWithin
<1> QED
  BY <1>3, <1>4

(* An instruction is emitted, or refused. *)
LEMMA EmitInstrLayout ==
  ASSUME Inv, Layout, EmitInstr
  PROVE  Layout'
<1>1. PICK instr, arg, c : Prepared(instr, arg, c) /\ EmitConverted(instr, arg, c)
  BY InstrPrepared
<1>2. /\ at.step = "instr" /\ prog' = prog /\ MIRInstr(instr, prog.funcs[at.i].numBlocks) /\ Len(instr.args) \in 0 .. 3
      /\ c = WithOperands(ctx, instr.args)
  BY <1>1 DEF Prepared
<1>3. instr.args \in Seq(Range(instr.args)) /\ \A n \in DOMAIN instr.args : MIROperand(instr.args[n], prog.funcs[at.i].numBlocks)
  BY <1>2 DEF MIRInstr
<1>4. LaidOut(ctx)
  BY DEF Layout
<1>5. Moved(ctx, c, {}) /\ c.curFunc = ctx.curFunc
  BY <1>2, <1>3, <1>4, WithOperandsMoved
<1>6. CASE EmitsNothing(instr, arg)
  <2>1. at' = [at EXCEPT !.k = at.k + 1] /\ ctx' = c
    BY <1>1, <1>6 DEF EmitConverted, EmitNothing
  <2>2. at'.step = "instr" /\ at'.i = at.i
    BY <1>2, <2>1, AtFields
  <2>3. MovedWithin(ctx, ctx')
    BY <1>5, <2>1, MovedMore DEF MovedWithin
  <2> QED
    BY <1>2, <2>2, <2>3, BodyLayout DEF InBody
<1>7. CASE ~EmitsNothing(instr, arg)
  <2>1. PICK enc : enc = InstrDesc(instr, arg)
    OBVIOUS
  <2>2. EmitEncoded(instr, arg, c, enc)
    BY <1>1, <1>7, <2>1 DEF EmitConverted
  <2>3. CASE Accepted(enc)
    <3>1. at' = [at EXCEPT !.k = at.k + 1] /\ ctx' = Emit(c, enc, arg)
      BY <2>2, <2>3 DEF EmitEncoded, EmitBytesOf
    <3>2. at'.step = "instr" /\ at'.i = at.i
      BY <1>2, <3>1, AtFields
    <3>3. MovedWithin(ctx, ctx')
      BY <1>1, <1>5, <2>1, <2>3, <3>1, BytesMoved
    <3> QED
      BY <1>2, <3>2, <3>3, BodyLayout DEF InBody
  <2>4. CASE ~Accepted(enc)
    <3>1. at' = [at EXCEPT !.step = "refused"] /\ ctx' = ctx
      BY <2>2, <2>4 DEF EmitEncoded
    <3>2. at'.step = "refused" /\ at'.i = at.i
      BY <3>1, AtFields
    <3>3. MovedWithin(ctx, ctx')
      BY <1>4, <3>1, MovedSelf DEF MovedWithin
    <3> QED
      BY <1>2, <3>2, <3>3, BodyLayout DEF InBody
  <2> QED
    BY <2>3, <2>4
<1> QED
  BY <1>6, <1>7

(* A function ends: it is placed. *)
LEMMA EndFuncLayout ==
  ASSUME Inv, Layout, Inv', EndFunc
  PROVE  Layout'
<1>1. PICK d, s : d = FuncEnd(ctx) /\ s = FuncSym(at.i)
  OBVIOUS
<1>2. /\ at.step = "block" /\ prog' = prog /\ ctx' = FreeLabels(d) /\ at'.step = "func" /\ at'.i = at.i + 1
  BY <1>1, AtFields DEF EndFunc
<1>3. LaidOut(ctx) /\ ctx.curFunc = s /\ ContextOK(ctx')
  BY <1>1, <1>2 DEF Layout, CurOK, InBody, Inv
<1>4. at.i \in Nat /\ at.i >= 1 /\ at.i <= Len(prog.funcs)
  BY <1>2, AtFields DEF Inv, WalkOK, InBody
<1>5. s \in Nat /\ s > Len(prog.globals) /\ Len(prog.globals) \in Nat /\ s = Len(prog.globals) + at.i
  BY <1>1, <1>4, FunctionIndex, DeclaredSymbols
<1>6. Moved(ctx, d, {s}) /\ d.curFunc = 0
  <2>1. ctx.curFunc # 0
    BY <1>3, <1>5
  <2> QED
    BY <1>1, <1>3, <2>1, FuncEndMoved
<1>7. Moved(d, ctx', {}) /\ ctx'.curFunc = 0
  <2>1. LaidOut(d)
    BY <1>6 DEF Moved
  <2>2. ctx' = [d EXCEPT !.labels = <<>>]
    BY <1>2 DEF FreeLabels
  <2> QED
    BY <1>3, <1>6, <2>1, <2>2, LabelsMoved
<1>8. Moved(ctx, ctx', {s})
  BY <1>3, <1>6, <1>7, MovedTrans
<1>9. CurOK' /\ StartOK'
  BY <1>2, <1>7 DEF CurOK, StartOK, InBody
<1>10. ASSUME NEW i \in DOMAIN ctx.symbols, Ahead(i)'
       PROVE  Ahead(i) /\ i # s
  <2>1. PICK g, k, e : g = Len(prog.globals) /\ k = at.i /\ e = Declared
    OBVIOUS
  <2>2. g \in Nat /\ k \in Nat /\ i \in Nat /\ s = g + k /\ s > g /\ s \in Nat
    BY <1>4, <1>5, <2>1, DeclaredSymbols
  <2>3. Declared' = e
    BY <1>2, <2>1 DEF Declared
  <2>4. i <= g \/ (i >= g + (k + 1) /\ i <= e)
    BY <1>2, <1>10, <2>1, <2>3 DEF Ahead, InBody, FuncSym
  <2>5. i # s /\ (i <= g \/ (i > s /\ i <= e))
    BY <2>2, <2>4
  <2> QED
    BY <1>1, <1>2, <2>1, <2>5 DEF Ahead, InBody
<1>11. Orderly({s})
  BY <1>2, <1>10, EarlyOrderly
<1> QED
  BY <1>2, <1>8, <1>9, <1>11, LaterMoves DEF Declaring

(* A variable is defined: it is behind. *)
LEMMA DefineGlobalLayout ==
  ASSUME Inv, Layout, DefineGlobal
  PROVE  Layout'
<1>1. PICK i, g : i = at.i /\ g = prog.globals[at.i]
  OBVIOUS
<1>2. PICK fields : fields = [o \in {p.at : p \in Range(g.pointers)} |-> 0]
  OBVIOUS
<1>3. PICK c : c = IF IsExternalVar(i) THEN ctx ELSE GlobalVarDefine(ctx, i, fields, g.size, g.align)
  OBVIOUS
<1>4. /\ at.step = "globals" /\ i <= Len(prog.globals) /\ prog' = prog /\ at'.step = "globals" /\ at'.i = i + 1
      /\ ctx' = AddPointers(c, i)
  BY <1>1, <1>2, <1>3, AtFields DEF DefineGlobal, GlobalSym
<1>5. i \in Nat /\ i >= 1 /\ Len(prog.globals) \in Nat
  BY <1>1, AtFields, DeclaredSymbols
<1>6. i \in GlobalIds /\ MIRGlobal(g)
  BY <1>1, <1>4, <1>5, ProgramOK DEF GlobalIds
<1>7. LaidOut(ctx) /\ ctx.curFunc = 0
  BY <1>4 DEF Layout, CurOK
<1>8. i \in DOMAIN ctx.symbols /\ i <= Declared
  <2>1. PICK n, f, e, k : n = Len(prog.globals) /\ f = Len(prog.funcs) /\ e = Declared /\ k = Len(ctx.symbols)
    OBVIOUS
  <2>2. n \in Nat /\ f \in Nat /\ e = n + f /\ k \in Nat /\ k >= e /\ DOMAIN ctx.symbols = 1 .. k
    BY <1>4, <2>1, DeclaredSymbols
  <2>3. i <= n
    BY <1>4, <2>1
  <2>4. i \in 1 .. k /\ i <= e
    BY <1>5, <2>2, <2>3
  <2> QED
    BY <2>1, <2>2, <2>4
<1>9. ctx.symbols[i].kind = "variable" /\ ctx.symbols[i].size = 0
  <2>1. Ahead(i)
    BY <1>1, <1>4, <1>5 DEF Ahead
  <2> QED
    BY <1>4, <1>8, <2>1 DEF Layout, KindsOK, KindOf, AheadOK
<1>10. /\ Moved(ctx, c, {i}) /\ c.curFunc = 0 /\ i \in DOMAIN c.symbols
       /\ c.symbols[i].kind = "variable" /\ c.symbols[i].size = g.size
       /\ ~IsExternalVar(i) => AlignedVar(c.symbols[i], g)
  <2>1. CASE IsExternalVar(i)
    BY <1>1, <1>3, <1>7, <1>8, <1>9, <2>1, MovedSelf DEF IsExternalVar
  <2>2. CASE ~IsExternalVar(i)
    <3>1. g.size \in Nat /\ g.size # 0 /\ g.align \in Nat \ {0}
      <4>1. g.size \in Nat /\ g.align \in 1 .. 16
        BY <1>6 DEF MIRGlobal
      <4>2. g.size # 0
        BY <1>1, <2>2 DEF IsExternalVar
      <4> QED
        BY <4>1, <4>2
    <3>2. DOMAIN fields \subseteq 0 .. g.size - 1
      <4>1. ASSUME NEW p \in Range(g.pointers)
            PROVE  p.at \in 0 .. g.size - 1
        <5>1. PICK n \in DOMAIN g.pointers : p = g.pointers[n]
          BY DEF Range
        <5>2. p.at \in 0 .. g.size - 8
          BY <1>6, <5>1 DEF MIRGlobal
        <5> QED
          BY <3>1, <5>2
      <4> QED
        BY <1>2, <4>1
    <3>3. c = GlobalVarDefine(ctx, i, fields, g.size, g.align)
      BY <1>3, <2>2
    <3>4. Defined(ctx, i, g.size, g.align, c)
      BY <1>7, <1>8, <3>1, <3>2, <3>3, GlobalVarDefineOK DEF LaidOut
    <3>5. /\ Moved(ctx, c, {i}) /\ c.curFunc = ctx.curFunc /\ Len(c.symbols) = Len(ctx.symbols)
          /\ c.symbols[i].size = g.size /\ c.symbols[i].offset \in Nat /\ c.symbols[i].offset % g.align = 0
      <4>1. ctx.symbols[i].kind # "function"
        BY <1>9
      <4>2. Moved(ctx, c, {i})
        BY <1>7, <1>8, <1>9, <3>1, <3>4, <4>1, DefinedMoved
      <4> QED
        BY <3>4, <4>2 DEF Defined
    <3>6. i \in DOMAIN c.symbols
      BY <1>8, <3>5, EndsOK, DeclaredSymbols DEF Moved
    <3>7. c.symbols[i].kind = "variable"
      BY <1>8, <1>9, <3>5 DEF Moved
    <3> QED
      BY <1>7, <3>1, <3>5, <3>6, <3>7 DEF AlignedVar
  <2> QED
    BY <2>1, <2>2
<1>11. LaidOut(c)
  BY <1>10 DEF Moved
<1>12. Moved(c, ctx', {}) /\ ctx'.curFunc = 0
  BY <1>1, <1>4, <1>6, <1>10, <1>11, AddPointersMoved
<1>13. Moved(ctx, ctx', {i})
  BY <1>7, <1>10, <1>12, MovedTrans
<1>14. CurOK' /\ StartOK'
  BY <1>4, <1>12 DEF CurOK, StartOK, InBody
<1>15. ~IsExternalVar(i) => i \in DOMAIN ctx'.symbols /\ AlignedVar(ctx'.symbols[i], g)
  <2>1. ctx'.symbols[i].size = c.symbols[i].size /\ ctx'.symbols[i].offset = c.symbols[i].offset
    BY <1>10, <1>12 DEF Moved
  <2>2. i \in DOMAIN ctx'.symbols
    <3>1. PICK m, k : m = Len(c.symbols) /\ k = Len(ctx'.symbols)
      OBVIOUS
    <3>2. m \in Nat /\ k \in Nat /\ m <= k /\ DOMAIN c.symbols = 1 .. m /\ DOMAIN ctx'.symbols = 1 .. k
      BY <1>11, <1>12, <3>1, EndsOK DEF Moved
    <3> QED
      BY <1>10, <3>2
  <2> QED
    BY <1>10, <2>1, <2>2 DEF AlignedVar
<1>16. Orderly({i})
  <2>1. ASSUME NEW j \in DOMAIN ctx.symbols, Ahead(j)'
        PROVE  Ahead(j) /\ j # i
    <3>1. j \in Nat
      BY DeclaredSymbols
    <3>2. j <= Len(prog.globals) /\ j >= i + 1
      BY <1>4, <2>1 DEF Ahead, InBody
    <3>3. j >= i /\ j # i
      BY <1>5, <3>1, <3>2
    <3> QED
      BY <1>1, <1>4, <3>2, <3>3 DEF Ahead
  <2>2. ASSUME NEW j \in GlobalIds, Behind(j)'
        PROVE  \/ Behind(j) /\ j # i
               \/ j \in DOMAIN ctx'.symbols /\ AlignedVar(ctx'.symbols[j], prog.globals[j])
    <3>1. ~IsExternalVar(j) /\ j < i + 1
      BY <1>4, <2>2 DEF Behind, IsExternalVar
    <3>2. CASE j = i
      BY <1>1, <1>15, <3>1, <3>2
    <3>3. CASE j # i
      <4>1. j \in Nat
        BY <1>5 DEF GlobalIds
      <4>2. j < i
        BY <1>5, <3>1, <3>3, <4>1
      <4> QED
        BY <1>1, <1>4, <3>1, <3>3, <4>2 DEF Behind
    <3> QED
      BY <3>2, <3>3
  <2> QED
    BY <2>1, <2>2 DEF Orderly
<1> QED
  BY <1>4, <1>13, <1>14, <1>16, LaterMoves DEF Declaring

(* An external symbol gets its stub or slot: none that has bytes changes. *)
LEMMA EmitStubLayout ==
  ASSUME Inv, Layout, EmitStub
  PROVE  Layout'
<1>1. PICK i : i = at.i
  OBVIOUS
<1>2. at.step = "stubs" /\ i <= at.limit /\ prog' = prog /\ at'.step = "stubs" /\ ctx' = DefineExternal(ctx, i)
  BY <1>1, AtFields DEF EmitStub
<1>3. LaidOut(ctx) /\ ctx.curFunc = 0
  BY <1>2 DEF Layout, CurOK
<1>4. i \in DOMAIN ctx.symbols
  <2>1. PICK k, limit : k = Len(ctx.symbols) /\ limit = at.limit
    OBVIOUS
  <2>2. limit \in 0 .. k
    BY <1>2, <2>1 DEF Inv, WalkOK
  <2>3. i \in Nat /\ i >= 1 /\ i <= limit /\ k \in Nat /\ DOMAIN ctx.symbols = 1 .. k
    BY <1>1, <1>2, <2>1, AtFields, DeclaredSymbols
  <2>4. i \in 1 .. k
    BY <2>2, <2>3
  <2> QED
    BY <2>3, <2>4
<1>5. External(ctx, i, ctx')
  BY <1>2, <1>3, <1>4, DefineExternalMoved
<1>6. Moved(ctx, ctx', {i}) /\ ctx'.curFunc = 0
  BY <1>5 DEF External
<1>7. CurOK' /\ StartOK'
  BY <1>2, <1>6 DEF CurOK, StartOK, InBody
<1>8. Orderly({i})
  <2>1. \A j : ~Ahead(j)'
    BY <1>2 DEF Ahead, InBody
  <2>2. ASSUME NEW j \in GlobalIds, Behind(j)'
        PROVE  \/ Behind(j) /\ j # i
               \/ j \in DOMAIN ctx'.symbols /\ AlignedVar(ctx'.symbols[j], prog.globals[j])
    <3>1. Behind(j)
      BY <1>2, <2>2 DEF Behind, GlobalIds, IsExternalVar
    <3>2. j \in DOMAIN ctx.symbols /\ AlignedVar(ctx.symbols[j], prog.globals[j])
      BY <3>1 DEF Layout, BehindOK
    <3>3. CASE j = i
      <4>1. ctx' = ctx
        BY <1>5, <3>2, <3>3 DEF External, AlignedVar
      <4> QED
        BY <3>2, <4>1
    <3> QED
      BY <3>1, <3>3
  <2> QED
    BY <2>1, <2>2 DEF Orderly
<1> QED
  BY <1>2, <1>6, <1>7, <1>8, LaterMoves DEF Declaring

(* The program is laid out: nothing moves. *)
LEMMA LaidLayout ==
  ASSUME Inv, Layout, prog' = prog, at.step \in {"stubs", "relocate"}, at'.step \in {"relocate", "done", "failed"},
         Moved(ctx, ctx', {}), ctx'.curFunc = 0, PageStart(ctx'.section["data"].start)
  PROVE  Layout'
<1>1. CurOK' /\ StartOK'
  BY DEF CurOK, StartOK, PageStart, InBody
<1>2. \A j : ~Ahead(j)'
  BY DEF Ahead, InBody
<1>3. \A j \in GlobalIds : Behind(j)' => Behind(j)
  BY DEF Behind, GlobalIds, IsExternalVar
<1>4. Orderly({})
  BY <1>2, <1>3 DEF Orderly
<1> QED
  BY <1>1, <1>4, LaterMoves DEF Declaring

(* The sections are joined, *)
LEMMA JoinLayout ==
  ASSUME Inv, Layout, Join
  PROVE  Layout'
<1>1. at.step = "stubs" /\ prog' = prog /\ ctx' = JoinSections(ctx) /\ at'.step = "relocate"
  BY AtFields DEF Join
<1>2. LaidOut(ctx) /\ ctx.curFunc = 0
  BY <1>1 DEF Layout, CurOK
<1>3. Moved(ctx, ctx', {}) /\ ctx'.curFunc = 0 /\ PageStart(ctx'.section["data"].start)
  BY <1>1, <1>2, JoinSectionsMoved DEF PageStart
<1> QED
  BY <1>1, <1>3, LaidLayout

(* and relocated. *)
LEMMA RelocateLayout ==
  ASSUME Inv, Layout, Relocate \/ NextSymbol \/ Finish
  PROVE  Layout'
<1>1. at.step = "relocate" /\ prog' = prog
  BY DEF Relocate, NextSymbol, Finish
<1>2. at'.step \in {"relocate", "done", "failed"}
  BY <1>1, AtFields DEF Relocate, NextSymbol, Finish
<1>3. ctx' = ctx \/ ctx' = ApplyRelocation(ctx, at.i, Relocs[at.j])
  BY DEF Relocate, NextSymbol, Finish
<1>4. LaidOut(ctx) /\ ctx.curFunc = 0 /\ PageStart(ctx.section["data"].start)
  BY <1>1 DEF Layout, CurOK, StartOK
<1>5. Moved(ctx, ctx', {}) /\ ctx'.curFunc = 0 /\ ctx'.section = ctx.section
  <2>1. CASE ctx' = ctx
    BY <1>4, <2>1, MovedSelf
  <2>2. CASE ctx' = ApplyRelocation(ctx, at.i, Relocs[at.j])
    BY <1>4, <2>2, ApplyRelocationMoved
  <2> QED
    BY <1>3, <2>1, <2>2
<1> QED
  BY <1>1, <1>2, <1>4, <1>5, LaidLayout

(* Nothing happens. *)
LEMMA StutterLayout ==
  ASSUME Inv, Layout, UNCHANGED vars
  PROVE  Layout'
<1>1. prog' = prog /\ ctx' = ctx /\ at' = at
  BY DEF vars
<1>2. CurOK' /\ StartOK' /\ LaidOut(ctx')
  BY <1>1 DEF Layout, CurOK, StartOK, InBody, FuncSym
<1>3. KindsOK'
  BY <1>1 DEF Layout, KindsOK, Declared, KindOf
<1>4. AheadOK'
  BY <1>1 DEF Layout, AheadOK, Ahead, InBody, FuncSym, Declared
<1>5. BehindOK'
  BY <1>1 DEF Layout, BehindOK, Behind, GlobalIds, IsExternalVar
<1> QED
  BY <1>2, <1>3, <1>4, <1>5 DEF Layout

(* With Inv, Layout is inductive. *)
LEMMA LayoutNext ==
  ASSUME Inv, Layout, [Next]_vars
  PROVE  Layout'
<1>1. Inv'
  BY InvNext
<1>2. CASE DeclareGlobal \/ DeclareFunc
  BY <1>2, DeclareLayout
<1>3. CASE NextList
  BY <1>3, NextListLayout
<1>4. CASE SkipExternalFunc
  BY <1>4, SkipLayout
<1>5. CASE BeginFunc
  BY <1>1, <1>5, BeginFuncLayout
<1>6. CASE BeginBlock
  BY <1>1, <1>6, BeginBlockLayout
<1>7. CASE EndBlock
  BY <1>7, EndBlockLayout
<1>8. CASE EndFunc
  BY <1>1, <1>8, EndFuncLayout
<1>9. CASE EmitInstr
  BY <1>9, EmitInstrLayout
<1>10. CASE DefineGlobal
  BY <1>10, DefineGlobalLayout
<1>11. CASE EmitStub
  BY <1>11, EmitStubLayout
<1>12. CASE Join
  BY <1>12, JoinLayout
<1>13. CASE Relocate \/ NextSymbol \/ Finish
  BY <1>13, RelocateLayout
<1>14. CASE UNCHANGED vars
  BY <1>14, StutterLayout
<1> QED
  BY <1>2, <1>3, <1>4, <1>5, <1>6, <1>7, <1>8, <1>9, <1>10, <1>11, <1>12, <1>13, <1>14 DEF Next

(* The invariants together. *)
THEOREM LayoutInvariance == Spec => [](Inv /\ Layout)
<1>1. Init => Inv /\ Layout
  BY InitHolds, LayoutInit
<1>2. Inv /\ Layout /\ [Next]_vars => (Inv /\ Layout)'
  BY InvNext, LayoutNext
<1> QED
  BY <1>1, <1>2, PTL DEF Spec

(* Symbols that lie in their section apart from each other have no byte in common. *)
LEMMA ApartExtents ==
  ASSUME NEW i, NEW j, NEW m \in Int, NEW n \in Int, Lies(ctx.symbols[i], m), Lies(ctx.symbols[j], n),
         Apart(ctx.symbols[i], ctx.symbols[j])
  PROVE  Extent(i) \cap Extent(j) = {}
<1>1. PICK a, k, b, l : /\ a = ctx.symbols[i].offset /\ k = ctx.symbols[i].size
                        /\ b = ctx.symbols[j].offset /\ l = ctx.symbols[j].size
  OBVIOUS
<1>2. a \in Int /\ k \in Nat /\ b \in Int /\ l \in Nat
  BY <1>1 DEF Lies
<1>3. k = 0 \/ l = 0 \/ a + k <= b \/ b + l <= a
  BY <1>1 DEF Apart
<1>4. \A x \in Int : ~(x >= a /\ x <= a + k - 1 /\ x >= b /\ x <= b + l - 1)
  BY <1>2, <1>3
<1>5. (a .. (a + k - 1)) \cap (b .. (b + l - 1)) = {}
  BY <1>2, <1>4
<1> QED
  BY <1>1, <1>5 DEF Extent

(* What is relocated within a symbol lies within its extent. *)
LEMMA WithinExtent ==
  ASSUME NEW i, NEW m \in Int, Lies(ctx.symbols[i], m), NEW r \in Range(ctx.symbols[i].relocs)
  PROVE  ctx.symbols[i].offset + r.offset + Width(r) - 1 \in Extent(i)
<1>1. PICK a, n, o, w : a = ctx.symbols[i].offset /\ n = ctx.symbols[i].size /\ o = r.offset /\ w = Width(r)
  OBVIOUS
<1>2. PICK k \in DOMAIN ctx.symbols[i].relocs : r = ctx.symbols[i].relocs[k]
  BY DEF Range
<1>3. WithinOne(r, n)
  BY <1>1, <1>2 DEF Lies, Within
<1>4. a \in Int /\ n \in Nat /\ o \in Int /\ w \in Int /\ o + w \in 1 .. n
  BY <1>1, <1>3 DEF Lies, WithinOne
<1>5. a + o + w - 1 \in a .. (a + n - 1)
  BY <1>4
<1> QED
  BY <1>1, <1>5 DEF Extent

(* Outside of functions the layout is one of symbols that do not overlap. *)
LEMMA Disjoint ==
  ASSUME LaidOut(ctx)
  PROVE  SymbolsDisjoint
<1> SUFFICES ASSUME ctx.curFunc = 0
             PROVE  /\ \A i, j \in DOMAIN ctx.symbols :
                         i # j /\ SectionOf(ctx.symbols[i].kind) = SectionOf(ctx.symbols[j].kind) =>
                           Extent(i) \cap Extent(j) = {}
                    /\ \A i \in DOMAIN ctx.symbols : \A r \in Range(ctx.symbols[i].relocs) :
                         ctx.symbols[i].offset + r.offset + Width(r) - 1 \in Extent(i)
  BY DEF SymbolsDisjoint, Width, NoSymbol
<1>1. ASSUME NEW i \in DOMAIN ctx.symbols
      PROVE  \E n \in Int : Lies(ctx.symbols[i], n)
  <2>1. i # 0
    BY EndsOK
  <2>2. Lies(ctx.symbols[i], End(ctx, Section(ctx.symbols[i])))
    BY <2>1 DEF LaidOut
  <2>3. End(ctx, Section(ctx.symbols[i])) \in Int
    BY EndsOK
  <2> QED
    BY <2>2, <2>3
<1>2. ASSUME NEW i \in DOMAIN ctx.symbols, NEW j \in DOMAIN ctx.symbols, i # j,
             SectionOf(ctx.symbols[i].kind) = SectionOf(ctx.symbols[j].kind)
      PROVE  Extent(i) \cap Extent(j) = {}
  <2>1. Apart(ctx.symbols[i], ctx.symbols[j])
    BY <1>2 DEF LaidOut, Section
  <2>2. PICK m \in Int, n \in Int : Lies(ctx.symbols[i], m) /\ Lies(ctx.symbols[j], n)
    BY <1>1
  <2> QED
    BY <2>1, <2>2, ApartExtents
<1>3. ASSUME NEW i \in DOMAIN ctx.symbols, NEW r \in Range(ctx.symbols[i].relocs)
      PROVE  ctx.symbols[i].offset + r.offset + Width(r) - 1 \in Extent(i)
  <2>1. PICK m \in Int : Lies(ctx.symbols[i], m)
    BY <1>1
  <2> QED
    BY <2>1, WithinExtent
<1> QED
  BY <1>2, <1>3

(* At the end every variable is aligned: in its section, and the section begins at a page. *)
LEMMA Aligned ==
  ASSUME Inv, Layout
  PROVE  VariablesAligned
<1> SUFFICES ASSUME at.step = "done", NEW i \in GlobalIds, ~IsExternalVar(i)
             PROVE  InBuffer(ctx, i) % prog.globals[i].align = 0
  BY DEF VariablesAligned, GlobalSym
<1>1. PICK start, offset, a : /\ start = ctx.section["data"].start /\ offset = ctx.symbols[i].offset
                              /\ a = prog.globals[i].align
  OBVIOUS
<1>2. i \in Nat /\ i >= 1 /\ i <= Len(prog.globals)
  BY DeclaredSymbols DEF GlobalIds
<1>3. a \in Nat \ {0} /\ PageSize % a = 0
  <2>1. MIRGlobal(prog.globals[i])
    BY <1>2, ProgramOK
  <2>2. a \in 1 .. 16 /\ PageSize % a = 0
    BY <1>1, <2>1 DEF MIRGlobal
  <2> QED
    BY <2>2
<1>4. start \in Nat /\ start % PageSize = 0
  BY <1>1 DEF Layout, StartOK, PageStart
<1>5. i \in DOMAIN ctx.symbols /\ AlignedVar(ctx.symbols[i], prog.globals[i])
  BY DEF Layout, BehindOK, Behind
<1>6. offset \in Nat /\ offset % a = 0
  BY <1>1, <1>5 DEF AlignedVar
<1>7. ctx.symbols[i].kind = "variable"
  <2>1. i <= Declared
    <3>1. PICK g, f, e : g = Len(prog.globals) /\ f = Len(prog.funcs) /\ e = Declared
      OBVIOUS
    <3>2. g \in Nat /\ f \in Nat /\ e = g + f /\ i <= g
      BY <1>2, <3>1, DeclaredSymbols
    <3>3. i <= e
      BY <1>2, <3>2
    <3> QED
      BY <3>1, <3>3
  <2> QED
    BY <1>2, <1>5, <2>1 DEF Layout, KindsOK, KindOf
<1>8. InBuffer(ctx, i) = start + offset
  BY <1>1, <1>7 DEF InBuffer, SectionOf
<1>9. (start + offset) % a = 0
  BY <1>3, <1>4, <1>6, AlignedInBuffer, AsmAssumption
<1> QED
  BY <1>1, <1>8, <1>9

(* Whatever the program, the symbols of a section do not overlap, what is relocated in a symbol's name lies within it, and
   in the code buffer every variable is aligned (jx64_funcEnd, jx64_globalVarDefine, jx64_finalize). *)
THEOREM Laying == Spec => []LayoutSound
<1>1. Inv /\ Layout => LayoutSound
  BY Disjoint, Aligned DEF Layout, LayoutSound
<1> QED
  BY <1>1, LayoutInvariance, PTL
=============================================================================

------------------------------ MODULE Assemble ------------------------------
(* One machine IR instruction handed to the assembler (jit_gen.c): its operands
   are converted, which may declare a symbol or define a constant, and the
   function that kInstrDesc names for its opcode encodes it.

   A machine IR instruction is [op, sse, cc, args]: "sse" is the SSE suffix ("none"
   for the others), "cc" the condition of a set<cc> or j<cc>.  Its operands are
     [kind |-> "reg", type, id]         [kind |-> "const", type, val]
     [kind |-> "float", type, bits]     a floating point constant
     [kind |-> "bb", block]             [kind |-> "ext", name]
     [kind |-> "mem", type, base, index, scale, disp]
   val has eight bytes and disp four, the lowest first.                       *)
EXTENDS Assembler, Encoding

BitsOf == [i8 |-> 8, i16 |-> 16, i32 |-> 32, i64 |-> 64, ptr |-> 64, f32 |-> 32, f64 |-> 64, f128 |-> 128]
IsXMM(type) == type \in {"f32", "f64", "f128"}
LogScale == <<0, 1, 1, 2, 2, 2, 2, 3>>       \* of 1, 2, 4 and 8

Intrinsics == {<<"memset">>, <<"memcpy">>}

(* Symbols that were not declared can only be intrinsic functions. *)
WithIntrinsic(c, name) ==
  IF SymbolGetByName(c, name) = NoSymbol /\ name \in Intrinsics THEN Declare(c, "function", name) ELSE c

(* A constant is defined as a variable while the function is being emitted. *)
ConstantName(op) == <<IF op.type = "f32" THEN "f32c_" ELSE "f64c_", op.bits>>
WithConstant(c, op) ==
  IF SymbolGetByName(c, ConstantName(op)) # NoSymbol THEN c
  ELSE GlobalVarDefine(Declare(c, "variable", ConstantName(op)), Len(c.symbols) + 1, NoField,
                       BitsOf[op.type] \div 8, BitsOf[op.type] \div 8)

WithOperand(c, op) ==
  CASE op.kind = "float" -> WithConstant(c, op)
    [] op.kind = "ext" -> WithIntrinsic(c, op.name)
    [] OTHER -> c

(* One operand after the other (JX64GEN_INSTR_VOID, _UNARY, _BINARY, _TERNARY). *)
WithOperands(c, args) ==
  CASE Len(args) = 0 -> c
    [] Len(args) = 1 -> WithOperand(c, args[1])
    [] Len(args) = 2 -> WithOperand(WithOperand(c, args[1]), args[2])
    [] Len(args) = 3 -> WithOperand(WithOperand(WithOperand(c, args[1]), args[2]), args[3])

SymbolName(op) == IF op.kind = "float" THEN ConstantName(op) ELSE op.name

ConvertMIROperand(op) ==
  LET bits == IF op.kind \in {"bb", "ext"} THEN 64 ELSE BitsOf[op.type]
  IN  CASE op.kind = "reg" -> [kind |-> "reg", id |-> op.id, size |-> IF IsXMM(op.type) THEN 128 ELSE bits]
        [] op.kind = "const" -> [kind |-> "imm", size |-> bits, val |-> SignExtend(op.val, bits \div 8, 8)]
        [] op.kind \in {"float", "ext"} -> [kind |-> "sym", size |-> bits, name |-> SymbolName(op)]
        [] op.kind = "bb" -> [kind |-> "lbl", block |-> op.block]
        [] op.kind = "mem" -> [kind |-> "mem", size |-> bits, base |-> op.base, index |-> op.index,
                               scale |-> LogScale[op.scale], disp |-> op.disp]

(* kInstrDesc.  The signed division stands for the unsigned one as well. *)
SSEOpcodes == Overwrite(SSEOpcodes1, SSEOpcodes2)
InstrDesc(instr, arg) ==
  LET op == instr.op
  IN  CASE instr.sse # "none" /\ op = "mov" -> SSEMov(instr.sse, \h10, arg[1], arg[2])
        [] instr.sse # "none" /\ op = "mova" -> SSEMov(instr.sse, \h28, arg[1], arg[2])
        [] instr.sse # "none" /\ op = "movq" -> Movq(arg[1], arg[2])
        [] instr.sse # "none" /\ op \in DOMAIN SSEOpcodes ->
             SSEBinaryOp(instr.sse, SSEOpcodes[op], FALSE, arg[1], arg[2])
        [] instr.sse = "none" /\ op \in DOMAIN MathBinary -> MathBinaryOp(MathBinary[op], arg[1], arg[2])
        [] instr.sse = "none" /\ op \in {"idiv", "div"} ->
             MathUnaryOp(MathUnary["idiv"][1], MathUnary["idiv"][2], arg[1])
        [] instr.sse = "none" /\ op \in {"shl", "shr", "sar"} -> ShiftRotateOp(Shifts[op], arg[1], arg[2])
        [] op = "mov" /\ instr.sse = "none" -> Mov(arg[1], arg[2])
        [] op = "movsx" -> Movsx(arg[1], arg[2])
        [] op = "movzx" -> Movzx(arg[1], arg[2])
        [] op = "lea" -> Lea(arg[1], arg[2])
        [] op = "test" -> Test(arg[1], arg[2])
        [] op = "imul" -> Imul(arg[1], arg[2])
        [] op = "imul3" -> Imul3(arg[1], arg[2], arg[3])
        [] op = "set" -> Setcc(instr.cc, arg[1])
        [] op = "j" -> Jcc(instr.cc, arg[1])
        [] op = "jmp" -> JmpCallOp(\hE9, 4, arg[1])
        [] op = "call" -> JmpCallOp(\hE8, 2, arg[1])
        [] op = "push" -> Push(arg[1])
        [] op = "pop" -> Pop(arg[1])
        [] op \in {"cdq", "cqo"} -> Widening[op]
        [] op = "ret" -> Retn

EmitsNothing(instr, arg) == instr.op = "movzx" /\ MovzxIsNop(arg[1], arg[2])

(* The bytes go to the text section; a label's reference or a relocation is
   recorded for the displacement field.                                       *)
Emit(c, enc, arg) ==
  LET lbls == {i \in DOMAIN arg : arg[i].kind = "lbl"}
      syms == {i \in DOMAIN arg : arg[i].kind = "sym"}
      at == DispOffset(enc)
  IN  CASE lbls # {} -> JumpToLabel(c, arg[Min(lbls)].block + 1, at)
        [] syms # {} -> UseSymbol(c, SymbolGetByName(c, arg[Min(syms)].name), at, InstrSize(enc) - at - 4)
        [] OTHER -> EmitBytes(c, "text", NoField, InstrSize(enc))
=============================================================================

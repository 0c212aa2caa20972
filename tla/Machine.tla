------------------------------- MODULE Machine -------------------------------
(***************************************************************************)
(* What a function means, before and after its translation: the reference   *)
(* the translation is compared with. RunIR interprets the SSA form, RunMIR  *)
(* the machine IR, with virtual registers or without, as the x64 would.     *)
(*                                                                         *)
(* A run yields what a caller can see: [ret, mem, trace]: the value         *)
(* returned, the memory that outlives the call and the arguments of the     *)
(* external calls; or a fault. A byte has two bits (see MIR), a word of     *)
(* memory holds a number of each of its bytes, or the bytes of a float,     *)
(* which only make sense together.                                          *)
(***************************************************************************)
EXTENDS Select, Bitwise

(***************************************************************************)
(* Values: integers below 65536; D(n), F(n) the floats; Lifted(h, x) the    *)
(* doubles that ui64_to_f64 makes out of the halves of an integer.          *)
(***************************************************************************)
D(n) == 3000000 + n
F(n) == 1000000 + n
Lifted(h, x) == 500000 + 100000 * h + x
Poison == 3999999
FloatBase(t) == IF t = "F32" THEN 1000000 ELSE 3000000
Num(t, v) == IF v = 0 THEN 0 ELSE v - FloatBase(t)
FloatOfInt(t, n) == IF n = 0 THEN 0 ELSE FloatBase(t) + n      \* zero is all zero bits
IsFloatOf(t, v) == Num(t, v) \in -90000..90000
IsBits(v) == v \in 0..65535
Trunc(t, v) == IF v < 65536 THEN v % Mod(t) ELSE v
Sx(t, v) == IF IsBits(v) THEN Signed(t, v) ELSE 0      \* the bytes of a float mean no number
FloatArith(t, op, x, y) ==
    LET u == Num(t, x)
        w == Num(t, y)
    IN  IF ~IsFloatOf(t, x) \/ ~IsFloatOf(t, y) \/ (op = "div" /\ w = 0) THEN Poison
        ELSE FloatOfInt(t, CASE op = "add" -> u + w [] op = "sub" -> u - w
                             [] op = "mul" -> u * w [] op = "div" -> u \div w)
\* Conversions to and from signed integers of a type; out of range is the indefinite value.
ToInt(ft, t, v) ==
    LET n == Num(ft, v)
    IN  IF IsFloatOf(ft, v) /\ 2 * n < Mod(t) /\ 2 * n >= 0 - Mod(t) THEN n % Mod(t) ELSE Mod(t) \div 2
FloatToFloat(from, to, v) ==
    IF IsFloatOf(from, v) THEN FloatOfInt(to, Num(from, v)) ELSE Poison

(***************************************************************************)
(* Memory                                                                  *)
(***************************************************************************)
Globals == 16..47
EntrySP == 392       \* a call has pushed the return address on an aligned stack
Stack == 64..495
Locals == 512..767   \* where the interpreter of the IR puts its variables
Regions == Globals \cup Stack \cup Locals
Valid(a, n) == a \in Regions /\ a + n - 1 \in Regions
\* Cells by address; a float is kept whole in the first of its cells, marks in the rest.
CellsOf(v, n) ==
    IF IsBits(v)
    THEN SubSeq(<<v % 4, (v \div 4) % 4, (v \div 16) % 4, (v \div 64) % 4, (v \div 256) % 4,
                  (v \div 1024) % 4, (v \div 4096) % 4, v \div 16384>>, 1, n)
    ELSE <<v>> \o SubSeq(<<11, 12, 13, 14, 15, 16, 17>>, 1, n - 1)
ReadMem(mem, a, n) ==
    LET Two(j)  == mem[a + j] + 4 * mem[a + j + 1]
        Four(j) == Two(j) + 16 * Two(j + 2)
    IN  CASE mem[a] > 65535 -> IF n > 3 /\ mem[a + n - 1] = 9 + n THEN mem[a] ELSE Poison
          [] mem[a] <= 65535 /\ \E j \in 0..(n - 1) : mem[a + j] > 3 -> Poison
          [] OTHER -> CASE n = 1 -> mem[a] [] n = 2 -> Two(0) [] n = 4 -> Four(0)
                        [] n = 8 -> Four(0) + 256 * Four(4)
WriteMem(mem, a, n, v) == SubSeq(mem, 1, a - 1) \o CellsOf(v, n) \o SubSeq(mem, a + n, Len(mem))
Canonical(v) == IF v \in Stack \cup Locals THEN 64 ELSE v

(***************************************************************************)
(* The world outside: "ext" notes its arguments and returns their sum, "vf" *)
(* takes its first argument's number of doubles more, "set" stores 5        *)
(* through its pointer, "memset" fills and "memcpy" copies. Every call       *)
(* counts one up in the first byte.                                         *)
(***************************************************************************)
SymAddr(name) == CASE name = "g" -> 24 [] name = "slot" -> 32 [] OTHER -> 0
\* What the program finds: zeros in its globals but for g and slot, anything elsewhere.
Outside0 == WriteMem(WriteMem([a \in 1..767 |-> IF a \in Globals THEN 0 ELSE (a * 7 + 3) % 4], 24, 4, 9), 32, 8, 40)
Sum(s) == Fold(LAMBDA n, v : IF IsBits(v) THEN n + Canonical(v) ELSE n, 0, s)
\* [mem, ret] after the external function name has been called with the arguments.
External(name, args, mem, ret) ==
    LET m == WriteMem(mem, 16, 1, (mem[16] + 1) % 4)
    IN  [mem |-> CASE name = "set" -> WriteMem(m, args[1], 4, 5)
                   [] name = "memset" -> Fold(LAMBDA x, j : WriteMem(x, args[1] + j - 1, 1, args[2] % 4),
                                                  m, [j \in 1..args[3] |-> j])
                   [] name = "memcpy" -> Fold(LAMBDA x, j : WriteMem(x, args[1] + j - 1, 1,
                                                                         mem[args[2] + j - 1]),
                                                  m, [j \in 1..args[3] |-> j])
                   [] OTHER -> m,
         ret |-> CASE ret = "VOID" -> 0
                   [] IsFloat(ret) -> FloatOfInt(ret, Sum(args) + 1)
                   [] OTHER -> (Sum(args) + 1) % Mod(ret)]
Note(name, args) == <<name, [n \in DOMAIN args |-> Canonical(args[n])]>>
Extras(name, first) == IF name = "vf" THEN first ELSE 0
Endless == 1
BadAddress == 2
BadFlags == 3
BadOperand == 4
NotRestored == 5
Fault(why) == [ret |-> 0 - why, mem |-> <<>>, trace |-> <<>>]
Observed(ret, mem, trace) ==
    [ret |-> ret, mem |-> SubSeq(mem, 16, 47), trace |-> trace]

(***************************************************************************)
(* The SSA form                                                            *)
(***************************************************************************)
IntArith(op, t, x, y) ==
    LET ty == Convert(t)
        sx == Signed(ty, x)
        sy == Signed(ty, y)
        q  == LET a == IF sx < 0 THEN 0 - sx ELSE sx
                  b == IF sy < 0 THEN 0 - sy ELSE sy
              IN  IF (sx < 0) = (sy < 0) THEN a \div b ELSE 0 - (a \div b)
        n  == y % Bits(ty)
    IN  (CASE op = "add" -> x + y [] op = "sub" -> x - y [] op = "mul" -> sx * sy
          [] op = "and" -> x & y [] op = "or" -> x | y [] op = "xor" -> x ^^ y
          [] op = "shl" -> (x * 2 ^ n) [] op = "shr" /\ ~IsSignedType(t) -> x \div 2 ^ n
          [] op = "shr" /\ IsSignedType(t) -> sx \div 2 ^ n
          [] op = "div" -> IF IsSignedType(t) THEN q ELSE x \div y
          [] op = "rem" -> IF IsSignedType(t) THEN sx - q * sy ELSE x % y) % Mod(ty)
Holds(cc, x, y) ==
    CASE cc = "le" -> x <= y [] cc = "ge" -> x >= y [] cc = "lt" -> x < y [] cc = "gt" -> x > y
      [] cc = "eq" -> x = y [] cc = "ne" -> x # y

\* The state of a run: values, arguments, memory, the next variable's address, the trace, the
\* jumps left and what the function has returned.
IRConst(t, c) == IF IsFloatType(t) THEN FloatOfInt(Convert(t), c) ELSE c % Mod(Convert(t))
IRValue(s, v) ==
    CASE v.k = "val" -> s.val[v.id] [] v.k = "arg" -> s.args[v.n]
      [] v.k = "const" -> IRConst(v.t, v.c) [] v.k = "sym" -> SymAddr(v.name)
IRPointer(s, v) == IF v.k = "sym" /\ v.name \in Imported THEN ReadMem(s.mem, SymAddr(v.name), 8)
                   ELSE IRValue(s, v)
Padded(ty) == IF ty.k = "array" THEN ty.n * TypeSize(ty.of) ELSE TypeSize(ty)
GepOffset(s, acc, v) ==
    LET n == IF v.k = "const" THEN v.c ELSE Signed(Convert(v.t), IRValue(s, v))
    IN  IF acc.ty.k = "struct" THEN [a |-> acc.a + MemberOffset(acc.ty, n), ty |-> acc.ty.m[n + 1]]
        ELSE [a |-> acc.a + n * TypeSize(acc.ty.of), ty |-> acc.ty.of]
IRCompute(s, i) ==
    LET x == IRPointer(s, i.a[1])
        y == IRPointer(s, i.a[2])
        from == i.a[1].t
        to == Convert(i.t)
    IN  CASE i.op \in {"add", "sub", "mul", "div", "rem", "and", "or", "xor", "shl", "shr"} ->
                IF IsFloatType(i.t) THEN FloatArith(to, i.op, x, y) ELSE IntArith(i.op, i.t, x, y)
          [] i.op = "set" -> LET Order(v) == CASE IsFloatType(from) -> Num(Convert(from), v)
                                               [] ~IsFloatType(from) /\ IsSignedType(from) -> Signed(Convert(from), v)
                                               [] OTHER -> v
                             IN  IF Holds(i.cc, Order(x), Order(y)) THEN 1 ELSE 0
          [] i.op = "load" -> ReadMem(s.mem, x, SizeOf(to))
          [] i.op = "gep" -> Fold(LAMBDA acc, v : GepOffset(s, acc, v),
                                      [a |-> x, ty |-> Pointer(i.of)], Tail(i.a)).a
          [] i.op \in {"trunc", "zext", "ptrtoint", "inttoptr", "bitcast"} -> Trunc(to, x)
          [] i.op = "sext" -> Signed(Convert(from), x) % Mod(to)
          [] i.op \in {"fpext", "fptrunc"} -> FloatToFloat(Convert(from), to, x)
          [] i.op \in {"fp2ui", "fp2si"} -> Num(Convert(from), x) % Mod(to)
          [] i.op = "ui2fp" -> FloatOfInt(to, x)
          [] i.op = "si2fp" -> FloatOfInt(to, Signed(Convert(from), x))
RECURSIVE IRBlock(_, _, _, _)
\* A call of a function of the module that may be inlined: its blocks are at hand.
Internal(i) == i.op = "call" /\ "blocks" \in DOMAIN i.fn /\ i.fn.blocks # <<>>
InnerCall(s, i, args) ==
    LET t == IRBlock(i.fn, i.fn.blocks[1].b, 0, [s EXCEPT !.val = <<>>, !.args = args])
    IN  [t EXCEPT !.val = (i.id :> IF t.ret < 0 THEN 0 ELSE t.ret) @@ s.val, !.args = s.args, !.ret = s.ret]
IRCall(s, i) ==
    LET name == IF i.a[1].k = "sym" THEN i.a[1].name ELSE "ext"     \* the one function whose address is known
        args == [n \in 1..(Len(i.a) - 1) |-> IRPointer(s, i.a[n + 1])]
        r == External(name, args, s.mem, Convert(i.fn.ret))
    IN  CASE Internal(i) -> InnerCall(s, i, args)
          [] ~Internal(i) /\ (InlineSet(i) \/ InlineCopy(i)) -> [s EXCEPT !.mem = [r.mem EXCEPT ![16] = s.mem[16]]]
          [] name = "__va_start" -> [s EXCEPT !.mem = WriteMem(@, args[1], 8, s.va)]
          [] OTHER -> [s EXCEPT !.mem = r.mem, !.trace = Append(@, Note(name, args)),
                                !.val = (i.id :> r.ret) @@ @]
IRStep(s, i) ==
    LET a == RoundUp(s.next, TypeAlign(i.of))
    IN  CASE i.op = "alloca" -> [s EXCEPT !.val = (i.id :> a) @@ @, !.next = a + Padded(i.of)]
          [] i.op = "store"  -> [s EXCEPT !.mem = WriteMem(@, IRPointer(s, i.a[1]),
                                                           SizeOf(Convert(i.a[2].t)), IRPointer(s, i.a[2]))]
          [] i.op = "call"   -> IRCall(s, i)
          [] OTHER -> [s EXCEPT !.val = (i.id :> IRCompute(s, i)) @@ @]
\* The phis of a block take their values at once.
Phis(s, blk, from) ==
    LET phis == SelectSeq(blk.ins, LAMBDA i : i.op = "phi")
        In(i) == i.a[2 * (CHOOSE n \in 1..(Len(i.a) \div 2) : i.a[2 * n].bb = from) - 1]
    IN  [s EXCEPT !.val = Fold(LAMBDA v, i : (i.id :> IRPointer(s, In(i))) @@ v, @, phis)]
\* A block, and what is run after it: a function leaves what it returns in ret.
IRLeave(fn, b, last, s) ==
    CASE last.op = "ret" -> [s EXCEPT !.ret = IF last.a = <<>> THEN 0 ELSE IRPointer(s, last.a[1])]
      [] OTHER -> IRBlock(fn, IF Len(last.a) = 1 THEN last.a[1].bb
                              ELSE IF IRValue(s, last.a[1]) # 0 THEN last.a[2].bb ELSE last.a[3].bb,
                          b, [s EXCEPT !.fuel = @ - 1])
IRBlock(fn, b, from, s) ==
    LET blk == fn.blocks[CHOOSE k \in DOMAIN fn.blocks : fn.blocks[k].b = b]
    IN  IF s.fuel = 0 THEN s
        ELSE IRLeave(fn, b, Last(blk.ins),
                     Fold(IRStep, Phis(s, blk, from), SelectSeq(Front(blk.ins), LAMBDA i : i.op # "phi")))
\* The arguments that follow the named ones are in memory, where va_start points to.
WithVarArgs(mem, fn, args, va) ==
    Fold(LAMBDA m, n : WriteMem(m, va + 8 * (n - Len(fn.args) - 1), 8, args[n]), mem,
             [n \in 1..(Len(args) - Len(fn.args)) |-> n + Len(fn.args)])
RunIR(fn, args, fuel) ==
    LET s == IRBlock(fn, fn.blocks[1].b, 0,
                     [val |-> <<>>, args |-> args, mem |-> WithVarArgs(Outside0, fn, args, 744), va |-> 744,
                      next |-> 512, trace |-> <<>>, fuel |-> fuel, ret |-> 0 - Endless])
    IN  IF s.ret < 0 THEN Fault(Endless) ELSE Observed(s.ret, s.mem, s.trace)
=============================================================================

----------------------------- MODULE MCCodeGen -----------------------------
(* Programs of up to three functions and three variables.  "f" has two blocks,
   every block an instruction of each kind and a jump in each direction; the
   blocks come in both orders, and one block id has no block.  The variables
   are larger than Chunk, misaligned, pointed to and pointing.

   Every encoding is met in a function of its own, between a jump and its
   target: all operations with operands of each kind, registers that need REX,
   SIB or a displacement, displacements and immediates at their limits.  Left
   out are the operands that the assembler gets wrong (README, findings).      *)
EXTENDS CodeGen

F == <<"f">>  G == <<"g">>  X == <<"x">>  P == <<"p">>
Puts == <<"puts">>  Errno == <<"errno">>  Memset == <<"memset">>

MCExternalAddress(name) ==
  CASE name = Puts -> -1001 [] name = Errno -> -1002 [] OTHER -> -1003

R(type, id) == [kind |-> "reg", type |-> type, id |-> id]
K(type, val) == [kind |-> "const", type |-> type, val |-> val]
M(type, base, index, scale, disp) ==
  [kind |-> "mem", type |-> type, base |-> base, index |-> index, scale |-> scale, disp |-> disp]
Ext(name) == [kind |-> "ext", name |-> name]
Label(block) == [kind |-> "bb", block |-> block]
Instr(op, args) == [op |-> op, sse |-> "none", cc |-> 0, args |-> args]
Cond(op, cc, arg) == [op |-> op, sse |-> "none", cc |-> cc, args |-> <<arg>>]
SSE(op, sse, dst, src) == [op |-> op, sse |-> sse, cc |-> 0, args |-> <<dst, src>>]
Small(byte) == SignExtend(<<byte>>, 1, 8)

Call(name) == Instr("call", <<Ext(name)>>)
Jump(block) == Instr("jmp", <<Label(block)>>)
JumpIf(block) == Cond("j", 4, Label(block))
LeaSym(name) == Instr("lea", <<R("ptr", 0), Ext(name)>>)
LoadSym(name) == Instr("mov", <<R("ptr", 8), Ext(name)>>)
CmpSym(name) == Instr("cmp", <<Ext(name), K("i64", Small(5))>>)
Float(type, bits) == SSE("add", IF type = "f32" THEN "ss" ELSE "sd", R(type, 9),
                         [kind |-> "float", type |-> type, bits |-> bits])
Plain == Instr("mov", <<R("i64", 0), R("i64", 1)>>)

Instrs == {Plain, Call(F), Call(G), Call(Puts), Call(Memset), LeaSym(X), CmpSym(X), LoadSym(Errno),
           Float("f32", "1"), Float("f64", "2")}
Exits == {<<>>, <<Jump(2)>>, <<JumpIf(2), Jump(0)>>}

Func(name, blocks) == [name |-> name, numBlocks |-> 3, blocks |-> blocks]
ExternalFunc(name) == [name |-> name, numBlocks |-> 0, blocks |-> <<>>]
Var(name, size, align, pointers) == [name |-> name, size |-> size, align |-> align, pointers |-> pointers]
To(offset, name) == [at |-> offset, name |-> name]

FBlocks(ids, code1, code2) == <<[id |-> ids[1], code |-> code1], [id |-> ids[2], code |-> code2]>>
GFunc == Func(G, <<[id |-> 1, code |-> <<Float("f32", "1"), Call(F), CmpSym(X)>>]>>)
Vars == <<Var(X, 3, 1, <<>>), Var(P, 24, 8, <<To(0, F), To(8, X), To(16, Puts)>>), Var(Errno, 0, 4, <<>>)>>

Mixed ==
  {[globals |-> Vars,
    funcs |-> <<Func(F, FBlocks(ids, <<i1>> \o e1, <<i2>> \o e2)), ExternalFunc(Puts), GFunc>>] :
     ids \in {<<0, 2>>, <<2, 0>>}, i1 \in Instrs, i2 \in Instrs, e1 \in Exits, e2 \in Exits}

Data ==
  {[globals |-> <<Var(X, n, 1, <<>>), Var(P, 16, align, <<To(0, n1), To(8, n2)>>), Var(Errno, 0, 4, <<>>)>>,
    funcs |-> <<ExternalFunc(Puts), Func(F, FBlocks(<<0, 1>>, <<i>>, <<>>)), GFunc>>] :
     n \in {1, 9}, align \in {8, 16}, n1 \in {F, G, X, P, Puts}, n2 \in {F, X, P, Puts},
     i \in {Float("f32", "1"), Float("f64", "2"), Call(Memset)}}

-----------------------------------------------------------------------------
Ints == {"i8", "i16", "i32", "i64"}
Small32(byte) == <<byte, 0, 0, 0>>
Ids == {0, 5, 6, 12, 13}
Disps == {Zeros(4)} \union {SignExtend(d, Len(d), 4) : d \in {<<126>>, <<127>>, <<128>>, <<128, 0>>, <<127, 255>>}}
MemsOf(type) ==
  {M(type, b, -1, 1, d) : b \in {-1, 0, 4, 5, 12, 13}, d \in Disps}
    \union {M(type, b, i, s, d) : b \in {-1, 4, 5, 13}, i \in {0, 12}, s \in {1, 8},
                                 d \in {Zeros(4), Small32(1)}}
SomeMems(type) == {M(type, 0, -1, 1, Zeros(4)), M(type, 13, -1, 1, Zeros(4)),
                   M(type, 12, -1, 1, Small32(200)), M(type, 5, 9, 4, Small32(4))}

ImmsOf(type) ==
  LET n == BitsOf[type] \div 8
  IN  {Small(1), Small(127), Small(128)}
        \union IF n = 1 THEN {} ELSE {<<128>> \o Zeros(7), <<255, 127>> \o Zeros(6)}
        \union IF n < 4 THEN {} ELSE {<<255, 255, 255, 127>> \o Zeros(4), <<0, 0, 0, 128>> \o SubSeq(Small(255), 1, 4)}
Long(t) == IF t = "i64" THEN {v \in ImmsOf(t) : ~SignExtends(v, 1)} ELSE {}
WideImms == {<<0, 0, 0, 128>> \o Zeros(4), <<1, 2, 3, 4, 5, 6, 7, 8>>, Zeros(7) \o <<128>>}

Regs(type) == {R(type, id) : id \in Ids}
TwoRegs(type) == {<<R(type, d), R(type, s)>> : d \in {0, 6, 13}, s \in {0, 5, 12}}

Group(op, type) ==
  {Instr(op, args) : args \in TwoRegs(type)}
    \union {Instr(op, <<r, K(type, v)>>) : r \in Regs(type), v \in ImmsOf(type)}
    \union {Instr(op, <<R(type, 6), m>>) : m \in SomeMems(type)}
    \union {Instr(op, <<m, R(type, 9)>>) : m \in SomeMems(type)}
    \union {Instr(op, <<m, K(type, v)>>) : m \in SomeMems(type), v \in ImmsOf(type)}

Arithmetic == UNION {Group(op, t) : op \in {"add", "or", "and", "sub", "xor", "cmp", "mov"}, t \in Ints}
  \union UNION {{i \in Group("test", t) : i.args[2].kind # "mem"} : t \in Ints}
  \union {Instr("mov", <<r, K("i64", v)>>) : r \in Regs("i64"), v \in WideImms}
Addresses ==
  UNION {{Instr("mov", <<R(t, 9), m>>) : m \in MemsOf(t)} : t \in {"i8", "i64"}}
    \union {Instr("cmp", <<m, K("i32", Small(7))>>) : m \in MemsOf("i32")}
    \union {Instr("lea", <<R("ptr", 6), m>>) : m \in MemsOf("ptr")}
    \union UNION {{SSE("mov", IF t = "f32" THEN "ss" ELSE "sd", m, R(t, 8)) : m \in MemsOf(t)} : t \in {"f32", "f64"}}

Narrower(t) == {u \in Ints : BitsOf[u] < BitsOf[t]}
Extensions ==
  UNION {UNION {{Instr(op, <<R(t, d), R(u, s)>>) : op \in {"movsx", "movzx"}, d \in {0, 6, 13}, s \in {5, 12}}
                  \union {Instr(op, <<R(t, 9), m>>) : op \in {"movsx", "movzx"}, m \in SomeMems(u)} :
                u \in Narrower(t)} : t \in Ints}

Multiplications ==
  UNION {{Instr("imul", args) : args \in TwoRegs(t)}
           \union {Instr("imul", <<R(t, 9), m>>) : m \in SomeMems(t)}
           \union {Instr("imul", <<r, K(t, v)>>) : r \in Regs(t), v \in ImmsOf(t) \ Long(t)}
           \union {Instr("imul3", Append(args, K(t, v))) : args \in TwoRegs(t), v \in ImmsOf(t) \ Long(t)} :
         t \in Ints \ {"i8"}}
  \union UNION {{Instr("idiv", <<op>>) : op \in Regs(t) \union SomeMems(t)} : t \in Ints}
Shifting ==
  UNION {{Instr(op, <<x, k>>) : op \in {"shl", "shr", "sar"}, x \in Regs(t) \union SomeMems(t),
                                k \in {R("i8", 1), K("i8", Small(1)), K("i8", Small(7))}} : t \in Ints}
Control ==
  {Cond("set", cc, R("i8", id)) : cc \in 0 .. 15, id \in Ids}
    \union {Cond("j", cc, Label(1)) : cc \in 0 .. 15}
    \union {Instr(op, <<x>>) : op \in {"call", "push", "pop"}, x \in Regs("i64")}
    \union {Instr(op, <<m>>) : op \in {"push", "pop"}, m \in MemsOf("i64")}
    \union {Instr("call", <<m>>) : m \in {n \in MemsOf("i64") : n.base < 8 /\ n.index < 8}}
    \union {Instr("push", <<K("i32", v)>>) : v \in ImmsOf("i32")}
    \union {Instr(op, <<>>) : op \in {"cdq", "cqo", "ret"}}

Scalar == {"add", "sub", "mul", "div", "max", "min", "sqrt"}
Packed == {"and", "andn", "or", "xor", "unpckl", "unpckh"}
XMMSources(t) == {R(t, id) : id \in {0, 5, 13}} \union SomeMems(t)
Floats ==
  {SSE(op, "ss", R("f32", d), s) : op \in Scalar \union {"rcp", "rsqrt", "mov"}, d \in {1, 9}, s \in XMMSources("f32")}
    \union {SSE(op, "sd", R("f64", d), s) : op \in Scalar \union {"mov"}, d \in {1, 9}, s \in XMMSources("f64")}
    \union {SSE(op, p, R("f128", d), s) : op \in Packed \union {"add", "sub", "mul", "div", "mova"}, p \in {"ps", "pd"},
                                         d \in {1, 9}, s \in XMMSources("f128")}
    \union {SSE("punpckldq", "pd", R("f128", d), s) : d \in {1, 9}, s \in XMMSources("f128")}
    \union {SSE(op, "ps", R("f32", 9), s) : op \in {"comi", "ucomi"}, s \in XMMSources("f32")}
    \union {SSE(op, "pd", R("f64", 9), s) : op \in {"comi", "ucomi"}, s \in XMMSources("f64")}
    \union {SSE("cvt2s", "ss", R("f64", 9), s) : s \in XMMSources("f32")}
    \union {SSE("cvt2s", "sd", R("f32", 9), s) : s \in XMMSources("f64")}
    \union {SSE("cvtsi2", p, R("f64", d), R(t, s)) : p \in {"ss", "sd"}, t \in {"i32", "i64"}, d \in {1, 9}, s \in Ids}
    \union {SSE(op, p, R(t, d), R("f64", s)) : op \in {"cvt2si", "cvtt2si"}, p \in {"ss", "sd"},
                                              t \in {"i32", "i64"}, d \in Ids, s \in {1, 9}}
    \union {SSE("movq", "pd", R("i64", d), R("f64", s)) : d \in Ids, s \in {1, 9}}

(* The instructions with the same operation and the same type, in one function. *)
Sort(i) == <<i.op, i.sse, IF i.args = <<>> \/ i.args[1].kind = "bb" THEN "none" ELSE i.args[1].type>>
Batches(is) ==
  {FoldSet(LAMBDA i, code : Append(code, i), <<>>, {i \in is : Sort(i) = sort}) : sort \in {Sort(i) : i \in is}}
Listing(code) == [globals |-> <<Var(X, 3, 1, <<>>)>>,
                  funcs |-> <<Func(F, FBlocks(<<0, 1>>, <<JumpIf(1)>> \o code, <<Jump(0)>>))>>]
Encodings ==
  UNION {{Listing(code) : code \in Batches(is)} :
         is \in {Arithmetic, Addresses, Extensions, Multiplications, Shifting, Control, Floats}}

MCPrograms == Mixed \union Data \union Encodings

(* The division that the translation chooses for unsigned operands. *)
UnsignedDivision == {Listing(<<Instr("div", <<R("i32", 1)>>)>>)}
=============================================================================

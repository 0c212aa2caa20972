-------------------------------- MODULE IRGen --------------------------------
(***************************************************************************)
(* The translation of a function from its syntax tree to the SSA form       *)
(* (jir_gen.c), before any variable is in a register: the recursive walk    *)
(* over statements and expressions, one action per kind of node, and what   *)
(* the walk does between and after the visits to a node's children, one     *)
(* action per kind of instruction it leaves.                                *)
(*                                                                         *)
(* A node of the tree is [k, ty, a, x]: its kind, its C type, its children  *)
(* and what else it holds; "none" stands for a child that is missing. The   *)
(* recursion is a list of things to do: to visit a node, for its value or   *)
(* its address, or to emit, from the values the visits left on a stack.     *)
(***************************************************************************)
EXTENDS Machine

VARIABLES
    todo,     \* what is left of the walk
    vals,     \* values computed and not yet used, the last one first
    fn        \* the function: arguments, blocks, block being filled, counters
genVars == <<todo, vals, fn>>

(***************************************************************************)
(* Types of C: [k, u] for a number, [k, of] for a pointer or an array,      *)
(* [k, id, m, size] for a structure, with members [ty, gep, bit, width],    *)
(* [k, ret, args, va] for a function. A type of the IR has "scalar" for k,  *)
(* "ptr", "array", "struct" or "func".                                      *)
(***************************************************************************)
Prim(t) == Scalar(t)
FuncOf(ret, args, va) == [k |-> "func", ret |-> ret, args |-> args, va |-> va]
Void == Scalar("void")
Bool == Scalar("bool")
I32 == Scalar("i32")
I64 == Scalar("i64")
IsPtr(ty) == ty.k = "ptr"
TypeIsFloat(ty) == ty.k = "scalar" /\ ty.t \in {"f32", "f64"}
TypeIsInteger(ty) == ty.k = "scalar" /\ ty.t \in {"i8", "u8", "i16", "u16", "i32", "u32", "i64", "u64"}
TypeIsIntegral(ty) == TypeIsInteger(ty) \/ ty = Bool
TypeIsUnsigned(ty) == ty.k = "scalar" /\ ty.t \in {"u8", "u16", "u32", "u64"}
IsFirstClass(ty) == ty.k = "ptr" \/ (ty.k = "scalar" /\ ty.t # "void")
Pow2Small == {1, 2, 4, 8}
IsSmallPow2Struct(ty) == ty.k = "struct" /\ TypeSize(ty) \in Pow2Small
IntOfSize(n) == Scalar(CASE n = 1 -> "i8" [] n = 2 -> "i16" [] n = 4 -> "i32" [] n = 8 -> "i64")

Signedness(u, s, un) == Scalar(IF u THEN un ELSE s)
Composite == {"struct", "union"}
\* The member of a union that gives its IR type: the first of the strictest alignment.
Strictest(m) == CHOOSE n \in DOMAIN m : /\ \A j \in DOMAIN m : TypeAlign(m[j]) <= TypeAlign(m[n])
                                        /\ \A j \in 1 .. n - 1 : TypeAlign(m[j]) < TypeAlign(m[n])
Largest(m) == CHOOSE s \in {TypeSize(m[n]) : n \in DOMAIN m} : \A n \in DOMAIN m : TypeSize(m[n]) <= s
UnionMembers(m) ==
    LET first == m[Strictest(m)]
        more == Largest(m) - TypeSize(first)
    IN  IF more = 0 THEN <<first>> ELSE <<first, ArrayOf(more, Scalar("i8"))>>
\* Bit-fields that share a word have one member of the IR's structure, that of the first.
StoredMembers(m) ==
    LET stored == SelectSeq(m, LAMBDA x : x.bit = 0) IN [n \in DOMAIN stored |-> stored[n].ty]
HiddenReturn(c) == c.k \in Composite /\ c.size \notin Pow2Small
SubTypes(c) == CASE c.k \in {"ptr", "array"} -> <<c.of>> [] c.k \in Composite -> StoredMembers(c.m)
                 [] c.k = "func" -> <<c.ret>> \o c.args [] OTHER -> <<>>
AsArgument(ty) == IF ty.k = "struct" /\ ~IsSmallPow2Struct(ty) THEN Pointer(ty) ELSE ty
\* ir: the types of the parts; of a function, the result's first.
IRTypeFrom(c, ir) ==
    CASE c.k = "void" -> Void
      [] c.k = "bool" -> Bool
      [] c.k = "char" -> Signedness(c.u, "i8", "u8")
      [] c.k = "short" -> Signedness(c.u, "i16", "u16")
      [] c.k = "int" -> Signedness(c.u, "i32", "u32")
      [] c.k = "long" -> Signedness(c.u, "i64", "u64")
      [] c.k = "float" -> Scalar("f32")
      [] c.k = "double" -> Scalar("f64")
      [] c.k = "enum" -> I32
      [] c.k = "ptr" -> Pointer(ir[1])
      [] c.k = "array" -> ArrayOf(c.n, ir[1])
      [] c.k = "struct" -> [k |-> "struct", m |-> ir, id |-> c.id]
      [] c.k = "union" -> [k |-> "struct", m |-> UnionMembers(ir), id |-> c.id]
      [] c.k = "func" ->
            LET args == [n \in DOMAIN c.args |-> AsArgument(ir[n + 1])]
            IN  IF HiddenReturn(c.ret) THEN FuncOf(Void, <<Pointer(ir[1])>> \o args, c.va)
                ELSE FuncOf(IF c.ret.k \in Composite THEN IntOfSize(c.ret.size) ELSE ir[1], args, c.va)
RECURSIVE TypeToIRType(_)
AllToIRTypes(cs) == [n \in DOMAIN cs |-> TypeToIRType(cs[n])]
TypeToIRType(c) == IRTypeFrom(c, AllToIRTypes(SubTypes(c)))
FuncArgGetType(c) == AsArgument(TypeToIRType(c))

(***************************************************************************)
(* Values, instructions, blocks                                            *)
(***************************************************************************)
Val(id, ty) == [k |-> "val", id |-> id, ty |-> ty]
Arg(n, ty) == [k |-> "arg", n |-> n, ty |-> ty]
Const(ty, c) == [k |-> "const", c |-> c, ty |-> ty]
Symbol(name, ty) == [k |-> "sym", name |-> name, ty |-> ty]
Label(b) == [k |-> "bb", bb |-> b, ty |-> Scalar("label")]
NoValue == [k |-> "null", ty |-> Void]
Index(n) == Const(I64, n)
GetZero(ty) == Const(ty, 0)
GetOnes(ty) == Const(ty, IF ty = Bool THEN 1 ELSE -1)
Instr(op, ty, a) == [op |-> op, id |-> 0, ty |-> ty, a |-> a, cc |-> "eq"]
SetCC(cc, x, y) == [Instr("set", Bool, <<x, y>>) EXCEPT !.cc = cc]
Terminates(i) == i.op \in {"branch", "ret"}
Named == 1000                          \* blocks of labels; those without a name count from 1
LabelBlock(lbl) == Named + lbl
NewBlock(b) == [b |-> b, ins |-> <<>>]
NoBlock == NewBlock(0)

\* An instruction at the end of the current block, and its value.
Append1(f, i) ==
    [f EXCEPT !.cur.ins = Append(@, [i EXCEPT !.id = f.nv + 1]), !.nv = @ + 1]
Value1(f, i) == Val(f.nv + 1, i.ty)
Put(f, i) == [f |-> Append1(f, i), v |-> Value1(f, i)]
Branch(b) == Instr("branch", Void, <<Label(b)>>)
BranchIf(c, x, y) == Instr("branch", Void, <<c, Label(x), Label(y)>>)
\* A variable goes to the front of the entry block.
Prepended(f, ty) ==
    LET i == [Instr("alloca", Pointer(ty), <<>>) EXCEPT !.id = f.nv + 1]
    IN  [f |-> [f EXCEPT !.blocks[1].ins = <<i>> \o @, !.nv = @ + 1], v |-> Val(f.nv + 1, Pointer(ty))]

FellThrough_NoBranch(blk, b, id) == blk
\* Appending a block makes the last one jump to it unless it ends otherwise.
FellThrough(blk, b, id) ==
    IF blk.ins # <<>> /\ Terminates(Last(blk.ins)) THEN blk
    ELSE [blk EXCEPT !.ins = Append(@, [Branch(b) EXCEPT !.id = id])]
FuncAppendBasicBlock(f, blk) ==
    LET n == Len(f.blocks)
    IN  IF n = 0 THEN [f EXCEPT !.blocks = <<blk>>]
        ELSE [f EXCEPT !.blocks = Append([@ EXCEPT ![n] = FellThrough(@, blk.b, f.nv + 1)], blk),
                       !.nv = @ + 1]
SwitchBasicBlock(f, b) == [FuncAppendBasicBlock(f, f.cur) EXCEPT !.cur = NewBlock(b)]
SwitchToNew(f) == [SwitchBasicBlock(f, f.nb + 1) EXCEPT !.nb = @ + 1]

(***************************************************************************)
(* Conversions                                                             *)
(***************************************************************************)
ConvertToBool(f, v) == IF v.ty = Bool THEN [f |-> f, v |-> v] ELSE Put(f, SetCC("ne", v, GetZero(v.ty)))

IntegerPromotion(ty) ==
    IF ty.k = "scalar" /\ ty.t \in {"bool", "u8", "u16", "i8", "i16"} THEN I32 ELSE ty
Rank(ty) == TypeSize(ty)
Same == [k |-> "none"]
\* The common type of two integers of different types; Same when one is no integer.
CommonInteger(x, y) ==
    LET ux == TypeIsUnsigned(x)
        uy == TypeIsUnsigned(y)
    IN  CASE ux = uy -> IF Rank(x) < Rank(y) THEN y ELSE x
          [] ux /\ ~uy -> IF Rank(x) >= Rank(y) THEN x ELSE y
          [] uy /\ ~ux -> IF Rank(y) >= Rank(x) THEN y ELSE x
UsualArithmeticConversions(x, y) ==
    LET px == IntegerPromotion(x)
        py == IntegerPromotion(y)
    IN  CASE x = Scalar("f64") \/ y = Scalar("f64") -> Scalar("f64")
          [] x # Scalar("f64") /\ y # Scalar("f64") /\ Scalar("f32") \in {x, y} -> Scalar("f32")
          [] OTHER -> IF px = py THEN px
                      ELSE IF ~TypeIsInteger(px) \/ ~TypeIsInteger(py) THEN Same ELSE CommonInteger(px, py)

\* The instruction that converts from one type to another.
CastOp(from, to) ==
    LET wider == TypeSize(to) > TypeSize(from)
        narrower == TypeSize(to) < TypeSize(from)
    IN  CASE TypeIsIntegral(from) /\ TypeIsIntegral(to) ->
                IF wider THEN (IF TypeIsUnsigned(from) THEN "zext" ELSE "sext")
                ELSE IF narrower THEN "trunc" ELSE "bitcast"
          [] TypeIsFloat(from) /\ TypeIsFloat(to) -> IF wider THEN "fpext" ELSE IF narrower THEN "fptrunc" ELSE "none"
          [] TypeIsIntegral(from) /\ TypeIsFloat(to) -> IF TypeIsUnsigned(from) THEN "ui2fp" ELSE "si2fp"
          [] TypeIsFloat(from) /\ TypeIsIntegral(to) -> IF TypeIsUnsigned(to) THEN "fp2ui" ELSE "fp2si"
          [] IsPtr(from) /\ IsPtr(to) -> "bitcast"
          [] TypeIsIntegral(from) /\ IsPtr(to) -> "inttoptr"
          [] IsPtr(from) /\ TypeIsIntegral(to) -> "ptrtoint"
ConvertTo(f, v, ty) ==
    IF ty = Bool THEN ConvertToBool(f, v)
    ELSE IF CastOp(v.ty, ty) = "none" THEN [f |-> f, v |-> v]
    ELSE Put(f, Instr(CastOp(v.ty, ty), ty, <<v>>))
ConvertIf(f, v, ty) == IF ty = Same \/ v.ty = ty THEN [f |-> f, v |-> v] ELSE ConvertTo(f, v, ty)

\* Both operands of an operation, converted: [f, v, w].
WithSecond(x, w, tw) == LET y == ConvertIf(x.f, w, tw) IN [f |-> y.f, v |-> x.v, w |-> y.v]
Converted(f, v, w, tv, tw) == WithSecond(ConvertIf(f, v, tv), w, tw)
IsShift(k) == k \in {"shl", "shr"}
ToCommon(f, v, w, c) == Converted(f, v, w, c, c)
Operands2(f, k, v, w) ==
    IF IsShift(k) THEN Converted(f, v, w, IntegerPromotion(v.ty), IntegerPromotion(w.ty))
    ELSE ToCommon(f, v, w, UsualArithmeticConversions(v.ty, w.ty))
Relations == {"eq", "ne", "lt", "le"}
BinaryInstr(k, v, w) ==
    IF k \in Relations THEN SetCC(k, v, w) ELSE Instr(IF k = "mod" THEN "rem" ELSE k, v.ty, <<v, w>>)
BinaryOn(o, k) == Put(o.f, BinaryInstr(k, o.v, o.w))
Binary(f, k, v, w) == BinaryOn(Operands2(f, k, v, w), k)

(***************************************************************************)
(* Memory                                                                  *)
(***************************************************************************)
RECURSIVE IndexedType(_, _)
IndexedType(ty, indices) ==
    IF indices = <<>> THEN ty
    ELSE IndexedType(CASE ty.k \in {"ptr", "array"} -> ty.of
                       [] ty.k = "struct" -> ty.m[indices[1].c + 1], Tail(indices))
GetElementPtr(f, p, indices) ==
    Put(f, Instr("gep", Pointer(IndexedType(p.ty, indices)), <<p>> \o indices))
FirstElement(f, p) == GetElementPtr(f, p, <<Index(0), Index(0)>>)
IsLoaded(c) == c.k \notin {"array", "struct", "union", "func"}
LoadFrom(f, p) == Put(f, Instr("load", p.ty.of, <<p>>))
GenLoad(f, p, c) ==
    IF ~IsLoaded(c) THEN [f |-> f, v |-> p]
    ELSE IF p.ty.of.k = "array" THEN LET e == FirstElement(f, p) IN LoadFrom(e.f, e.v)
    ELSE LoadFrom(f, p)
Memory(name, dst, y) ==
    Instr("call", Void, <<Symbol(name, Pointer(FuncOf(Void, <<dst.ty, y.ty, I64>>, FALSE))), dst, y,
                          Index(TypeSize(dst.ty.of))>>)
StoreTo(p, v) == Instr("store", Void, <<p, v>>)
GenStore(f, p, v) ==
    IF p.ty.of = v.ty THEN Append1(f, StoreTo(p, v))
    ELSE IF p.ty = v.ty THEN Append1(f, Memory("memcpy", p, v))
    ELSE LET b == Put(f, Instr("bitcast", p.ty.of, <<v>>)) IN Append1(b.f, StoreTo(p, b.v))


(***************************************************************************)
(* The walk: items still to be done. A visit pushes one value.              *)
(***************************************************************************)
E(n) == [do |-> "value", n |-> n]
A(n) == [do |-> "address", n |-> n]
S(n) == [do |-> "statement", n |-> n]
Jump(b) == [do |-> "jump", b |-> b]
Switch(b) == [do |-> "switch", b |-> b]
SwitchNew == [do |-> "switchnew"]
Test(x, y) == [do |-> "test", b |-> <<x, y>>]           \* after conversion to bool
TestZero(x, y) == [do |-> "testzero", b |-> <<x, y>>]   \* always with a comparison
Drop == [do |-> "drop"]
Mark == [do |-> "mark"]                                 \* the block a value of a phi comes from
As(ty) == [do |-> "as", ty |-> ty]
Temp(ty) == [do |-> "temp", ty |-> ty]
On(k, x) == [do |-> k, x |-> x]                         \* the rest of a node, after its children

Missing(n) == n.k = "none"
Fits(k) == todo # <<>> /\ todo[1].do = k
IsNode(visit, k) == Fits(visit) /\ todo[1].n.k = k
Node == todo[1].n
\* The head of the list becomes the given items; n blocks without a name are made.
Plan(items, n) ==
    /\ todo' = items \o Tail(todo)
    /\ fn' = [fn EXCEPT !.nb = @ + n]
    /\ UNCHANGED vals
\* An item is done: the function and the values it leaves.
Done(f, vs) == todo' = Tail(todo) /\ fn' = f /\ vals' = vs
\* It leaves [f, v] and takes the n last values.
Push(p, n) == Done(p.f, <<p.v>> \o SubSeq(vals, n + 1, Len(vals)))

(***************************************************************************)
(* Statements: jirgenGenStatement                                          *)
(***************************************************************************)
Return == /\ IsNode("statement", "return")
          /\ Plan((IF Missing(Node.a[1]) THEN <<On("retvoid", 0)>>
                   ELSE <<E(Node.a[1]), On("ret", Node.a[1].ty)>>) \o <<SwitchNew>>, 0)
If == /\ IsNode("statement", "if")
      /\ LET lbl(n) == LabelBlock(Node.x[n])
             else == ~Missing(Node.a[3])
         IN  Plan(<<E(Node.a[1]), Test(lbl(1), lbl(IF else THEN 2 ELSE 3)),
                    Switch(lbl(1)), S(Node.a[2]), Jump(lbl(3))>>
                  \o (IF else THEN <<Switch(lbl(2)), S(Node.a[3]), Jump(lbl(3))>> ELSE <<>>)
                  \o <<Switch(lbl(3))>>, 0)
For == /\ IsNode("statement", "for")        \* x: body, continue, break
       /\ LET lbl(n) == LabelBlock(Node.x[n])
              cond == fn.nb + 1
          IN  Plan((IF Missing(Node.a[1]) THEN <<>> ELSE <<S(Node.a[1])>>)
                   \o <<Jump(cond), Switch(cond)>>
                   \o (IF Missing(Node.a[2]) THEN <<Jump(lbl(1))>> ELSE <<E(Node.a[2]), Test(lbl(1), lbl(3))>>)
                   \o <<Switch(lbl(1)), S(Node.a[4]), Jump(lbl(2)), Switch(lbl(2))>>
                   \o (IF Missing(Node.a[3]) THEN <<>> ELSE <<E(Node.a[3]), Drop>>)
                   \o <<Jump(cond), Switch(lbl(3))>>, 1)
DoWhile == /\ IsNode("statement", "do")
           /\ LET lbl(n) == LabelBlock(Node.x[n])
              IN  Plan(<<Switch(lbl(1)), S(Node.a[1]), Switch(lbl(2)), E(Node.a[2]), Test(lbl(1), lbl(3)),
                         Switch(lbl(3))>>, 0)
\* x: the label after the switch, the cases [c, lbl] in the order of the list, the default's label or 0.
SwitchOn == /\ IsNode("statement", "switch")
            /\ LET end == LabelBlock(Node.x.break)
               IN  Plan(<<E(Node.a[1])>> \o [n \in DOMAIN Node.x.cases |-> On("casetest", Node.x.cases[n])]
                        \o <<Drop>>
                        \o (IF Node.x.default = 0 THEN <<>> ELSE <<Jump(LabelBlock(Node.x.default)), SwitchNew>>)
                        \o <<Jump(end), SwitchNew, S(Node.a[2]), Switch(end)>>, 0)
Labelled == /\ Fits("statement") /\ Node.k \in {"case", "label"}
            /\ Plan(<<Switch(LabelBlock(Node.x)), S(Node.a[1])>>, 0)
Goto == IsNode("statement", "goto") /\ Plan(<<Jump(LabelBlock(Node.x)), SwitchNew>>, 0)
Block == IsNode("statement", "block") /\ Plan([n \in DOMAIN Node.a |-> S(Node.a[n])], 0)
ExprStmt == IsNode("statement", "expr") /\ Plan(<<E(Node.a[1]), Drop>>, 0)

(***************************************************************************)
(* Expressions: jirgenGenExpression                                        *)
(***************************************************************************)
Arithmetic == {"add", "sub", "mul", "div", "mod", "and", "or", "xor", "shl", "shr"} \cup Relations
BinaryExpr == /\ Fits("value") /\ Node.k \in Arithmetic
              /\ Plan(<<E(Node.a[1]), E(Node.a[2]), On("binary", Node.k)>>, 0)
\* A member that is a bit-field, or a place for a whole value.
Whole == [gep |-> 0, bit |-> 0, width |-> 0]
FieldOf(n) == IF n.k = "member" THEN n.x ELSE Whole
Assign == /\ IsNode("value", "assign")
          /\ Plan(<<E(Node.a[2]), On("rhs", Node.a[2].ty), A(Node.a[1]), On("assign", FieldOf(Node.a[1]))>>, 0)
CondType(c) == LET ty == TypeToIRType(c) IN IF ty.k \in {"struct", "array"} THEN Pointer(ty) ELSE ty
Conditional ==
    /\ IsNode("value", "cond")
    /\ LET b(n) == fn.nb + n
           ty == CondType(Node.ty)
       IN  Plan(<<E(Node.a[1]), TestZero(b(1), b(2)), Switch(b(1)),
                  E(Node.a[2]), As(ty), Jump(b(3)), Mark, Switch(b(2)),
                  E(Node.a[3]), As(ty), Jump(b(3)), Mark, Switch(b(3)), On("phi", ty)>>, 3)
Comma == IsNode("value", "comma") /\ Plan(<<E(Node.a[1]), Drop, E(Node.a[2])>>, 0)
MemberValue == /\ IsNode("value", "member")
               /\ Plan(<<A(Node.a[1]), On("member", Node), On("field", Node.x)>>, 0)
Addr == IsNode("value", "addr") /\ Plan(<<A(Node.a[1])>>, 0)
Dereference == IsNode("value", "deref") /\ Plan(<<E(Node.a[1]), On("load", Node.ty)>>, 0)
Unary == /\ Fits("value") /\ Node.k \in {"not", "neg", "bnot"}
         /\ Plan(<<E(Node.a[1]), On(Node.k, 0)>>, 0)
Logical == /\ Fits("value") /\ Node.k \in {"land", "lor"}
           /\ LET b(n) == fn.nb + n       \* test of the right side, true, false, end
              IN  Plan(<<E(Node.a[1]), IF Node.k = "land" THEN TestZero(b(1), b(3)) ELSE TestZero(b(2), b(1)),
                         Switch(b(1)), E(Node.a[2]), TestZero(b(2), b(3)),
                         Switch(b(2)), Temp(Bool), On("flag", 1), Jump(b(4)),
                         Switch(b(3)), On("flag", 0), Jump(b(4)),
                         Switch(b(4)), On("load", [k |-> "bool", u |-> FALSE])>>, 4)
Cast == IsNode("value", "cast") /\ Plan(<<E(Node.a[1]), On("cast", Node.ty)>>, 0)
MemZero == IsNode("value", "memzero") /\ Plan(<<A(Node), On("zero", 0)>>, 0)
Callee(c) == IF c.k = "ptr" THEN c.of ELSE c
CallExpr ==
    /\ IsNode("value", "call")                  \* a: the function, the arguments
    /\ LET ft == Callee(Node.a[1].ty)
           hidden == HiddenReturn(ft.ret)
           args == Tail(Node.a)
           Passed(n) == <<E(args[n]), On("pass", [ty |-> args[n].ty, extra |-> ft.va /\ n > Len(ft.args)])>>
       IN  Plan((IF hidden THEN <<Temp(TypeToIRType(ft.ret))>> ELSE <<>>)
                \o FlattenSeq([n \in DOMAIN args |-> Passed(n)])
                \o <<E(Node.a[1]), On("call", [n |-> Len(args) + (IF hidden THEN 1 ELSE 0), hidden |-> hidden])>>, 0)
Compound == /\ IsNode("value", "compound")
            /\ Plan(<<E(Node.a[2]), A(Node.a[1]), On("compound", Node.x)>>, 0)
Variable == IsNode("value", "var") /\ Plan(<<A(Node), On("load", Node.ty)>>, 0)
Number == /\ IsNode("value", "num")
          /\ LET c == IF Node.ty.k = "bool" /\ Node.x # 0 THEN 1 ELSE Node.x
             IN  Push([f |-> fn, v |-> Const(TypeToIRType(Node.ty), c)], 0)
Gep == /\ IsNode("value", "gep")
       /\ Plan(<<E(Node.a[1]), E(Node.a[2]), On("element", Node.a[1].ty.k = "array")>>, 0)

(***************************************************************************)
(* Addresses: jirgenGenAddress                                             *)
(***************************************************************************)
MemberAddress == IsNode("address", "member") /\ Plan(<<A(Node.a[1]), On("member", Node)>>, 0)
CommaAddress == IsNode("address", "comma") /\ Plan(<<E(Node.a[1]), Drop, A(Node.a[2])>>, 0)
DerefAddress == IsNode("address", "deref") /\ Plan(<<E(Node.a[1])>>, 0)
\* A structure passed by reference: its variable holds its address.
ByReference(p, ty) == p.ty.of.k = "ptr" /\ p.ty.of.of = ty
VarAddress ==
    /\ Fits("address") /\ Node.k \in {"var", "memzero"}
    /\ LET ty == TypeToIRType(Node.ty)
           p == IF Node.x.local THEN fn.vars[Node.x.v] ELSE Symbol(Node.x.v, Pointer(ty))
       IN  Push(IF Node.x.local /\ ByReference(p, ty) THEN LoadFrom(fn, p) ELSE [f |-> fn, v |-> p], 0)
CallAddress == /\ IsNode("address", "call")
               /\ Plan(<<E(Node), On("unpack", Node.ty)>>, 0)

(***************************************************************************)
(* What a visit leaves between and after its children                      *)
(***************************************************************************)
It == todo[1].x
V == vals[1]
W == vals[2]
DoJump == Fits("jump") /\ Done(Append1(fn, Branch(todo[1].b)), vals)
DoSwitch == Fits("switch") /\ Done(SwitchBasicBlock(fn, todo[1].b), vals)
DoSwitchNew == Fits("switchnew") /\ Done(SwitchToNew(fn), vals)
BranchOn(f, c, b) == Append1(f, BranchIf(c, b[1], b[2]))
DoTest == /\ Fits("test")
          /\ LET c == ConvertToBool(fn, V) IN Done(BranchOn(c.f, c.v, todo[1].b), Tail(vals))
DoTestZero == /\ Fits("testzero")
              /\ LET c == Put(fn, SetCC("ne", V, GetZero(V.ty))) IN Done(BranchOn(c.f, c.v, todo[1].b), Tail(vals))
DoDrop == Fits("drop") /\ Done(fn, Tail(vals))
DoMark == Fits("mark") /\ Done(fn, <<Label(fn.cur.b)>> \o vals)
DoAs == Fits("as") /\ Push(ConvertIf(fn, V, todo[1].ty), 1)
DoTemp == Fits("temp") /\ Push(Prepended(fn, todo[1].ty), 0)

RetVoid == Fits("retvoid") /\ Done(Append1(fn, Instr("ret", Void, <<>>)), vals)
RetOf(f, v) == Append1(f, Instr("ret", v.ty, <<v>>))
\* A structure is returned in a register or through the hidden first argument.
Ret ==
    /\ Fits("ret")
    /\ LET ty == TypeToIRType(It)
           hidden == Append1(fn, Memory("memcpy", Arg(1, fn.args[1]), V))
           b == Put(fn, Instr("bitcast", Pointer(fn.ret), <<V>>))
           r == CASE It.k \notin Composite -> ConvertIf(fn, V, fn.ret)
                  [] It.k \in Composite -> LoadFrom(b.f, b.v)
       IN  Done(IF It.k \in Composite /\ ~IsSmallPow2Struct(ty)
                THEN Append1(hidden, Instr("ret", Void, <<>>)) ELSE RetOf(r.f, r.v), Tail(vals))
CaseTest ==
    /\ Fits("casetest")
    /\ LET c == Put(fn, SetCC("eq", V, Const(V.ty, It.c)))
           b == fn.nb + 1
       IN  Done(SwitchToNew(BranchOn(c.f, c.v, <<LabelBlock(It.lbl), b>>)), vals)

DoBinary == Fits("binary") /\ Push(Binary(fn, It, W, V), 2)
\* An integer with the type of the syntax tree: a comparison is a bool here, an int there.
Rhs == /\ Fits("rhs")
       /\ LET ty == TypeToIRType(It)
          IN  Push(IF TypeIsIntegral(ty) /\ TypeIsIntegral(V.ty) /\ ty # V.ty THEN ConvertTo(fn, V, ty)
                   ELSE [f |-> fn, v |-> V], 1)
Mask(width) == 2 ^ width - 1
\* The word of a bit-field with the field replaced: [f, v].
Masked(f, v, bits) == Put(f, Instr("and", v.ty, <<v, Const(v.ty, bits)>>))
Spliced_Unmasked(f, p, v, m) ==
    LET up  == Put(f, Instr("shl", v.ty, <<v, Const(Scalar("i8"), m.bit)>>))
        old == LoadFrom(up.f, p)
        kept == Masked(old.f, old.v, -1 - Mask(m.width) * 2 ^ m.bit)
    IN  Put(kept.f, Instr("or", kept.v.ty, <<kept.v, up.v>>))
Spliced(f, p, v, m) ==
    LET low == Masked(f, v, Mask(m.width))
        up  == Put(low.f, Instr("shl", v.ty, <<low.v, Const(Scalar("i8"), m.bit)>>))
        old == LoadFrom(up.f, p)
        kept == Masked(old.f, old.v, -1 - Mask(m.width) * 2 ^ m.bit)
    IN  Put(kept.f, Instr("or", kept.v.ty, <<kept.v, up.v>>))
DoAssign ==
    /\ Fits("assign")
    /\ LET r == IF It.width = 0 THEN [f |-> fn, v |-> W] ELSE Spliced(fn, V, W, It)
       IN  Push([r EXCEPT !.f = GenStore(r.f, V, r.v)], 2)
DoPhi == Fits("phi") /\ Push(Put(fn, Instr("phi", It, <<vals[4], vals[3], vals[2], vals[1]>>)), 4)
\* The address of a member.
DoMember ==
    /\ Fits("member")
    /\ Push(IF It.a[1].ty.k = "struct" THEN GetElementPtr(fn, V, <<Index(0), Index(It.x.gep)>>)
            ELSE Put(fn, Instr("bitcast", Pointer(TypeToIRType(It.x.ty)), <<V>>)), 1)
Shifted(f, v, bit) == IF bit = 0 THEN [f |-> f, v |-> v]
                      ELSE Put(f, Instr("shr", v.ty, <<v, Const(Scalar("i8"), bit)>>))
Field ==
    /\ Fits("field")
    /\ LET w == GenLoad(fn, V, It.ty)
           s == Shifted(w.f, w.v, It.bit)
       IN  Push(IF It.width = 0 THEN w
                ELSE IF It.width = Bits(Convert(w.v.ty.t)) THEN s
                ELSE Masked(s.f, s.v, Mask(It.width)), 1)
DoLoad == Fits("load") /\ Push(GenLoad(fn, V, It), 1)
Inverted(f, v) == Put(f, Instr("xor", v.ty, <<v, GetOnes(v.ty)>>))
DoUnary ==
    /\ todo # <<>> /\ todo[1].do \in {"not", "neg", "bnot"}
    /\ LET b == ConvertToBool(fn, V)
           n == Inverted(b.f, b.v)
       IN  Push(CASE todo[1].do = "not" -> Put(n.f, Instr("zext", I32, <<n.v>>))
                  [] todo[1].do = "neg" -> Put(fn, Instr("sub", V.ty, <<GetZero(V.ty), V>>))
                  [] todo[1].do = "bnot" -> Inverted(fn, V), 1)
Flag == Fits("flag") /\ Done(Append1(fn, StoreTo(V, Const(Bool, It))), vals)
DoCast == /\ Fits("cast")
          /\ Push(IF It.k = "void" THEN [f |-> fn, v |-> NoValue] ELSE ConvertTo(fn, V, TypeToIRType(It)), 1)
Zero == /\ Fits("zero")
        /\ Push([f |-> Append1(fn, Memory("memset", V, Const(Scalar("i8"), 0))), v |-> NoValue], 1)
\* An argument: a structure in an integer or as a copy, an extra one promoted.
Reinterpreted(f, p, ty) ==
    LET e == FirstElement(f, p) IN Put(e.f, Instr("bitcast", Pointer(ty), <<e.v>>))
Copied(f, v) ==
    LET t == Prepended(f, v.ty.of) IN [f |-> Append1(t.f, Memory("memcpy", t.v, v)), v |-> t.v]
Narrow == {Bool} \cup {Scalar(t) : t \in {"i8", "u8", "i16", "u16"}}
ArgOf(f, v, ty) ==
    IF ty.k # "struct" THEN [f |-> f, v |-> v]
    ELSE IF IsSmallPow2Struct(ty)
    THEN LET p == Reinterpreted(f, v, IntOfSize(TypeSize(ty))) IN LoadFrom(p.f, p.v)
    ELSE Copied(f, v)
Pass ==
    /\ Fits("pass")
    /\ LET p == ArgOf(fn, V, TypeToIRType(It.ty))
       IN  Push(IF It.extra /\ p.v.ty \in Narrow
                THEN ConvertTo(p.f, p.v, Scalar(IF TypeIsUnsigned(p.v.ty) THEN "u32" ELSE "i32")) ELSE p, 1)
\* The function is the last value, before it its arguments.
DoCall ==
    /\ Fits("call")
    /\ LET args == Reverse(SubSeq(vals, 2, It.n + 1))
           c == Put(fn, Instr("call", V.ty.of.ret, <<V>> \o args))
       IN  Push(IF It.hidden THEN [c EXCEPT !.v = args[1]] ELSE c, It.n + 1)
Assigned(c, p, v) == [f |-> Append1(c.f, StoreTo(p, c.v)), v |-> v]
StoredResult(r, p) == Assigned(ConvertIf(r.f, r.v, p.ty.of), p, r.v)
LoadedWith(l, k, w) == Binary(l.f, k, l.v, w)
DoCompound == Fits("compound") /\ Push(StoredResult(LoadedWith(LoadFrom(fn, V), It, W), V), 2)
IndexTo64(f, v) == IF v.ty = I64 THEN [f |-> f, v |-> v] ELSE ConvertTo(f, v, I64)
Element ==
    /\ Fits("element")
    /\ LET i == IndexTo64(fn, V)
       IN  Push(GetElementPtr(i.f, W, IF It THEN <<Index(0), i.v>> ELSE <<i.v>>), 2)
\* A structure returned in a register gets an address.
Unpack ==
    /\ Fits("unpack")
    /\ LET t == Prepended(fn, TypeToIRType(It))
           p == Reinterpreted(t.f, t.v, V.ty)
       IN  Push(IF HiddenReturn(It) THEN [f |-> fn, v |-> V]
                ELSE GetElementPtr(GenStore(p.f, p.v, V), t.v, <<Index(0)>>), 1)

(***************************************************************************)
(* A function: jx_irgen_moduleGen. g: [ty, params, locals, body]            *)
(***************************************************************************)
Allocas(tys) ==
    [n \in DOMAIN tys |-> [Instr("alloca", Pointer(tys[n]), <<>>) EXCEPT !.id = n]]
FuncStart(g) ==
    LET ty   == TypeToIRType(g.ty)
        pty  == [n \in DOMAIN g.params |-> FuncArgGetType(g.params[n].ty)]
        tys  == pty \o [n \in DOMAIN g.locals |-> TypeToIRType(g.locals[n].ty)]
        objs == g.params \o g.locals
        addr(n) == Val(n, Pointer(tys[n]))
        copy(n) == [StoreTo(addr(n), Arg(n, ty.args[n])) EXCEPT !.id = Len(tys) + n]
        nv   == Len(tys) + Len(pty)
    IN  [args |-> ty.args, ret |-> ty.ret, vararg |-> ty.va,
         blocks |-> <<[b |-> 1, ins |-> Append(Allocas(tys) \o [n \in DOMAIN pty |-> copy(n)],
                                               [Branch(2) EXCEPT !.id = nv + 1])]>>,
         cur |-> NewBlock(2), nb |-> 2, nv |-> nv + 1,
         vars |-> [v \in {objs[n].v : n \in DOMAIN objs} |->
                     addr(CHOOSE n \in DOMAIN objs : objs[n].v = v)]]
StartGen(g) == todo' = <<S(g.body), On("end", 0)>> /\ vals' = <<>> /\ fn' = FuncStart(g)
\* A last block that a label names, or that has instructions, returns.
Ended(ins) == ins # <<>> /\ Terminates(Last(ins))
FuncFinish ==
    /\ Fits("end")
    /\ LET f == IF Ended(fn.cur.ins) THEN fn
                ELSE Append1(fn, IF fn.ret = Void THEN Instr("ret", Void, <<>>)
                                 ELSE Instr("ret", fn.ret, <<GetZero(fn.ret)>>))
       IN  Done([IF fn.cur.ins # <<>> \/ fn.cur.b > Named THEN FuncAppendBasicBlock(f, f.cur) ELSE fn
                    EXCEPT !.cur = NoBlock], vals)

Statements == Return \/ If \/ For \/ DoWhile \/ SwitchOn \/ Labelled \/ Goto \/ Block \/ ExprStmt
Expressions == \/ BinaryExpr \/ Assign \/ Conditional \/ Comma \/ MemberValue \/ Addr \/ Dereference \/ Unary
               \/ Logical \/ Cast \/ MemZero \/ CallExpr \/ Compound \/ Variable \/ Number \/ Gep
Addresses == MemberAddress \/ CommaAddress \/ DerefAddress \/ VarAddress \/ CallAddress
Emissions == \/ DoJump \/ DoSwitch \/ DoSwitchNew \/ DoTest \/ DoTestZero \/ DoDrop \/ DoMark \/ DoAs \/ DoTemp
             \/ RetVoid \/ Ret \/ CaseTest \/ DoBinary \/ Rhs \/ DoAssign \/ DoPhi \/ DoMember \/ Field \/ DoLoad
             \/ DoUnary \/ Flag \/ DoCast \/ Zero \/ Pass \/ DoCall \/ DoCompound \/ Element \/ Unpack \/ FuncFinish
GenNext == Statements \/ Expressions \/ Addresses \/ Emissions
=============================================================================

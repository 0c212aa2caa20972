------------------------------- MODULE CTypes -------------------------------
(***************************************************************************)
(* The types of C as the compiler sees them and the syntax tree with types  *)
(* (jcc.c): which types it takes for the same, the conversions it writes    *)
(* into the tree, the nodes that stand for +, -, ++ and the like.           *)
(*                                                                         *)
(* A type is [k, u] for a number (u: unsigned), [k, of] for a pointer, with *)
(* n for an array, [k, ret, args, va] for a function, [k, id, m, size, al]  *)
(* for a structure. A node is [k, ty, a, x]. The code types a tree when it  *)
(* first needs a type and then leaves it; here a node is made with it.      *)
(***************************************************************************)
EXTENDS Integers, Sequences, SequencesExt, Bitwise

CType(k) == [k |-> k, u |-> FALSE]
CUnsigned(k) == [k |-> k, u |-> TRUE]
CVoid == CType("void")
CInt == CType("int")
CLong == CType("long")
CDouble == CType("double")
PointerTo(ty) == [k |-> "ptr", of |-> ty]
CArray(n, ty) == [k |-> "array", n |-> n, of |-> ty]
CFunc(ret, args, va) == [k |-> "func", ret |-> ret, args |-> args, va |-> va]
HasBase(ty) == ty.k \in {"ptr", "array"}
IsRecord(ty) == ty.k \in {"struct", "union"}
TypeIsNumeric(ty) == ty.k \in {"bool", "char", "short", "int", "long", "enum", "float", "double"}
IsUnsignedC(ty) == ty.k = "ptr" \/ (TypeIsNumeric(ty) /\ ty.u)

RECURSIVE CSize(_), CAlign(_), TypeIsSame(_, _)
CSize(ty) ==
    CASE ty.k \in {"void", "bool", "char", "func"} -> 1 [] ty.k = "short" -> 2
      [] ty.k \in {"int", "float", "enum"} -> 4 [] ty.k \in {"long", "double", "ptr"} -> 8
      [] ty.k = "array" -> ty.n * CSize(ty.of) [] IsRecord(ty) -> ty.size
CAlign(ty) == IF ty.k = "array" THEN CAlign(ty.of) ELSE IF IsRecord(ty) THEN ty.al ELSE CSize(ty)
\* Pointers and arrays by what they are of; numbers, signed or not, and structures by their kind.
TypeIsSame(t, s) ==
    /\ HasBase(t) = HasBase(s)
    /\ IF HasBase(t) THEN TypeIsSame(t.of, s.of) ELSE t.k = s.k

AtLeastInt(ty) == IF CSize(ty) < 4 THEN CInt ELSE ty
LargerType(x, y) ==
    IF CSize(x) # CSize(y) THEN (IF CSize(x) < CSize(y) THEN y ELSE x) ELSE IF IsUnsignedC(y) THEN y ELSE x
TypeGetCommon(t, s) ==
    CASE HasBase(t) -> PointerTo(t.of)
      [] ~HasBase(t) /\ t.k = "func" -> PointerTo(t)
      [] ~HasBase(t) /\ t.k # "func" /\ s.k = "func" -> PointerTo(s)
      [] ~HasBase(t) /\ "func" \notin {t.k, s.k} /\ "double" \in {t.k, s.k} -> CDouble
      [] ~HasBase(t) /\ {"func", "double"} \cap {t.k, s.k} = {} /\ "float" \in {t.k, s.k} -> CType("float")
      [] OTHER -> LargerType(AtLeastInt(t), AtLeastInt(s))

(***************************************************************************)
(* Nodes                                                                   *)
(***************************************************************************)
AstNode(k, ty, a, x) == [k |-> k, ty |-> ty, a |-> a, x |-> x]
AstNull == AstNode("none", CVoid, <<>>, 0)
IsNull(n) == n.k = "none"
AstNumber(ty, c) == AstNode("num", ty, <<>>, c)
AstCast(e, ty) == IF TypeIsSame(ty, e.ty) THEN e ELSE AstNode("cast", ty, <<e>>, 0)
\* The usual arithmetic conversions, on both operands of an operator.
AstConvertedTo(k, ty, x, y) == AstNode(k, IF ty = "lhs" THEN x.ty ELSE CInt, <<x, y>>, 0)
AstConverted(k, ty, l, r) ==
    LET c == TypeGetCommon(l.ty, r.ty) IN AstConvertedTo(k, ty, AstCast(l, c), AstCast(r, c))
AstAssign(l, r) ==
    IF l.ty.k = "array" THEN AstNull
    ELSE AstNode("assign", l.ty, <<l, IF l.ty.k = "struct" THEN r ELSE AstCast(r, l.ty)>>, 0)
AstComma(l, r) == IF IsNull(l) THEN r ELSE IF IsNull(r) THEN l ELSE AstNode("comma", r.ty, <<l, r>>, 0)
AstBinary(k, l, r) ==
    CASE k \in {"mul", "div", "mod", "and", "or", "xor", "add", "sub"} -> AstConverted(k, "lhs", l, r)
      [] k \in {"shl", "shr"} -> AstNode(k, l.ty, <<l, r>>, 0)
      [] k \in {"eq", "ne", "lt", "le"} -> AstConverted(k, "int", l, r)
      [] k \in {"land", "lor"} -> AstNode(k, CInt, <<l, r>>, 0)
AstCond(c, t, e) ==
    LET v == AstConverted("cond", "lhs", t, e)
    IN  IF "void" \in {t.ty.k, e.ty.k} THEN AstNode("cond", CVoid, <<c, t, e>>, 0)
        ELSE AstNode("cond", v.ty, <<c>> \o v.a, 0)
\* An array's address is a pointer to its first element.
AstAddr(e) == IF e.k = "member" /\ e.x.width # 0 THEN AstNull
              ELSE AstNode("addr", PointerTo(IF e.ty.k = "array" THEN e.ty.of ELSE e.ty), <<e>>, 0)
AstDeref(e) == IF ~HasBase(e.ty) THEN AstNull
               ELSE IF e.ty.of.k = "void" THEN AstNull ELSE AstNode("deref", e.ty.of, <<e>>, 0)
AstUnary(k, e) ==
    CASE k = "neg" -> LET c == TypeGetCommon(CInt, e.ty) IN AstNode(k, c, <<AstCast(e, c)>>, 0)
      [] k \in {"not", "bnot"} -> AstNode(k, e.ty, <<e>>, 0)
      [] k = "addr" -> AstAddr(e)
      [] k = "deref" -> IF e.ty.k = "func" THEN e ELSE AstDeref(e)
\* The program asserts that what is indexed is a pointer or an array.
AstGep(ptr, idx) == AstNode("gep", PointerTo(ptr.ty.of), <<ptr, idx>>, 0)
AstAdd(l, r) ==
    CASE TypeIsNumeric(l.ty) /\ TypeIsNumeric(r.ty) -> AstBinary("add", l, r)
      [] HasBase(l.ty) /\ HasBase(r.ty) -> AstNull
      [] HasBase(l.ty) /\ ~HasBase(r.ty) -> AstGep(l, r)
      [] ~HasBase(l.ty) /\ HasBase(r.ty) -> AstGep(r, l)
      [] OTHER -> AstNull
\* The difference of two pointers counts elements.
AstPtrDiff(l, r) ==
    IF TypeIsSame(l.ty, r.ty)
    THEN AstBinary("div", AstNode("sub", CLong, <<AstCast(l, CLong), AstCast(r, CLong)>>, 0), AstNumber(CInt, CSize(l.ty.of)))
    ELSE AstNull
AstSub(l, r) ==
    CASE TypeIsNumeric(l.ty) /\ TypeIsNumeric(r.ty) -> AstBinary("sub", l, r)
      [] HasBase(l.ty) /\ TypeIsNumeric(r.ty) -> AstGep(l, AstUnary("neg", r))
      [] HasBase(l.ty) /\ HasBase(r.ty) -> AstPtrDiff(l, r)
      [] OTHER -> AstNull
\* l op= r: jcc_astConvertToAssign of the node for l op r, whose operands it takes unconverted.
AstPtrAssign(p) == IF p.k = "gep" THEN AstAssign(p.a[1], p) ELSE AstNull
AstOpAssign(k, l, r) ==
    IF k \notin {"add", "sub"} \/ (TypeIsNumeric(l.ty) /\ TypeIsNumeric(r.ty))
    THEN AstNode("compound", l.ty, <<l, r>>, k)
    ELSE AstPtrAssign(IF k = "add" THEN AstAdd(l, r) ELSE AstSub(l, r))
\* x++ is (T)((x += 1) + -1).
Undone(up, n, ty) == IF IsNull(up) THEN AstNull ELSE AstCast(AstAdd(up, AstNumber(CInt, 0 - n)), ty)
AstIncDec(e, n) == Undone(AstOpAssign("add", e, AstNumber(CInt, n)), n, e.ty)

(***************************************************************************)
(* Members, also those of a structure without a name inside                *)
(***************************************************************************)
Unnamed == ""
Anonymous(m) == IsRecord(m.ty) /\ m.name = Unnamed
RECURSIVE AstMember(_, _)
\* The members from the outermost to the one with the name; none when there is none.
FirstHit(ty, name, below) ==
    LET n == SelectInSeq([j \in DOMAIN ty.m |-> j], LAMBDA j : ty.m[j].name = name \/ below[j] # <<>>)
    IN  IF n = 0 THEN <<>> ELSE <<ty.m[n]>> \o below[n]
AstMember(ty, name) ==
    FirstHit(ty, name, [n \in DOMAIN ty.m |-> IF Anonymous(ty.m[n]) THEN AstMember(ty.m[n].ty, name) ELSE <<>>])
AstStructMember(e, name) ==
    LET path == IF IsRecord(e.ty) THEN AstMember(e.ty, name) ELSE <<>>
    IN  IF path = <<>> THEN AstNull
        ELSE FoldLeft(LAMBDA n, m : AstNode("member", m.ty, <<n>>, m), e, path)

(***************************************************************************)
(* Constant expressions: jcc_astEvalConstExpression2, without addresses     *)
(***************************************************************************)
ByteBits == 2      \* as in MIR
TruthValue(b) == IF b THEN 1 ELSE 0
Wrap(v, bits, u) ==
    LET m == v % (2 ^ bits) IN IF u \/ 2 * m < 2 ^ bits THEN m ELSE m - 2 ^ bits
\* The evaluation computes with integers as wide as a long, read as unsigned where it matters.
Wide(v) == Wrap(v, 8 * ByteBits, FALSE)
AsUnsigned(v) == Wrap(v, 8 * ByteBits, TRUE)
Quotient(x, y) ==
    LET q == (IF x < 0 THEN 0 - x ELSE x) \div (IF y < 0 THEN 0 - y ELSE y)
    IN  IF (x < 0) = (y < 0) THEN q ELSE 0 - q
ConstCast(ty, v) == IF TypeIsNumeric(ty) /\ CSize(ty) < 8 THEN Wrap(v, ByteBits * CSize(ty), ty.u) ELSE v
\* The operands that are looked at, given the value of the first.
ConstUsed(n, v) ==
    CASE n.k = "cond"  -> {1, IF v # 0 THEN 2 ELSE 3}
      [] n.k = "comma" -> {2}
      [] n.k = "land"  -> IF v # 0 THEN {1, 2} ELSE {1}
      [] n.k = "lor"   -> IF v = 0 THEN {1, 2} ELSE {1}
      [] OTHER         -> DOMAIN n.a
ConstKinds == {"num", "add", "sub", "mul", "div", "mod", "and", "or", "xor", "shl", "shr", "eq", "ne", "lt", "le",
               "cond", "comma", "neg", "not", "bnot", "land", "lor", "cast"}
ConstBinary(n, x, y) ==
    LET u == IsUnsignedC(n.ty)
        Read(v) == IF IsUnsignedC(n.a[1].ty) THEN AsUnsigned(v) ELSE v
    IN  CASE n.k = "add" -> x + y [] n.k = "sub" -> x - y [] n.k = "mul" -> x * y
          [] n.k = "div" -> IF u THEN AsUnsigned(x) \div AsUnsigned(y) ELSE Quotient(x, y)
          [] n.k = "mod" -> IF u THEN AsUnsigned(x) % AsUnsigned(y) ELSE x - Quotient(x, y) * y
          [] n.k = "and" -> AsUnsigned(x) & AsUnsigned(y)
          [] n.k = "or"  -> AsUnsigned(x) | AsUnsigned(y)
          [] n.k = "xor" -> AsUnsigned(x) ^^ AsUnsigned(y)
          [] n.k = "shl" -> x * 2 ^ y
          [] n.k = "shr" -> (IF u /\ CSize(n.ty) = 8 THEN AsUnsigned(x) ELSE x) \div 2 ^ y
          [] n.k = "eq"  -> TruthValue(x = y)
          [] n.k = "ne"  -> TruthValue(x # y)
          [] n.k = "lt"  -> TruthValue(Read(x) < Read(y))
          [] n.k = "le"  -> TruthValue(Read(x) <= Read(y))
ConstUnary(n, x) ==
    CASE n.k = "neg" -> 0 - x [] n.k = "not" -> TruthValue(x = 0) [] n.k = "bnot" -> -1 - x
      [] n.k = "cast" -> ConstCast(n.ty, x)
ConstValue(n, e) ==
    CASE n.k = "num"   -> n.x
      [] n.k = "cond"  -> e[IF e[1].v # 0 THEN 2 ELSE 3].v
      [] n.k = "comma" -> e[2].v
      [] n.k = "land"  -> TruthValue(e[1].v # 0 /\ e[2].v # 0)
      [] n.k = "lor"   -> TruthValue(e[1].v # 0 \/ e[2].v # 0)
      [] OTHER -> IF Len(n.a) = 1 THEN ConstUnary(n, e[1].v) ELSE ConstBinary(n, e[1].v, e[2].v)
ConstFrom(n, e) ==
    IF n.k \notin ConstKinds \/ \E i \in ConstUsed(n, IF n.a = <<>> THEN 0 ELSE e[1].v) : e[i].err
    THEN [err |-> TRUE, v |-> 0]
    ELSE [err |-> FALSE, v |-> Wide(ConstValue(n, e))]
RECURSIVE EvalConst(_)
EvalConst(n) == ConstFrom(n, [i \in DOMAIN n.a |-> EvalConst(n.a[i])] \o <<>>)
=============================================================================

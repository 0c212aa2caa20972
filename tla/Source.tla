------------------------------- MODULE Source -------------------------------
(***************************************************************************)
(* Functions in C: how they are written and what they mean by the standard. *)
(* The reference for the front end, written without regard to it: the       *)
(* program is a tree whose variables know their types, Written turns it     *)
(* into tokens, Meaning runs it.                                           *)
(*                                                                         *)
(* A node is [op, x, a]. A type is [k, u], with w the words it is spelled    *)
(* with; pointers, arrays and functions have the type they are of, a        *)
(* structure has members [name, ty, off, width] laid out here. A variable   *)
(* is [name, n, ty, local]: the number tells apart what scopes hide.        *)
(***************************************************************************)
EXTENDS Machine, SequencesExt

(***************************************************************************)
(* Types                                                                   *)
(***************************************************************************)
Word(w) == [k |-> w]
Words(ws) == [n \in DOMAIN ws |-> Word(ws[n])]
Ident(name) == [k |-> "id", x |-> name]
Plain(k, u, ws) == [k |-> k, u |-> u, w |-> Words(ws)]
TVoid == Plain("void", FALSE, <<"void">>)
TBool == Plain("bool", FALSE, <<"_Bool">>)
TChar == Plain("char", FALSE, <<"char">>)
TUChar == Plain("char", TRUE, <<"unsigned", "char">>)
TShort == Plain("short", FALSE, <<"short">>)
TUShort == Plain("short", TRUE, <<"unsigned", "short", "int">>)
TInt == Plain("int", FALSE, <<"int">>)
TUInt == Plain("int", TRUE, <<"unsigned">>)
TLong == Plain("long", FALSE, <<"long", "long">>)
TULong == Plain("long", TRUE, <<"unsigned", "long", "long", "int">>)
TFloat == Plain("float", FALSE, <<"float">>)
TDouble == Plain("double", FALSE, <<"double">>)
TPtr(ty) == [k |-> "ptr", of |-> ty]
TArr(n, ty) == [k |-> "array", n |-> n, of |-> ty]
TOpen(n, ty) == [k |-> "array", n |-> n, of |-> ty, open |-> TRUE]      \* its length is not written
TFn(ret, args, va) == [k |-> "func", ret |-> ret, args |-> args, va |-> va, names |-> [n \in DOMAIN args |-> <<>>]]
\* A type under another spelling: a name for it, or other words.
Spelled(ty, ws) == [f \in DOMAIN ty \cup {"w"} |-> IF f = "w" THEN ws ELSE ty[f]]
Typedefd(ty, name) == Spelled(ty, <<Ident(name)>>)

IsAggregate(ty) == ty.k \in {"struct", "union"}
RECURSIVE TSize(_), TAlign(_)
TSize(ty) ==
    CASE ty.k \in {"void", "bool", "char"} -> 1 [] ty.k = "short" -> 2 [] ty.k \in {"int", "float", "enum"} -> 4
      [] ty.k = "array" -> ty.n * TSize(ty.of) [] IsAggregate(ty) -> ty.size [] OTHER -> 8
TAlign(ty) == IF ty.k = "array" THEN TAlign(ty.of) ELSE IF IsAggregate(ty) THEN ty.al ELSE TSize(ty)
MaxOf(s) == CHOOSE x \in s \cup {1} : \A y \in s : x >= y
Nameless == {"#1", "#2"}
\* A bit-field has a whole word of its type here.
Fld(name, ty) == [name |-> name, ty |-> ty, off |-> 0, width |-> 0]
BitFld(name, ty, width) == [name |-> name, ty |-> ty, off |-> 0, width |-> width]
Laid(acc, m) ==
    LET off == RoundUp(acc.end, TAlign(m.ty))
    IN  [end |-> off + TSize(m.ty), m |-> Append(acc.m, [m EXCEPT !.off = off])]
TRecord(kind, tag, members) ==
    LET al == MaxOf({TAlign(members[n].ty) : n \in DOMAIN members})
        l  == Fold(Laid, [end |-> 0, m |-> <<>>], members)
        un == kind = "union"
        size == IF un THEN MaxOf({TSize(members[n].ty) : n \in DOMAIN members}) ELSE l.end
    IN  [k |-> kind, m |-> IF un THEN members ELSE l.m, size |-> RoundUp(size, al), al |-> al,
         w |-> <<Word(kind)>> \o (IF tag = "" THEN <<>> ELSE <<Ident(tag)>>)]
TStruct(tag, members) == TRecord("struct", tag, members)
TUnion(tag, members) == TRecord("union", tag, members)
\* The member with a name; one that has none in C is looked into by a member access of its own.
MemberOf(ty, name) == ty.m[CHOOSE j \in DOMAIN ty.m : ty.m[j].name = name]

(***************************************************************************)
(* How a declaration is written: the specifiers, and around the name what   *)
(* makes the type, innermost first.                                         *)
(***************************************************************************)
IntTok(v) == [k |-> "num", x |-> v, ty |-> [k |-> "int", u |-> FALSE]]
Listed(seqs) == FlattenSeq([n \in DOMAIN seqs |-> (IF n = 1 THEN <<>> ELSE <<Word(",")>>) \o seqs[n]])
Parens(ts) == <<Word("(")>> \o ts \o <<Word(")")>>
AroundPointer(inner) == IF inner # <<>> /\ inner[1] = Word("*") THEN Parens(inner) ELSE inner
\* One step outwards: the type that is left and what is around the name. args: the parameters.
Outwards(ty, inner, args) ==
    CASE ty.k = "ptr" -> <<ty.of, <<Word("*")>> \o inner>>
      [] ty.k = "array" -> <<ty.of, AroundPointer(inner) \o <<Word("[")>>
                                    \o (IF "open" \in DOMAIN ty THEN <<>> ELSE <<IntTok(ty.n)>>) \o <<Word("]")>>>>
      [] ty.k = "func" -> <<ty.ret, AroundPointer(inner) \o Parens(
                            IF args = <<>> THEN <<Word("void")>>
                            ELSE Listed(args) \o (IF ty.va THEN <<Word(","), Word("...")>> ELSE <<>>))>>
RECURSIVE Declares(_)
DeclaresAll(pairs) == [n \in DOMAIN pairs |-> Declares(pairs[n])]
Declares(d) ==
    IF "w" \in DOMAIN d[1] THEN d[1].w \o d[2]
    ELSE Declares(Outwards(d[1], d[2], IF d[1].k # "func" THEN <<>>
                                       ELSE DeclaresAll([n \in DOMAIN d[1].args |-> <<d[1].args[n], d[1].names[n]>>])))
Semi == <<Word(";")>>
WrittenMember(m) ==
    Declares(<<m.ty, IF m.name \in Nameless THEN <<>> ELSE <<Ident(m.name)>>>>)
    \o (IF m.width = 0 THEN <<>> ELSE <<Word(":"), IntTok(m.width)>>) \o Semi
\* The type where it is defined.
Defined(ty) ==
    Spelled(ty, ty.w \o <<Word("{")>> \o FlattenSeq([n \in DOMAIN ty.m |-> WrittenMember(ty.m[n])]) \o <<Word("}")>>)

(***************************************************************************)
(* Trees                                                                   *)
(***************************************************************************)
Tree(op, x, a) == [op |-> op, x |-> x, a |-> a]
Var(name, n, ty) == [name |-> name, n |-> n, ty |-> ty, local |-> TRUE]
Outer(name, ty) == [name |-> name, n |-> 0, ty |-> ty, local |-> FALSE]
Use(v) == Tree("var", v, <<>>)
Literal(v, ty) == Tree("num", [v |-> v, ty |-> ty], <<>>)
Nr(v) == Literal(v, TInt)
Op1(o, e) == Tree("unary", o, <<e>>)
Op2(l, o, r) == Tree("binary", o, <<l, r>>)
Set(l, o, r) == Tree("assign", o, <<l, r>>)
Member(e, name) == Tree("member", name, <<e>>)
Arrow(e, name) == Tree("arrow", name, <<e>>)
At0(e, i) == Tree("index", 0, <<e, i>>)
CallOf(f, args) == Tree("call", 0, <<f>> \o args)
CastTo(ty, e) == Tree("cast", ty, <<e>>)
\* An initializer is an expression, or braces around [at, i]: designators and an initializer.
Braces(items) == Tree("braces", items, <<>>)
Entries(is) == [n \in DOMAIN is |-> [at |-> <<>>, i |-> is[n]]]
NoInit == Tree("none", 0, <<>>)

\* The precedence of an operator and what it asks of its operands. A literal before a postfix
\* operator is written in parentheses: the parser asks for them.
Precedence(o) ==
    CASE o = "," -> 1 [] o = "||" -> 4 [] o = "&&" -> 5 [] o = "|" -> 6 [] o = "^" -> 7 [] o = "&" -> 8
      [] o \in {"==", "!="} -> 9 [] o \in {"<", "<=", ">", ">="} -> 10 [] o \in {"<<", ">>"} -> 11
      [] o \in {"+", "-"} -> 12 [] o \in {"*", "/", "%"} -> 13
PLevel(e) ==
    CASE e.op = "binary" -> Precedence(e.x) [] e.op = "assign" -> 2 [] e.op = "cond" -> 3
      [] e.op \in {"unary", "prefix", "cast", "sizeof", "sizeoftype", "alignof", "literal"} -> 14
      [] e.op \in {"call", "member", "arrow", "index", "postfix"} -> 15 [] OTHER -> 16
POperand(e, n) ==
    CASE e.op = "binary" -> PLevel(e) + n - 1
      [] e.op = "assign" -> IF n = 1 THEN 14 ELSE 2
      [] e.op = "cond" -> <<4, 1, 3>>[n]
      [] e.op \in {"unary", "prefix", "cast", "sizeof"} -> 14
      [] e.op \in {"call", "index"} -> IF n = 1 THEN 15 ELSE IF e.op = "index" THEN 1 ELSE 2
      [] OTHER -> 15
\* Designators: a member's name, an element's number, or the first and last of a range.
WrittenAt(at) ==
    FlattenSeq([n \in DOMAIN at |->
        CASE at[n].k = "member" -> IF at[n].x \in Nameless THEN <<>> ELSE <<Word("."), Ident(at[n].x)>>
          [] at[n].k = "element" -> <<Word("["), IntTok(at[n].x), Word("]")>>
          [] at[n].k = "range" -> <<Word("["), IntTok(at[n].x), Word("..."), IntTok(at[n].to), Word("]")>>])
SubTrees(e) == CASE e.op = "braces" -> [n \in DOMAIN e.x |-> e.x[n].i] [] e.op = "literal" -> <<e.x.i>> [] OTHER -> e.a
AsOperand(e, n, of, ts) == IF PLevel(of) < POperand(e, n) THEN Parens(ts) ELSE ts
NameOf(ty) == Parens(Declares(<<ty, <<>>>>))
DesignatedBy(at, ts) == WrittenAt(at) \o (IF at = <<>> THEN <<>> ELSE <<Word("=")>>) \o ts
\* The tokens of an expression or an initializer; t has those of its parts.
WrittenFrom(e, t) ==
    CASE e.op = "num" -> <<[k |-> "num", x |-> e.x.v, ty |-> [k |-> e.x.ty.k, u |-> e.x.ty.u]]>>
      [] e.op \in {"var", "enumerator"} -> <<Ident(e.x.name)>>
      [] e.op \in {"unary", "prefix"} -> <<Word(e.x)>> \o t[1]
      [] e.op = "postfix" -> t[1] \o <<Word(e.x)>>
      [] e.op \in {"binary", "assign"} -> t[1] \o <<Word(e.x)>> \o t[2]
      [] e.op = "cond" -> t[1] \o <<Word("?")>> \o t[2] \o <<Word(":")>> \o t[3]
      [] e.op = "call" -> t[1] \o Parens(Listed(Tail(t)))
      [] e.op \in {"member", "arrow"} ->
            t[1] \o (IF e.x \in Nameless THEN <<>> ELSE <<Word(IF e.op = "member" THEN "." ELSE "->"), Ident(e.x)>>)
      [] e.op = "index" -> t[1] \o <<Word("[")>> \o t[2] \o <<Word("]")>>
      [] e.op = "sizeof" -> <<Word("sizeof")>> \o t[1]
      [] e.op \in {"cast", "sizeoftype", "alignof", "literal"} ->
            (IF e.op = "sizeoftype" THEN <<Word("sizeof")>> ELSE IF e.op = "alignof" THEN <<Word(e.op)>> ELSE <<>>)
            \o NameOf(IF e.op = "literal" THEN e.x.v.ty ELSE e.x) \o FlattenSeq(t)
      [] e.op = "braces" -> <<Word("{")>> \o Listed([n \in DOMAIN t |-> DesignatedBy(e.x[n].at, t[n])]) \o <<Word("}")>>
RECURSIVE Written(_)
WrittenParts(e, sub) == [n \in DOMAIN sub |-> AsOperand(e, n, sub[n], Written(sub[n]))]
Written(e) == WrittenFrom(e, WrittenParts(e, SubTrees(e)))
RECURSIVE BaseWords(_)
BaseWords(ty) == IF "w" \in DOMAIN ty THEN Len(ty.w) ELSE BaseWords(IF ty.k = "func" THEN ty.ret ELSE ty.of)
\* Variables of one declaration share the specifiers.
WrittenDecl(items) ==
    Listed([n \in DOMAIN items |->
        LET d == Declares(<<items[n].v.ty, <<Ident(items[n].v.name)>>>>)
        IN  (IF n = 1 THEN d ELSE SubSeq(d, BaseWords(items[n].v.ty) + 1, Len(d)))
            \o (IF items[n].i.op = "none" THEN <<>> ELSE <<Word("=")>> \o Written(items[n].i))]) \o Semi

(***************************************************************************)
(* Statements. "text" declares what has no meaning of its own.              *)
(***************************************************************************)
Do(e) == Tree("expr", 0, <<e>>)
Let(items) == Tree("decl", items, <<>>)
Bind(v, i) == [v |-> v, i |-> i]
Seq0(ss) == Tree("block", 0, ss)
Text(ts) == Tree("text", ts, <<>>)
Cond0(c, ss) == Tree("if", 0, <<c>> \o ss)
While0(c, s) == Tree("while", 0, <<c, s>>)
DoWhile0(s, c) == Tree("dowhile", 0, <<c, s>>)
For0(i, c, n, s) == Tree("for", 0, <<c, s, i, n>>)
Switch0(c, s) == Tree("switch", 0, <<c, s>>)
Case0(v, e, s) == Tree("case", v, <<s, e>>)       \* e is a constant with the value v
Default0(s) == Tree("default", 0, <<s>>)
Label0(name, s) == Tree("label", name, <<s>>)
Jump0(k) == Tree(k, 0, <<>>)
GotoLabel(name) == Tree("goto", name, <<>>)
Return0(es) == Tree("return", 0, es)
StatementOps == {"expr", "decl", "block", "text", "if", "while", "dowhile", "for", "switch", "case", "default", "label",
                 "break", "continue", "goto", "return"}
IsStatement(s) == s.op \in StatementOps
WrittenStmtFrom(s, k, t) ==
    CASE s.op = "expr" -> t[1] \o Semi
      [] s.op = "decl" -> WrittenDecl(s.x)
      [] s.op = "text" -> s.x
      [] s.op = "block" -> <<Word("{")>> \o FlattenSeq(t) \o <<Word("}")>>
      [] s.op \in {"if", "while", "switch"} ->
            k \o Parens(t[1]) \o t[2] \o (IF Len(t) = 3 THEN <<Word("else")>> \o t[3] ELSE <<>>)
      [] s.op = "dowhile" -> <<Word("do")>> \o t[2] \o <<Word("while")>> \o Parens(t[1]) \o Semi
      [] s.op = "for" -> k \o Parens((IF t[3] = <<>> THEN Semi ELSE t[3]) \o t[1] \o Semi \o t[4]) \o t[2]
      [] s.op = "case" -> k \o t[2] \o <<Word(":")>> \o t[1]
      [] s.op = "default" -> k \o <<Word(":")>> \o t[1]
      [] s.op = "label" -> <<Ident(s.x), Word(":")>> \o t[1]
      [] s.op \in {"break", "continue"} -> k \o Semi
      [] s.op = "goto" -> k \o <<Ident(s.x)>> \o Semi
      [] s.op = "return" -> k \o FlattenSeq(t) \o Semi
RECURSIVE WrittenStmt(_)
WrittenStmt(s) ==
    IF ~IsStatement(s) THEN (IF s.op = "none" THEN <<>> ELSE Written(s))
    ELSE WrittenStmtFrom(s, <<Word(s.op)>>, [n \in DOMAIN s.a |-> WrittenStmt(s.a[n])])
\* A file: declarations, then a function [name, ty, params, body].
NamedParams(f) == [f.ty EXCEPT !.names = [n \in DOMAIN f.params |-> <<Ident(f.params[n].name)>>]]
WrittenFile(text, f) ==
    text \o Declares(<<NamedParams(f), <<Ident(f.name)>>>>) \o WrittenStmt(f.body) \o <<Word("eof")>>

(***************************************************************************)
(* The types of expressions                                                *)
(***************************************************************************)
IsNumber(ty) == ty.k \in {"bool", "char", "short", "int", "long", "enum"}
IsReal(ty) == ty.k \in {"float", "double"}
Decayed(ty) == IF ty.k = "array" THEN TPtr(ty.of) ELSE IF ty.k = "func" THEN TPtr(ty) ELSE ty
Promoted(ty) == IF IsNumber(ty) /\ ty.k \notin {"int", "long"} THEN TInt ELSE ty
\* The common type of two numbers.
Usual(t, s) ==
    LET x == Promoted(t)
        y == Promoted(s)
        Either(k) == k \in {x.k, y.k}
    IN  CASE Either("double") -> TDouble
          [] ~Either("double") /\ Either("float") -> TFloat
          [] OTHER -> IF x.k = y.k THEN (IF x.u THEN x ELSE y) ELSE IF x.k = "long" THEN x ELSE y
Called0(ty) == IF ty.k = "ptr" THEN ty.of ELSE ty
\* ty: the types of the operands, d: those they decay to.
TypeFrom(e, ty, d) ==
    CASE e.op = "num" -> e.x.ty
      [] e.op = "enumerator" -> TInt
      [] e.op = "var" -> e.x.ty
      [] e.op = "literal" -> e.x.v.ty
      [] e.op = "unary" -> CASE e.x = "!" -> TInt [] e.x = "&" -> TPtr(ty[1])
                             [] e.x = "*" -> IF ty[1].k = "func" THEN ty[1] ELSE d[1].of
                             [] OTHER -> Promoted(ty[1])
      [] e.op = "binary" ->
            CASE e.x \in {"==", "!=", "<", "<=", ">", ">=", "&&", "||"} -> TInt
              [] e.x = "," -> d[2]
              [] e.x \in {"<<", ">>"} -> Promoted(ty[1])
              [] OTHER -> IF d[1].k = "ptr" THEN (IF d[2].k = "ptr" THEN TLong ELSE d[1])
                          ELSE IF d[2].k = "ptr" THEN d[2] ELSE Usual(ty[1], ty[2])
      [] e.op \in {"assign", "prefix", "postfix"} -> ty[1]
      [] e.op = "cond" -> IF IsNumber(ty[2]) \/ IsReal(ty[2]) THEN Usual(ty[2], ty[3]) ELSE d[2]
      [] e.op = "call" -> Called0(ty[1]).ret
      [] e.op = "member" -> MemberOf(ty[1], e.x).ty
      [] e.op = "arrow" -> MemberOf(d[1].of, e.x).ty
      [] e.op = "index" -> d[1].of
      [] e.op = "cast" -> e.x
      [] e.op \in {"sizeof", "sizeoftype", "alignof"} -> TULong
TypeOver(e, ty) == TypeFrom(e, ty, [n \in DOMAIN ty |-> Decayed(ty[n])])
RECURSIVE TypeOf(_)
TypeOf(e) == TypeOver(e, [n \in DOMAIN e.a |-> TypeOf(e.a[n])] \o <<>>)      \* a tuple: TLC computes it once

(***************************************************************************)
(* Values: numbers as the machine holds them                               *)
(***************************************************************************)
Named0(ty) == CASE ty.k = "bool" -> "bool" [] ty.k = "char" -> (IF ty.u THEN "u8" ELSE "i8")
                [] ty.k = "short" -> (IF ty.u THEN "u16" ELSE "i16")
                [] ty.k \in {"int", "enum"} -> (IF ty.u THEN "u32" ELSE "i32")
                [] ty.k = "long" -> (IF ty.u THEN "u64" ELSE "i64")
                [] ty.k = "float" -> "f32" [] ty.k = "double" -> "f64" [] OTHER -> "u64"
Raw(ty) == Convert(Named0(ty))
Truth(b) == IF b THEN 1 ELSE 0
\* A number as the mathematics sees it.
Number0(ty, v) == IF IsReal(ty) THEN Num(Raw(ty), v) ELSE IF IsSignedType(Named0(ty)) THEN Signed(Raw(ty), v) ELSE v
ValueAs(v, from, to) ==
    CASE to.k = "void" \/ IsAggregate(to) -> v
      [] to.k = "bool" -> Truth(v # 0)
      [] IsReal(to) -> FloatOfInt(Raw(to), Number0(from, v))
      [] OTHER -> Number0(from, v) % Mod(Raw(to))
OpName == [o \in {"+", "-", "*", "/", "%", "&", "|", "^", "<<", ">>"} |->
             CASE o = "+" -> "add" [] o = "-" -> "sub" [] o = "*" -> "mul" [] o = "/" -> "div" [] o = "%" -> "rem"
               [] o = "&" -> "and" [] o = "|" -> "or" [] o = "^" -> "xor" [] o = "<<" -> "shl" [] o = ">>" -> "shr"]
RelName == [o \in {"==", "!=", "<", "<=", ">", ">="} |->
             CASE o = "==" -> "eq" [] o = "!=" -> "ne" [] o = "<" -> "lt" [] o = "<=" -> "le" [] o = ">" -> "gt" [] o = ">=" -> "ge"]
Calculated(o, ty, x, y) ==
    IF IsReal(ty) THEN FloatArith(Raw(ty), OpName[o], x, y) ELSE IntArith(OpName[o], Named0(ty), x, y)
\* x o y for operands of types t and s.
Combined(o, t, s, x, y) ==
    LET c == Usual(t, s)
        elems(p, n) == Number0(TLong, n) * TSize(p.of)
    IN  CASE o \in DOMAIN RelName ->
                IF t.k = "ptr" THEN Truth(Holds(RelName[o], x, y))
                ELSE Truth(Holds(RelName[o], Number0(c, ValueAs(x, t, c)), Number0(c, ValueAs(y, s, c))))
          [] o \in {"<<", ">>"} -> Calculated(o, Promoted(t), ValueAs(x, t, Promoted(t)), y)
          [] t.k = "ptr" /\ s.k = "ptr" -> ((Number0(TLong, x) - Number0(TLong, y)) \div TSize(t.of)) % Mod("I64")
          [] t.k = "ptr" /\ s.k # "ptr" /\ o = "+" -> (x + elems(t, ValueAs(y, s, TLong))) % Mod("I64")
          [] t.k = "ptr" /\ s.k # "ptr" /\ o = "-" -> (x - elems(t, ValueAs(y, s, TLong))) % Mod("I64")
          [] t.k # "ptr" /\ s.k = "ptr" /\ o = "+" -> (y + elems(s, ValueAs(x, t, TLong))) % Mod("I64")
          [] OTHER -> Calculated(o, c, ValueAs(x, t, c), ValueAs(y, s, c))
Unary0(o, ty, x) ==
    LET p == Promoted(ty)
    IN  CASE o = "!" -> Truth(x = 0)
          [] o = "+" -> ValueAs(x, ty, p)
          [] o = "-" -> IF IsReal(p) THEN FloatArith(Raw(p), "sub", 0, x) ELSE (0 - ValueAs(x, ty, p)) % Mod(Raw(p))
          [] o = "~" -> (-1 - ValueAs(x, ty, p)) % Mod(Raw(p))
(***************************************************************************)
(* Initializers: what each sets, as [at, ty, e]: an offset, a type, and the *)
(* expression, in the order of the list. A place is a path of subobjects.   *)
(***************************************************************************)
Kids(ty) == IF ty.k = "array" THEN ty.n ELSE IF ty.k = "union" THEN 1 ELSE Len(ty.m)
Kid(ty, n) == IF ty.k = "array" THEN [ty |-> ty.of, off |-> (n - 1) * TSize(ty.of), width |-> 0] ELSE ty.m[n]
Within(p, n) == [off |-> p.off + Kid(p.ty, n).off, ty |-> Kid(p.ty, n).ty, width |-> Kid(p.ty, n).width]
PlaceAt(ty, path) == FoldLeft(Within, [off |-> 0, ty |-> ty, width |-> 0], path)
IsScalar0(ty) == ty.k # "array" /\ ~IsAggregate(ty)
\* The next place in the order of the object, <<0>> when there is none.
NextPlace(ty, path) ==
    LET more == {j \in DOMAIN path : path[j] < Kids(PlaceAt(ty, SubSeq(path, 1, j - 1)).ty)
                                     /\ PlaceAt(ty, SubSeq(path, 1, j - 1)).ty.k # "union"}
        j == CHOOSE k \in more : \A l \in more : l <= k
    IN  IF more = {} THEN <<0>> ELSE Append(SubSeq(path, 1, j - 1), path[j] + 1)
\* Down to where an expression belongs: a number, or a structure for a structure.
Descended(ty, path, e) ==
    LET Stops(p) == LET t == PlaceAt(ty, p).ty
                    IN  IsScalar0(t) \/ e.op = "braces" \/ (IsAggregate(t) /\ TypeOf(e).k = t.k /\ path # <<>>)
        ps == [n \in 0..4 |-> path \o [k \in 1..n |-> 1]]
    IN  ps[CHOOSE n \in 0..4 : Stops(ps[n]) /\ \A k \in 0..n - 1 : ~Stops(ps[k])]
\* The places a designator leads to, each with the path of a subobject.
MemberIndex(ty, name) == CHOOSE n \in DOMAIN ty.m : ty.m[n].name = name
Designated0(ty, at) ==
    LET last == at[Len(at)]
        path == FoldLeft(LAMBDA p, d : Append(p, IF d.k = "member" THEN MemberIndex(PlaceAt(ty, p).ty, d.x) ELSE d.x + 1), <<>>, at)
        many == IF last.k = "range" THEN last.to - last.x ELSE 0
    IN  [n \in 1..many + 1 |-> [path EXCEPT ![Len(path)] = @ + n - 1]]
\* The initializers in braces, each with its place; what is too much has none.
InitTargets(ty, entries) ==
    FoldLeft(LAMBDA acc, en :
                LET from == IF en.at = <<>> THEN <<acc.next>> ELSE Designated0(ty, en.at)
                    to   == [n \in DOMAIN from |-> IF from[n] = <<0>> THEN <<0>> ELSE Descended(ty, from[n], en.i)]
                IN  IF to[1] = <<0>> THEN acc
                    ELSE [next |-> NextPlace(ty, to[Len(to)]),
                          found |-> acc.found \o [n \in DOMAIN to |-> [path |-> to[n], i |-> en.i]]],
             [next |-> <<1>>, found |-> <<>>], entries).found
PartsOf(place, i) == IF IsScalar0(place.ty) THEN <<[path |-> <<>>, i |-> i.x[1].i]>> ELSE InitTargets(place.ty, i.x)
Inside(place, path) == [PlaceAt(place.ty, path) EXCEPT !.off = @ + place.off]
RECURSIVE Sets(_, _)
SetsOf(place, parts) == [n \in DOMAIN parts |-> Sets(Inside(place, parts[n].path), parts[n].i)]
Sets(place, i) == IF i.op # "braces" THEN <<[place |-> place, e |-> i]>> ELSE FlattenSeq(SetsOf(place, PartsOf(place, i)))

(***************************************************************************)
(* A run: work to do, values, memory, what a jump is looking for, where     *)
(* variables are.                                                          *)
(***************************************************************************)
IVal(e) == [do |-> "value", e |-> e]
IAddr(e) == [do |-> "address", e |-> e]
IRun(s) == [do |-> "run", e |-> s]
Then(k, e) == [do |-> k, e |-> e]
Choose0(yes, no) == [do |-> "choose", yes |-> yes, no |-> no]
MarkOf(k) == [do |-> "mark", e |-> k]
Nowhere == [k |-> "none", x |-> 0]
Target(k, x) == [k |-> k, x |-> x]
\* Does the statement hold what the jump looks for? A case belongs to the innermost switch.
RECURSIVE Contains0(_, _)
Contains0(s, to) ==
    \/ s.op = to.k /\ (to.k # "default" => s.x = to.x)
    \/ /\ s.op # "switch" \/ to.k = "label"
       /\ \E n \in DOMAIN s.a : IsStatement(s.a[n]) /\ Contains0(s.a[n], to)

Instead(m, items) == [m EXCEPT !.work = items \o Tail(@)]
Value0(m, v) == [m EXCEPT !.work = Tail(@), !.vals = <<v>> \o @]
Taking(m, n, v) == [m EXCEPT !.work = Tail(@), !.vals = <<v>> \o SubSeq(@, n + 1, Len(@))]
Copied0(mem, to, from, n) == Fold(LAMBDA x, j : [x EXCEPT ![to + j - 1] = mem[from + j - 1]], mem, [j \in 1..n |-> j])
Reserved(m, ty) == RoundUp(m.next, TAlign(ty))
WithObject(m, id, ty) == [m EXCEPT !.env = (id :> Reserved(m, ty)) @@ @, !.next = Reserved(m, ty) + TSize(ty)]
Having(m, v) == IF ~v.local \/ <<v.name, v.n>> \in DOMAIN m.env THEN m ELSE WithObject(m, <<v.name, v.n>>, v.ty)
PlaceOf(m, v) == IF v.local THEN m.env[<<v.name, v.n>>] ELSE SymAddr(v.name)
Width0(e) == IF e.op \notin {"member", "arrow"} THEN 0
             ELSE MemberOf(IF e.op = "member" THEN TypeOf(e.a[1]) ELSE Decayed(TypeOf(e.a[1])).of, e.x).width
Stored0(mem, a, ty, width, v) ==
    IF IsAggregate(ty) THEN Copied0(mem, a, v, TSize(ty))
    ELSE WriteMem(mem, a, TSize(ty), IF width = 0 THEN v ELSE v % (2 ^ width))
Loaded0(mem, a, ty) == IF IsScalar0(ty) /\ ty.k # "func" THEN ReadMem(mem, a, TSize(ty)) ELSE a

IsPlace(e) == e.op \in {"var", "index", "member", "arrow", "literal"} \/ (e.op = "unary" /\ e.x = "*")
Truthy == Choose0(<<IVal(Nr(1))>>, <<IVal(Nr(0))>>)
\* An expression for its value.
StepValue(m, e) ==
    CASE e.op = "num" -> Value0(m, IF IsReal(e.x.ty) THEN FloatOfInt(Raw(e.x.ty), e.x.v) ELSE e.x.v % Mod(Raw(e.x.ty)))
      [] e.op = "enumerator" -> Value0(m, e.x.v % Mod("I32"))
      [] e.op = "sizeoftype" -> Value0(m, TSize(e.x))
      [] e.op = "alignof" -> Value0(m, TAlign(e.x))
      [] e.op = "sizeof" -> Value0(m, TSize(TypeOf(e.a[1])))
      [] IsPlace(e) -> Instead(m, <<IAddr(e), Then("load", e)>>)
      [] e.op = "unary" /\ e.x = "&" -> Instead(m, <<IAddr(e.a[1])>>)
      [] e.op = "binary" /\ e.x = "," -> Instead(m, <<IVal(e.a[1]), Then("drop", e), IVal(e.a[2])>>)
      [] e.op = "binary" /\ e.x = "&&" -> Instead(m, <<IVal(e.a[1]), Choose0(<<IVal(e.a[2]), Truthy>>, <<IVal(Nr(0))>>)>>)
      [] e.op = "binary" /\ e.x = "||" -> Instead(m, <<IVal(e.a[1]), Choose0(<<IVal(Nr(1))>>, <<IVal(e.a[2]), Truthy>>)>>)
      [] e.op = "cond" ->
            LET to(n) == <<IVal(e.a[n]), Then("convert", [from |-> Decayed(TypeOf(e.a[n])), to |-> TypeOf(e)])>>
            IN  Instead(m, <<IVal(e.a[1]), Choose0(to(2), to(3))>>)
      [] e.op = "assign" -> Instead(m, <<IAddr(e.a[1]), IVal(e.a[2]), Then(IF e.x = "=" THEN "store" ELSE "update", e)>>)
      [] e.op \in {"prefix", "postfix"} -> Instead(m, <<IAddr(e.a[1]), IVal(Nr(1)), Then("update", e)>>)
      [] e.op = "call" -> Instead(m, [n \in 1..Len(e.a) - 1 |-> IVal(e.a[n + 1])] \o <<Then("call", e)>>)
      [] OTHER -> Instead(m, [n \in DOMAIN e.a |-> IVal(e.a[n])] \o <<Then("apply", e)>>)
\* An object for its address: that of a variable or a part, or of a structure that is a value.
StepAddress(m, e) ==
    CASE e.op = "var" -> Value0(Having(m, e.x), PlaceOf(Having(m, e.x), e.x))
      [] e.op = "literal" -> Instead(m, <<Then("bind", Bind(e.x.v, e.x.i)), IAddr(Use(e.x.v))>>)
      [] e.op = "unary" -> Instead(m, <<IVal(e.a[1])>>)
      [] e.op = "index" -> Instead(m, <<IVal(Op2(e.a[1], "+", e.a[2]))>>)
      [] e.op = "member" -> Instead(m, <<IAddr(e.a[1]), Then("offset", MemberOf(TypeOf(e.a[1]), e.x))>>)
      [] e.op = "arrow" -> Instead(m, <<IVal(e.a[1]), Then("offset", MemberOf(Decayed(TypeOf(e.a[1])).of, e.x))>>)
      [] OTHER -> Instead(m, <<IVal(e)>>)
Applied(e, vals) ==
    LET ty(n) == Decayed(TypeOf(e.a[n]))
    IN  CASE e.op = "unary" -> Unary0(e.x, ty(1), vals[1])
          [] e.op = "binary" -> Combined(e.x, ty(1), ty(2), vals[2], vals[1])
          [] e.op = "cast" -> ValueAs(vals[1], ty(1), e.x)
StepStore(m, e) ==
    LET ty == TypeOf(e.a[1])
        v  == ValueAs(m.vals[1], Decayed(TypeOf(e.a[2])), ty)
    IN  [Taking(m, 2, v) EXCEPT !.mem = Stored0(@, m.vals[2], ty, Width0(e.a[1]), v)]
OpOf(x) == CASE x \in {"++", "+="} -> "+" [] x \in {"--", "-="} -> "-" [] x = "*=" -> "*" [] x = "/=" -> "/"
             [] x = "%=" -> "%" [] x = "&=" -> "&" [] x = "|=" -> "|" [] x = "^=" -> "^" [] x = "<<=" -> "<<" [] x = ">>=" -> ">>"
Updated(m, e, ty, old, new) ==
    [Taking(m, 2, IF e.op = "postfix" THEN old ELSE new) EXCEPT !.mem = Stored0(@, m.vals[2], ty, Width0(e.a[1]), new)]
StepUpdate(m, e, ty, old) ==
    LET by == IF e.op = "assign" THEN e.a[2] ELSE Nr(1)
    IN  Updated(m, e, ty, old, ValueAs(Combined(OpOf(e.x), ty, Decayed(TypeOf(by)), old, m.vals[1]),
                                       TypeOf(Op2(e.a[1], OpOf(e.x), by)), ty))

(***************************************************************************)
(* Calls of external functions: a structure of 1, 2, 4 or 8 bytes goes as a *)
(* number, another one by its address, its result to a place the caller     *)
(* gives.                                                                  *)
(***************************************************************************)
InRegister(ty) == TSize(ty) \in {1, 2, 4, 8}
RawOf(ty) == IF IsAggregate(ty) THEN (CASE TSize(ty) = 1 -> "I8" [] TSize(ty) = 2 -> "I16" [] TSize(ty) = 4 -> "I32" [] OTHER -> "I64")
             ELSE Raw(ty)
RECURSIVE CalleeName(_)
CalleeName(e) == IF e.op = "var" THEN (IF e.x.ty.k = "func" THEN e.x.name ELSE "ext")
                 ELSE IF e.op = "unary" THEN CalleeName(e.a[1]) ELSE "ext"
PassedAs(m, ty, to, v) ==
    IF IsAggregate(ty) THEN (IF InRegister(ty) THEN ReadMem(m.mem, v, TSize(ty)) ELSE v) ELSE ValueAs(v, ty, to)
StepCall(m, e) ==
    LET ft == Called0(TypeOf(e.a[1]))
        n  == Len(e.a) - 1
        To(k, ty) == IF k <= Len(ft.args) THEN Decayed(ft.args[k]) ELSE IF ty.k = "float" THEN TDouble ELSE Promoted(ty)
        Ty(k) == Decayed(TypeOf(e.a[k + 1]))
        args == [k \in 1..n |-> PassedAs(m, Ty(k), To(k, Ty(k)), m.vals[n + 1 - k])]
        hidden == IsAggregate(ft.ret) /\ ~InRegister(ft.ret)
        m2 == IF IsAggregate(ft.ret) THEN WithObject(m, <<"result", m.next>>, ft.ret) ELSE m
        at == Reserved(m, ft.ret)
        all == IF hidden THEN <<at>> \o args ELSE args
        name == CalleeName(e.a[1])
        r == External(name, all, m2.mem, IF hidden \/ ft.ret.k = "void" THEN "VOID" ELSE RawOf(ft.ret))
        mem == IF IsAggregate(ft.ret) /\ ~hidden THEN WriteMem(r.mem, at, TSize(ft.ret), r.ret) ELSE r.mem
    IN  [Taking(m2, n, IF IsAggregate(ft.ret) THEN at ELSE r.ret)
            EXCEPT !.mem = mem, !.trace = Append(@, Note(name, all))]

(***************************************************************************)
(* Statements                                                              *)
(***************************************************************************)
Loop0(s) ==
    LET next == IF s.op = "for" /\ s.a[4].op # "none" THEN <<IVal(s.a[4]), Then("drop", s)>> ELSE <<>>
        again == <<IRun(s.a[2]), MarkOf("continue")>> \o next \o <<Then("loop", s)>>
    IN  [body |-> again, test |-> IF s.a[1].op = "none" THEN again ELSE <<IVal(s.a[1]), Choose0(again, <<>>)>>]
\* Entered from the top or, by a jump, in the middle.
EnterLoop(m, s, jump) ==
    LET first == IF s.op = "for" /\ ~jump /\ s.a[3].op # "none" THEN <<IRun(s.a[3])>> ELSE <<>>
    IN  Instead(m, first \o (IF jump \/ s.op = "dowhile" THEN Loop0(s).body ELSE Loop0(s).test) \o <<MarkOf("break")>>)
Found(m, s) == IF s.op = m.seek.k /\ (s.op # "default" => s.x = m.seek.x) THEN [m EXCEPT !.seek = Nowhere] ELSE m
Escape(m, k) == [m EXCEPT !.work = SubSeq(@, SelectInSeq(@, LAMBDA i : i.do = "mark" /\ i.e = k) + 1, Len(@))]
StepRun(m, s) ==
    LET jump == m.seek.k # "none"
        In(t) == Contains0(t, m.seek)
    IN  CASE jump /\ ~In(s) -> Instead(m, <<>>)
          [] s.op = "text" /\ ~jump -> Instead(m, <<>>)
          [] s.op = "expr" /\ ~jump -> Instead(m, <<IVal(s.a[1]), Then("drop", s)>>)
          [] s.op = "decl" /\ ~jump -> Instead(m, [n \in DOMAIN s.x |-> Then("bind", s.x[n])])
          [] s.op = "block" /\ In(s) = jump -> Instead(m, [n \in DOMAIN s.a |-> IRun(s.a[n])])
          [] s.op = "if" /\ In(s) = jump ->
                LET no == IF Len(s.a) = 3 THEN <<IRun(s.a[3])>> ELSE <<>>
                IN  Instead(m, IF ~jump THEN <<IVal(s.a[1]), Choose0(<<IRun(s.a[2])>>, no)>>
                               ELSE IF In(s.a[2]) THEN <<IRun(s.a[2])>> ELSE no)
          [] s.op \in {"while", "dowhile", "for"} /\ In(s) = jump -> EnterLoop(m, s, jump)
          [] s.op = "switch" /\ In(s) = jump ->
                Instead(m, (IF jump THEN <<IRun(s.a[2])>> ELSE <<IVal(s.a[1]), Then("dispatch", s)>>) \o <<MarkOf("break")>>)
          [] s.op \in {"case", "default", "label"} /\ In(s) = jump -> Instead(Found(m, s), <<IRun(s.a[1])>>)
          [] s.op \in {"break", "continue"} /\ ~jump -> Escape(m, s.op)
          [] s.op = "goto" /\ ~jump -> [m EXCEPT !.work = <<IRun(m.f.body), Then("end", 0)>>, !.seek = Target("label", s.x)]
          [] s.op = "return" /\ ~jump -> [m EXCEPT !.work = [n \in DOMAIN s.a |-> IVal(s.a[n])] \o <<Then("end", s)>>]
\* The value of a switch's condition, promoted, finds its case or the default.
Dispatched(m, s, to) ==
    [m EXCEPT !.vals = Tail(@), !.seek = IF Contains0(s.a[2], to) THEN to ELSE Nowhere,
              !.work = (IF Contains0(s.a[2], to) THEN <<IRun(s.a[2])>> ELSE <<>>) \o Tail(@)]
CaseOrDefault(s, to) == IF Contains0(s.a[2], to) THEN to ELSE Target("default", 0)
StepDispatch(m, s, ty) ==
    Dispatched(m, s, CaseOrDefault(s, Target("case", Number0(Promoted(ty), ValueAs(m.vals[1], ty, Promoted(ty))))))
\* A variable begins: set to zero where it has parts, then part by part.
Zeroed(mem, at, ty) == IF IsScalar0(ty) THEN mem ELSE Fold(LAMBDA x, j : [x EXCEPT ![at + j - 1] = 0], mem, [j \in 1..TSize(ty) |-> j])
BoundTo(h, at, ty, sets) ==
    [Instead(h, FlattenSeq([n \in DOMAIN sets |-> <<IVal(sets[n].e), Then("init", [a |-> at, s |-> sets[n]])>>]))
        EXCEPT !.mem = Zeroed(@, at, ty)]
StepBind(m, b) ==
    IF b.i.op = "none" THEN Instead(Having(m, b.v), <<>>)
    ELSE BoundTo(Having(m, b.v), PlaceOf(Having(m, b.v), b.v), b.v.ty, Sets([off |-> 0, ty |-> b.v.ty, width |-> 0], b.i))
StepInit(m, i) ==
    LET p == i.s.place
        v == ValueAs(m.vals[1], Decayed(TypeOf(i.s.e)), p.ty)
    IN  [m EXCEPT !.work = Tail(@), !.vals = Tail(@), !.mem = Stored0(@, i.a + p.off, p.ty, p.width, v)]
\* The result leaves the function.
StepEnd(m, s) ==
    LET e  == s.a[1]
        ty == m.f.ty.ret
    IN  IF m.f.ty.ret.k = "void" \/ m.vals = <<>> THEN [m EXCEPT !.work = <<>>]
        ELSE IF ~IsAggregate(ty) THEN [m EXCEPT !.work = <<>>, !.ret = ValueAs(m.vals[1], Decayed(TypeOf(e)), ty)]
        ELSE IF InRegister(ty) THEN [m EXCEPT !.work = <<>>, !.ret = ReadMem(m.mem, m.vals[1], TSize(ty))]
        ELSE [m EXCEPT !.work = <<>>, !.mem = Copied0(@, m.hidden, m.vals[1], TSize(ty))]

StepOf(m) ==
    LET i == m.work[1]
        v == m.vals[1]
    IN  CASE i.do = "value" -> StepValue(m, i.e) [] i.do = "address" -> StepAddress(m, i.e)
          [] i.do = "run" -> StepRun(m, i.e) [] i.do = "bind" -> StepBind(m, i.e) [] i.do = "init" -> StepInit(m, i.e)
          [] i.do = "apply" -> Taking(m, Len(i.e.a), Applied(i.e, m.vals))
          [] i.do = "load" -> Taking(m, 1, Loaded0(m.mem, v, TypeOf(i.e)))
          [] i.do = "offset" -> Taking(m, 1, v + i.e.off)
          [] i.do = "convert" -> Taking(m, 1, ValueAs(v, i.e.from, i.e.to))
          [] i.do = "store" -> StepStore(m, i.e) [] i.do = "update" -> StepUpdate(m, i.e, TypeOf(i.e.a[1]), ReadMem(m.mem, m.vals[2], TSize(TypeOf(i.e.a[1]))))
          [] i.do = "call" -> StepCall(m, i.e) [] i.do = "dispatch" -> StepDispatch(m, i.e, TypeOf(i.e.a[1]))
          [] i.do = "drop" -> [m EXCEPT !.work = Tail(@), !.vals = Tail(@)]
          [] i.do = "choose" -> [m EXCEPT !.work = (IF v # 0 THEN i.yes ELSE i.no) \o Tail(@), !.vals = Tail(@)]
          [] i.do = "loop" -> Instead(m, Loop0(i.e).test)
          [] i.do = "mark" -> Instead(m, <<>>) [] i.do = "end" -> StepEnd(m, i.e)
\* Parameters are variables that hold what the caller passed.
Entered(m, f, args) ==
    Fold(LAMBDA x, n : LET v == f.params[n]
                           h == Having(x, v)
                       IN  [h EXCEPT !.mem = IF IsAggregate(v.ty) /\ ~InRegister(v.ty)
                                             THEN Copied0(@, PlaceOf(h, v), args[n], TSize(v.ty))
                                             ELSE WriteMem(@, PlaceOf(h, v), TSize(v.ty), args[n])],
         m, [n \in DOMAIN f.params |-> n])
Started(f, hidden) ==
    [work |-> <<IRun(f.body), Then("end", 0)>>, vals |-> <<>>, mem |-> Outside0, trace |-> <<>>, seek |-> Nowhere,
     env |-> <<>>, next |-> 512, f |-> f, ret |-> 0, hidden |-> hidden]
Outcome(r) == IF r.work # <<>> THEN Fault(Endless) ELSE Observed(r.ret, r.mem, r.trace)
ReturnsHidden(f) == IsAggregate(f.ty.ret) /\ ~InRegister(f.ty.ret)
Meaning(f, args, steps) ==
    Outcome(Fold(LAMBDA x, n : IF x.work = <<>> THEN x ELSE StepOf(x),
                 Entered(Started(f, IF args = <<>> THEN 0 ELSE args[1]), f, IF ReturnsHidden(f) THEN Tail(args) ELSE args),
                 [n \in 1..steps |-> n]))
=============================================================================

---------------------------- MODULE Declarations ----------------------------
(***************************************************************************)
(* The parser for declarations (jcc.c): type names, declarators, structures *)
(* and enumerations, variables with their initializers, functions, files.   *)
(*                                                                         *)
(* A type that is being built is on the stack of trees, as a "type" node    *)
(* whose x is the declared name (or, after the specifiers, the storage      *)
(* class). Types are values: the completion of a structure type does not    *)
(* reach the pointers made to it before.                                   *)
(***************************************************************************)
EXTENDS Initializers

TypeNode(ty, x) == AstNode("type", ty, <<>>, x)
EmptyUnit(scope) ==
    [scope |-> scope, labels |-> 0, vars |-> 0, ids |-> 0, locals |-> <<>>, switch |-> NoSwitch, brk |-> 0,
     cont |-> 0, named |-> <<>>, ret |-> CVoid, inits |-> <<>>, funcs |-> <<>>]
Variable(node) == [k |-> "var", node |-> node, def |-> FALSE, static |-> FALSE]
GlobalVar(name, ty) == AstNode("var", ty, <<>>, [local |-> FALSE, v |-> name])
DeclareLocal(u, name, ty) ==
    LET v == AllocLocal(u, ty) IN PushVarScope(v, name, Variable(LastLocal(v)))
DeclareGlobal(u, name, ty) == PushVarScope(u, name, Variable(GlobalVar(name, ty)))

(***************************************************************************)
(* Specifiers: jcc_parseDeclarationSpecifiers                              *)
(***************************************************************************)
Builtin == {"void", "_Bool", "char", "short", "int", "long", "float", "double", "signed", "unsigned"}
StorageClass == {"typedef", "static", "extern"}
\* The words so far; only long counts twice, signed and unsigned may be repeated.
Counted(words, w) ==
    CASE w \notin words \/ w \in {"signed", "unsigned"} -> words \cup {w}
      [] w = "long" /\ w \in words /\ "long long" \notin words -> words \cup {"long long"}
      [] OTHER -> words \cup {"invalid"}
InvalidType == [k |-> "invalid"]
BuiltinType(w) ==
    LET s == w \ {"int", "signed"}
        u == w \ {"int"}
    IN  CASE w = {"void"} -> CVoid
          [] w = {"_Bool"} -> CType("bool")
          [] w \in {{"char"}, {"signed", "char"}} -> CType("char")
          [] w = {"unsigned", "char"} -> CUnsigned("char")
          [] s = {"short"} -> CType("short")
          [] u = {"unsigned", "short"} -> CUnsigned("short")
          [] w # {} /\ s \in {{}, {"long"}} -> CInt
          [] u \in {{"unsigned"}, {"unsigned", "long"}} -> CUnsigned("int")
          [] s = {"long", "long long"} -> CLong
          [] u = {"unsigned", "long", "long long"} -> CUnsigned("long")
          [] w = {"float"} -> CType("float")
          [] w \in {{"double"}, {"long", "double"}} -> CDouble
          [] OTHER -> InvalidType
\* x: storage classes allowed.
Specifiers(attr) == With("specifiers", [attr |-> attr, store |-> "auto", words |-> {}, ty |-> CInt])
ParseStorageClass ==
    /\ At("specifiers") /\ toks[1].k \in StorageClass
    /\ IF ~Held.attr \/ {Held.store, toks[1].k} \in {{"typedef", "static"}, {"typedef", "extern"}} THEN Reject
       ELSE Ask(<<With("specifiers", [Held EXCEPT !.store = toks[1].k])>>, 1)
ParseQualifier == AtTok("specifiers", "const") /\ Ask(<<calls[1]>>, 1)
ParseBuiltinType ==
    /\ At("specifiers") /\ toks[1].k \in Builtin
    /\ LET w == Counted(Held.words, toks[1].k)
       IN  IF BuiltinType(w) = InvalidType THEN Reject
           ELSE Ask(<<With("specifiers", [Held EXCEPT !.words = w, !.ty = BuiltinType(w)])>>, 1)
\* A type of the program, unless there was a type already: then the name is what is declared.
UserDefined == toks[1].k \in {"struct", "union", "enum"} \/ (IsTok("id") /\ IsTypename(toks[1]))
ParseUserType ==
    /\ At("specifiers") /\ UserDefined /\ Held.words = {}
    /\ IF IsTok("id") THEN Ask(<<With("specifiers", [Held EXCEPT !.words = {"other"}, !.ty = FindVariable(tu, toks[1].x).ty])>>, 1)
       ELSE Ask(<<With(IF IsTok("enum") THEN "enum" ELSE "record", toks[1].k), With("usertype", Held)>>, 1)
ParsedUserType ==
    /\ At("usertype")
    /\ Continue(<<With("specifiers", [Held EXCEPT !.words = {"other"}, !.ty = nodes[1].ty])>>, 0, Below(1), tu)
ParsedSpecifiers ==
    /\ At("specifiers") /\ (~IsTypename(toks[1]) \/ (UserDefined /\ Held.words # {}))
    /\ Give(TypeNode(Held.ty, Held.store), 0, 0)

(***************************************************************************)
(* Declarators. The type so far is on the stack; x: without a name.        *)
(***************************************************************************)
Declarator == With("declarator", FALSE)
ReplaceType(items, ty, x, eaten) == Continue(items, eaten, <<TypeNode(ty, x)>> \o Below(1), tu)
Qualifiers(n) == SelectInSeq(SubSeq(toks, n + 1, Len(toks)), LAMBDA t : t.k # "const") - 1
ParsePointer ==
    /\ AtTok("declarator", "*")
    /\ ReplaceType(<<calls[1]>>, PointerTo(nodes[1].ty), Unnamed, 1 + Qualifiers(1))
\* The parenthesis that closes the one before the tokens from n on: jcc_skipParen.
Depth(n) == LET s == SubSeq(toks, 2, n)
            IN  Len(SelectSeq(s, LAMBDA t : t.k = "(")) - Len(SelectSeq(s, LAMBDA t : t.k = ")"))
Closing == {n \in 2 .. Len(toks) : toks[n].k = ")" /\ Depth(n) = -1}
FirstClosing == CHOOSE n \in Closing : \A m \in Closing : n <= m
Opens == IsTok("(")
ParameterList == Opens /\ ~Held /\ (IsTypename(toks[2]) \/ NextIs(")"))
ParseParameterList == At("declarator") /\ ParameterList /\ ReplaceType(<<With("params", <<>>)>>, nodes[1].ty, Unnamed, 1)
\* A declarator in parentheses: what follows them first, then what is in them.
ParseInnerDeclarator ==
    /\ At("declarator") /\ Opens /\ ~ParameterList
    /\ IF Closing = {} THEN Reject
       ELSE Ask(<<Fun("suffix"), With("inside", [abstract |-> Held, from |-> Tail(toks)])>>, FirstClosing)
ParseInside ==
    /\ At("inside")
    /\ toks' = Held.from
    /\ calls' = <<With("declarator", Held.abstract), With("outside", [Held EXCEPT !.from = toks])>> \o Tail(calls)
    /\ UNCHANGED <<nodes, tu>>
\* Whether all that was in the parentheses has been used is only asked of a type name.
ParsedInside ==
    /\ At("outside")
    /\ IF Held.abstract /\ ~IsTok(")") THEN Reject
       ELSE toks' = Held.from /\ calls' = Tail(calls) /\ UNCHANGED <<nodes, tu>>
ParseName ==
    /\ At("declarator") /\ ~IsTok("*") /\ ~Opens
    /\ LET named == IsTok("id") /\ ~Held
       IN  Ask(<<Fun("suffix"), With("named", IF named THEN toks[1].x ELSE Unnamed)>>, IF named THEN 1 ELSE 0)
ParsedName == At("named") /\ ReplaceType(<<>>, nodes[1].ty, Held, 0)

ParseSuffix ==
    /\ At("suffix")
    /\ CASE IsTok("(") -> Ask(<<With("params", <<>>)>>, 1)
         [] IsTok("[") -> Ask(<<Fun("dimension")>>, 1)
         [] ~IsTok("(") /\ ~IsTok("[") -> Ask(<<>>, 0)
\* Parameters: type nodes with the names.
FuncType(ret, params, va) ==
    CFunc(ret, [n \in DOMAIN params |-> params[n].ty], va) @@ [names |-> [n \in DOMAIN params |-> params[n].x]]
ParsedParameters(va, eaten) == ReplaceType(<<>>, FuncType(nodes[1].ty, Held, va), Unnamed, eaten)
ParseParameter ==
    /\ At("params")
    /\ LET n == Comma(Held = <<>>)
       IN  CASE Held = <<>> /\ IsTok("void") /\ NextIs(")") -> ParsedParameters(FALSE, 2)
             [] IsTok(")") -> ParsedParameters(Held = <<>>, 1)
             [] ~IsTok(")") /\ ~Separated(Held = <<>>) -> Reject
             [] Separated(Held = <<>>) /\ TokenAt(n).k = "..." ->
                   IF TokenAt(n + 1).k = ")" THEN ParsedParameters(TRUE, n + 2) ELSE Reject
             [] OTHER -> Ask(<<Specifiers(FALSE), Declarator, With("param", Held)>>, n)
\* Arrays and functions are passed as pointers.
Decayed(ty) == IF ty.k = "array" THEN PointerTo(ty.of) ELSE IF ty.k = "func" THEN PointerTo(ty) ELSE ty
ParsedParameter ==
    /\ At("param")
    /\ Continue(<<With("params", Append(Held, TypeNode(Decayed(nodes[1].ty), nodes[1].x)))>>, 0, Below(1), tu)
\* The dimensions that follow come first; no length is -1.
ParseDimension ==
    /\ At("dimension")
    /\ IF IsTok("]") THEN Ask(<<Fun("suffix"), With("array", AstNumber(CInt, -1))>>, 1)
       ELSE Ask(<<Fun("conditional"), Expect("]"), Fun("length")>>, 0)
ParseLength == At("length") /\ Continue(<<Fun("suffix"), With("array", nodes[1])>>, 0, Below(1), tu)
ParsedArray ==
    /\ At("array")
    /\ IF EvalConst(Held).err THEN Reject ELSE ReplaceType(<<>>, CArray(EvalConst(Held).v, nodes[1].ty), Unnamed, 0)
ParseTypename == At("typename") /\ Ask(<<Specifiers(FALSE), With("declarator", TRUE)>>, 0)

(***************************************************************************)
(* Structures, unions, enumerations                                        *)
(***************************************************************************)
FindTag(u, name) ==
    LET n == SelectInSeq(u.scope, LAMBDA s : name \in DOMAIN s.tags)
    IN  IF n = 0 THEN InvalidType ELSE u.scope[n].tags[name]
AddTag(u, tag, ty) == IF tag = Unnamed THEN u ELSE [u EXCEPT !.scope[1].tags = (tag :> ty) @@ @]
Tag == IF IsTok("id") THEN toks[1].x ELSE Unnamed
Record(kind, id, m, size, al) == [k |-> kind, id |-> id, m |-> m, size |-> size, al |-> al]
NextId(u) == [u EXCEPT !.ids = @ + 1]

AlignTo(n, a) == ((n + a - 1) \div a) * a
NextPowerOf2(n) == CHOOSE p \in {1, 2, 4, 8, 16} : p >= n /\ p < 2 * n
SlotType(bits, u) ==
    LET k == CASE bits = ByteBits -> "char" [] bits = 2 * ByteBits -> "short"
               [] bits = 4 * ByteBits -> "int" [] bits = 8 * ByteBits -> "long"
    IN  IF u THEN CUnsigned(k) ELSE CType(k)
\* Where the next member goes. gep: its index in the IR's type; slot: bits of the word that
\* bit-fields share, used: those taken.
LaidOut(l, m) ==
    LET w     == m.width
        fits  == l.used + w <= l.slot
        bits  == IF fits THEN l.slot ELSE IF w > ByteBits THEN NextPowerOf2(w) ELSE ByteBits
        bytes == bits \div ByteBits
        next  == l.off + l.slot \div ByteBits
        first == [l EXCEPT !.gep = IF l.slot # 0 THEN @ + 1 ELSE @, !.off = AlignTo(next, bytes), !.used = 0, !.slot = bits]
        s     == IF fits THEN l ELSE first
        field == [m EXCEPT !.ty = SlotType(bits, IsUnsignedC(m.ty)), !.gep = s.gep, !.bit = s.used]
        gep   == IF l.used # 0 THEN l.gep + 1 ELSE l.gep
        at    == AlignTo(next, CAlign(m.ty))
    IN  IF w # 0 THEN [s EXCEPT !.used = @ + w, !.m = Append(@, field)]
        ELSE [gep |-> gep + 1, off |-> at + CSize(m.ty), slot |-> 0, used |-> 0,
              m |-> Append(l.m, [m EXCEPT !.gep = gep])]
\* A structure's alignment stays 1, and the last word of bit-fields is not in its size.
StructDeclaration(id, m) ==
    LET l == FoldLeft(LaidOut, [gep |-> 0, off |-> 0, slot |-> 0, used |-> 0, m |-> <<>>], m)
    IN  Record("struct", id, l.m, l.off, 1)
Largest0(s) == CHOOSE x \in s \cup {1} : \A y \in s : x >= y
UnionDeclaration(id, m) ==
    LET al == Largest0({CAlign(m[n].ty) : n \in DOMAIN m})
    IN  Record("union", id, m, AlignTo(Largest0({CSize(m[n].ty) : n \in DOMAIN m}), al), al)
ParseRecord ==
    /\ At("record")
    /\ LET tag  == Tag
           next == TokenAt(IF tag = Unnamed THEN 0 ELSE 1).k
           old  == FindTag(tu, tag)
           new  == Record(Held, tu.ids + 1, <<>>, -1, 1)
       IN  CASE next = "{" ->
                   Continue(<<With("members", [kind |-> Held, id |-> tu.ids + 1, tag |-> tag, m |-> <<>>])>>,
                            IF tag = Unnamed THEN 1 ELSE 2, nodes, NextId(tu))
             [] next # "{" /\ tag = Unnamed -> Reject
             [] next # "{" /\ tag # Unnamed ->
                   IF old # InvalidType THEN Give(TypeNode(old, Unnamed), 0, 1)
                   ELSE GiveIn(AddTag(NextId(tu), tag, new), TypeNode(new, Unnamed), 0, 1)
NewMember(ty, name, width) == [name |-> name, ty |-> ty, gep |-> 0, bit |-> 0, width |-> width]
WithMember(h, m) == [h EXCEPT !.m = Append(@, m)]
ParseMembers == At("members") /\ ~IsTok("}") /\ Ask(<<Specifiers(TRUE), With("memberbase", Held)>>, 0)
ParsedRecord ==
    /\ AtTok("members", "}")
    /\ LET ty == IF Held.kind = "struct" THEN StructDeclaration(Held.id, Held.m) ELSE UnionDeclaration(Held.id, Held.m)
       IN  GiveIn(AddTag(tu, Held.tag, ty), TypeNode(ty, Unnamed), 0, 1)
ParseMemberBase ==
    /\ At("memberbase")
    /\ IF IsRecord(nodes[1].ty) /\ IsTok(";")
       THEN Continue(<<With("members", WithMember(Held, NewMember(nodes[1].ty, Unnamed, 0)))>>, 1, Below(1), tu)
       ELSE Ask(<<With("memberlist", [h |-> Held, first |-> TRUE])>>, 0)
ParseMemberList ==
    /\ At("memberlist")
    /\ IF IsTok(";") THEN Continue(<<With("members", Held.h)>>, 1, Below(1), tu)
       ELSE IF ~Separated(Held.first) THEN Reject
       ELSE Continue(<<Declarator, With("member", Held.h)>>, Comma(Held.first), <<nodes[1]>> \o nodes, tu)
\* The type of the list's members is below the member's own.
ParsedDeclMember ==
    /\ At("member")
    /\ IF IsTok(":") THEN Ask(<<Fun("conditional"), With("width", Held)>>, 1)
       ELSE Continue(<<With("memberlist", [first |-> FALSE,
                            h |-> WithMember(Held, NewMember(nodes[1].ty, nodes[1].x, 0))])>>, 0, Below(1), tu)
ParsedBitField ==
    /\ At("width")
    /\ IF EvalConst(nodes[1]).err THEN Reject
       ELSE Continue(<<With("memberlist", [first |-> FALSE,
                            h |-> WithMember(Held, NewMember(nodes[2].ty, nodes[2].x, EvalConst(nodes[1]).v))])>>,
                     0, Below(2), tu)

CEnum == CType("enum")
ParseEnum ==
    /\ At("enum")
    /\ LET tag  == Tag
           next == TokenAt(IF tag = Unnamed THEN 0 ELSE 1).k
           old  == FindTag(tu, tag)
       IN  CASE next = "{" -> Ask(<<With("enumerators", [tag |-> tag, val |-> 0, first |-> TRUE])>>,
                                  IF tag = Unnamed THEN 1 ELSE 2)
             [] next # "{" /\ (tag = Unnamed \/ (tag # Unnamed /\ IsRecord(old))) -> Reject
             [] next # "{" /\ tag # Unnamed /\ ~IsRecord(old) ->
                   GiveIn(IF old = InvalidType THEN AddTag(tu, tag, CEnum) ELSE tu, TypeNode(CEnum, Unnamed), 0, 1)
ParseEnumerator ==
    /\ At("enumerators")
    /\ LET n == Comma(Held.first)
       IN  CASE EndOfList # 0 -> GiveIn(AddTag(tu, Held.tag, CEnum), TypeNode(CEnum, Unnamed), 0, EndOfList)
             [] EndOfList = 0 /\ (~Separated(Held.first) \/ TokenAt(n).k # "id") -> Reject
             [] EndOfList = 0 /\ Separated(Held.first) /\ TokenAt(n).k = "id" ->
                   LET named == With("enumerator", [h |-> Held, name |-> TokenAt(n).x])
                   IN  IF TokenAt(n + 1).k = "=" THEN Ask(<<Fun("conditional"), named>>, n + 2)
                       ELSE Continue(<<named>>, n + 1, <<AstNumber(CInt, Held.val)>> \o nodes, tu)
ParsedEnumerator ==
    /\ At("enumerator")
    /\ LET c == EvalConst(nodes[1])
           v == Wrap(c.v, CSize(CEnum) * ByteBits, FALSE)
       IN  IF c.err THEN Reject
           ELSE Continue(<<With("enumerators", [Held.h EXCEPT !.val = v + 1, !.first = FALSE])>>, 0, Below(1),
                         PushVarScope(tu, Held.name, Variable(AstNumber(CInt, v))))

(***************************************************************************)
(* Declarations of variables, typedefs, functions                          *)
(***************************************************************************)
ParseForDeclaration == At("declaration") /\ Ask(<<Specifiers(FALSE), With("variables", [kids |-> <<>>, first |-> TRUE])>>, 0)
\* x: in a block.
ParseFile == At("file") /\ IF IsTok("eof") THEN Ask(<<>>, 0) ELSE Ask(<<Specifiers(TRUE), With("external", FALSE), Fun("file")>>, 0)
ParseBlockDeclaration == At("blockdecl") /\ Ask(<<Specifiers(TRUE), With("external", TRUE)>>, 0)
\* A look ahead tells a function from a variable: jcc_isFunction.
LookAhead == With("lookahead", toks)
ParseExternal ==
    /\ At("external")
    /\ LET after == IF Held THEN <<Fun("nothing")>> ELSE <<>>
       IN  IF nodes[1].x = "typedef" THEN Ask(<<With("typedefs", TRUE)>> \o after, 0)
           ELSE IF IsTok(";") THEN Ask(IF Held /\ nodes[1].x # "extern" THEN <<Fun("novariables")>> ELSE <<Fun("extern")>> \o after, 0)
           ELSE Continue(<<Declarator, LookAhead, With("kind", Held)>>, 0, <<TypeNode(CVoid, Unnamed)>> \o nodes, tu)
ParseLookAhead == At("lookahead") /\ toks' = Held /\ calls' = Tail(calls) /\ UNCHANGED <<nodes, tu>>
ParseKind ==
    /\ At("kind")
    /\ LET store == nodes[2].x
           items == CASE nodes[1].ty.k = "func" -> <<Declarator, With("function", store)>>
                      [] nodes[1].ty.k # "func" /\ (~Held \/ store = "extern") -> <<With("globals", TRUE)>>
                      [] OTHER -> <<With("variables", [kids |-> <<>>, first |-> TRUE])>>
           kept  == nodes[1].ty.k = "func" \/ ~Held \/ store = "extern"
       IN  Continue(items \o (IF Held /\ kept THEN <<Fun("nothing")>> ELSE <<>>), 0, Below(1), tu)
\* A declaration that leaves no code.
ParsedNothing == At("nothing") /\ Continue(<<>>, 0, <<Absent>> \o nodes, tu)
ParseNoDeclarator ==
    \/ At("novariables") /\ Continue(<<>>, 1, <<EmptyBlock>> \o Tail(nodes), tu)
    \/ At("extern") /\ Continue(<<>>, 1, Tail(nodes), tu)

\* The specifiers' type stays below while its declarators are parsed.
NextDeclarator(first, items) ==
    IF ~Separated(first) THEN Reject
    ELSE Continue(<<Declarator>> \o items, Comma(first), <<TypeNode(nodes[1].ty, Unnamed)>> \o nodes, tu)
ParseTypedefs ==
    /\ At("typedefs")
    /\ IF IsTok(";") THEN Continue(<<>>, 1, Below(1), tu) ELSE NextDeclarator(Held, <<Fun("typedefname")>>)
ParsedTypedef ==
    /\ At("typedefname")
    /\ IF nodes[1].x = Unnamed THEN Reject
       ELSE Continue(<<With("typedefs", FALSE)>>, 0, Below(1),
                     PushVarScope(tu, nodes[1].x, [k |-> "typedef", ty |-> nodes[1].ty]))
ParseGlobals ==
    /\ At("globals")
    /\ IF IsTok(";") THEN Continue(<<>>, 1, Below(1), tu) ELSE NextDeclarator(Held, <<Fun("globalname")>>)
ParsedGlobal ==
    /\ At("globalname")
    /\ IF nodes[1].x = Unnamed THEN Reject
       ELSE Continue(<<With("globals", FALSE)>>, 0, Below(1), DeclareGlobal(tu, nodes[1].x, nodes[1].ty))
ParseVariables ==
    /\ At("variables")
    /\ IF IsTok(";") THEN Continue(<<>>, 1, <<Stmt("block", Held.kids, 0)>> \o Below(1), tu)
       ELSE NextDeclarator(Held.first, <<With("variable", Held.kids)>>)
\* A variable is known in its own initializer.
Declared(kids) == <<With("variables", [kids |-> kids, first |-> FALSE])>>
ParsedVariable ==
    /\ At("variable")
    /\ LET u == DeclareLocal(tu, nodes[1].x, nodes[1].ty)
       IN  IF nodes[1].ty.k = "void" \/ nodes[1].x = Unnamed THEN Reject
           ELSE IF IsTok("=")
           THEN Continue(<<With("initializer", LastLocal(u)), With("initialized", [kids |-> Held, name |-> nodes[1].x, v |-> Last(u.locals).v])>>,
                         1, Below(1), u)
           ELSE IF CSize(nodes[1].ty) < 0 THEN Reject
           ELSE Continue(Declared(Held), 0, Below(1), u)
\* The initializer's length may have become the variable's.
ParsedInitialized ==
    /\ At("initialized")
    /\ Continue(Declared(Append(Held.kids, Stmt("expr", <<nodes[1]>>, 0))), 0, Below(1),
                PushVarScope(tu, Held.name, Variable(LocalVar(tu, Held.v))))

\* The whole of a function's body is known: its jumps find their labels, or none.
FindFunction(name) ==
    LET vars == Last(tu.scope).vars
    IN  IF name \notin DOMAIN vars THEN Unknown
        ELSE IF vars[name].k = "var" /\ vars[name].node.ty.k = "func" THEN vars[name] ELSE Unknown
FunctionEntity(name, ty, def, store) ==
    [k |-> "var", node |-> GlobalVar(name, ty), def |-> def, static |-> store = "static"]
ParseFunction ==
    /\ At("function")
    /\ LET name  == nodes[1].x
           ty    == nodes[1].ty
           old   == FindFunction(name)
           def   == IsTok("{")
           u     == IF old # Unknown
                    THEN [tu EXCEPT !.scope[Len(tu.scope)].vars[name].def = @ \/ def]
                    ELSE PushVarScope(tu, name, FunctionEntity(name, ty, def, Held))
           twice == old # Unknown /\ ((old.def /\ def) \/ (~old.static /\ Held = "static"))
       IN  IF name = Unnamed \/ twice \/ (~def /\ ~IsTok(";")) THEN Reject
           ELSE IF ~def THEN Continue(<<>>, 1, Below(1), u)
           ELSE Continue(<<With("body", [name |-> name, ty |-> ty])>>, 1, Below(1), [EnterScope(u) EXCEPT !.locals = <<>>])
\* The hidden first parameter takes a structure too large for a register.
RetBuf == "$__retbuf__"
MaxRetvalSize == 8
Parameters(ty) ==
    (IF IsRecord(ty.ret) /\ ty.ret.size > MaxRetvalSize THEN <<TypeNode(PointerTo(ty.ret), RetBuf)>> ELSE <<>>)
    \o [n \in DOMAIN ty.args |-> TypeNode(ty.args[n], ty.names[n])]
ParseFunctionBody ==
    /\ At("body")
    /\ LET params == Parameters(Held.ty)
           u  == FoldLeft(LAMBDA v, p : DeclareLocal(v, p.x, p.ty), tu, params)
           u2 == [u EXCEPT !.locals = <<>>, !.ret = Held.ty.ret]
       IN  IF \E n \in DOMAIN params : params[n].x = Unnamed THEN Reject
           ELSE Continue(<<Fun("compound"), With("definition", Held @@ [params |-> u.locals])>>, 0, nodes,
                         IF Held.ty.va THEN DeclareLocal(u2, "__va_area__", CArray(136, CType("char"))) ELSE u2)
RECURSIVE ResolveGotoLabels(_, _)
ResolveGotoLabels(n, named) ==
    LET hit == SelectInSeq(named, LAMBDA l : l.name = n.x)
    IN  IF n.k = "unresolved" THEN Stmt("goto", <<>>, IF hit = 0 THEN 0 ELSE named[hit].lbl)
        ELSE [n EXCEPT !.a = [i \in DOMAIN n.a |-> ResolveGotoLabels(n.a[i], named)]]
ParsedFunction ==
    /\ At("definition")
    /\ LET f == [name |-> Held.name, ty |-> Held.ty, params |-> Held.params, locals |-> tu.locals,
                 body |-> ResolveGotoLabels(nodes[1], tu.named)]
       IN  Continue(<<>>, 0, Below(1), [LeaveScope(tu) EXCEPT !.funcs = Append(@, f), !.named = <<>>])

ParseTypes ==
    \/ ParseStorageClass \/ ParseQualifier \/ ParseBuiltinType \/ ParseUserType \/ ParsedUserType \/ ParsedSpecifiers
    \/ ParsePointer \/ ParseParameterList \/ ParseInnerDeclarator \/ ParseInside \/ ParsedInside \/ ParseName
    \/ ParsedName \/ ParseSuffix \/ ParseParameter \/ ParsedParameter \/ ParseDimension \/ ParseLength \/ ParsedArray
    \/ ParseTypename \/ ParseRecord \/ ParseMembers \/ ParsedRecord \/ ParseMemberBase \/ ParseMemberList
    \/ ParsedDeclMember \/ ParsedBitField \/ ParseEnum \/ ParseEnumerator \/ ParsedEnumerator
ParseDeclarations ==
    \/ ParseForDeclaration \/ ParseFile \/ ParseBlockDeclaration \/ ParseExternal \/ ParseLookAhead \/ ParseKind
    \/ ParsedNothing \/ ParseNoDeclarator \/ ParseTypedefs \/ ParsedTypedef \/ ParseGlobals \/ ParsedGlobal
    \/ ParseVariables \/ ParsedVariable \/ ParsedInitialized \/ ParseFunction \/ ParseFunctionBody \/ ParsedFunction
ParseNext == ParseStatements \/ ParseExpressions \/ ParseInitializers \/ ParseTypes \/ ParseDeclarations
\* A file: its tokens, and the names it knows.
StartParse(tokens, names) ==
    /\ toks = tokens
    /\ calls = <<Fun("file")>>
    /\ nodes = <<>>
    /\ tu = EmptyUnit(<<[EmptyScope EXCEPT !.vars = names]>>)
=============================================================================

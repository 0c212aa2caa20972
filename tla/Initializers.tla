---------------------------- MODULE Initializers ----------------------------
(***************************************************************************)
(* The parser for initializers (jcc.c): lists with and without braces,      *)
(* designators, arrays whose length the list gives, and the assignments     *)
(* that initialize a local variable.                                       *)
(*                                                                         *)
(* An initializer in the making, the first of tu.inits, is a function from  *)
(* paths to expressions. A path leads from the variable to a part of it,    *)
(* elements and members counted from 1. In a union the path's step is the   *)
(* member that the initializer names or the first.                         *)
(***************************************************************************)
EXTENDS Parser

\* Lists end with a brace or a comma and a brace; elements after the first one follow a comma.
EndOfList == IF IsTok("}") THEN 1 ELSE IF IsTok(",") /\ NextIs("}") THEN 2 ELSE 0
Comma(first) == IF first THEN 0 ELSE 1
Separated(first) == first \/ IsTok(",")
TokenAt(n) == toks[n + 1]

Part(ty, n) == IF ty.k = "array" THEN ty.of ELSE ty.m[n].ty
InitType(p) == FoldLeft(Part, tu.inits[1].ty, p)
NumParts(ty) == IF ty.k = "array" THEN ty.n ELSE Len(ty.m)
StartInit(u, ty) == [u EXCEPT !.inits = <<[ty |-> ty, expr |-> <<>>, member |-> <<>>]>> \o @]
EndInit(u) == [u EXCEPT !.inits = Tail(@)]
SetExpr(u, p, e) == [u EXCEPT !.inits[1].expr = (p :> e) @@ @]
ClearExpr(u, p) == [u EXCEPT !.inits[1].expr = [q \in DOMAIN @ \ {p} |-> @[q]]]
SetMember(u, p, n) == [u EXCEPT !.inits[1].member = (p :> n) @@ @]
Unsized(ty) == ty.k = "array" /\ ty.n < 0
List(p, n, first) == With("list", [p |-> p, n |-> n, first |-> first])
Rest(p, n, first) == With("rest", [p |-> p, n |-> n, first |-> first])
Init1(p) == With("init", p)

(***************************************************************************)
(* jcc_parseInitializer2, by the type of the part                          *)
(***************************************************************************)
ParseArrayInit ==
    /\ At("init") /\ InitType(Held).k = "array"
    /\ IF ~IsTok("{") THEN (IF Unsized(InitType(Held)) THEN Reject ELSE Ask(<<Rest(Held, 1, TRUE)>>, 0))
       ELSE IF ~Unsized(InitType(Held)) THEN Ask(<<List(Held, 1, TRUE)>>, 1)
       ELSE Continue(<<With("count", [n |-> 0, most |-> 0, first |-> TRUE]), With("counted", toks), calls[1]>>, 1, nodes,
                     StartInit(tu, InitType(Held).of))
\* A structure or a union, or else what it begins with.
ParseRecordInit ==
    /\ At("init") /\ IsRecord(InitType(Held))
    /\ CASE ~IsTok("{") -> Ask(<<Fun("assignment"), With("aggregate", [p |-> Held, from |-> toks])>>, 0)
         [] IsTok("{") /\ InitType(Held).k = "struct" -> Ask(<<List(Held, 1, TRUE)>>, 1)
         [] IsTok("{") /\ InitType(Held).k = "union" /\ NextIs(".") ->
               Ask(<<With("designator", [p |-> Held, then |-> "union"]), Expect("}")>>, 1)
         [] IsTok("{") /\ InitType(Held).k = "union" /\ ~NextIs(".") ->
               Continue(<<Init1(Append(Held, 1)), Fun("maybecomma"), Expect("}")>>, 1, nodes, SetMember(tu, Held, 1))
ParseMaybeComma == At("maybecomma") /\ Ask(<<>>, IF IsTok(",") THEN 1 ELSE 0)
ParseAggregate ==
    /\ At("aggregate")
    /\ LET p  == Held.p
           ty == InitType(p)
       IN  IF nodes[1].ty.k = ty.k THEN Continue(<<>>, 0, Below(1), SetExpr(tu, p, nodes[1]))
           ELSE IF ty.m = <<>> THEN Reject
           ELSE /\ calls' = <<IF ty.k = "struct" THEN Rest(p, 1, TRUE) ELSE Init1(Append(p, 1))>> \o Tail(calls)
                /\ toks' = Held.from
                /\ nodes' = Below(1)
                /\ tu' = IF ty.k = "struct" THEN tu ELSE SetMember(tu, p, 1)
ParseScalarInit ==
    /\ At("init") /\ InitType(Held).k # "array" /\ ~IsRecord(InitType(Held))
    /\ IF IsTok("{") THEN Ask(<<Init1(Held), Expect("}")>>, 1) ELSE Ask(<<Fun("assignment"), With("store", Held)>>, 0)
ParsedScalarInit == At("store") /\ Continue(<<>>, 0, Below(1), SetExpr(tu, Held, nodes[1]))

(***************************************************************************)
(* Lists. In braces any part may be designated and what is too much is       *)
(* skipped; without, the list ends where the parts do.                      *)
(***************************************************************************)
Designates(ty) == IF ty.k = "array" THEN "[" ELSE "."
ParseInitList ==
    /\ At("list")
    /\ LET p == Held.p
           c == Comma(Held.first)
       IN  CASE EndOfList # 0 -> Ask(<<>>, EndOfList)
             [] EndOfList = 0 /\ ~Separated(Held.first) -> Reject
             [] EndOfList = 0 /\ Separated(Held.first) /\ TokenAt(c).k = Designates(InitType(p)) ->
                   Ask(<<With("designator", [p |-> p, then |-> "list"])>>, c)
             [] OTHER -> Ask(IF Held.n <= NumParts(InitType(p)) THEN <<Init1(Append(p, Held.n)), List(p, Held.n + 1, FALSE)>>
                             ELSE <<Fun("excess"), List(p, Held.n, FALSE)>>, c)
ParseInitRest ==
    /\ At("rest")
    /\ LET c == Comma(Held.first)
       IN  IF Held.n > NumParts(InitType(Held.p)) \/ EndOfList # 0 THEN Ask(<<>>, 0)
           ELSE IF ~Separated(Held.first) THEN Reject
           ELSE IF TokenAt(c).k \in {"[", "."} THEN Ask(<<>>, 0)
           ELSE Ask(<<Init1(Append(Held.p, Held.n)), Rest(Held.p, Held.n + 1, FALSE)>>, c)
ParseExcess ==
    /\ At("excess")
    /\ Ask(IF IsTok("{") THEN <<Fun("excess"), Expect("}")>> ELSE <<Fun("assignment"), Fun("drop")>>, IF IsTok("{") THEN 1 ELSE 0)
ParsedExcess == At("drop") /\ Continue(<<>>, 0, Below(1), tu)

(***************************************************************************)
(* Designators                                                             *)
(***************************************************************************)
\* A member, also of a structure without a name: then the name is looked up there again.
DesignatedMember(ty, name) ==
    SelectInSeq(ty.m, LAMBDA m : m.name = name \/ (m.ty.k = "struct" /\ m.name = Unnamed /\ AstMember(m.ty, name) # <<>>))
ParseDesignator ==
    /\ At("designator")
    /\ LET p  == Held.p
           ty == InitType(p)
           n  == DesignatedMember(ty, toks[2].x)
           child == With("designation", Append(p, n))
       IN  CASE ty.k = "array" -> Ask(<<Fun("conditional"), With("from", Held)>>, 1)
             [] IsRecord(ty) /\ (toks[2].k # "id" \/ (toks[2].k = "id" /\ n = 0)) -> Reject
             [] ty.k = "struct" /\ toks[2].k = "id" /\ n # 0 ->
                   Ask(IF Held.then = "list" THEN <<child, List(p, n + 1, FALSE)>>
                       ELSE <<child, With("undo", p), Rest(p, n + 1, TRUE)>>, IF ty.m[n].name = Unnamed THEN 0 ELSE 2)
             [] ty.k = "union" /\ toks[2].k = "id" /\ n # 0 -> Continue(<<child>>, 2, nodes, SetMember(tu, p, n))
\* The structure as a whole has no expression any more once a member has its own.
ParsedStructDesignation == At("undo") /\ Continue(<<>>, 0, nodes, ClearExpr(tu, Held))
InRange(c, ty) == ~c.err /\ c.v < ty.n
Each(h, from, to) == With("each", [h |-> h, first |-> from, n |-> from, last |-> to])
ParseRangeFrom ==
    /\ At("from")
    /\ LET c == EvalConst(nodes[1])
       IN  IF ~InRange(c, InitType(Held.p)) THEN Reject
           ELSE Continue(IF IsTok("...") THEN <<Fun("conditional"), With("to", [h |-> Held, from |-> c.v + 1])>>
                         ELSE <<Expect("]"), Each(Held, c.v + 1, c.v + 1)>>,
                         IF IsTok("...") THEN 1 ELSE 0, Below(1), tu)
ParseRangeTo ==
    /\ At("to")
    /\ LET c == EvalConst(nodes[1])
       IN  IF ~InRange(c, InitType(Held.h.p)) \/ c.v + 1 < Held.from THEN Reject
           ELSE Continue(<<Expect("]"), Each(Held.h, Held.from, c.v + 1)>>, 0, Below(1), tu)
\* Each element of the range is initialized from the same tokens.
ParseEach ==
    /\ At("each")
    /\ LET again == <<With("again", [h |-> Held, from |-> toks])>>
           p     == Held.h.p
       IN  Ask(<<With("designation", Append(p, Held.n))>> \o
               (IF Held.n < Held.last THEN again
                ELSE IF Held.h.then = "list" THEN <<List(p, Held.last + 1, FALSE)>>
                ELSE <<Rest(p, Held.first + 1, FALSE)>>), 0)
ParseAgain_Stays ==
    /\ At("again")
    /\ toks' = Held.from
    /\ calls' = <<With("each", Held.h)>> \o Tail(calls)
    /\ UNCHANGED <<nodes, tu>>
ParseAgain ==
    /\ At("again")
    /\ toks' = Held.from
    /\ calls' = <<With("each", [Held.h EXCEPT !.n = @ + 1])>> \o Tail(calls)
    /\ UNCHANGED <<nodes, tu>>
\* What a designator is followed by: another one, or an equal sign, which may be missing.
ParseDesignation ==
    /\ At("designation")
    /\ LET ty == InitType(Held)
           of == (ty.k = "array" /\ IsTok("[")) \/ (IsRecord(ty) /\ IsTok("."))
       IN  IF of THEN Ask(<<With("designator", [p |-> Held, then |-> "rest"])>>, 0)
           ELSE IF IsTok("[") \/ IsTok(".") THEN Reject
           ELSE Ask(<<Init1(Held)>>, IF IsTok("=") THEN 1 ELSE 0)

(***************************************************************************)
(* An array without a length has as many elements as its list: the list is   *)
(* parsed a first time into one element.                                    *)
(***************************************************************************)
ParseCount ==
    /\ At("count")
    /\ LET c == Comma(Held.first)
       IN  CASE EndOfList # 0 -> Continue(<<>>, 0, <<AstNumber(CInt, Held.most)>> \o nodes, EndInit(tu))
             [] EndOfList = 0 /\ ~Separated(Held.first) -> Reject
             [] EndOfList = 0 /\ Separated(Held.first) ->
                   IF TokenAt(c).k = "[" THEN Ask(<<Fun("conditional"), With("countfrom", Held)>>, c + 1)
                   ELSE Ask(<<Init1(<<>>), With("counting", Held)>>, c)
ParseCountFrom ==
    /\ At("countfrom")
    /\ LET c == EvalConst(nodes[1])
       IN  IF c.err THEN Reject
           ELSE Continue(<<Expect("]"), With("designation", <<>>), With("counting", [Held EXCEPT !.n = c.v])>>, 0, Below(1), tu)
ParseCounting ==
    /\ At("counting")
    /\ LET n == Held.n + 1
       IN  Ask(<<With("count", [n |-> n, most |-> IF n > Held.most THEN n ELSE Held.most, first |-> FALSE])>>, 0)
ParsedCount ==
    /\ At("counted")
    /\ toks' = Held
    /\ calls' = Tail(calls)
    /\ nodes' = Below(1)
    /\ tu' = [tu EXCEPT !.inits[1].ty.n = nodes[1].x]

(***************************************************************************)
(* The initializer as assignments to the variable's parts, in their order,  *)
(* after the whole has been set to zero: jcc_parseLocalVarInitializer       *)
(***************************************************************************)
RECURSIVE CreateLocalVarInitializer(_, _, _)
CreateLocalVarInitializer(i, p, e) ==
    LET ty   == e.ty
        all  == CASE ty.k = "array" -> [n \in 1 .. ty.n |-> n]
                  [] ty.k = "struct" -> [n \in DOMAIN ty.m |-> n]
                  [] ty.k = "union" -> IF p \in DOMAIN i.member THEN <<i.member[p]>> ELSE <<>>
                  [] OTHER -> <<>>
        Place1(n) == IF ty.k = "array" THEN AstDeref(AstAdd(e, AstNumber(CInt, n - 1)))
                     ELSE AstNode("member", ty.m[n].ty, <<e>>, ty.m[n])
    IN  IF p \in DOMAIN i.expr THEN AstAssign(e, i.expr[p])
        ELSE FoldLeft(LAMBDA acc, n : AstComma(acc, CreateLocalVarInitializer(i, Append(p, n), Place1(n))), AstNull, all)
LocalInit(i, e) ==
    LET set == CreateLocalVarInitializer(i, <<>>, e)
    IN  IF TypeIsNumeric(e.ty) \/ e.ty.k = "ptr" THEN set ELSE AstComma([e EXCEPT !.k = "memzero"], set)
ParseInitializer == At("initializer") /\ Continue(<<Init1(<<>>), With("assigned", Held.x)>>, 0, nodes, StartInit(tu, Held.ty))
ParsedInitializer ==
    /\ At("assigned")
    /\ LET i == tu.inits[1]
           v == AstNode("var", i.ty, <<>>, Held)
       IN  GiveIn(ResizeLocal(EndInit(tu), Held.v, i.ty), LocalInit(i, v), 0, 0)

ParseInitializers ==
    \/ ParseArrayInit \/ ParseRecordInit \/ ParseMaybeComma \/ ParseAggregate \/ ParseScalarInit \/ ParsedScalarInit
    \/ ParseInitList \/ ParseInitRest \/ ParseExcess \/ ParsedExcess \/ ParseDesignator \/ ParsedStructDesignation
    \/ ParseRangeFrom \/ ParseRangeTo \/ ParseEach \/ ParseAgain \/ ParseDesignation \/ ParseCount \/ ParseCountFrom
    \/ ParseCounting \/ ParsedCount \/ ParseInitializer \/ ParsedInitializer
=============================================================================

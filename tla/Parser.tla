------------------------------- MODULE Parser -------------------------------
(***************************************************************************)
(* The parser for statements and expressions (jcc.c): a recursive descent,  *)
(* one action per parse function and one for what a function does when a    *)
(* function it called has returned.                                        *)
(*                                                                         *)
(* The recursion is a list of calls still to be made or finished, the trees *)
(* parsed and not yet used are on a stack. An error, which the code passes  *)
(* up through all its callers, ends the parse at once with no tree.         *)
(***************************************************************************)
EXTENDS CTypes, TLC

VARIABLES
    toks,     \* the tokens not yet consumed, an "eof" last
    calls,    \* what is left of the functions being parsed
    nodes,    \* trees, the last one first
    tu        \* the translation unit: scopes, labels, the statement jumps refer to, locals
parseVars == <<toks, calls, nodes, tu>>

(***************************************************************************)
(* Tokens: [k] with x and ty where the kind has a value                     *)
(***************************************************************************)
IsTok(k) == toks[1].k = k
NextIs(k) == Len(toks) > 1 /\ toks[2].k = k
TypeWords == {"void", "_Bool", "char", "short", "int", "long", "float", "double", "signed", "unsigned",
              "struct", "union", "enum", "const", "static", "extern", "typedef"}

(***************************************************************************)
(* Scopes, the innermost first: what a name stands for, [k, node] for a     *)
(* variable or an enumeration constant, [k, ty] for a typedef, and tags.    *)
(***************************************************************************)
EmptyScope == [vars |-> <<>>, tags |-> <<>>]
EnterScope(u) == [u EXCEPT !.scope = <<EmptyScope>> \o @]
LeaveScope(u) == [u EXCEPT !.scope = Tail(@)]
PushVarScope(u, name, e) == [u EXCEPT !.scope[1].vars = (name :> e) @@ @]
Unknown == [k |-> "unknown"]
FindVariable(u, name) ==
    LET n == SelectInSeq(u.scope, LAMBDA s : name \in DOMAIN s.vars)
    IN  IF n = 0 THEN Unknown ELSE u.scope[n].vars[name]
IsTypename(t) == t.k \in TypeWords \/ (t.k = "id" /\ FindVariable(tu, t.x).k = "typedef")

NewLabel(u) == u.labels + 1
WithLabels(u, n) == [u EXCEPT !.labels = @ + n]
NoSwitch == [break |-> 0, cases |-> <<>>, default |-> 0]
\* A local variable gets a number of its own.
AllocLocal(u, ty) == [u EXCEPT !.locals = Append(@, [v |-> u.vars + 1, ty |-> ty]), !.vars = @ + 1]
LocalAt(u, n) == AstNode("var", u.locals[n].ty, <<>>, [local |-> TRUE, v |-> u.locals[n].v])
LastLocal(u) == LocalAt(u, Len(u.locals))
LocalIndex(u, v) == SelectInSeq(u.locals, LAMBDA l : l.v = v)
LocalVar(u, v) == LocalAt(u, LocalIndex(u, v))
ResizeLocal(u, v, ty) == [u EXCEPT !.locals[LocalIndex(u, v)].ty = ty]

(***************************************************************************)
(* Calls                                                                   *)
(***************************************************************************)
Fun(f) == [f |-> f, x |-> 0]
With(f, x) == [f |-> f, x |-> x]
Expect(k) == With("expect", k)
At(f) == calls # <<>> /\ calls[1].f = f
Held == calls[1].x
AtTok(f, k) == At(f) /\ IsTok(k)
Reject == calls' = <<>> /\ nodes' = <<AstNull>> /\ UNCHANGED <<toks, tu>>
\* Tokens are consumed, the call becomes others.
Continue(items, eaten, stack, u) ==
    /\ calls' = items \o Tail(calls)
    /\ toks' = SubSeq(toks, eaten + 1, Len(toks))
    /\ nodes' = stack
    /\ tu' = u
Ask(items, eaten) == Continue(items, eaten, nodes, tu)
\* The call returns a tree made of the last ones.
Below(taken) == SubSeq(nodes, taken + 1, Len(nodes))
GiveIn(u, n, taken, eaten) ==
    IF IsNull(n) THEN Reject ELSE Continue(<<>>, eaten, <<n>> \o Below(taken), u)
Give(n, taken, eaten) == GiveIn(tu, n, taken, eaten)
Stmt(k, a, x) == AstNode(k, CVoid, a, x)
EmptyBlock == Stmt("block", <<>>, 0)
Absent == Stmt("none", <<>>, 0)

ParseExpect == At("expect") /\ IF IsTok(Held) THEN Ask(<<>>, 1) ELSE Reject
\* An expression that may be missing before a token.
ParseOptional ==
    /\ At("optional")
    /\ IF IsTok(Held) THEN Continue(<<>>, 1, <<Absent>> \o nodes, tu) ELSE Ask(<<Fun("expression"), Expect(Held)>>, 0)

(***************************************************************************)
(* Statements: jcc_parseStatement                                          *)
(***************************************************************************)
ParseReturn == /\ AtTok("statement", "return")
               /\ Ask(<<With("optional", ";"), Fun("return")>>, 1)
AstReturn(e) == Stmt("return", <<IF IsNull(e) \/ IsRecord(tu.ret) THEN e ELSE AstCast(e, tu.ret)>>, 0)
ParsedReturn == At("return") /\ Give(AstReturn(nodes[1]), 1, 0)

InParens == <<Expect("("), Fun("expression"), Expect(")")>>
ParseIf == AtTok("statement", "if") /\ Ask(InParens \o <<Fun("statement"), Fun("else")>>, 1)
ParseElse == At("else") /\ IF IsTok("else") THEN Ask(<<Fun("statement"), Fun("if")>>, 1)
                           ELSE Continue(<<Fun("if")>>, 0, <<Absent>> \o nodes, tu)
\* Labels: then, else, end.
ThreeLabels(u) == <<u.labels + 1, u.labels + 2, u.labels + 3>>
ParsedIf == /\ At("if")
            /\ GiveIn(WithLabels(tu, 3), Stmt("if", <<nodes[3], nodes[2], nodes[1]>>, ThreeLabels(tu)), 3, 0)

\* The jumps of a body go to new places until it ends.
Jumps(u) == [brk |-> u.brk, cont |-> u.cont]
RestoreJumps_BreakOnly(u, j) == [u EXCEPT !.brk = j.brk]
RestoreJumps(u, j) == [u EXCEPT !.brk = j.brk, !.cont = j.cont]
ParseSwitch == AtTok("statement", "switch") /\ Ask(InParens \o <<Fun("switch")>>, 1)
ParseSwitchStatement ==
    /\ At("switch")
    /\ Continue(<<Fun("statement"), With("endswitch", [switch |-> tu.switch, brk |-> tu.brk])>>, 0, nodes,
                [WithLabels(tu, 1) EXCEPT !.brk = NewLabel(tu), !.switch = [NoSwitch EXCEPT !.break = NewLabel(tu)]])
ParsedSwitch ==
    /\ At("endswitch")
    /\ GiveIn([tu EXCEPT !.switch = Held.switch, !.brk = Held.brk],
              Stmt("switch", <<nodes[2], nodes[1]>>, tu.switch), 2, 0)
ParseCase ==
    /\ AtTok("statement", "case")
    /\ IF tu.switch = NoSwitch THEN Reject ELSE Ask(<<Fun("conditional"), Expect(":"), Fun("case")>>, 1)
ParseCaseBody ==
    /\ At("case")
    /\ LET c == EvalConst(nodes[1])
       IN  IF c.err THEN Reject
           ELSE Continue(<<Fun("statement"), With("endcase", [c |-> c.v, lbl |-> NewLabel(tu)])>>, 0, Below(1),
                         WithLabels(tu, 1))
\* The list of a switch's cases grows at its head, once a case's statement is parsed.
ParsedCase ==
    /\ At("endcase")
    /\ GiveIn([tu EXCEPT !.switch.cases = <<Held>> \o @], Stmt("case", <<nodes[1]>>, Held.lbl), 1, 0)
ParseDefault ==
    /\ AtTok("statement", "default")
    /\ IF tu.switch = NoSwitch THEN Reject ELSE Ask(<<Expect(":"), Fun("default")>>, 1)
ParseDefaultBody ==
    /\ At("default")
    /\ Continue(<<Fun("statement"), With("enddefault", NewLabel(tu))>>, 0, nodes, WithLabels(tu, 1))
ParsedDefault ==
    /\ At("enddefault")
    /\ GiveIn([tu EXCEPT !.switch.default = Held], Stmt("case", <<nodes[1]>>, Held), 1, 0)

\* Labels of a loop: break, continue, body, in this order.
LoopLabels(l) == <<l[3], l[2], l[1]>>
InLoop(u, l) == [u EXCEPT !.brk = l[1], !.cont = l[2]]
ParseFor == AtTok("statement", "for") /\ Ask(<<Expect("("), Fun("for")>>, 1)
ParseForHead ==
    /\ At("for")
    /\ Continue(<<Fun(IF IsTypename(toks[1]) THEN "declaration" ELSE "exprstmt"),
                  With("optional", ";"), With("optional", ")"), With("forbody", ThreeLabels(tu))>>, 0, nodes,
                EnterScope(WithLabels(tu, 3)))
ParseForBody ==
    /\ At("forbody")
    /\ Continue(<<Fun("statement"), With("endfor", [l |-> Held, j |-> Jumps(tu)])>>, 0, nodes, InLoop(tu, Held))
ParsedFor ==
    /\ At("endfor")
    /\ GiveIn(LeaveScope(RestoreJumps(tu, Held.j)),
              Stmt("for", <<nodes[4], nodes[3], nodes[2], nodes[1]>>, LoopLabels(Held.l)), 4, 0)
ParseWhile == AtTok("statement", "while") /\ Ask(InParens \o <<Fun("while")>>, 1)
ParseWhileBody ==
    /\ At("while")
    /\ Continue(<<Fun("statement"), With("endwhile", [l |-> ThreeLabels(tu), j |-> Jumps(tu)])>>, 0, nodes,
                InLoop(WithLabels(tu, 3), ThreeLabels(tu)))
ParsedWhile ==
    /\ At("endwhile")
    /\ GiveIn(RestoreJumps(tu, Held.j), Stmt("for", <<Absent, nodes[2], Absent, nodes[1]>>, LoopLabels(Held.l)), 2, 0)
ParseDo ==
    /\ AtTok("statement", "do")
    /\ Continue(<<Fun("statement"), With("dowhile", [l |-> ThreeLabels(tu), j |-> Jumps(tu)])>>, 1, nodes,
                InLoop(WithLabels(tu, 3), ThreeLabels(tu)))
\* The condition of a do is outside the loop again.
ParseDoCondition ==
    /\ At("dowhile")
    /\ Continue(<<Expect("while")>> \o InParens \o <<Expect(";"), With("enddo", Held.l)>>, 0, nodes,
                RestoreJumps(tu, Held.j))
ParsedDo == At("enddo") /\ Give(Stmt("do", <<nodes[2], nodes[1]>>, LoopLabels(Held)), 2, 0)

ParseGoto == /\ AtTok("statement", "goto")
             /\ IF NextIs("id") THEN Continue(<<Expect(";")>>, 2, <<Stmt("unresolved", <<>>, toks[2].x)>> \o nodes, tu)
                ELSE Reject
JumpTo(lbl) == IF lbl = 0 THEN Reject
               ELSE Continue(<<Expect(";")>>, 1, <<Stmt("goto", <<>>, lbl)>> \o nodes, tu)
ParseBreak == AtTok("statement", "break") /\ JumpTo(tu.brk)
ParseContinue == AtTok("statement", "continue") /\ JumpTo(tu.cont)
AtLabel == AtTok("statement", "id") /\ NextIs(":")
ParseLabel ==
    /\ AtLabel
    /\ Continue(<<Fun("statement"), With("endlabel", [name |-> toks[1].x, lbl |-> NewLabel(tu)])>>, 2, nodes,
                WithLabels(tu, 1))
ParsedLabel ==
    /\ At("endlabel")
    /\ GiveIn([tu EXCEPT !.named = <<Held>> \o @], Stmt("label", <<nodes[1]>>, Held.lbl), 1, 0)
ParseBlock == AtTok("statement", "{") /\ Ask(<<Fun("compound")>>, 1)
StatementWords == {"return", "if", "switch", "case", "default", "for", "while", "do", "goto", "break", "continue", "{"}
ParseExprAsStatement ==
    At("statement") /\ toks[1].k \notin StatementWords /\ ~AtLabel /\ Ask(<<Fun("exprstmt")>>, 0)
ParseExpressionStatement ==
    /\ At("exprstmt")
    /\ IF IsTok(";") THEN Give(EmptyBlock, 0, 1) ELSE Ask(<<Fun("expression"), Expect(";"), Fun("expr")>>, 0)
ParsedExpressionStatement == At("expr") /\ Give(Stmt("expr", <<nodes[1]>>, 0), 1, 0)

ParseCompoundStatement == At("compound") /\ Continue(<<With("items", <<>>)>>, 0, nodes, EnterScope(tu))
\* Children so far are in the call; a declaration that leaves no code leaves Absent.
ParseItem ==
    /\ At("items") /\ ~IsTok("}")
    /\ Ask(<<Fun(IF IsTypename(toks[1]) /\ ~NextIs(":") THEN "blockdecl" ELSE "statement"),
             With("keep", Held)>>, 0)
ParsedItem ==
    /\ At("keep")
    /\ Continue(<<With("items", IF IsNull(nodes[1]) THEN Held ELSE Append(Held, nodes[1]))>>, 0, Below(1), tu)
ParsedCompound == AtTok("items", "}") /\ GiveIn(LeaveScope(tu), Stmt("block", Held, 0), 0, 1)

(***************************************************************************)
(* Expressions                                                             *)
(***************************************************************************)
ParseExpression == At("expression") /\ Ask(<<Fun("assignment"), Fun("comma")>>, 0)
ParseComma == At("comma") /\ IF IsTok(",") THEN Ask(<<Fun("expression"), Fun("endcomma")>>, 1) ELSE Ask(<<>>, 0)
ParsedComma == At("endcomma") /\ Give(AstComma(nodes[2], nodes[1]), 2, 0)

AssignOps == [o \in {"=", "+=", "-=", "*=", "/=", "%=", "&=", "|=", "^=", "<<=", ">>="} |->
                CASE o = "=" -> "assign" [] o = "+=" -> "add" [] o = "-=" -> "sub" [] o = "*=" -> "mul"
                  [] o = "/=" -> "div" [] o = "%=" -> "mod" [] o = "&=" -> "and" [] o = "|=" -> "or"
                  [] o = "^=" -> "xor" [] o = "<<=" -> "shl" [] o = ">>=" -> "shr"]
ParseAssignment == At("assignment") /\ Ask(<<Fun("conditional"), Fun("assign")>>, 0)
ParseAssignOp ==
    /\ At("assign")
    /\ IF toks[1].k \in DOMAIN AssignOps THEN Ask(<<Fun("assignment"), With("endassign", AssignOps[toks[1].k])>>, 1)
       ELSE Ask(<<>>, 0)
ParsedAssignment ==
    /\ At("endassign")
    /\ Give(IF Held = "assign" THEN AstAssign(nodes[2], nodes[1]) ELSE AstOpAssign(Held, nodes[2], nodes[1]), 2, 0)

ParseConditional == At("conditional") /\ Ask(<<With("binary", 1), Fun("question")>>, 0)
ParseQuestion == /\ At("question")
                 /\ IF IsTok("?") THEN Ask(<<Fun("expression"), Expect(":"), Fun("conditional"), Fun("endcond")>>, 1)
                    ELSE Ask(<<>>, 0)
ParsedConditional == At("endcond") /\ Give(AstCond(nodes[3], nodes[2], nodes[1]), 3, 0)

\* The binary operators, level by level, from those that bind least.
Levels == << [o \in {"||"} |-> "lor"], [o \in {"&&"} |-> "land"], [o \in {"|"} |-> "or"], [o \in {"^"} |-> "xor"],
             [o \in {"&"} |-> "and"], [o \in {"==", "!="} |-> IF o = "==" THEN "eq" ELSE "ne"],
             [o \in {"<", "<=", ">", ">="} |-> CASE o = "<" -> "lt" [] o = "<=" -> "le" [] o = ">" -> "gt" [] o = ">=" -> "ge"],
             [o \in {"<<", ">>"} |-> IF o = "<<" THEN "shl" ELSE "shr"],
             [o \in {"+", "-"} |-> IF o = "+" THEN "add" ELSE "sub"],
             [o \in {"*", "/", "%"} |-> CASE o = "*" -> "mul" [] o = "/" -> "div" [] o = "%" -> "mod"] >>
Level(n) == IF n > Len(Levels) THEN Fun("cast") ELSE With("binary", n)
ParseBinary == At("binary") /\ Ask(<<Level(Held + 1), With("more", Held)>>, 0)
ParseOperator ==
    /\ At("more")
    /\ IF toks[1].k \in DOMAIN Levels[Held]
       THEN Ask(<<Level(Held + 1), With("operator", Levels[Held][toks[1].k]), With("more", Held)>>, 1)
       ELSE Ask(<<>>, 0)
\* l > r is r < l.
AstOperator(k, l, r) ==
    CASE k = "add" -> AstAdd(l, r) [] k = "sub" -> AstSub(l, r)
      [] k = "gt" -> AstBinary("lt", r, l) [] k = "ge" -> AstBinary("le", r, l)
      [] OTHER -> AstBinary(k, l, r)
ParsedOperator == At("operator") /\ Give(AstOperator(Held, nodes[2], nodes[1]), 2, 0)

TypeInParens == IsTok("(") /\ Len(toks) > 1 /\ IsTypename(toks[2])
ParseCast == /\ At("cast")
             /\ IF TypeInParens THEN Ask(<<Fun("typename"), Expect(")"), With("castor", toks)>>, 1)
                ELSE Ask(<<Fun("unary")>>, 0)
\* A type in parentheses before a brace is a literal after all: back to the parenthesis.
ParseCastOperand ==
    /\ At("castor")
    /\ IF IsTok("{")
       THEN toks' = Held /\ calls' = <<Fun("unary")>> \o Tail(calls) /\ nodes' = Below(1) /\ tu' = tu
       ELSE Ask(<<Fun("cast"), Fun("endcast")>>, 0)
ParsedCast == At("endcast") /\ Give(AstCast(nodes[1], nodes[2].ty), 2, 0)

UnaryOps == [o \in {"-", "&", "*", "!", "~"} |->
               CASE o = "-" -> "neg" [] o = "&" -> "addr" [] o = "*" -> "deref" [] o = "!" -> "not" [] o = "~" -> "bnot"]
ParseUnary ==
    /\ At("unary")
    /\ CASE IsTok("+") -> Ask(<<Fun("cast")>>, 1)
         [] toks[1].k \in DOMAIN UnaryOps -> Ask(<<Fun("cast"), With("endunary", UnaryOps[toks[1].k])>>, 1)
         [] IsTok("++") \/ IsTok("--") -> Ask(<<Fun("unary"), With("prefix", IF IsTok("++") THEN "add" ELSE "sub")>>, 1)
         [] OTHER -> Ask(<<Fun("postfix")>>, 0)
ParsedUnary == At("endunary") /\ Give(AstUnary(Held, nodes[1]), 1, 0)
ParsedPrefix == At("prefix") /\ Give(AstOpAssign(Held, nodes[1], AstNumber(CInt, 1)), 1, 0)

ParsePostfix ==
    /\ At("postfix")
    /\ IF TypeInParens THEN Ask(<<Fun("typename"), Expect(")"), Fun("literal")>>, 1)
       ELSE Ask(<<Fun("primary"), Fun("tail")>>, 0)
\* The variable of a compound literal is initialized where the literal stands.
ParseLiteral ==
    /\ At("literal")
    /\ LET u == AllocLocal(tu, nodes[1].ty)
       IN  Continue(<<With("initializer", LastLocal(u)), With("endliteral", Last(u.locals).v)>>, 0, Below(1), u)
ParsedLiteral == At("endliteral") /\ Give(AstComma(nodes[1], LocalVar(tu, Held)), 1, 0)

Function(ty) == IF ty.k = "ptr" THEN ty.of ELSE ty
ParseFuncCall == /\ AtTok("tail", "(")
                 /\ IF Function(nodes[1].ty).k = "func" THEN Ask(<<With("args", 0), Fun("tail")>>, 1) ELSE Reject
Called(n) == Function(nodes[n + 1].ty)       \* below n arguments
ParseArgument ==
    /\ At("args") /\ ~IsTok(")")
    /\ IF Held = 0 \/ IsTok(",") THEN Ask(<<Fun("assignment"), With("arg", Held)>>, IF Held = 0 THEN 0 ELSE 1)
       ELSE Reject
\* An argument is converted to its parameter's type, unless that is a structure.
Passed(ft, n, e) ==
    CASE n > Len(ft.args) /\ ~ft.va -> AstNull
      [] n > Len(ft.args) /\ ft.va -> IF e.ty.k = "float" THEN AstCast(e, CDouble) ELSE e
      [] n <= Len(ft.args) -> IF IsRecord(ft.args[n]) THEN e ELSE AstCast(e, ft.args[n])
ParsedArgument ==
    /\ At("arg")
    /\ LET e == Passed(Called(Held + 1), Held + 1, nodes[1])
       IN  IF IsNull(e) THEN Reject ELSE Continue(<<With("args", Held + 1)>>, 0, <<e>> \o Below(1), tu)
ParsedFuncCall ==
    /\ AtTok("args", ")")
    /\ IF Held < Len(Called(Held).args) THEN Reject
       ELSE Give(AstNode("call", Called(Held).ret, <<nodes[Held + 1]>> \o Reverse(SubSeq(nodes, 1, Held)), 0), Held + 1, 1)

ParseIndex == AtTok("tail", "[") /\ Ask(<<Fun("expression"), Expect("]"), Fun("index"), Fun("tail")>>, 1)
ParsedIndex == At("index") /\ Give(AstDeref(AstGep(nodes[2], nodes[1])), 2, 0)
\* Loops of the postfix operators: the tree is replaced, the tail goes on.
Replace(n, eaten) ==
    IF IsNull(n) THEN Reject ELSE Continue(<<Fun("tail")>>, eaten, <<n>> \o Below(1), tu)
ParseMember == AtTok("tail", ".") /\ Replace(AstStructMember(nodes[1], toks[2].x), 2)
ParseArrow == /\ AtTok("tail", "->")
              /\ LET d == AstDeref(nodes[1])
                 IN  Replace(IF IsNull(d) THEN d ELSE AstStructMember(d, toks[2].x), 2)
ParseIncDec == /\ At("tail") /\ (IsTok("++") \/ IsTok("--"))
               /\ Replace(AstIncDec(nodes[1], IF IsTok("++") THEN 1 ELSE -1), 1)
ParseTailEnd == At("tail") /\ toks[1].k \notin {"(", "[", ".", "->", "++", "--"} /\ Ask(<<>>, 0)

ParseParens == AtTok("primary", "(") /\ Ask(<<Fun("expression"), Expect(")")>>, 1)
ParseSizeof ==
    /\ At("primary") /\ (IsTok("sizeof") \/ IsTok("alignof"))
    /\ LET type == toks[2].k = "(" /\ IsTypename(toks[3])
       IN  Ask((IF type THEN <<Expect("("), Fun("typename"), Expect(")")>> ELSE <<Fun("unary")>>)
                   \o <<Fun(toks[1].k)>>, 1)
ParsedSizeof ==
    /\ At("sizeof") \/ At("alignof")
    /\ Give(AstNumber(CUnsigned("long"), IF At("sizeof") THEN CSize(nodes[1].ty) ELSE CAlign(nodes[1].ty)), 1, 0)
ParseVariable ==
    /\ AtTok("primary", "id")
    /\ LET e == FindVariable(tu, toks[1].x) IN Give(IF e.k = "var" THEN e.node ELSE AstNull, 0, 1)
ParseNumber == AtTok("primary", "num") /\ Give(AstNumber(toks[1].ty, toks[1].x), 0, 1)
ParseNothing == At("primary") /\ toks[1].k \notin {"(", "sizeof", "alignof", "id", "num"} /\ Reject

ParseStatements ==
    \/ ParseReturn \/ ParsedReturn \/ ParseIf \/ ParseElse \/ ParsedIf \/ ParseSwitch \/ ParseSwitchStatement
    \/ ParsedSwitch \/ ParseCase \/ ParseCaseBody \/ ParsedCase \/ ParseDefault \/ ParseDefaultBody
    \/ ParsedDefault \/ ParseFor \/ ParseForHead \/ ParseForBody \/ ParsedFor \/ ParseWhile \/ ParseWhileBody
    \/ ParsedWhile \/ ParseDo \/ ParseDoCondition \/ ParsedDo \/ ParseGoto \/ ParseBreak \/ ParseContinue
    \/ ParseLabel \/ ParsedLabel \/ ParseBlock \/ ParseExprAsStatement \/ ParseExpressionStatement
    \/ ParsedExpressionStatement \/ ParseCompoundStatement \/ ParseItem \/ ParsedItem \/ ParsedCompound
ParseExpressions ==
    \/ ParseExpect \/ ParseOptional \/ ParseExpression \/ ParseComma \/ ParsedComma \/ ParseAssignment
    \/ ParseAssignOp \/ ParsedAssignment \/ ParseConditional \/ ParseQuestion \/ ParsedConditional \/ ParseBinary
    \/ ParseOperator \/ ParsedOperator \/ ParseCast \/ ParseCastOperand \/ ParsedCast \/ ParseUnary \/ ParsedUnary
    \/ ParsedPrefix \/ ParsePostfix \/ ParseLiteral \/ ParsedLiteral \/ ParseFuncCall \/ ParseArgument
    \/ ParsedArgument \/ ParsedFuncCall \/ ParseIndex \/ ParsedIndex \/ ParseMember \/ ParseArrow \/ ParseIncDec
    \/ ParseTailEnd \/ ParseParens \/ ParseSizeof \/ ParsedSizeof \/ ParseVariable \/ ParseNumber \/ ParseNothing
=============================================================================

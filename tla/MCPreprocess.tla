---------------------------- MODULE MCPreprocess ----------------------------
(* Families of programs: every table of four macros, of each kind and
   calling one another, with every text; conditionals two deep with all their
   branches; files that include one another and protect themselves by a guard, by
   #pragma once, or not at all; and errors.

   Left out are the programs that the code gets wrong (README, known defects): a
   parameter substituted before it is stringized or pasted, ## in an object-like
   macro, two empty arguments pasted in a row, an empty expansion at the end of a
   line before a directive, a file that ends with a second conditional after its
   guard's #endif.                                                            *)
EXTENDS Preprocess

S == INSTANCE StandardC

W(k, name) == S!Word(k, <<name>>, TRUE)
Id(name) == W("id", name)
A == Id("A")  B == Id("B")  C == Id("C")  F == Id("f")  G == Id("g")  V == Id("v")  X == Id("x")  Y == Id("y")
One == W("num", "1")  Two == W("num", "2")  Plus == W("punct", "+")
LP == S!Word("lp", <<"(">>, FALSE)  RP == W("rp", ")")  Comma == W("comma", ",")
Hash == W("hash", "#")  HashHash == W("hashhash", "##")  Rest == Id("__VA_ARGS__")  Dots == W("ellipsis", "...")

Text(toks) == [is |-> "text", toks |-> toks]
Obj(t, body) == [is |-> "define", name |-> t.s, obj |-> TRUE, params |-> <<>>, va |-> <<>>, body |-> body]
Fun(t, params, va, body) ==
  [is |-> "define", name |-> t.s, obj |-> FALSE, params |-> S!Spelled(params), va |-> va, body |-> body]
Undefine(t) == [is |-> "undef", name |-> t.s]
IncludeOf(path, quoted) == [is |-> "include", path |-> path, quoted |-> quoted]
OnlyOnce == [is |-> "once"]
Null == [is |-> "null"]
Complain == [is |-> "error"]
Unopened(kind) == [is |-> "stray", kind |-> kind]
Cond(branches) == [is |-> "cond", branches |-> branches]
Branch(test, groups) == [test |-> test, groups |-> groups]
Defined(t) == [is |-> "defined", name |-> t.s]
NotDefined(t) == [is |-> "undefined", name |-> t.s]
Equal(l, r) == [is |-> "equal", left |-> l, right |-> r]
Either(l, r) == [is |-> "either", left |-> l.s, right |-> r.s]
Always == [is |-> "always"]
Never == [is |-> "never"]
Otherwise == [is |-> "always", else |-> TRUE]

-----------------------------------------------------------------------------
(* How a group is written. *)
Line(words, file) == [i \in DOMAIN words |-> Token(words[i].k, words[i].s, i = 1, words[i].sp, file)]
Named(name) == S!Word("id", name, TRUE)
Separated(seqs) ==
  FoldLeft(LAMBDA done, s : IF done = <<>> THEN s ELSE done \o <<Comma>> \o s, <<>>, seqs)

Parameters(g) ==
  LET dots == IF g.va = <<>> THEN <<>> ELSE <<<<Dots>>>>
  IN  <<LP>> \o Separated([i \in DOMAIN g.params |-> <<Named(g.params[i])>>] \o dots) \o <<RP>>

Test(t) ==
  LET is(name) == <<W("defined", "defined"), Named(name)>>
  IN  CASE t.is = "defined" -> <<W("defined", "defined"), LP, Named(t.name), RP>>
        [] t.is = "undefined" -> <<W("not", "!")>> \o is(t.name)
        [] t.is = "equal" -> <<t.left, W("eq", "=="), t.right>>
        [] t.is = "either" -> is(t.left) \o <<W("oror", "||")>> \o is(t.right)
        [] t.is = "always" -> <<W("not", "!"), LP, W("num", "0"), RP>>
        [] t.is = "never" -> <<One, W("andand", "&&"), W("num", "0")>>
OpeningKind(t, n) ==
  CASE n = 1 /\ t.is = "defined" -> "ifdef"
    [] n = 1 /\ t.is = "undefined" -> "ifndef"
    [] n = 1 /\ t.is \notin {"defined", "undefined"} -> "if"
    [] OTHER -> IF "else" \in DOMAIN t THEN "else" ELSE "elif"
OpeningWords(t, kind) ==
  CASE kind \in {"ifdef", "ifndef"} -> <<Named(t.name)>>
    [] kind = "else" -> <<>>
    [] OTHER -> Test(t)

(* The words of a group's line; those of the lines of a conditional in turn. *)
IncludeWords(g) ==
  IF g.quoted THEN <<S!Word("str", g.path[2], TRUE)>> ELSE <<W("lt", "<"), Named(g.path[2]), W("gt", ">")>>
GroupWords(g) ==
  CASE g.is = "text" -> g.toks
    [] g.is = "line" -> <<Hash, W(g.kind, g.kind)>> \o g.words
    [] g.is = "define" -> <<Hash, W("define", "define"), Named(g.name)>> \o (IF g.obj THEN <<>> ELSE Parameters(g)) \o g.body
    [] g.is = "undef" -> <<Hash, W("undef", "undef"), Named(g.name)>>
    [] g.is = "include" -> <<Hash, W("include", "include")>> \o IncludeWords(g)
    [] g.is = "once" -> <<Hash, W("pragma", "pragma"), W("once", "once")>>
    [] g.is = "error" -> <<Hash, W("error", "error"), A, B>>
    [] g.is = "stray" -> <<Hash, W(g.kind, g.kind), One>>
    [] g.is = "null" -> <<Hash>>
LineGroup(kind, words) == [is |-> "line", kind |-> kind, words |-> words]
OpeningLine(t, kind) == LineGroup(kind, OpeningWords(t, kind))
Opened(b, n) == <<OpeningLine(b.test, OpeningKind(b.test, n))>> \o b.groups
LinesOf(g) == FlattenSeq([n \in DOMAIN g.branches |-> Opened(g.branches[n], n)]) \o <<LineGroup("endif", <<>>)>>

RECURSIVE Written(_, _, _)
Written(groups, file, done) ==
  IF groups = <<>> THEN done
  ELSE Written((IF groups[1].is = "cond" THEN LinesOf(groups[1]) ELSE <<>>) \o Tail(groups), file,
               IF groups[1].is = "cond" THEN done ELSE done \o Line(GroupWords(groups[1]), file))
FileOf(groups, path) == Append(Written(groups, path, <<>>), [EOF EXCEPT !.bol = TRUE])

MainPath == <<"here", <<"main">>>>
Source(main, files) == [main |-> main, files |-> files]
NoFiles == [p \in {} |-> <<>>]
Program(s) ==
  [main |-> FileOf(s.main, MainPath), files |-> [p \in DOMAIN s.files |-> FileOf(s.files[p], p)],
   meaning |-> S!MeaningOf(s.main, MainPath, s.files)]

-----------------------------------------------------------------------------
(* Macros calling macros. *)
Call(f, args) == <<f, LP>> \o Separated(args) \o <<RP>>
OfA == {<<One>>, <<A>>, <<B, Plus, A>>, <<F>>, <<>>}
OfB == {<<Two>>, <<A>>, <<G>>}
OfF == {<<X>>, <<X, Plus, X>>, <<F>> \o Call(F, <<<<X>>>>), <<G, LP, X, Comma, A, RP>>, <<Hash, X, X>>, <<B, HashHash, X>>,
        <<X, HashHash, A, B>>, <<LP, X, RP>>, Call(X, <<<<One>>>>)}
OfG == {<<X, HashHash, Y>>, <<Y>> \o Call(F, <<<<X>>>>), <<Hash, Y, Plus, Hash, X>>, <<X, Y>>}
OfV == {<<Rest>>, Call(G, <<<<X>>, <<Rest>>>>), <<Hash, Rest, X>>}

TextsF == {<<A, Plus, B>>, Call(F, <<<<A>>>>) \o <<B>>, Call(F, <<<<F>>>>) \o <<LP, One, RP>>, Call(F, <<Call(F, <<<<B>>>>)>>),
           Call(F, <<Call(G, <<<<A>>, <<One>>>>)>>), <<A, LP, B, RP>>, <<F, F>> \o Call(F, <<<<One>>>>)}
TextsG == {Call(G, <<<<A>>, <<B>>>>), Call(G, <<<<>>, <<A>>>>), Call(G, <<<<F>>, <<LP, One, RP>>>>), <<B, LP, A, Comma, B, RP>>}
TextsV == {Call(V, <<<<One>>>>), Call(V, <<<<A>>, <<B>>>>), Call(V, <<<<B>>, <<A, Plus>>, <<LP, Two, Comma, One, RP>>>>)}

Table(a, b, f, g, v) ==
  <<Obj(A, a), Obj(B, b), Fun(F, <<X>>, <<>>, f), Fun(G, <<X, Y>>, <<>>, g), Fun(V, <<X>>, <<"__VA_ARGS__">>, v)>>
Macros(fs, gs, vs, texts) ==
  {Source(Append(Table(a, b, f, g, v), Text(t)), NoFiles) : a \in OfA, b \in OfB, f \in fs, g \in gs, v \in vs, t \in texts}
MacroSources ==
  Macros(OfF, OfG, {<<X>>}, TextsF) \union Macros({<<X, Plus, X>>, <<B, HashHash, X>>}, OfG, {<<X>>}, TextsG)
    \union Macros({<<X>>}, {<<X, HashHash, Y>>, <<X, Y>>}, OfV, TextsV)

(* Conditionals. *)
Say(n) == Text(<<W("num", n), A>>)
Tests == {Defined(A), NotDefined(A), Equal(A, One), Equal(A, B), Either(A, C), Never}
Inner(t) == Cond(<<Branch(t, <<Say("3")>>), Branch(Equal(B, Two), <<Obj(A, <<Two>>), Say("4")>>), Branch(Otherwise, <<Say("5"), Null>>)>>)
ConditionSources ==
  {Source(<<Obj(B, <<Two>>)>> \o first \o
           <<Cond(<<Branch(t1, <<Say("1"), Inner(t2)>> \o inside), Branch(t3, <<Inner(t2), Say("2")>>)>> \o last), Say("6")>>,
           NoFiles) :
     first \in {<<>>, <<Obj(A, <<One>>)>>, <<Obj(A, <<B>>)>>, <<Fun(A, <<X>>, <<>>, <<X>>)>>},
     inside \in {<<>>, <<Undefine(A)>>}, t1 \in Tests, t2 \in Tests, t3 \in {Defined(A), Equal(A, B)},
     last \in {<<>>, <<Branch(Otherwise, <<Inner(Never)>>)>>}}

(* Files. *)
Lib(name) == <<"lib", <<name>>>>
Local(name) == <<"here", <<name>>>>
Guarded(g, groups) == <<Cond(<<Branch(NotDefined(g), <<Obj(g, <<>>)>> \o groups)>>)>>
Bodies(groups) ==
  {groups, <<OnlyOnce>> \o groups, Guarded(C, groups), Guarded(C, groups) \o <<Say("7")>>, <<Say("8")>> \o Guarded(C, groups)}
Again == {<<>>, <<Undefine(C)>>, <<Obj(A, <<Two>>)>>}
FileSources ==
  {Source(<<inc>> \o between \o <<IncludeOf(Lib("h"), FALSE), Say("6")>>,
           Lib("h") :> h @@ Lib("i") :> i @@ Local("h") :> <<Say("9")>>) :
     inc \in {IncludeOf(Lib("h"), FALSE), IncludeOf(Local("h"), TRUE), IncludeOf(Lib("i"), TRUE)}, between \in Again,
     h \in Bodies(<<Say("1"), Inner(Defined(A))>>),
     i \in Bodies(<<IncludeOf(Lib("h"), FALSE), Say("2")>>)}

(* Two files that include each other, each protected in one of the two ways. *)
Protected(g, groups) == {<<OnlyOnce>> \o groups, Guarded(g, groups)}
CycleSources ==
  {Source(<<IncludeOf(Lib("h"), FALSE), Say("6")>>, Lib("h") :> h @@ Lib("i") :> i) :
     h \in Protected(C, <<IncludeOf(Lib("i"), FALSE)>>), i \in Protected(A, <<IncludeOf(Lib("h"), TRUE)>>)}

(* What must be reported where it is read, and only there. *)
ErrorSources ==
  {Source(<<Obj(A, <<One>>), Cond(<<Branch(t, g), Branch(Equal(A, Two), h), Branch(Otherwise, <<Say("1")>>)>>), Say("2")>>
             \o last, NoFiles) :
     t \in Tests, g \in {<<Complain>>, <<Say("3")>>}, h \in {<<>>, <<Complain>>},
     last \in {<<>>, <<Unopened("else")>>, <<Unopened("elif"), Say("4")>>,
              <<Cond(<<Branch(Never, <<>>), Branch(Otherwise, <<>>), Branch(Otherwise, <<>>)>>)>>}}

Meaningful(ps) == {p \in ps : S!Invalid.s \notin Range(p.meaning.text)}
Sources == MacroSources \union ConditionSources \union FileSources \union CycleSources \union ErrorSources
MCPrograms == Meaningful({Program(s) : s \in Sources})
MCHere == "here"
MCIncludeDirs == <<"lib">>
=============================================================================

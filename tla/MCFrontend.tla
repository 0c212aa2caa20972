------------------------------ MODULE MCFrontend ------------------------------
(***************************************************************************)
(* Frontend on small files: what each is in C stands above it.              *)
(***************************************************************************)
EXTENDS Frontend

MCImported == {}
File(text, f, inputs) == [valid |-> TRUE, text |-> text, f |-> f, inputs |-> inputs]
Wrong(text) == [valid |-> FALSE, text |-> text]

a == Var("a", 1, TInt)
b == Var("b", 1, TInt)
c == Var("c", 1, TInt)
i == Var("i", 1, TInt)
xv == Var("x", 1, TInt)
y == Var("y", 1, TInt)
ch == Var("c", 1, TChar)
d == Var("d", 1, TUChar)
s == Var("s", 1, TShort)
u == Var("u", 1, TUInt)
w == Var("w", 1, TLong)
v3 == Var("v", 1, TArr(3, Spelled(TInt, Words(<<"const", "int">>))))
q == Var("q", 1, TPtr(Spelled(TInt, Words(<<"const", "int">>))))
r == Var("r", 1, TPtr(q.ty))
s1 == Var("s", 1, TPtr(TInt))
t22 == Var("t", 1, TArr(2, TArr(2, TInt)))
g == Outer("g", TInt)
ext == Outer("ext", TFn(TInt, <<TInt>>, TRUE))
setter == Outer("set", TFn(TVoid, <<TPtr(TInt)>>, FALSE))
Prototype(v) == Declares(<<v.ty, <<Ident(v.name)>>>>) \o Semi
ExternG == <<Word("extern")>> \o Prototype(g)
Do0 == Text(Semi)
Ext(args) == CallOf(Use(ext), args)
SetOf(v) == Do(CallOf(Use(setter), <<Op1("&", Use(v))>>))
\* The function f, the last of its file.
FunOf(ret, params, ss) ==
    [name |-> "f", ty |-> TFn(ret, [n \in DOMAIN params |-> params[n].ty], FALSE), params |-> params, body |-> Seq0(ss)]
Ints == {<<n>> : n \in {0, 1, 3, 130, 255}}
IntPairs == {<<m, n>> : m \in {0, 1, 7, 200}, n \in {1, 2, 255}}

\* int f(int a, int b) { return a * 2 + (b - a) % b ^ a << 1; }
Arith == File(<<>>, FunOf(TInt, <<a, b>>,
    <<Return0(<<Op2(Op2(Op2(Use(a), "*", Nr(2)), "+", Op2(Op2(Use(b), "-", Use(a)), "%", Use(b))), "^",
                    Op2(Use(a), "<<", Nr(1)))>>)>>), IntPairs)

\* int f(int a) { int x = 0; for (int i = 0; i < 3; i++) { if (i == a) continue; x += ext(i, a); } return x; }
Loop == File(Prototype(ext), FunOf(TInt, <<a>>,
    <<Let(<<Bind(xv, Nr(0))>>),
      For0(Let(<<Bind(i, Nr(0))>>), Op2(Use(i), "<", Nr(3)), Tree("postfix", "++", <<Use(i)>>),
           Seq0(<<Cond0(Op2(Use(i), "==", Use(a)), <<Jump0("continue")>>),
                  Do(Set(Use(xv), "+=", Ext(<<Use(i), Use(a)>>)))>>)),
      Return0(<<Use(xv)>>)>>), Ints)

\* Jumps: int f(int a, int b) { int x = 0;
\*   again: while (x < 9) { if (x == b) break; if (a & 1) { x += 2; continue; } else x++; }
\*   do { x -= 1; if (x == 4) goto out; } while (x > a);
\*   switch (a) { case 0: x += 1; default: x += 3; break; case 1: x *= 2;
\*                case 3 + 4: for (;;) if (x++ > 9) break; }
\*   if (x < 11 && b != 2) { b = 2; goto again; }
\*   out: ; return x; }
Jumps == File(<<>>, FunOf(TInt, <<a, b>>,
    <<Let(<<Bind(xv, Nr(0))>>),
      Label0("again", While0(Op2(Use(xv), "<", Nr(9)), Seq0(<<
          Cond0(Op2(Use(xv), "==", Use(b)), <<Jump0("break")>>),
          Cond0(Op2(Use(a), "&", Nr(1)), <<Seq0(<<Do(Set(Use(xv), "+=", Nr(2))), Jump0("continue")>>),
                                           Do(Tree("postfix", "++", <<Use(xv)>>))>>)>>))),
      DoWhile0(Seq0(<<Do(Set(Use(xv), "-=", Nr(1))), Cond0(Op2(Use(xv), "==", Nr(4)), <<GotoLabel("out")>>)>>),
               Op2(Use(xv), ">", Use(a))),
      Switch0(Use(a), Seq0(<<
          Case0(0, Nr(0), Do(Set(Use(xv), "+=", Nr(1)))), Default0(Do(Set(Use(xv), "+=", Nr(3)))), Jump0("break"),
          Case0(1, Nr(1), Do(Set(Use(xv), "*=", Nr(2)))),
          Case0(7, Op2(Nr(3), "+", Nr(4)),
                For0(NoInit, NoInit, NoInit, Cond0(Op2(Tree("postfix", "++", <<Use(xv)>>), ">", Nr(9)), <<Jump0("break")>>)))>>)),
      Cond0(Op2(Op2(Use(xv), "<", Nr(11)), "&&", Op2(Use(b), "!=", Nr(2))),
            <<Seq0(<<Do(Set(Use(b), "=", Nr(2))), GotoLabel("again")>>)>>),
      Label0("out", Do0), Return0(<<Use(xv)>>)>>), {<<m, n>> : m \in {0, 1, 3, 7}, n \in {2, 5, 200}})

\* A loop entered in its middle: void f(int a, int b) { int x = a + 2 >> 1; extern int g; if (a <= 0) return;
\*   switch (a % 2) { case 0: do { ext(x, a); g += 2; case 1: ext(b); x--; } while (x); }
\*   if (b) g |= 4; else g ^= 1; }
Duff == File(Prototype(ext), FunOf(TVoid, <<a, b>>,
    <<Let(<<Bind(xv, Op2(Op2(Use(a), "+", Nr(2)), ">>", Nr(1)))>>), Text(ExternG),
      Cond0(Op2(Use(a), "<=", Nr(0)), <<Return0(<<>>)>>),
      Switch0(Op2(Use(a), "%", Nr(2)), Seq0(<<
          Case0(0, Nr(0), DoWhile0(Seq0(<<Do(Ext(<<Use(xv), Use(a)>>)), Do(Set(Use(g), "+=", Nr(2))),
                                          Case0(1, Nr(1), Do(Ext(<<Use(b)>>))),
                                          Do(Tree("postfix", "--", <<Use(xv)>>))>>), Use(xv)))>>)),
      Cond0(Use(b), <<Do(Set(Use(g), "|=", Nr(4))), Do(Set(Use(g), "^=", Nr(1)))>>)>>),
    {<<m, n>> : m \in {1, 2, 5, 6, 250}, n \in {0, 3}})

\* Numbers: long long f(char c, unsigned char d, short s, unsigned u, long long w)
\*   { w += c * d - s; u = u + c; if (c > -1 && (d <= u || !s)) w = -w; return (w ^ ~w / 3) - (char)u % 2 + (u >> 1); }
Numbers == File(<<>>, FunOf(TLong, <<ch, d, s, u, w>>,
    <<Do(Set(Use(w), "+=", Op2(Op2(Use(ch), "*", Use(d)), "-", Use(s)))),
      Do(Set(Use(u), "=", Op2(Use(u), "+", Use(ch)))),
      Cond0(Op2(Op2(Use(ch), ">", Op1("-", Nr(1))), "&&", Op2(Op2(Use(d), "<=", Use(u)), "||", Op1("!", Use(s)))),
            <<Do(Set(Use(w), "=", Op1("-", Use(w))))>>),
      Return0(<<Op2(Op2(Op2(Use(w), "^", Op2(Op1("~", Use(w)), "/", Nr(3))), "-", Op2(CastTo(TChar, Use(u)), "%", Nr(2))),
                    "+", Op2(Use(u), ">>", Nr(1)))>>)>>),
    {<<k, l, m, n, 515>> : k \in {0, 1, 3}, l \in {0, 2, 3}, m \in {0, 15}, n \in {1, 254}})

\* Pointers: int f(int a, int b) { const int v[3] = {a, b}, *q = v, **r = &q; int *s, t[2][2];
\*   s = &t[1][0]; *s = *(*r)++; s[1] = 4; t[0][1] = (*r)[0], t[0][0] = q - v;
\*   for (q = v + 2; q != v; --q) ext(*q, q > v); set(t[1]); s -= 2; s++;
\*   return !s ? 0 : *s * 16 + t[1][1] + -t[1][0]; }
Pointers == File(Prototype(ext) \o Prototype(setter), FunOf(TInt, <<a, b>>,
    <<Let(<<Bind(v3, Braces(Entries(<<Use(a), Use(b)>>))), Bind(q, Use(v3)), Bind(r, Op1("&", Use(q)))>>),
      Let(<<Bind(s1, NoInit), Bind(t22, NoInit)>>),
      Do(Set(Use(s1), "=", Op1("&", At0(At0(Use(t22), Nr(1)), Nr(0))))),
      Do(Set(Op1("*", Use(s1)), "=", Op1("*", Tree("postfix", "++", <<Op1("*", Use(r))>>)))),
      Do(Set(At0(Use(s1), Nr(1)), "=", Nr(4))),
      Do(Op2(Set(At0(At0(Use(t22), Nr(0)), Nr(1)), "=", At0(Op1("*", Use(r)), Nr(0))), ",",
             Set(At0(At0(Use(t22), Nr(0)), Nr(0)), "=", Op2(Use(q), "-", Use(v3))))),
      For0(Do(Set(Use(q), "=", Op2(Use(v3), "+", Nr(2)))), Op2(Use(q), "!=", Use(v3)), Tree("prefix", "--", <<Use(q)>>),
           Do(Ext(<<Op1("*", Use(q)), Op2(Use(q), ">", Use(v3))>>))),
      Do(CallOf(Use(setter), <<At0(Use(t22), Nr(1))>>)),
      Do(Set(Use(s1), "-=", Nr(2))), Do(Tree("postfix", "++", <<Use(s1)>>)),
      Return0(<<Tree("cond", 0, <<Op1("!", Use(s1)), Nr(0),
                Op2(Op2(Op2(Op1("*", Use(s1)), "*", Nr(16)), "+", At0(At0(Use(t22), Nr(1)), Nr(1))), "+",
                    Op1("-", At0(At0(Use(t22), Nr(1)), Nr(0))))>>)>>)>>), {<<1, 2>>, <<3, 250>>})

\* Structures: struct S { int a; char b; char c; short d; long long e; }; struct P { short x; short y; };
\* union U { int i; struct P p; short h[2]; };
\* struct S f(int a, struct S s, struct P p) { struct S t = s, *q = &t; union U z; z.i = a; z.p.y = p.x + z.h[0];
\*   (*q).d = z.p.y; q->e += p.y - s.a; q->b = (t.a = z.i, s).c; return a > 1 ? t : *&s; }
StructP == TStruct("P", <<Fld("x", TShort), Fld("y", TShort)>>)
StructS == TStruct("S", <<Fld("a", TInt), Fld("b", TChar), Fld("c", TChar), Fld("d", TShort), Fld("e", TLong)>>)
UnionU == TUnion("U", <<Fld("i", TInt), Fld("p", StructP), Fld("h", TArr(2, TShort))>>)
Records == Declares(<<Defined(StructS), <<>>>>) \o Semi \o Declares(<<Defined(StructP), <<>>>>) \o Semi
           \o Declares(<<Defined(UnionU), <<>>>>) \o Semi
sp == Var("p", 1, StructP)
ss == Var("s", 1, StructS)
st == Var("t", 1, StructS)
sq == Var("q", 1, TPtr(StructS))
uz == Var("z", 1, UnionU)
Structures == File(Records, FunOf(StructS, <<a, ss, sp>>,
    <<Let(<<Bind(st, Use(ss)), Bind(sq, Op1("&", Use(st)))>>), Let(<<Bind(uz, NoInit)>>),
      Do(Set(Member(Use(uz), "i"), "=", Use(a))),
      Do(Set(Member(Member(Use(uz), "p"), "y"), "=", Op2(Member(Use(sp), "x"), "+", At0(Member(Use(uz), "h"), Nr(0))))),
      Do(Set(Member(Op1("*", Use(sq)), "d"), "=", Member(Member(Use(uz), "p"), "y"))),
      Do(Set(Arrow(Use(sq), "e"), "+=", Op2(Member(Use(sp), "y"), "-", Member(Use(ss), "a")))),
      Do(Set(Arrow(Use(sq), "b"), "=", Member(Op2(Set(Member(Use(st), "a"), "=", Member(Use(uz), "i")), ",", Use(ss)), "c"))),
      Return0(<<Tree("cond", 0, <<Op2(Use(a), ">", Nr(1)), Use(st), Op1("*", Op1("&", Use(ss)))>>)>>)>>),
    {<<32, n, 24, m>> : n \in {0, 200, 255}, m \in {0, 37, 250}})

\* Structures through calls: int f(int a, struct P p) { struct P r = mk(a, p); struct S t = {a, 1, 2};
\*   ext(r.x, mk(2, r).y); t = set(t, a); return t.a + set(t, 3).a + mk(a, r).x; }
mk == Outer("mk", TFn(StructP, <<TInt, StructP>>, FALSE))
big == Outer("set", TFn(StructS, <<StructS, TInt>>, FALSE))
sr == Var("r", 1, StructP)
Mk(args) == CallOf(Use(mk), args)
ByValue == File(Records \o Prototype(ext) \o Prototype(mk) \o Prototype(big), FunOf(TInt, <<a, sp>>,
    <<Let(<<Bind(sr, Mk(<<Use(a), Use(sp)>>))>>), Let(<<Bind(st, Braces(Entries(<<Use(a), Nr(1), Nr(2)>>)))>>),
      Do(Ext(<<Member(Use(sr), "x"), Member(Mk(<<Nr(2), Use(sr)>>), "y")>>)),
      Do(Set(Use(st), "=", CallOf(Use(big), <<Use(st), Use(a)>>))),
      Return0(<<Op2(Op2(Member(Use(st), "a"), "+", Member(CallOf(Use(big), <<Use(st), Nr(3)>>), "a")), "+",
                    Member(Mk(<<Use(a), Use(sr)>>), "x"))>>)>>), {<<n, m>> : n \in {0, 77}, m \in {5, 255}})
\* struct P f(int a) { struct P r = {a}; r.y = r.x; return r; }
SmallResult == File(Declares(<<Defined(StructP), <<>>>>) \o Semi, FunOf(StructP, <<a>>,
    <<Let(<<Bind(sr, Braces(Entries(<<Use(a)>>)))>>), Do(Set(Member(Use(sr), "y"), "=", Member(Use(sr), "x"))),
      Return0(<<Use(sr)>>)>>), Ints)

\* Reals: double f(double x, float y, int a) { float z = a + y; _Bool t = z; int b = z / 2.0f; unsigned u = x;
\*   x *= b; if (x > y) x -= 1.0; else x = -x; while (z < 3) z++; if (!y || t != 0) x = x + u;
\*   return fext(x, z, a > 1) ? z * x : b; }
xd == Var("x", 1, TDouble)
yf == Var("y", 1, TFloat)
zf == Var("z", 1, TFloat)
tb == Var("t", 1, TBool)
One(ty, n) == Literal(n, ty)
fext == Outer("fext", TFn(TDouble, <<TFloat, TDouble>>, TRUE))
Reals == File(Prototype(fext), FunOf(TDouble, <<xd, yf, a>>,
    <<Let(<<Bind(zf, Op2(Use(a), "+", Use(yf)))>>), Let(<<Bind(tb, Use(zf))>>), Let(<<Bind(b, Op2(Use(zf), "/", One(TFloat, 2)))>>),
      Let(<<Bind(u, Use(xd))>>), Do(Set(Use(xd), "*=", Use(b))),
      Cond0(Op2(Use(xd), ">", Use(yf)), <<Do(Set(Use(xd), "-=", One(TDouble, 1))), Do(Set(Use(xd), "=", Op1("-", Use(xd))))>>),
      While0(Op2(Use(zf), "<", Nr(3)), Do(Tree("postfix", "++", <<Use(zf)>>))),
      Cond0(Op2(Op1("!", Use(yf)), "||", Op2(Use(tb), "!=", Nr(0))), <<Do(Set(Use(xd), "=", Op2(Use(xd), "+", Use(u))))>>),
      Return0(<<Tree("cond", 0, <<CallOf(Use(fext), <<Use(xd), Use(zf), Op2(Use(a), ">", Nr(1))>>),
                                  Op2(Use(zf), "*", Use(xd)), Use(b)>>)>>)>>),
    {<<FloatOfInt("F64", k), FloatOfInt("F32", l), n>> : k \in {2, 7}, l \in {0, 4}, n \in {0, 2, 6}})

\* Bit-fields: int f(unsigned a, int b) { struct { unsigned l : 2, m : 3; int n; unsigned o : 3; unsigned q : 1; int r; } v = {a, b};
\*   v.m = v.l + b; v.q = 6; v.o = a; v.n = 3; v.r = v.o + v.q; v.l = v.m; return v.l * 64 + v.m * 8 + v.n + v.r; }
StructB == TStruct("", <<BitFld("l", TUInt, 2), BitFld("m", TUInt, 3), Fld("n", TInt), BitFld("o", TUInt, 3), BitFld("q", TUInt, 1),
                         Fld("r", TInt)>>)
vb == Var("v", 1, Defined(StructB))
InV(name) == Member(Use(vb), name)
ua == Var("a", 1, TUInt)
BitFields == File(<<>>, FunOf(TInt, <<ua, b>>,
    <<Let(<<Bind(vb, Braces(Entries(<<Use(ua), Use(b)>>)))>>), Do(Set(InV("m"), "=", Op2(InV("l"), "+", Use(b)))),
      Do(Set(InV("q"), "=", Nr(6))), Do(Set(InV("o"), "=", Use(ua))), Do(Set(InV("n"), "=", Nr(3))),
      Do(Set(InV("r"), "=", Op2(InV("o"), "+", InV("q")))), Do(Set(InV("l"), "=", InV("m"))),
      Return0(<<Op2(Op2(Op2(InV("l"), "*", Nr(64)), "+", Op2(InV("m"), "*", Nr(8))), "+", Op2(InV("n"), "+", InV("r")))>>)>>),
    {<<m, n>> : m \in {0, 3, 23, 254}, n \in {0, 2, 7, 255}})

\* Initializers: int f(int a, struct P p) {
\*   struct { int n; struct P p[2]; char c[4]; } v = {a, 1, 2, 3, .c = {1, [2] = 3}}, w = {{a}, {p, {4}}, .p[1].y = 7, a, 2};
\*   int s[4] = {[1 ... 2] = a, 9, 8, {7}}, t[] = {1, [3] = a, 2, [1] = 5}, z[2][2] = {1, 2, {3}}; return ...; }
At1(at, e) == [at |-> at, i |-> e]
M(name) == [k |-> "member", x |-> name]
Nth(n) == [k |-> "element", x |-> n]
Span(m, n) == [k |-> "range", x |-> m, to |-> n]
StructN == TStruct("", <<Fld("n", TInt), Fld("p", TArr(2, StructP)), Fld("c", TArr(4, TChar))>>)
vn == Var("v", 1, Defined(StructN))
wn == Var("w", 1, Defined(StructN))
s4 == Var("s", 1, TArr(4, TInt))
t5 == Var("t", 1, TOpen(5, TInt))
z22 == Var("z", 1, TArr(2, TArr(2, TInt)))
P1(v) == At0(Member(Use(v), "p"), Nr(1))
List0(es) == Braces(Entries(es))
RECURSIVE Added(_)
Added(es) == IF Len(es) = 1 THEN es[1] ELSE Op2(Op2(Added(Front(es)), "*", Nr(3)), "+", Last(es))
Lists == File(Declares(<<Defined(StructP), <<>>>>) \o Semi, FunOf(TInt, <<a, sp>>,
    <<Let(<<Bind(vn, Braces(Entries(<<Use(a), Nr(1), Nr(2), Nr(3)>>)
                            \o <<At1(<<M("c")>>, Braces(<<At1(<<>>, Nr(1)), At1(<<Nth(2)>>, Nr(3))>>))>>))>>),
      Let(<<Bind(wn, Braces(<<At1(<<>>, List0(<<Use(a)>>)), At1(<<>>, List0(<<Use(sp), List0(<<Nr(4)>>)>>)),
                              At1(<<M("p"), Nth(1), M("y")>>, Nr(7)), At1(<<>>, Use(a)), At1(<<>>, Nr(2))>>))>>),
      Let(<<Bind(s4, Braces(<<At1(<<Span(1, 2)>>, Use(a)), At1(<<>>, Nr(9)), At1(<<>>, Nr(8)), At1(<<>>, List0(<<Nr(7)>>))>>)),
            Bind(t5, Braces(<<At1(<<>>, Nr(1)), At1(<<Nth(3)>>, Use(a)), At1(<<>>, Nr(2)), At1(<<Nth(1)>>, Nr(5))>>)),
            Bind(z22, List0(<<Nr(1), Nr(2), List0(<<Nr(3)>>)>>))>>),
      Return0(<<Added(<<Member(Use(vn), "n"), Member(P1(vn), "x"), Member(P1(vn), "y"), At0(Member(Use(vn), "c"), Nr(2)),
                        Member(Use(wn), "n"), Member(P1(wn), "x"), Member(P1(wn), "y"), At0(Member(Use(wn), "c"), Nr(1)),
                        At0(Use(s4), Nr(0)), At0(Use(s4), Nr(2)), At0(Use(s4), Nr(3)), At0(Use(t5), Nr(1)), At0(Use(t5), Nr(4)),
                        At0(At0(Use(z22), Nr(0)), Nr(1)), At0(At0(Use(z22), Nr(1)), Nr(0))>>)>>)>>),
    {<<m, n>> : m \in {0, 5, 255}, n \in {0, 82}})

\* Parts: int f(int a) { union U u = {a}, w = {.h = {3, 4}}, z[2] = {1, {.p.y = 5}};
\*   struct { int k; struct { short l; short m; }; union { int i; short h[2]; }; } v = {1, .m = 4, 6};
\*   int *q = &(int){a}, k = {2}; v.l = v.m + u.p.x; v.h[1] = ((struct P){1, a}).y;
\*   *q += ((int []){1, 2, k})[a & 1]; return ... ; }
StructA == TStruct("", <<Fld("k", TInt), Fld("#1", Defined(TStruct("", <<Fld("l", TShort), Fld("m", TShort)>>))),
                         Fld("#2", Defined(TUnion("", <<Fld("i", TInt), Fld("h", TArr(2, TShort))>>)))>>)
va == Var("v", 1, Defined(StructA))
uu == Var("u", 1, UnionU)
uw == Var("w", 1, UnionU)
uzs == Var("z", 1, TArr(2, UnionU))
qi == Var("q", 1, TPtr(TInt))
ki == Var("k", 1, TInt)
Within1(part, name) == Member(Member(Use(va), part), name)
Lit(n, ty, init) == Tree("literal", [v |-> Var("literal", n, ty), i |-> init], <<>>)
Parts == File(Records, FunOf(TInt, <<a>>,
    <<Let(<<Bind(uu, List0(<<Use(a)>>)), Bind(uw, Braces(<<At1(<<M("h")>>, List0(<<Nr(3), Nr(4)>>))>>)),
            Bind(uzs, List0(<<Nr(1), Braces(<<At1(<<M("p"), M("y")>>, Nr(5))>>)>>))>>),
      Let(<<Bind(va, Braces(<<At1(<<>>, Nr(1)), At1(<<M("#1"), M("m")>>, Nr(4)), At1(<<>>, Nr(6))>>))>>),
      Let(<<Bind(qi, Op1("&", Lit(1, TInt, List0(<<Use(a)>>)))), Bind(ki, List0(<<Nr(2)>>))>>),
      Do(Set(Op1("*", Use(qi)), "+=", At0(Lit(2, TOpen(3, TInt), List0(<<Nr(1), Nr(2), Use(ki)>>)), Op2(Use(a), "&", Nr(1))))),
      Do(Set(Within1("#1", "l"), "=", Op2(Within1("#1", "m"), "+", Member(Member(Use(uu), "p"), "x")))),
      Do(Set(At0(Within1("#2", "h"), Nr(1)), "=", Member(Lit(3, StructP, List0(<<Nr(1), Use(a)>>)), "y"))),
      Return0(<<Added(<<Member(Use(va), "k"), Within1("#1", "l"), Within1("#2", "i"), Op1("*", Use(qi)), Member(Use(uu), "i"),
                        Member(Use(uw), "i"), Member(At0(Use(uzs), Nr(0)), "i"), Member(Member(At0(Use(uzs), Nr(1)), "p"), "y")>>)>>)>>), Ints)

\* Types: typedef int *ip, (*fn)(int, ...), nums[2]; enum E { A, B = 4 + 1, C, }; struct T; struct T *fwd(struct T *, int [2], int (int));
\* static void unused(void); extern signed char other, *const more;
\* int f(int a, ...) { fn h = ext; int (*k[2])(int, ...) = {h, &ext}; nums t = {3}; int (*q)[2] = &t; ip s = *q;
\*   enum E e = C; { long long a = B; typedef short E; struct T {}; E s = a; h(s, e); { const int a = 2; k[1](a); } enum { D } d = D; int ext(int, ...); (*k[0])(d); }
\*   ...
TypesText == Words(<<"typedef", "int", "*">>) \o <<Ident("ip"), Word(","), Word("("), Word("*"), Ident("fn"), Word(")"), Word("(")>>
             \o Words(<<"int", ",", "...", ")", ",">>) \o <<Ident("nums"), Word("["), IntTok(2), Word("]")>> \o Semi
             \o <<Word("enum"), Ident("E"), Word("{"), Ident("A"), Word(","), Ident("B"), Word("="), IntTok(4), Word("+"), IntTok(1), Word(","),
                  Ident("C"), Word(","), Word("}")>> \o Semi
             \o <<Word("struct"), Ident("T")>> \o Semi
             \o <<Word("struct"), Ident("T"), Word("*"), Ident("fwd"), Word("("), Word("struct"), Ident("T"), Word("*"), Word(","),
                  Word("int"), Word("["), IntTok(2), Word("]"), Word(","), Word("int"), Word("("), Word("int"), Word(")"), Word(")")>> \o Semi
             \o <<Word("static"), Word("void"), Ident("unused"), Word("("), Word("void"), Word(")")>> \o Semi
             \o Words(<<"extern", "signed", "char">>) \o <<Ident("other"), Word(","), Word("*"), Word("const"), Ident("more")>> \o Semi
TExt == ext.ty
hf == Var("h", 1, Typedefd(TPtr(TExt), "fn"))
kf == Var("k", 1, TArr(2, TPtr(TExt)))
tn == Var("t", 1, Typedefd(TArr(2, TInt), "nums"))
qa == Var("q", 1, TPtr(TArr(2, TInt)))
sip == Var("s", 1, Typedefd(TPtr(TInt), "ip"))
TEnum(ws) == Plain("enum", FALSE, <<>>)
TE == Spelled(Plain("enum", FALSE, <<>>), <<Word("enum"), Ident("E")>>)
ee == Var("e", 1, TE)
a2 == Var("a", 2, TLong)
a3 == Var("a", 3, Spelled(TInt, Words(<<"const", "int">>)))
s2 == Var("s", 2, Typedefd(TShort, "E"))
d1 == Var("d", 1, Spelled(TE, <<Word("enum"), Word("{"), Ident("D"), Word("}")>>))
Named1(name, v) == Tree("enumerator", [name |-> name, v |-> v], <<>>)
OfExt(e, args) == CallOf(e, args)
Types == File(Prototype(ext) \o TypesText,
    [FunOf(TInt, <<a>>,
    <<Let(<<Bind(hf, Use(ext))>>), Let(<<Bind(kf, List0(<<Use(hf), Op1("&", Use(ext))>>))>>), Let(<<Bind(tn, List0(<<Nr(3)>>))>>),
      Let(<<Bind(qa, Op1("&", Use(tn)))>>), Let(<<Bind(sip, Op1("*", Use(qa)))>>), Let(<<Bind(ee, Named1("C", 6))>>),
      Seq0(<<Let(<<Bind(a2, Named1("B", 5))>>), Text(Words(<<"typedef", "short">>) \o <<Ident("E")>> \o Semi \o <<Word("struct"), Ident("T"), Word("{"), Word("}")>> \o Semi),
             Let(<<Bind(s2, Use(a2))>>), Do(CallOf(Use(hf), <<Use(s2), Use(ee)>>)),
             Seq0(<<Let(<<Bind(a3, Nr(2))>>), Do(CallOf(At0(Use(kf), Nr(1)), <<Use(a3)>>))>>),
             Let(<<Bind(d1, Named1("D", 0))>>), Text(Prototype(ext)),
             Do(CallOf(Op1("*", At0(Use(kf), Nr(0))), <<Use(d1)>>))>>),
      Do(Set(At0(Op1("*", Use(qa)), Nr(1)), "=", Op2(Use(a), "+", At0(Use(sip), Nr(0))))),
      Do(Set(Use(a), "+=", At0(Op1("*", CastTo(TPtr(TArr(2, TInt)), Use(sip))), Nr(1)))),
      Do(CastTo(TVoid, Ext(<<Use(a)>>))),
      Return0(<<Op2(Op2(Use(a), "*", Named1("A", 0)), "+", Use(a))>>)>>) EXCEPT !.ty.va = TRUE], {<<n, 1>> : n \in {0, 3, 250}})

\* Sizes: long long f(int a) { short v[3] = {1}; int *z = (int *)0; long long w = (long long)&v[2] - (long long)v;
\*   w += sizeof(int [3]) + sizeof a * 2 + alignof(short) + sizeof v / sizeof v[0];
\*   for (int i = 0, x = 4; i < x; i++, x--) switch (i + a) { case (1 ? 2 : 3) << 2 | (5 > 2 && !0): w = 0 - w; default: ; }
\*   if (z == 0) w++; return w - +(unsigned char)a + -a / 4; }
v2 == Var("v", 1, TArr(3, TShort))
zp == Var("z", 1, TPtr(TInt))
SizeOf0(e) == Tree("sizeof", 0, <<e>>)
CaseNine == Op2(Op2(Tree("cond", 0, <<Nr(1), Nr(2), Nr(3)>>), "<<", Nr(2)), "|", Op2(Op2(Nr(5), ">", Nr(2)), "&&", Op1("!", Nr(0))))
Sizes == File(<<>>, FunOf(TLong, <<a>>,
    <<Let(<<Bind(v2, List0(<<Nr(1)>>))>>), Let(<<Bind(zp, CastTo(TPtr(TInt), Nr(0)))>>),
      Let(<<Bind(w, Op2(CastTo(TLong, Op1("&", At0(Use(v2), Nr(2)))), "-", CastTo(TLong, Use(v2))))>>),
      Do(Set(Use(w), "+=", Op2(Op2(Op2(Tree("sizeoftype", TArr(3, TInt), <<>>), "+", Op2(SizeOf0(Use(a)), "*", Nr(2))), "+",
                                   Tree("alignof", TShort, <<>>)),
                               "+", Op2(SizeOf0(Use(v2)), "/", SizeOf0(At0(Use(v2), Nr(0))))))),
      For0(Let(<<Bind(i, Nr(0)), Bind(xv, Nr(4))>>), Op2(Use(i), "<", Use(xv)),
           Op2(Tree("postfix", "++", <<Use(i)>>), ",", Tree("postfix", "--", <<Use(xv)>>)),
           Switch0(Op2(Use(i), "+", Use(a)), Seq0(<<Case0(9, CaseNine, Do(Set(Use(w), "=", Op2(Nr(0), "-", Use(w))))), Default0(Do0)>>))),
      Cond0(Op2(Use(zp), "==", Nr(0)), <<Do(Tree("postfix", "++", <<Use(w)>>))>>),
      Return0(<<Op2(Op2(Use(w), "-", Op1("+", CastTo(TUChar, Use(a)))), "+", Op2(Op1("-", Use(a)), "/", Nr(4)))>>)>>),
    {<<n>> : n \in {0, 8, 9, 250}})

\* No C: each breaks one rule the parser checks.
InBody(ts) == Words(<<"void">>) \o <<Ident("f"), Word("("), Word("int"), Ident("a"), Word(")"), Word("{")>> \o ts \o <<Word("}")>>
Lexed(ws) == [n \in DOMAIN ws |-> IF ws[n] \in {"a", "x", "y", "f"} THEN Ident(ws[n]) ELSE IF ws[n] \in {"0", "1"} THEN IntTok(IF ws[n] = "1" THEN 1 ELSE 0)
                              ELSE Word(ws[n])]
InvalidBodies == <<
    <<"break", ";">>, <<"continue", ";">>, <<"case", "1", ":", ";">>, <<"default", ":", ";">>,
    <<"switch", "(", "a", ")", "case", "a", ":", ";">>, <<"goto", "1", ";">>, <<"x", "=", "1", ";">>, <<"a", "(", "1", ")", ";">>,
    <<"f", "(", ")", ";">>, <<"f", "(", "1", ",", "1", ")", ";">>, <<"a", "[", "1", ";">>, <<"a", ".", "x", ";">>,
    <<"*", "a", ";">>, <<"return", "1">>, <<"a", "+", ";">>, <<"int", "x", "[", "]", ";">>, <<"int", "x", "[", "a", "]", ";">>,
    <<"void", "x", ";">>, <<"int", "1", ";">>, <<"int", "x", "y", ";">>, <<"short", "long", "x", ";">>, <<"long", "long", "long", "x", ";">>,
    <<"typedef", "static", "int", "x", ";">>, <<"struct", ";">>, <<"enum", "x", "{", "y", "=", "a", "}", ";">>,
    <<"struct", "{", "int", "x", ":", "a", ";", "}", "y", ";">>, <<"int", "x", "[", "1", "]", "=", "{", "[", "1", "]", "=", "1", "}", ";">>,
    <<"int", "x", "[", "]", "=", "1", ";">>, <<"struct", "{", "int", "x", ";", "}", "y", "=", "{", ".", "a", "=", "1", "}", ";">>,
    <<"int", "x", "[", "1", "]", ";", "x", "=", "x", ";">>, <<"a", "->", "x", ";">>, <<"(", "int", "(", "x", ")", ")", "a", ";">>,
    <<"do", ";", "while", "(", "1", ")">>, <<"typedef", "int", "*", ";">>, <<"typedef", "int", "x", "y", ";">>, <<"enum", ";">>,
    <<"struct", "x", "{", "}", ";", "enum", "x", "y", ";">>, <<"enum", "{", "x", "y", "}", ";">>, <<"enum", "{", "1", "}", ";">>,
    <<"struct", "{", "int", "x", "y", ";", "}", ";">>, <<"int", "x", "[", "1", "]", "=", "{", "1", "1", "}", ";">>,
    <<"struct", "{", "}", "x", "=", "1", ";">>, <<"int", "x", "=", ";">>, <<"int", "(", "x", ";">>, <<"1", "=", "}">> >>
MCInvalid == [n \in DOMAIN InvalidBodies |-> Wrong(InBody(Lexed(InvalidBodies[n])))]
             \o <<Wrong(Lexed(<<"int", "f", "(", "int", ")", "{", "}">>)), Wrong(Lexed(<<"void", "f", "(", "void", ")", "{", "}">>) \o
                  Lexed(<<"void", "f", "(", "void", ")", "{", "}">>)), Wrong(Lexed(<<"int", "f", "(", "void", ")", "x", ";">>)),
                  Wrong(Lexed(<<"int", "*", ";">>)), Wrong(Lexed(<<"int", "x", "1", ";">>)), Wrong(Lexed(<<"int", "f", "(", "int", "x", "y", ")", ";">>)),
                  Wrong(Lexed(<<"int", "f", "(", "...", "x", ")", ";">>))>>

MCFiles == <<Arith, Loop, Jumps, Duff, Numbers, Pointers, Structures, ByValue, SmallResult, Reals, BitFields, Lists, Parts, Types, Sizes>>
           \o MCInvalid
=============================================================================

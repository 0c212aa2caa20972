------------------------------- MODULE MCLower -------------------------------
(***************************************************************************)
(* Lower on functions such as a C compiler hands to the back end: what each *)
(* is in C stands above it.                                                *)
(***************************************************************************)
EXTENDS Lower

MCImported == {"slot"}
MCGPRegs == {0, 1, 2, 8, 9, 3}
MCXmmRegs == {100, 101, 102, 106}

\* Values and instructions of the SSA form.
V(id, t) == [k |-> "val", id |-> id, t |-> t]
A(n, t) == [k |-> "arg", n |-> n, t |-> t]
C(t, c) == [k |-> "const", c |-> c, t |-> t]
S(name) == [k |-> "sym", name |-> name, t |-> "ptr"]
L(b) == [k |-> "bb", bb |-> b, t |-> "label"]
I(op, id, t, a) == [op |-> op, id |-> id, t |-> t, a |-> a, of |-> Scalar("i32"), cc |-> "eq", fn |-> NoProto]
Set(cc, id, x, y) == [I("set", id, "bool", <<x, y>>) EXCEPT !.cc = cc]
Of(i, ty) == [i EXCEPT !.of = ty]
Ret(v) == I("ret", 0, "void", <<v>>)
Goto(b) == I("branch", 0, "void", <<L(b)>>)
If(c, x, y) == I("branch", 0, "void", <<c, L(x), L(y)>>)
Store(ptr, v) == I("store", 0, "void", <<ptr, v>>)
Call_(id, name, types, ret, vararg, args) ==
    [I("call", id, ret, <<S(name)>> \o args)
        EXCEPT !.fn = [args |-> types, ret |-> ret, vararg |-> vararg, blocks |-> <<>>]]
Fn(args, ret, blocks) ==
    [args |-> args, ret |-> ret, vararg |-> FALSE,
     blocks |-> [k \in DOMAIN blocks |-> [b |-> k, ins |-> blocks[k]]]]

\* int max(int *p, int a) { int b = *p; *p = a; return a < b ? b : a; }
MaxFn == Fn(<<"ptr", "i32">>, "i32",
  << <<I("load", 3, "i32", <<A(1, "ptr")>>), Store(A(1, "ptr"), A(2, "i32")),
       Set("lt", 1, A(2, "i32"), V(3, "i32")), If(V(1, "bool"), 2, 3)>>,
     <<Goto(3)>>,
     <<I("phi", 2, "i32", <<V(3, "i32"), L(2), A(2, "i32"), L(1)>>), Ret(V(2, "i32"))>> >>)

\* int sum(int n) { int s = 0; for (int i = 0; i < n; ++i) s += ext(i) & 6; return s; }
LoopFn == Fn(<<"i32">>, "i32",
  << <<Goto(2)>>,
     <<I("phi", 1, "i32", <<C("i32", 0), L(1), V(5, "i32"), L(3)>>),
       I("phi", 2, "i32", <<C("i32", 0), L(1), V(6, "i32"), L(3)>>),
       Set("lt", 3, V(2, "i32"), A(1, "i32")), If(V(3, "bool"), 3, 4)>>,
     <<Call_(4, "ext", <<"i32">>, "i32", FALSE, <<V(2, "i32")>>),
       I("and", 7, "i32", <<V(4, "i32"), C("i32", 6)>>),
       I("add", 5, "i32", <<V(1, "i32"), V(7, "i32")>>),
       I("add", 6, "i32", <<V(2, "i32"), C("i32", 1)>>), Goto(2)>>,
     <<Ret(V(1, "i32"))>> >>)

\* int div(int a, int *p) { int b = *p; if (b == 0) return -1; return a / b * 3 + a % b; }
DivFn == Fn(<<"i32", "ptr">>, "i32",
  << <<I("load", 7, "i32", <<A(2, "ptr")>>),
       Set("eq", 1, V(7, "i32"), C("i32", 0)), If(V(1, "bool"), 2, 3)>>,
     <<Goto(4)>>,
     <<I("div", 2, "i32", <<A(1, "i32"), V(7, "i32")>>),
       I("mul", 3, "i32", <<V(2, "i32"), C("i32", 3)>>),
       I("rem", 4, "i32", <<A(1, "i32"), V(7, "i32")>>),
       I("add", 5, "i32", <<V(3, "i32"), V(4, "i32")>>), Goto(4)>>,
     <<I("phi", 6, "i32", <<C("i32", -1), L(2), V(5, "i32"), L(3)>>), Ret(V(6, "i32"))>> >>)

\* int local(int a) { int x = a; set(&x); int y[2] = {1, a}; return x + y[a & 1] + ext(1, 2, 3, 4, a, y[1]); }
LocalFn == Fn(<<"i32">>, "i32",
  << <<Of(I("alloca", 1, "ptr", <<>>), Scalar("i32")),
       Of(I("alloca", 2, "ptr", <<>>), ArrayOf(2, Scalar("i32"))),
       Store(V(1, "ptr"), A(1, "i32")),
       Call_(0, "set", <<"ptr">>, "void", FALSE, <<V(1, "ptr")>>),
       Of(I("gep", 3, "ptr", <<V(2, "ptr"), C("i32", 0), C("i32", 0)>>), ArrayOf(2, Scalar("i32"))),
       Store(V(3, "ptr"), C("i32", 1)),
       Of(I("gep", 4, "ptr", <<V(2, "ptr"), C("i32", 0), C("i32", 1)>>), ArrayOf(2, Scalar("i32"))),
       Store(V(4, "ptr"), A(1, "i32")),
       I("load", 5, "i32", <<V(1, "ptr")>>),
       I("and", 6, "i32", <<A(1, "i32"), C("i32", 1)>>),
       Of(I("gep", 7, "ptr", <<V(2, "ptr"), C("i32", 0), V(6, "i32")>>), ArrayOf(2, Scalar("i32"))),
       I("load", 8, "i32", <<V(7, "ptr")>>),
       I("add", 9, "i32", <<V(5, "i32"), V(8, "i32")>>),
       I("load", 10, "i32", <<V(4, "ptr")>>),
       Call_(11, "ext", <<"i32", "i32", "i32", "i32", "i32", "i32">>, "i32", FALSE,
             <<C("i32", 1), C("i32", 2), C("i32", 3), C("i32", 4), A(1, "i32"), V(10, "i32")>>),
       I("add", 12, "i32", <<V(9, "i32"), V(11, "i32")>>), Ret(V(12, "i32"))>> >>)

\* long long six(char a, short b, int c, long long d, int e, long long f)
\*   { return ((long long)a << 2) + (b ^ c) - (d | f) + (unsigned)e / 3 + (e >> 1); }
SixFn == Fn(<<"i8", "i16", "i32", "i64", "i32", "i64">>, "i64",
  << <<I("sext", 1, "i64", <<A(1, "i8")>>),
       I("shl", 2, "i64", <<V(1, "i64"), C("i8", 2)>>),
       I("sext", 3, "i32", <<A(2, "i16")>>),
       I("xor", 4, "i32", <<V(3, "i32"), A(3, "i32")>>),
       I("sext", 5, "i64", <<V(4, "i32")>>),
       I("add", 6, "i64", <<V(2, "i64"), V(5, "i64")>>),
       I("or", 7, "i64", <<A(4, "i64"), A(6, "i64")>>),
       I("sub", 8, "i64", <<V(6, "i64"), V(7, "i64")>>),
       I("bitcast", 9, "u32", <<A(5, "i32")>>),
       I("div", 10, "u32", <<V(9, "u32"), C("u32", 3)>>),
       I("zext", 11, "i64", <<V(10, "u32")>>),
       I("add", 12, "i64", <<V(8, "i64"), V(11, "i64")>>),
       I("shr", 13, "i32", <<A(5, "i32"), C("i8", 1)>>),
       I("sext", 14, "i64", <<V(13, "i32")>>),
       I("add", 15, "i64", <<V(12, "i64"), V(14, "i64")>>), Ret(V(15, "i64"))>> >>)

\* double mix(double x, float y, int n) { double z = x * 2.0 + y; if (z > 0.0) z = ext(z, n); return z - (float)(n + 1); }
FloatFn == Fn(<<"f64", "f32", "i32">>, "f64",
  << <<I("mul", 1, "f64", <<A(1, "f64"), C("f64", 2)>>),
       I("fpext", 2, "f64", <<A(2, "f32")>>),
       I("add", 3, "f64", <<V(1, "f64"), V(2, "f64")>>),
       Set("gt", 4, V(3, "f64"), C("f64", 0)), If(V(4, "bool"), 2, 3)>>,
     <<Call_(5, "ext", <<"f64", "i32">>, "f64", FALSE, <<V(3, "f64"), A(3, "i32")>>), Goto(3)>>,
     <<I("phi", 6, "f64", <<V(5, "f64"), L(2), V(3, "f64"), L(1)>>),
       I("add", 7, "i32", <<A(3, "i32"), C("i32", 1)>>),
       I("si2fp", 8, "f32", <<V(7, "i32")>>),
       I("fpext", 9, "f64", <<V(8, "f32")>>),
       I("sub", 10, "f64", <<V(6, "f64"), V(9, "f64")>>), Ret(V(10, "f64"))>> >>)

\* unsigned mix(unsigned a, unsigned b, unsigned char c, unsigned long long d)
\* { unsigned x = a < b ? a / b : a % 10; return (100 - x * 3 ^ a >> c) + (d >= 300) + c; }
UnsignedFn == Fn(<<"u32", "u32", "u8", "u64">>, "u32",
  << <<Set("lt", 1, A(1, "u32"), A(2, "u32")), If(V(1, "bool"), 2, 3)>>,
     <<I("div", 2, "u32", <<A(1, "u32"), A(2, "u32")>>), Goto(4)>>,
     <<I("rem", 3, "u32", <<A(1, "u32"), C("u32", 10)>>), Goto(4)>>,
     <<I("phi", 4, "u32", <<V(2, "u32"), L(2), V(3, "u32"), L(3)>>),
       I("mul", 5, "u32", <<C("u32", 3), V(4, "u32")>>),
       I("sub", 6, "u32", <<C("u32", 100), V(5, "u32")>>),
       I("shr", 7, "u32", <<A(1, "u32"), A(3, "u8")>>),
       I("xor", 8, "u32", <<V(6, "u32"), V(7, "u32")>>),
       Set("ge", 9, A(4, "u64"), C("u64", 300)),
       I("zext", 10, "u32", <<V(9, "bool")>>),
       I("add", 11, "u32", <<V(8, "u32"), V(10, "u32")>>),
       I("zext", 12, "u32", <<A(3, "u8")>>),
       I("add", 13, "u32", <<V(11, "u32"), V(12, "u32")>>), Ret(V(13, "u32"))>> >>)

\* struct { char c; int i; short s[3]; } *p: p[n].i = 5 + g; slot = p->s[k]; return p[n].i + g;
Rec == Struct(<<Scalar("i8"), Scalar("i32"), ArrayOf(3, Scalar("i16"))>>)
PointerFn == Fn(<<"ptr", "i32", "i64">>, "i32",
  << <<Of(I("gep", 1, "ptr", <<A(1, "ptr"), A(2, "i32"), C("i32", 1)>>), Rec),
       I("load", 2, "i32", <<S("g")>>),
       I("add", 3, "i32", <<C("i32", 5), V(2, "i32")>>),
       Store(V(1, "ptr"), V(3, "i32")),
       Of(I("gep", 4, "ptr", <<A(1, "ptr"), C("i32", 0), C("i32", 2), A(3, "i64")>>), Rec),
       I("load", 5, "i16", <<V(4, "ptr")>>),
       I("sext", 6, "i32", <<V(5, "i16")>>),
       Store(S("slot"), V(6, "i32")),
       I("load", 7, "i32", <<V(1, "ptr")>>),
       I("load", 8, "i32", <<S("g")>>),
       I("add", 9, "i32", <<V(7, "i32"), V(8, "i32")>>), Ret(V(9, "i32"))>> >>)

\* void fill(char *d, char *s) { memset(d, 0, 11); memcpy(d, s, 7); memset(d + 8, 1, 3); }
FillFn == Fn(<<"ptr", "ptr">>, "void",
  << <<Call_(1, "memset", <<"ptr", "i32", "i64">>, "ptr", FALSE, <<A(1, "ptr"), C("i32", 0), C("i64", 11)>>),
       Call_(2, "memcpy", <<"ptr", "ptr", "i64">>, "ptr", FALSE, <<A(1, "ptr"), A(2, "ptr"), C("i64", 7)>>),
       Of(I("gep", 3, "ptr", <<A(1, "ptr"), C("i32", 8)>>), Scalar("i8")),
       Call_(4, "memset", <<"ptr", "i32", "i64">>, "ptr", FALSE, <<V(3, "ptr"), C("i32", 1), C("i64", 3)>>),
       I("ret", 0, "void", <<>>)>> >>)

\* int va(int n, ...) { va_list ap; va_start(ap, n); int a = va_arg(ap, int);
\*                      return vf(2, va_arg(ap, double), 1.0f) + a; }
VarFn == [Fn(<<"i32">>, "i32",
  << <<Of(I("alloca", 1, "ptr", <<>>), Scalar("ptr")),
       Call_(0, "__va_start", <<"ptr">>, "void", FALSE, <<V(1, "ptr"), A(1, "i32")>>),
       I("load", 2, "ptr", <<V(1, "ptr")>>),
       I("load", 3, "i32", <<V(2, "ptr")>>),
       Of(I("gep", 4, "ptr", <<V(2, "ptr"), C("i32", 8)>>), Scalar("i8")),
       Store(V(1, "ptr"), V(4, "ptr")),
       I("load", 5, "ptr", <<V(1, "ptr")>>),
       I("load", 6, "f64", <<V(5, "ptr")>>),
       Call_(7, "vf", <<"i32">>, "i32", TRUE, <<C("i32", 2), V(6, "f64"), C("f64", 1)>>),
       I("add", 8, "i32", <<V(7, "i32"), V(3, "i32")>>), Ret(V(8, "i32"))>> >>)
   EXCEPT !.vararg = TRUE]

\* double whole(double x, float y) { return ext((unsigned char)x, (unsigned)x, (long long)y, (short)x); }
WholeFn == Fn(<<"f64", "f32">>, "f64",
  << <<I("fp2ui", 1, "u8", <<A(1, "f64")>>),
       I("fp2ui", 2, "u32", <<A(1, "f64")>>),
       I("fp2si", 3, "i64", <<A(2, "f32")>>),
       I("fp2si", 4, "i16", <<A(1, "f64")>>),
       Call_(5, "ext", <<"u8", "u32", "i64", "i16">>, "f64", FALSE,
             <<V(1, "u8"), V(2, "u32"), V(3, "i64"), V(4, "i16")>>), Ret(V(5, "f64"))>> >>)

\* double real(unsigned char a, unsigned long long b, short c, long long d)
\* { return ext((double)a, (float)b, (float)(double)c) - (double)d / 2; }
RealFn == Fn(<<"u8", "u64", "i16", "i64">>, "f64",
  << <<I("ui2fp", 1, "f64", <<A(1, "u8")>>),
       I("ui2fp", 2, "f32", <<A(2, "u64")>>),
       I("si2fp", 3, "f64", <<A(3, "i16")>>),
       I("fptrunc", 4, "f32", <<V(3, "f64")>>),
       I("si2fp", 5, "f64", <<A(4, "i64")>>),
       I("div", 6, "f64", <<V(5, "f64"), C("f64", 2)>>),
       Call_(7, "ext", <<"f64", "f32", "f32">>, "f64", FALSE, <<V(1, "f64"), V(2, "f32"), V(4, "f32")>>),
       I("sub", 8, "f64", <<V(7, "f64"), V(6, "f64")>>), Ret(V(8, "f64"))>> >>)

\* double widen(unsigned long long x, double y) { return (double)x + y; }
WidenFn == Fn(<<"u64", "f64">>, "f64",
  << <<I("ui2fp", 1, "f64", <<A(1, "u64")>>),
       I("add", 2, "f64", <<V(1, "f64"), A(2, "f64")>>), Ret(V(2, "f64"))>> >>)

\* int bits(int x, long long *p, int n) { int i = 0; do { x >>= 1; i++; } while (x);
\*   *p = (long long)x << n; return ((int (*)(char, long long *))40)((char)(*p >> 2), p) + (i < 3); }
BitsFn == Fn(<<"i32", "ptr", "i32">>, "i32",
  << <<Goto(2)>>,
     <<I("phi", 1, "i32", <<A(1, "i32"), L(1), V(3, "i32"), L(2)>>),
       I("phi", 2, "i32", <<C("i32", 0), L(1), V(4, "i32"), L(2)>>),
       I("shr", 3, "i32", <<V(1, "i32"), C("i8", 1)>>),
       I("add", 4, "i32", <<V(2, "i32"), C("i32", 1)>>),
       Set("ne", 5, V(3, "i32"), C("i32", 0)), If(V(5, "bool"), 2, 3)>>,
     <<I("sext", 6, "i64", <<V(4, "i32")>>),
       I("shl", 7, "i64", <<V(6, "i64"), A(3, "i32")>>),
       Store(A(2, "ptr"), V(7, "i64")),
       I("load", 8, "i64", <<A(2, "ptr")>>),
       I("shr", 9, "i64", <<V(8, "i64"), C("i8", 2)>>),
       I("trunc", 10, "i8", <<V(9, "i64")>>),
       I("ptrtoint", 11, "i64", <<A(2, "ptr")>>),
       I("inttoptr", 12, "ptr", <<V(11, "i64")>>),
       I("inttoptr", 13, "ptr", <<C("i32", 40)>>),
       [Call_(14, "", <<"i8", "ptr">>, "i32", FALSE, <<V(10, "i8"), V(12, "ptr")>>) EXCEPT !.a[1] = V(13, "ptr")],
       Set("gt", 15, C("i32", 3), V(4, "i32")),
       I("zext", 16, "i32", <<V(15, "bool")>>),
       I("add", 17, "i32", <<V(14, "i32"), V(16, "i32")>>), Ret(V(17, "i32"))>> >>)

\* void wide(long long *p, int a) { if (a & 4) *p = 300; else *p = -300; if (a == 7) p[1] += 1000; p[1] *= 2; }
WideFn == Fn(<<"ptr", "i32">>, "void",
  << <<I("and", 1, "i32", <<A(2, "i32"), C("i32", 4)>>),
       Set("ne", 2, V(1, "i32"), C("i32", 0)), If(V(2, "bool"), 2, 3)>>,
     <<Store(A(1, "ptr"), C("i64", 300)), Goto(4)>>,
     <<Store(A(1, "ptr"), C("i64", -300)), Goto(4)>>,
     <<Of(I("gep", 3, "ptr", <<A(1, "ptr"), C("i32", 1)>>), Scalar("i64")),
       Set("eq", 4, A(2, "i32"), C("i32", 7)), If(V(4, "bool"), 5, 6)>>,
     <<I("load", 5, "i64", <<V(3, "ptr")>>),
       I("add", 6, "i64", <<V(5, "i64"), C("i64", 1000)>>), Store(V(3, "ptr"), V(6, "i64")), Goto(6)>>,
     <<I("load", 7, "i64", <<V(3, "ptr")>>),
       I("mul", 8, "i64", <<V(7, "i64"), C("i64", 2)>>), Store(V(3, "ptr"), V(8, "i64")),
       I("ret", 0, "void", <<>>)>> >>)

\* The moves of phis before the comparison of a conditional branch, one of floats with a constant:
\* int climb(int n, double d) { int s = 0; do { s += n; d += 2.0; } while (d < 0.0); return s; }
ClimbFn == Fn(<<"i32", "f64">>, "i32",
  << <<Goto(2)>>,
     <<I("phi", 1, "i32", <<C("i32", 0), L(1), V(3, "i32"), L(2)>>),
       I("phi", 2, "f64", <<A(2, "f64"), L(1), V(4, "f64"), L(2)>>),
       I("add", 3, "i32", <<V(1, "i32"), A(1, "i32")>>),
       I("add", 4, "f64", <<V(2, "f64"), C("f64", 2)>>),
       Set("lt", 5, V(4, "f64"), C("f64", 0)), If(V(5, "bool"), 2, 3)>>,
     <<Ret(V(3, "i32"))>> >>)

\* before a comparison that is not the one of the branch, with a phi the branch's has read:
\* int seek(int x, int y, int *p) { do { _Bool c = x < 8; x += 3; *p = x == y; } while (c); return x; }
SeekFn == Fn(<<"i32", "i32", "ptr">>, "i32",
  << <<Goto(2)>>,
     <<I("phi", 1, "i32", <<A(1, "i32"), L(1), V(3, "i32"), L(2)>>),
       Set("lt", 2, V(1, "i32"), C("i32", 8)),
       I("add", 3, "i32", <<V(1, "i32"), C("i32", 3)>>),
       Set("eq", 4, V(3, "i32"), A(2, "i32")),
       I("zext", 5, "i32", <<V(4, "bool")>>), Store(A(3, "ptr"), V(5, "i32")), If(V(2, "bool"), 2, 3)>>,
     <<Ret(V(3, "i32"))>> >>)

\* and, as there is none, between the test and the jump:
\* int pick(_Bool c, int a, double *p) { int x = a * 2; double z = 0; if (c) x = ext(x), z = *p; *p = z; return x; }
PickFn == Fn(<<"bool", "i32", "ptr">>, "i32",
  << <<I("mul", 1, "i32", <<A(2, "i32"), C("i32", 2)>>), If(A(1, "bool"), 2, 3)>>,
     <<Call_(2, "ext", <<"i32">>, "i32", FALSE, <<V(1, "i32")>>),
       I("load", 3, "f64", <<A(3, "ptr")>>), Goto(3)>>,
     <<I("phi", 4, "i32", <<V(2, "i32"), L(2), V(1, "i32"), L(1)>>),
       I("phi", 5, "f64", <<V(3, "f64"), L(2), C("f64", 0), L(1)>>),
       Store(A(3, "ptr"), V(5, "f64")), Ret(V(4, "i32"))>> >>)

(***************************************************************************)
(* Functions that go through the passes of the IR before                   *)
(***************************************************************************)
\* int several(int a, int b)
\* { if (a < b) return (short)-1; int c = a; while (0) c = ext(7); if (3 < 5 && 1) { if (a == b) return 0; }
\*   return c - 2 + (int)(float)(2 + 3 * 4 - (char)1); }
SeveralFn == Fn(<<"i32", "i32">>, "i32",
  << <<Set("lt", 1, A(1, "i32"), A(2, "i32")), If(V(1, "bool"), 2, 3)>>,
     <<I("sext", 2, "i16", <<C("i8", -1)>>), I("sext", 3, "i32", <<V(2, "i16")>>), Ret(V(3, "i32"))>>,
     <<Goto(4)>>,
     <<I("phi", 16, "i32", <<A(1, "i32"), L(3), V(4, "i32"), L(5)>>), If(C("bool", 0), 5, 6)>>,
     <<Call_(4, "ext", <<"i32">>, "i32", FALSE, <<C("i32", 7)>>), Goto(4)>>,
     <<Set("lt", 5, C("i32", 3), C("i32", 5)), If(V(5, "bool"), 7, 8)>>,
     <<Set("eq", 6, A(1, "i32"), A(2, "i32")), If(V(6, "bool"), 9, 8)>>,
     <<I("phi", 7, "i32", <<C("i32", 2), L(6), C("i32", 2), L(7)>>),
       I("mul", 8, "i32", <<C("i32", 3), C("i32", 4)>>),
       I("add", 9, "i32", <<V(7, "i32"), V(8, "i32")>>),
       I("zext", 10, "i32", <<C("bool", 1)>>),
       I("sub", 11, "i32", <<V(9, "i32"), V(10, "i32")>>),
       I("si2fp", 12, "f32", <<V(11, "i32")>>),
       I("fp2si", 13, "i32", <<V(12, "f32")>>),
       I("sub", 14, "i32", <<V(16, "i32"), C("i32", 2)>>),
       I("add", 15, "i32", <<V(14, "i32"), V(13, "i32")>>), Ret(V(15, "i32"))>>,
     <<Ret(C("i32", 0))>> >>)

\* int tests(int a, int b, int *p) { int r = a < b || *p == 0; return (r ? 1 : 5) + (a && ext(b) > 3 ? b : 2); }
TestsFn == Fn(<<"i32", "i32", "ptr">>, "i32",
  << <<Set("lt", 1, A(1, "i32"), A(2, "i32")), If(V(1, "bool"), 3, 2)>>,
     <<I("load", 2, "i32", <<A(3, "ptr")>>),
       Set("eq", 3, V(2, "i32"), C("i32", 0)), If(V(3, "bool"), 3, 4)>>,
     <<Goto(5)>>,
     <<Goto(5)>>,
     <<I("phi", 4, "bool", <<C("bool", 1), L(3), C("bool", 0), L(4)>>),
       I("zext", 5, "i32", <<V(4, "bool")>>),
       Set("ne", 6, V(5, "i32"), C("i32", 0)), If(V(6, "bool"), 6, 7)>>,
     <<Goto(8)>>,
     <<Goto(8)>>,
     <<I("phi", 7, "i32", <<C("i32", 1), L(6), C("i32", 5), L(7)>>),
       Set("ne", 8, A(1, "i32"), C("i32", 0)), If(V(8, "bool"), 9, 11)>>,
     <<Call_(9, "ext", <<"i32">>, "i32", FALSE, <<A(2, "i32")>>),
       Set("gt", 10, V(9, "i32"), C("i32", 3)), If(V(10, "bool"), 10, 11)>>,
     <<Goto(12)>>,
     <<Goto(12)>>,
     <<I("phi", 11, "bool", <<C("bool", 1), L(10), C("bool", 0), L(11)>>), If(V(11, "bool"), 13, 14)>>,
     <<Goto(15)>>,
     <<Goto(15)>>,
     <<I("phi", 12, "i32", <<A(2, "i32"), L(13), C("i32", 2), L(14)>>),
       I("add", 13, "i32", <<V(7, "i32"), V(12, "i32")>>), Ret(V(13, "i32"))>> >>)

\* int empty(int *p, int *q, int a)
\* { _Bool c = *q == a; if (c) {} else {} int z = *p; *q = 3; if (z > 2) { *p = z; if (a) ; } return c + z; }
EmptyFn == Fn(<<"ptr", "ptr", "i32">>, "i32",
  << <<I("load", 1, "i32", <<A(2, "ptr")>>),
       Set("eq", 2, V(1, "i32"), A(3, "i32")), If(V(2, "bool"), 2, 3)>>,
     <<Goto(4)>>,
     <<Goto(4)>>,
     <<I("load", 8, "i32", <<A(1, "ptr")>>),
       Store(A(2, "ptr"), C("i32", 3)),
       Set("gt", 9, V(8, "i32"), C("i32", 2)), If(V(9, "bool"), 5, 6)>>,
     <<Store(A(1, "ptr"), V(8, "i32")), Set("ne", 10, A(3, "i32"), C("i32", 0)), Goto(7)>>,
     <<Goto(8)>>,
     <<If(V(10, "bool"), 9, 10)>>,
     <<I("zext", 11, "i32", <<V(2, "bool")>>),
       I("add", 12, "i32", <<V(11, "i32"), V(8, "i32")>>), Ret(V(12, "i32"))>>,
     <<Goto(8)>>,
     <<Goto(8)>> >>)

\* int number(int *p, int *q, int a)
\* { int x = *p - a, y = a - *p; ext(x * y); *q = *p + 3;
\*   return *p + (a == x) * 2 + (x == a) + (x < y) * 2 + (x > y) + (a + *p) * (*p + a); }
NumberFn == Fn(<<"ptr", "ptr", "i32">>, "i32",
  << <<I("load", 1, "i32", <<A(1, "ptr")>>),
       I("sub", 2, "i32", <<V(1, "i32"), A(3, "i32")>>),
       I("load", 3, "i32", <<A(1, "ptr")>>),
       I("sub", 4, "i32", <<A(3, "i32"), V(3, "i32")>>),
       I("mul", 5, "i32", <<V(2, "i32"), V(4, "i32")>>),
       Call_(0, "ext", <<"i32">>, "void", FALSE, <<V(5, "i32")>>),
       I("load", 6, "i32", <<A(1, "ptr")>>),
       I("add", 8, "i32", <<V(6, "i32"), C("i32", 3)>>),
       Store(A(2, "ptr"), V(8, "i32")),
       I("load", 7, "i32", <<A(1, "ptr")>>),
       Set("eq", 9, A(3, "i32"), V(2, "i32")), I("zext", 10, "i32", <<V(9, "bool")>>),
       I("shl", 11, "i32", <<V(10, "i32"), C("i8", 1)>>),
       I("add", 12, "i32", <<V(7, "i32"), V(11, "i32")>>),
       Set("eq", 13, V(2, "i32"), A(3, "i32")), I("zext", 14, "i32", <<V(13, "bool")>>),
       I("add", 15, "i32", <<V(12, "i32"), V(14, "i32")>>),
       Set("lt", 16, V(2, "i32"), V(4, "i32")), I("zext", 17, "i32", <<V(16, "bool")>>),
       I("shl", 18, "i32", <<V(17, "i32"), C("i8", 1)>>),
       I("add", 19, "i32", <<V(15, "i32"), V(18, "i32")>>),
       Set("gt", 20, V(2, "i32"), V(4, "i32")), I("zext", 21, "i32", <<V(20, "bool")>>),
       I("add", 22, "i32", <<V(19, "i32"), V(21, "i32")>>),
       I("load", 23, "i32", <<A(1, "ptr")>>),
       I("add", 24, "i32", <<A(3, "i32"), V(23, "i32")>>),
       I("load", 25, "i32", <<A(1, "ptr")>>),
       I("add", 26, "i32", <<V(25, "i32"), A(3, "i32")>>),
       I("mul", 27, "i32", <<V(24, "i32"), V(26, "i32")>>),
       I("add", 28, "i32", <<V(22, "i32"), V(27, "i32")>>), Ret(V(28, "i32"))>> >>)

\* int cheap(unsigned a, int b, char *p)
\* { int x = (b + 0) * 1 * 3 + 3 - 3; unsigned y = a * 4 / 8 ^ 0; char *q = p + 0 + 2 - 2; _Bool t = b < 7;
\*   return (x & -1 | 0) + (y & 0) + !t + (t == 1) + *q + (int)y * !!t; }
CheapFn == Fn(<<"u32", "i32", "ptr">>, "i32",
  << <<I("add", 1, "i32", <<C("i32", 0), A(2, "i32")>>),
       I("mul", 2, "i32", <<V(1, "i32"), C("i32", 1)>>),
       I("mul", 31, "i32", <<V(2, "i32"), C("i32", 3)>>),
       I("add", 3, "i32", <<V(31, "i32"), C("i32", 3)>>),
       I("sub", 4, "i32", <<V(3, "i32"), C("i32", 3)>>),
       I("mul", 5, "u32", <<A(1, "u32"), C("u32", 4)>>),
       I("div", 6, "u32", <<V(5, "u32"), C("u32", 8)>>),
       I("xor", 7, "u32", <<V(6, "u32"), C("u32", 0)>>),
       Of(I("gep", 8, "ptr", <<A(3, "ptr"), C("i64", 0)>>), Scalar("i8")),
       Of(I("gep", 9, "ptr", <<V(8, "ptr"), C("i64", 2)>>), Scalar("i8")),
       Of(I("gep", 10, "ptr", <<V(9, "ptr"), C("i64", -2)>>), Scalar("i8")),
       Set("lt", 11, A(2, "i32"), C("i32", 7)),
       I("and", 12, "i32", <<V(4, "i32"), C("i32", -1)>>),
       I("or", 13, "i32", <<V(12, "i32"), C("i32", 0)>>),
       I("and", 14, "u32", <<V(7, "u32"), C("u32", 0)>>),
       I("bitcast", 15, "i32", <<V(14, "u32")>>),
       I("add", 16, "i32", <<V(13, "i32"), V(15, "i32")>>),
       I("xor", 17, "bool", <<V(11, "bool"), C("bool", 1)>>),
       I("zext", 18, "i32", <<V(17, "bool")>>),
       I("add", 19, "i32", <<V(16, "i32"), V(18, "i32")>>),
       Set("eq", 20, V(11, "bool"), C("bool", 1)),
       I("zext", 21, "i32", <<V(20, "bool")>>),
       I("add", 22, "i32", <<V(19, "i32"), V(21, "i32")>>),
       I("load", 23, "i8", <<V(10, "ptr")>>),
       I("sext", 24, "i32", <<V(23, "i8")>>),
       I("add", 25, "i32", <<V(22, "i32"), V(24, "i32")>>),
       Set("ne", 26, V(11, "bool"), C("bool", 0)),
       I("zext", 27, "i32", <<V(26, "bool")>>),
       I("bitcast", 28, "i32", <<V(7, "u32")>>),
       I("mul", 29, "i32", <<V(28, "i32"), V(27, "i32")>>),
       I("add", 30, "i32", <<V(25, "i32"), V(29, "i32")>>), Ret(V(30, "i32"))>> >>)

\* inline int clamp(int x, int low) { if (x < low) return low; return x; }
ClampFn == Fn(<<"i32", "i32">>, "i32",
  << <<Set("lt", 1, A(1, "i32"), A(2, "i32")), If(V(1, "bool"), 2, 3)>>,
     <<Goto(3)>>,
     <<I("phi", 2, "i32", <<A(2, "i32"), L(2), A(1, "i32"), L(1)>>), Ret(V(2, "i32"))>> >>)
\* inline void note(int *p, int n) { int v[2]; v[1] = 0; do v[1] += n; while (--n); set(v); *p = v[1] + v[0]; }
NoteFn == Fn(<<"ptr", "i32">>, "void",
  << <<Of(I("alloca", 1, "ptr", <<>>), ArrayOf(2, Scalar("i32"))),
       Of(I("gep", 2, "ptr", <<V(1, "ptr"), C("i32", 0), C("i32", 1)>>), ArrayOf(2, Scalar("i32"))),
       Store(V(2, "ptr"), C("i32", 0)), Goto(2)>>,
     <<I("phi", 3, "i32", <<A(2, "i32"), L(1), V(6, "i32"), L(2)>>),
       I("load", 4, "i32", <<V(2, "ptr")>>),
       I("add", 5, "i32", <<V(4, "i32"), V(3, "i32")>>),
       Store(V(2, "ptr"), V(5, "i32")),
       I("add", 6, "i32", <<V(3, "i32"), C("i32", -1)>>),
       Set("ne", 7, V(6, "i32"), C("i32", 0)), If(V(7, "bool"), 2, 3)>>,
     <<Of(I("gep", 8, "ptr", <<V(1, "ptr"), C("i32", 0), C("i32", 0)>>), ArrayOf(2, Scalar("i32"))),
       Call_(0, "set", <<"ptr">>, "void", FALSE, <<V(8, "ptr")>>),
       I("load", 9, "i32", <<V(2, "ptr")>>),
       I("load", 10, "i32", <<V(8, "ptr")>>),
       I("add", 11, "i32", <<V(9, "i32"), V(10, "i32")>>),
       Store(A(1, "ptr"), V(11, "i32")), I("ret", 0, "void", <<>>)>> >>)
Inner(id, name, fn, args) == [I("call", id, fn.ret, <<S(name)>> \o args) EXCEPT !.fn = fn]
\* int outer(int n, int *p) { int s = 4; do { s = clamp(s - n, 2); note(p, s); } while (--n > 0); return s + clamp(*p, clamp(n, 1)); }
OuterFn == Fn(<<"i32", "ptr">>, "i32",
  << <<Goto(2)>>,
     <<I("phi", 1, "i32", <<A(1, "i32"), L(1), V(5, "i32"), L(2)>>),
       I("phi", 2, "i32", <<C("i32", 4), L(1), V(4, "i32"), L(2)>>),
       I("sub", 3, "i32", <<V(2, "i32"), V(1, "i32")>>),
       Inner(4, "clamp", ClampFn, <<V(3, "i32"), C("i32", 2)>>),
       Inner(0, "note", NoteFn, <<A(2, "ptr"), V(4, "i32")>>),
       I("add", 5, "i32", <<V(1, "i32"), C("i32", -1)>>),
       Set("gt", 6, V(5, "i32"), C("i32", 0)), If(V(6, "bool"), 2, 3)>>,
     <<I("load", 7, "i32", <<A(2, "ptr")>>),
       Inner(8, "clamp", ClampFn, <<V(5, "i32"), C("i32", 1)>>),
       Inner(9, "clamp", ClampFn, <<V(7, "i32"), V(8, "i32")>>),
       I("add", 10, "i32", <<V(4, "i32"), V(9, "i32")>>), Ret(V(10, "i32"))>> >>)

\* Two loops, one in the other, with their blocks in the order of a for statement's translation:
\* void grid(int *p, int n) { for (int i = 0; i < n; i++) for (int j = 0; j < i; j++) if (j == 1) break; else p[j] += i; }
GridFn == Fn(<<"ptr", "i32">>, "void",
  << <<Goto(2)>>,
     <<I("phi", 1, "i32", <<C("i32", 0), L(1), V(8, "i32"), L(9)>>),
       Set("lt", 2, V(1, "i32"), A(2, "i32")), If(V(2, "bool"), 3, 10)>>,
     <<Goto(4)>>,
     <<I("phi", 3, "i32", <<C("i32", 0), L(3), V(7, "i32"), L(8)>>),
       Set("lt", 4, V(3, "i32"), V(1, "i32")), If(V(4, "bool"), 5, 9)>>,
     <<Set("eq", 5, V(3, "i32"), C("i32", 1)), If(V(5, "bool"), 6, 7)>>,
     <<Goto(9)>>,
     <<Of(I("gep", 6, "ptr", <<A(1, "ptr"), V(3, "i32")>>), Scalar("i32")),
       I("load", 9, "i32", <<V(6, "ptr")>>),
       I("add", 10, "i32", <<V(9, "i32"), V(1, "i32")>>), Store(V(6, "ptr"), V(10, "i32")), Goto(8)>>,
     <<I("add", 7, "i32", <<V(3, "i32"), C("i32", 1)>>), Goto(4)>>,
     <<I("add", 8, "i32", <<V(1, "i32"), C("i32", 1)>>), Goto(2)>>,
     <<I("ret", 0, "void", <<>>)>> >>)

Spilling(fn, inputs) == [fn |-> fn, inputs |-> inputs, spills |-> 1, optimize |-> FALSE]
\* A register that holds two doubles, as a conversion's does, loses one when it is spilled (see Lower).
NotSpilling(fn, inputs) == [fn |-> fn, inputs |-> inputs, spills |-> 0, optimize |-> FALSE]
Optimized(fn, inputs) == [fn |-> fn, inputs |-> inputs, spills |-> 0, optimize |-> TRUE]
MCPrograms ==
  { Spilling(MaxFn, {<<24, 3>>, <<24, 40>>}),
    Spilling(LoopFn, {<<0>>, <<3>>}),
    Spilling(DivFn, {<<25, 24>>, <<5, 40>>, <<229, 24>>}),
    Spilling(LocalFn, {<<6>>, <<255>>}),
    Spilling(SixFn, {<<3, 9, 17, 300, 250, 1025>>}),
    Spilling(FloatFn, {<<D(3), F(2), 4>>, <<D(-4), F(2), 255>>}),
    Spilling(UnsignedFn, {<<200, 7, 3, 299>>, <<6, 250, 1, 40000>>}),
    Spilling(PointerFn, {<<16, 0, 2>>, <<26, 1, 0>>}),
    Spilling(FillFn, {<<18, 33>>}),
    Spilling(VarFn, {<<2, 7, D(3)>>}),
    Spilling(WholeFn, {<<D(3), F(-5)>>}),
    NotSpilling(RealFn, {<<3, 600, 14, 65532>>}),
    NotSpilling(WidenFn, {<<600, D(2)>>, <<40000, 0>>}),
    Spilling(BitsFn, {<<5, 24, 3>>, <<0, 24, 1>>}),
    Spilling(WideFn, {<<24, 7>>, <<24, 3>>}),
    Spilling(ClimbFn, {<<3, D(-3)>>, <<3, D(4)>>}),
    Spilling(SeekFn, {<<3, 9, 24>>, <<9, 12, 24>>}),
    Spilling(PickFn, {<<1, 9, 24>>, <<0, 9, 24>>}),
    Optimized(SeveralFn, {<<3, 3>>, <<2, 7>>, <<9, 2>>}),
    Optimized(TestsFn, {<<3, 9, 24>>, <<9, 3, 24>>, <<9, 1, 28>>, <<0, 0, 28>>}),
    Optimized(EmptyFn, {<<24, 28, 9>>, <<24, 24, 9>>}),
    Optimized(NumberFn, {<<16, 24, 9>>, <<24, 24, 9>>}),
    Optimized(CheapFn, {<<30, 9, 24>>, <<7, 2, 25>>}),
    Optimized(OuterFn, {<<2, 24>>, <<1, 28>>}),
    Optimized(GridFn, {<<24, 3>>}) }

\* int exchange(int a, int *p) { int x = *p; *p = a; return a - x; }
ExchangeFn == Fn(<<"i32", "ptr">>, "i32",
  << <<I("load", 1, "i32", <<A(2, "ptr")>>),
       Store(A(2, "ptr"), A(1, "i32")),
       I("sub", 2, "i32", <<A(1, "i32"), V(1, "i32")>>), Ret(V(2, "i32"))>> >>)
\* int count(int x) { int old; do { old = x; x = x + 1; } while (old < 2); return x; }: the move of
\* x before the comparison with the old x (PhiLowering). ComparePrograms is no run of its own; in
\* the place of ExchangePrograms it violates SameBehaviour as soon as the function is generated.
CompareFn == Fn(<<"i32">>, "i32",
  << <<Goto(2)>>,
     <<I("phi", 1, "i32", <<A(1, "i32"), L(1), V(2, "i32"), L(2)>>),
       I("add", 2, "i32", <<V(1, "i32"), C("i32", 1)>>),
       Set("lt", 3, V(1, "i32"), C("i32", 2)), If(V(3, "bool"), 2, 3)>>,
     <<Ret(V(2, "i32"))>> >>)
ComparePrograms == {NotSpilling(CompareFn, {<<0>>})}
ExchangePrograms == {NotSpilling(ExchangeFn, {<<5, 24>>})}
=============================================================================

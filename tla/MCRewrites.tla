----------------------------- MODULE MCRewrites -----------------------------
(* Functions for Rewrites: one operation on every choice of operands, and the
   sequences that rules pass on to each other.                              *)
EXTENDS Rewrites

MCSamples == {-128, -65, -8, -7, -5, -2, -1, 0, 1, 2, 3, 5, 7, 16, 100, 127}

Integer == {"u32", "i32", "u64", "i64"}
X(t) == [kind |-> "arg", type |-> t, n |-> 0]
C(t, v) == Const(t, Word(Wrap(t, v)))
T(n, t) == [kind |-> "instr", type |-> t, n |-> n]
I(n, op, t, a, b) == [id |-> n, op |-> op, type |-> t, args |-> <<a, b>>]
Cast(n, op, t, a) == [id |-> n, op |-> op, type |-> t, args |-> <<a>>]
(* The function that returns its last instruction. *)
Function(c) == [code |-> c, ret |-> T(c[Len(c)].id, c[Len(c)].type)]

Binary == {"add", "sub", "mul", "div", "rem", "and", "or", "xor", "shl", "shr"}
ResultType(op, t) == IF op \in SetccOps THEN "bool" ELSE t
Op(n, op, t, a, b) == I(n, op, ResultType(op, t), a, b)

Numbers(t) == {-1, 0, 1, 2, 2^(Bits(t) - 1)} \cup (IF t = "u64" THEN {2^Half, 2^Half + 2} ELSE {})
Consts(t) == {C(t, v) : v \in Numbers(t)}

(* One operation on the argument, on constants, on both. *)
Operands(t) ==
  ({X(t)} \X (Consts(t) \cup {X(t)})) \cup (Consts(t) \X {X(t)})
  \cup ({C(t, v) : v \in {-1, 0, 2, 2^(Bits(t) - 1)}} \X {C(t, v) : v \in {-1, 0, 2}})
Singles ==
  UNION {{Function(<<Op(1, op, t, ab[1], ab[2])>>) :
            op \in Binary \cup SetccOps, ab \in Operands(t)} : t \in Integer}

(* Adding, subtracting and masking, and taking it back. *)
Chains ==
  UNION {{Function(<<I(1, o1, t, X(t), a), I(2, o2, t, T(1, t), b)>>) :
            o1 \in {"add", "sub"}, o2 \in {"add", "sub"}, a \in Consts(t), b \in Consts(t)} :
           t \in Integer}
  \cup UNION {{Function(<<I(1, o1, t, X(t), C(t, -1)), I(2, o2, t, T(1, t), b)>>) :
            o1 \in {"or", "and", "xor"}, o2 \in Binary, b \in Consts(t)} :
           t \in Integer}
  \cup UNION {{Function(<<I(1, "add", t, X(t), a), I(2, "sub", t, T(1, t), a),
                          I(3, o, t, T(2, t), T(1, t))>>) :
            o \in {"add", "mul", "sub"}, a \in Consts(t)} :
           t \in Integer}

(* Conversions of constants and of the argument, with an operation on the
   result: words out of their type's range come from here. *)
Casts ==
  {<<"trunc", "u64", "u32">>, <<"trunc", "i64", "u32">>, <<"trunc", "i64", "i32">>,
   <<"bitcast", "i32", "u32">>, <<"bitcast", "u32", "i32">>, <<"bitcast", "i64", "u64">>,
   <<"sext", "i32", "i64">>, <<"zext", "u32", "i64">>, <<"sext", "i32", "u64">>}
Narrowings == {<<"trunc", "i32", "i8", "sext">>, <<"trunc", "i32", "u8", "zext">>}
Conversions ==
  UNION {{Function(<<Cast(1, c[1], c[3], a), Op(2, op, c[3], T(1, c[3]), b)>>) :
            op \in {"add", "mul", "div", "rem", "shr", "lt"}, a \in Consts(c[2]) \cup {X(c[2])},
            b \in {C(c[3], 2), C(c[3], -1)}} : c \in Casts}
  \cup UNION {{Function(<<Cast(1, c[1], c[3], a), Op(2, op, c[3], X(c[3]), T(1, c[3]))>>) :
            op \in {"add", "mul", "div", "rem", "shr", "lt"}, a \in Consts(c[2])} : c \in Casts}
  \cup UNION {{Function(<<Cast(1, c[1], c[3], a), Cast(2, c[4], "i32", T(1, c[3])),
                          I(3, op, "i32", T(2, "i32"), C("i32", 1))>>) :
            op \in {"add", "shr"}, a \in Consts("i32") \cup {X("i32")}} : c \in Narrowings}

(* Truth values: a comparison, perhaps negated, extended as in an expression
   and tested. *)
Tested(negated, ext, cc, t, a, b, test) ==
  LET first == <<I(1, cc, "bool", a, b)>>
      second == IF negated THEN <<I(2, "xor", "bool", T(1, "bool"), C("bool", 1))>> ELSE <<>>
      e == IF negated THEN 2 ELSE 1
  IN  Function(first \o second \o
        <<Cast(3, ext, "i32", T(e, "bool")), I(4, test, "bool", T(3, "i32"), C("i32", 0))>>)
Truths ==
  {Tested(negated, ext, cc, t, X(t), C(t, 2), test) :
     negated \in BOOLEAN, ext \in {"sext", "zext"}, cc \in SetccOps,
     t \in {"u32", "i32"}, test \in {"eq", "ne"}}
Negations == {Function(<<Op(1, cc, t, C(t, 2), X(t)), I(2, "xor", "bool", T(1, "bool"), C("bool", 1)),
                        I(3, op, "bool", T(2, "bool"), C("bool", v))>>) :
               cc \in SetccOps, t \in {"u32", "i32"},
               op \in {"eq", "ne", "xor"}, v \in {0, 1}}
OfBool == {Function(<<I(1, op, "bool", X("bool"), C("bool", v))>>) :
             op \in {"xor", "eq", "ne"}, v \in {0, 1}}

MCPrograms == Singles \cup Chains \cup Conversions \cup Truths \cup Negations \cup OfBool
=============================================================================

------------------------------- MODULE Frontend -------------------------------
(***************************************************************************)
(* The front end on whole files (jcc.c, jir_gen.c): the tokens of a file    *)
(* are parsed, the last function of the translation unit is translated to   *)
(* the SSA form, and what that does is compared with what the source means. *)
(***************************************************************************)
EXTENDS IRGen, Source

CONSTANTS
    Files,          \* a sequence: [text, f, inputs] is a file that ends with the function f, with
                    \* arguments to try; one whose valid is FALSE is no C, its text is all of it
    MaxSteps,       \* of a run of the source
    MaxBlocks       \* of a run of the SSA form

VARIABLES
    p,              \* the file
    phase,          \* "parse", "translate" or "done"
    toks, calls, nodes, tu
Parse == INSTANCE Declarations
parserVars == <<toks, calls, nodes, tu>>
vars == <<p, phase, toks, calls, nodes, tu, todo, vals, fn>>

TextOf(x) == IF x.valid THEN WrittenFile(x.text, x.f) ELSE x.text \o <<Word("eof")>>
Init ==
    /\ p \in DOMAIN Files
    /\ Parse!StartParse(TextOf(Files[p]), <<>>)
    /\ phase = "parse"
    /\ todo = <<>> /\ vals = <<>> /\ fn = FuncStart([ty |-> Parse!CFunc(Parse!CVoid, <<>>, FALSE), params |-> <<>>, locals |-> <<>>])
ParseStep == phase = "parse" /\ Parse!ParseNext /\ UNCHANGED <<p, phase, todo, vals, fn>>
Parsed == phase = "parse" /\ calls = <<>>
Accepted == Parsed /\ nodes = <<>>
Translate ==
    /\ Accepted
    /\ StartGen(Last(tu.funcs))
    /\ phase' = "translate"
    /\ UNCHANGED <<p, toks, calls, nodes, tu>>
GenStep == phase = "translate" /\ GenNext /\ UNCHANGED <<p, phase, toks, calls, nodes, tu>>
Finish == /\ phase = "translate" /\ todo = <<>>
          /\ phase' = "done"
          /\ UNCHANGED <<p, toks, calls, nodes, tu, todo, vals, fn>>
Refused == Parsed /\ nodes # <<>>
Stopped == phase = "done" \/ Refused
\* Where nothing is left to do the compiler stops; anywhere else, no step is a deadlock.
Stop == Stopped /\ UNCHANGED vars
Next == ParseStep \/ Translate \/ GenStep \/ Finish \/ Stop
Spec == Init /\ [][Next]_vars
\* Weak fairness of every step but Stop. There always is one before the compiler has stopped (the
\* runs look for deadlocks), so what is left to say is that one is taken again and again.
FairSpec == Spec /\ (<>[]Stopped \/ []<><<TRUE>>_vars)
Complete == phase = "done"

(***************************************************************************)
(* The function for the machine that runs the SSA form                      *)
(***************************************************************************)
TypeWord(ty) ==
    CASE ty.k = "scalar" -> ty.t [] IsSmallPow2Struct(ty) -> IntOfSize(TypeSize(ty)).t [] OTHER -> "ptr"
ForMachine(v) ==
    CASE v.k = "val" -> [k |-> "val", id |-> v.id, t |-> TypeWord(v.ty)]
      [] v.k = "arg" -> [k |-> "arg", n |-> v.n, t |-> TypeWord(v.ty)]
      [] v.k = "const" -> [k |-> "const", t |-> TypeWord(v.ty), c |-> v.c]
      [] v.k = "sym" -> [k |-> "sym", name |-> v.name, t |-> "ptr"]
      [] v.k = "bb" -> v
Signature(ty) == [args |-> [n \in DOMAIN ty.args |-> TypeWord(ty.args[n])], ret |-> TypeWord(ty.ret),
                  vararg |-> ty.va, blocks |-> <<>>]
InstrForMachine(i) ==
    [op |-> i.op, id |-> i.id, t |-> TypeWord(i.ty), a |-> [n \in DOMAIN i.a |-> ForMachine(i.a[n])], cc |-> i.cc,
     of |-> CASE i.op = "alloca" -> i.ty.of [] i.op = "gep" -> i.a[1].ty.of [] OTHER -> I32,
     fn |-> IF i.op = "call" THEN Signature(i.a[1].ty.of) ELSE NoProto]
FunctionForMachine ==
    [args |-> [n \in DOMAIN fn.args |-> TypeWord(fn.args[n])], ret |-> TypeWord(fn.ret), vararg |-> fn.vararg,
     blocks |-> [b \in DOMAIN fn.blocks |->
                   [fn.blocks[b] EXCEPT !.ins = [n \in DOMAIN @ |-> InstrForMachine(@[n])]]]]

(***************************************************************************)
(* What jir.c checks of instructions when they are made, and of a function  *)
(***************************************************************************)
ChecksOperands(i) ==
    LET t(n) == i.a[n].ty
        wider == TypeSize(i.ty) > TypeSize(t(1))
    IN  CASE i.op \in {"add", "sub", "mul", "div", "rem"} -> t(1) = t(2) /\ (TypeIsInteger(t(1)) \/ TypeIsFloat(t(1)))
          [] i.op \in {"and", "or", "xor"} -> t(1) = t(2) /\ TypeIsIntegral(t(1))
          [] i.op = "set" -> IsFirstClass(t(1)) /\ (t(1) = t(2) \/ (IsPtr(t(1)) /\ IsPtr(t(2))))
          [] i.op = "branch" /\ Len(i.a) = 3 -> t(1) = Bool
          [] i.op = "trunc" -> TypeIsInteger(t(1)) /\ TypeIsInteger(i.ty) /\ ~wider
          [] i.op = "zext" -> TypeIsIntegral(t(1)) /\ TypeIsInteger(i.ty) /\ wider
          [] i.op = "sext" -> TypeIsIntegral(t(1)) /\ TypeIsIntegral(i.ty) /\ wider
          [] i.op = "ptrtoint" -> IsPtr(t(1)) /\ TypeIsInteger(i.ty)
          [] i.op = "inttoptr" -> TypeIsInteger(t(1)) /\ IsPtr(i.ty)
          [] i.op = "bitcast" -> IsPtr(t(1)) = IsPtr(i.ty) /\ TypeSize(t(1)) = TypeSize(i.ty)
          [] i.op \in {"fpext", "fptrunc"} -> TypeIsFloat(t(1)) /\ TypeIsFloat(i.ty)
          [] i.op \in {"fp2ui", "fp2si"} -> TypeIsFloat(t(1)) /\ TypeIsInteger(i.ty)
          [] i.op \in {"ui2fp", "si2fp"} -> TypeIsInteger(t(1)) /\ TypeIsFloat(i.ty)
          [] i.op = "load" -> IsPtr(t(1)) /\ IsFirstClass(i.ty)
          [] i.op = "store" -> IsPtr(t(1)) /\ t(1).of = t(2) /\ (IsFirstClass(t(2)) \/ IsSmallPow2Struct(t(2)))
          [] i.op = "gep" -> IsPtr(t(1)) /\ \A n \in 2..Len(i.a) : t(n) = I64
          [] i.op = "phi" -> \A n \in DOMAIN i.a : n % 2 = 1 => t(n) = i.ty
          [] i.op = "call" -> /\ IsPtr(t(1)) /\ t(1).of.k = "func"
                              /\ t(1).of.va => Len(i.a) - 1 >= Len(t(1).of.args)
          [] OTHER -> TRUE
BlocksTo(b) == {n \in DOMAIN fn.blocks : \E k \in DOMAIN Last(fn.blocks[n].ins).a :
                                            Last(fn.blocks[n].ins).a[k] = Label(b)}
ChecksPhi(b, i) ==
    LET from == {i.a[n].bb : n \in {k \in DOMAIN i.a : k % 2 = 0}}
    IN  from = {fn.blocks[n].b : n \in BlocksTo(b)} /\ Len(i.a) = 2 * Cardinality(from)
FuncCheck ==
    LET defs == UNION {{fn.blocks[n].ins[k].id : k \in DOMAIN fn.blocks[n].ins} : n \in DOMAIN fn.blocks}
        bbs  == {fn.blocks[n].b : n \in DOMAIN fn.blocks}
        InFunction(v) == (v.k = "val" => v.id \in defs) /\ (v.k = "bb" => v.bb \in bbs) /\ v.k # "null"
    IN  \A n \in DOMAIN fn.blocks :
            LET ins == fn.blocks[n].ins
            IN  /\ ins # <<>>
                /\ \A k \in DOMAIN ins :
                      /\ Terminates(ins[k]) = (k = Len(ins))
                      /\ ins[k].op = "phi" => ChecksPhi(fn.blocks[n].b, ins[k]) /\ \A j \in 1..k : ins[j].op = "phi"
                      /\ \A j \in DOMAIN ins[k].a : InFunction(ins[k].a[j])
                      /\ ChecksOperands(ins[k])

(***************************************************************************)
(* Properties                                                              *)
(***************************************************************************)
\* What is pushed is popped: the file's scope alone is left after its last function, and no
\* initializer and no loop is left open.
TypeOK ==
    /\ p \in DOMAIN Files /\ phase \in {"parse", "translate", "done"}
    /\ Len(tu.scope) >= 1
    /\ phase # "parse" => calls = <<>> /\ Len(tu.scope) = 1 /\ tu.inits = <<>> /\ tu.brk = 0 /\ tu.cont = 0
    /\ phase = "done" => todo = <<>>

\* For every input, the SSA form returns, stores and calls what the source does: parser, typing,
\* initializers, layout and translation together keep the meaning of the function.
SameMeaning ==
    Complete =>
        \A args \in Files[p].inputs :
            RunIR(FunctionForMachine, args, MaxBlocks) = Meaning(Files[p].f, args, MaxSteps)
\* What the compiler asserts of a function holds of what the translation makes of a valid source:
\* the checks of the constructors (jir.c:1664-2354) and of jx_ir_funcCheck, on every instruction.
FunctionChecks == Complete => FuncCheck
\* The recursive descent comes to an end, and so does the translation; a file is compiled when it
\* is a C program and refused when it is not.
Ends == <>(IF Files[p].valid THEN Complete ELSE Refused)
=============================================================================

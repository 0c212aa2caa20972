------------------------------ MODULE Rewrites ------------------------------
(* The rewriting passes jx_ir_moduleEnd repeats on a function: constant
   folding, canonical operand order, peephole rules and the removal of dead
   instructions (jir_pass.c, driven by jir.c), on a block of integer
   instructions that computes one value from one argument.

   Integers have three widths, standing for 8, 32 and 64 bits.  A constant is
   stored, as in jx_ir_constant_t, in a word of Wide bits whatever its type,
   and folding computes on words.  What the instructions of the result
   compute is given by what jmir_gen.c emits for them.                       *)
EXTENDS Integers, Sequences, SequencesExt

CONSTANTS
  Programs,       \* the functions the front end may hand over
  Samples,        \* numbers the argument is tried with
  Narrow, Half, Wide,
  MaxIterations   \* 10 in the code

ASSUME WidthAssumption ==
  /\ Narrow \in Nat /\ Half \in Nat /\ Wide \in Nat
  /\ 1 < Narrow /\ Narrow < Half /\ Half < Wide
ASSUME IterationsAssumption == MaxIterations \in Nat \ {0}

VARIABLES
  program,  \* the function as it was handed over
  code,     \* its instructions, in the order of the block
  ret,      \* the operand of the return instruction
  phase,    \* the pass that is running
  at,       \* index of the instruction it visits next
  hit,      \* this sweep of the pass has reported a change
  changed,  \* some pass of this iteration has
  iter,     \* iteration of the loop, 0 before it
  strayed   \* a rewrite known to be inexact was made
vars == <<program, code, ret, phase, at, hit, changed, iter, strayed>>

-----------------------------------------------------------------------------
(* Types and words. *)
Bits(t) == CASE t = "bool" -> 1
             [] t \in {"u8", "i8"} -> Narrow
             [] t \in {"u32", "i32"} -> Half
             [] t \in {"u64", "i64"} -> Wide
Type == {"bool", "u8", "i8", "u32", "i32", "u64", "i64"}
Signed(t) == t \in {"i8", "i32", "i64"}

SignExtend(bits, n) == LET m == n % 2^bits IN IF 2 * m >= 2^bits THEN m - 2^bits ELSE m
Wrap(t, n) == IF Signed(t) THEN SignExtend(Bits(t), n) ELSE n % 2^Bits(t)
Word(n) == n % 2^Wide
AsI64(w) == SignExtend(Wide, w)

(* An operand is an argument, an instruction (n is its id) or a constant (n
   is its word). *)
Const(t, w) == [kind |-> "const", type |-> t, n |-> w]
IsConst(o) == o.kind = "const"
(* A constant whose word is what its type's constructor stores. *)
Normal(o) == o.n = Word(Wrap(o.type, o.n))

SetccOps == {"le", "ge", "lt", "gt", "eq", "ne"}
Commutative == {"add", "mul", "and", "or", "xor"}
(* An order of operands that negates. *)
ccSwapOperands_Inverts == [le |-> "gt", ge |-> "lt", lt |-> "ge", gt |-> "le", eq |-> "ne", ne |-> "eq"]
ccSwapOperands == [le |-> "ge", ge |-> "le", lt |-> "gt", gt |-> "lt", eq |-> "eq", ne |-> "ne"]
ccInvert == [le |-> "gt", ge |-> "lt", lt |-> "ge", gt |-> "le", eq |-> "ne", ne |-> "eq"]

BitsOf(n) == {i \in 0 .. Wide - 1 : (Word(n) \div 2^i) % 2 = 1}
FromBits(S) == MapThenSumSet(LAMBDA i : 2^i, S)
Abs(n) == IF n < 0 THEN -n ELSE n
(* Towards zero; by zero, which has no meaning, any number. *)
Quotient(a, b) ==
  LET q == IF b = 0 THEN 0 ELSE Abs(a) \div Abs(b) IN IF (a < 0) = (b < 0) THEN q ELSE -q

Compare(cc, a, b) ==
  LET holds == CASE cc = "le" -> a <= b [] cc = "ge" -> a >= b [] cc = "lt" -> a < b
                 [] cc = "gt" -> a > b  [] cc = "eq" -> a = b  [] cc = "ne" -> a # b
  IN  IF holds THEN 1 ELSE 0

Arith(op, a, b) ==
  CASE op = "add" -> a + b
    [] op = "sub" -> a - b
    [] op = "mul" -> a * b
    [] op = "div" -> Quotient(a, b)
    [] op = "rem" -> a - b * Quotient(a, b)
    [] op = "and" -> FromBits(BitsOf(a) \cap BitsOf(b))
    [] op = "or"  -> FromBits(BitsOf(a) \cup BitsOf(b))
    [] op = "xor" -> FromBits((BitsOf(a) \cup BitsOf(b)) \ (BitsOf(a) \cap BitsOf(b)))
    [] op = "shl" -> a * 2^b
    [] op = "shr" -> a \div 2^b

-----------------------------------------------------------------------------
(* What the instructions compute.  A shift by more than the width uses the
   low bits of the count; right shifts are sar for signed types. *)
Shifts == {"shl", "shr"}
Compute(i, x, y) ==
  LET from == i.args[1].type
  IN  CASE i.op \in SetccOps -> Compare(i.op, x, y)
        [] i.op = "zext" -> x % 2^Bits(from)
        [] i.op = "sext" -> Wrap(i.type, IF from = "bool" THEN x ELSE SignExtend(Bits(from), x))
        [] i.op \in {"trunc", "bitcast"} -> Wrap(i.type, x)
        [] i.op \in Shifts -> Wrap(i.type, Arith(i.op, x, y % Bits(i.type)))
        [] OTHER -> Wrap(i.type, Arith(i.op, x, y))

ValueOf(o, values, x) ==
  CASE o.kind = "const" -> Wrap(o.type, o.n)
    [] o.kind = "arg" -> Wrap(o.type, x)
    [] o.kind = "instr" -> values[o.n]

(* The values of the instructions of c for argument x, by id. *)
Values(c, x) ==
  FoldLeft(LAMBDA values, i :
             [id \in DOMAIN values \cup {i.id} |->
                IF id # i.id THEN values[id]
                ELSE Compute(i, ValueOf(i.args[1], values, x),
                             ValueOf(i.args[Len(i.args)], values, x))],
           [id \in {} |-> 0], c)
Result(c, r, x) == ValueOf(r, Values(c, x), x)

(* C gives the computation a meaning: no division by zero or overflowing
   division, no shift by a count out of range. *)
MeaningOf(i, a, b) ==
  /\ i.op \in {"div", "rem"} => b # 0 /\ (b = -1 => a # -(2^(Bits(i.type) - 1)))
  /\ i.op \in Shifts => b \in 0 .. Bits(i.type) - 1
HasMeaning(c, values, x) ==
  \A k \in DOMAIN c :
    MeaningOf(c[k], ValueOf(c[k].args[1], values, x),
              ValueOf(c[k].args[Len(c[k].args)], values, x))

-----------------------------------------------------------------------------
(* Constant folding. *)
Operand(t, w) == IF Signed(t) THEN AsI64(w) ELSE w

(* The host divides words, and traps where the processor does. *)
Traps(i) ==
  /\ i.op \in {"div", "rem"}
  /\ \/ i.args[2].n = 0
     \/ i.type = "i64" /\ AsI64(i.args[2].n) = -1 /\ 2 * i.args[1].n = 2^Wide

FoldedWord(i) ==
  LET t == i.type
      from == i.args[1].type
      a == i.args[1].n
      b == i.args[Len(i.args)].n
  IN  CASE i.op \in SetccOps -> Compare(i.op, Wrap(from, a), Wrap(from, b))
        [] i.op = "zext" -> a % 2^Bits(from)
        [] i.op = "sext" -> Word(IF from = "bool" THEN a ELSE SignExtend(Bits(from), a))
        [] i.op \in {"trunc", "bitcast"} -> a
        [] i.op \in Shifts -> Word(Wrap(t, Arith(i.op, Operand(t, a), b % Wide)))
        [] OTHER -> Word(Wrap(t, Arith(i.op, Operand(t, a), Operand(t, b))))

Foldable(i) == \A k \in DOMAIN i.args : IsConst(i.args[k])

(* Operand order. *)
Canonical(i) ==
  LET swapped == [i EXCEPT !.args = <<i.args[2], i.args[1]>>]
  IN  CASE i.op \in Commutative /\ IsConst(i.args[1]) -> swapped
        [] i.op \in SetccOps /\ IsConst(i.args[1]) -> [swapped EXCEPT !.op = ccSwapOperands[i.op]]
        [] i.op = "sub" /\ IsConst(i.args[2]) /\ Signed(i.type) ->
             [i EXCEPT !.op = "add", !.args[2].n = Word(-@)]
        [] OTHER -> i

-----------------------------------------------------------------------------
(* Conditions of the peephole rules on instruction i. *)
DefOf(o) == CHOOSE i \in {code[k] : k \in DOMAIN code} : i.id = o.n
DefinedBy(o, ops) == o.kind = "instr" /\ DefOf(o).op \in ops

ByConst(i, op) == i.op = op /\ IsConst(i.args[2])
IsZero(o) == o.n = 0
IsOnes(o) == o.n % 2^Bits(o.type) = 2^Bits(o.type) - 1

Low(o) == o.n % 2^Half
Log2(n) == IF n = 0 THEN 0 ELSE CHOOSE k \in 0 .. Half : 2^k <= n /\ n < 2^(k + 1)
IsPow2(n) == n = 0 \/ n = 2^Log2(n)

IsSameBool(i) ==
  /\ i.op \in {"eq", "ne"} /\ IsConst(i.args[2]) /\ i.args[1].type = "bool"
  /\ (i.op = "eq") = (i.args[2].n # 0)
IsExtTest(i) ==
  /\ i.op \in {"eq", "ne"} /\ IsConst(i.args[2]) /\ i.args[1].type # "bool"
  /\ DefinedBy(i.args[1], {"sext", "zext"}) /\ DefOf(i.args[1]).args[1].type = "bool"
  /\ IsZero(i.args[2])
IsByOne(i) == i.op \in {"div", "mul"} /\ IsConst(i.args[2]) /\ i.args[2].n = 1
IsByPow2(i) ==
  /\ i.op \in {"div", "mul"} /\ IsConst(i.args[2]) /\ ~IsByOne(i)
  /\ AsI64(i.args[2].n) > 0 /\ IsPow2(Low(i.args[2]))
IsAddBack(i) ==
  /\ ByConst(i, "add") /\ ~IsZero(i.args[2]) /\ DefinedBy(i.args[1], {"add"})
  /\ LET first == DefOf(i.args[1]).args[2]
     IN  IsConst(first) /\ first.n = Word(-i.args[2].n)
IsNeutral(i) ==
  \/ \E op \in {"add", "sub", "or", "xor"} : ByConst(i, op) /\ IsZero(i.args[2])
  \/ ByConst(i, "and") /\ IsOnes(i.args[2])
IsAbsorbing(i) ==
  \/ ByConst(i, "and") /\ IsZero(i.args[2])
  \/ ByConst(i, "or") /\ ~IsZero(i.args[2]) /\ IsOnes(i.args[2])
IsNot(i) == ByConst(i, "xor") /\ i.type = "bool" /\ IsOnes(i.args[2])
IsInvertible(i) == IsNot(i) /\ DefinedBy(i.args[1], SetccOps)

-----------------------------------------------------------------------------
Init ==
  /\ program \in Programs
  /\ code = program.code /\ ret = program.ret
  /\ phase = "canon" /\ at = 1 /\ iter = 0
  /\ hit = FALSE /\ changed = FALSE /\ strayed = FALSE

Visiting(p) == phase = p /\ at <= Len(code)
Substitute(o, id, v) == IF o.kind = "instr" /\ o.n = id THEN v ELSE o
(* The return instruction keeps the freed one. *)
ReplaceByValue_NotInReturn(v) ==
  LET id == code[at].id
      renamed == [k \in DOMAIN code |->
                    [code[k] EXCEPT !.args = [a \in DOMAIN @ |-> Substitute(@[a], id, v)]]]
  IN  /\ code' = RemoveAt(renamed, at)
      /\ at' = at /\ UNCHANGED ret
(* All uses of the visited instruction become v; it is freed. *)
ReplaceByValue(v) ==
  LET id == code[at].id
      renamed == [k \in DOMAIN code |->
                    [code[k] EXCEPT !.args = [a \in DOMAIN @ |-> Substitute(@[a], id, v)]]]
  IN  /\ code' = RemoveAt(renamed, at)
      /\ ret' = Substitute(ret, id, v)
      /\ at' = at
(* The new instruction is inserted before the visited one and takes its uses:
   here it also takes its id.  The visit goes on after it. *)
ReplaceByInstr(i) ==
  /\ code' = [code EXCEPT ![at] = i]
  /\ at' = at + 1 /\ UNCHANGED ret
Skip == at' = at + 1 /\ UNCHANGED <<code, ret>>

Report(c) == hit' = (hit \/ c) /\ changed' = (changed \/ c)
Stray(s) == strayed' = (strayed \/ s)
Stays == UNCHANGED <<program, phase, iter>>

FoldVisit ==
  /\ Visiting("fold") /\ Stays
  /\ LET i == code[at] IN
       IF Foldable(i)
         THEN /\ ~Traps(i)
              /\ ReplaceByValue(Const(i.type, FoldedWord(i)))
              /\ Report(TRUE)
              /\ Stray(/\ i.op \in {"div", "rem"} \cup Shifts
                       /\ \E k \in DOMAIN i.args : ~Normal(i.args[k]))
         ELSE Skip /\ UNCHANGED <<hit, changed, strayed>>

CanonVisit ==
  /\ Visiting("canon") /\ Stays
  /\ ReplaceByInstr(Canonical(code[at]))
  /\ UNCHANGED <<hit, changed, strayed>>

-----------------------------------------------------------------------------
(* Peephole rules. *)
(* eq b, true and ne b, false are b: not reported as a change. *)
SetccBool ==
  /\ Visiting("peep") /\ IsSameBool(code[at]) /\ Stays
  /\ ReplaceByValue(code[at].args[1])
  /\ UNCHANGED <<hit, changed, strayed>>
(* A comparison of an extended bool with zero is the bool, also if it is eq. *)
SetccExt ==
  /\ Visiting("peep") /\ IsExtTest(code[at]) /\ Stays
  /\ ReplaceByValue(DefOf(code[at].args[1]).args[1])
  /\ Report(TRUE) /\ Stray(code[at].op = "eq")
DivMulOne ==
  /\ Visiting("peep") /\ IsByOne(code[at]) /\ Stays
  /\ ReplaceByValue(code[at].args[1])
  /\ Report(TRUE) /\ UNCHANGED strayed
DivMulPow2 ==
  /\ Visiting("peep") /\ IsByPow2(code[at]) /\ Stays
  /\ LET i == code[at]
         count == Log2(Low(i.args[2]))
     IN  /\ ReplaceByInstr([i EXCEPT !.op = IF i.op = "div" THEN "shr" ELSE "shl",
                                     !.args[2] = Const("i8", count)])
         /\ Stray(\/ i.op = "div" /\ Signed(i.type)
                  \/ Wrap(i.type, i.args[2].n) # Wrap(i.type, 2^count))
  /\ Report(TRUE)
(* x + c - c is x: not reported as a change. *)
AddBack ==
  /\ Visiting("peep") /\ IsAddBack(code[at]) /\ Stays
  /\ ReplaceByValue(DefOf(code[at].args[1]).args[1])
  /\ UNCHANGED <<hit, changed, strayed>>
Neutral ==
  /\ Visiting("peep") /\ IsNeutral(code[at]) /\ Stays
  /\ ReplaceByValue(code[at].args[1])
  /\ Report(TRUE) /\ UNCHANGED strayed
Absorbing ==
  /\ Visiting("peep") /\ IsAbsorbing(code[at]) /\ Stays
  /\ ReplaceByValue(Const(code[at].type, IF code[at].op = "and" THEN 0 ELSE Word(-1)))
  /\ Report(TRUE) /\ UNCHANGED strayed
XorInvert ==
  /\ Visiting("peep") /\ IsInvertible(code[at]) /\ Stays
  /\ LET test == DefOf(code[at].args[1])
     IN  ReplaceByInstr([test EXCEPT !.id = code[at].id, !.op = ccInvert[test.op]])
  /\ Report(TRUE) /\ UNCHANGED strayed
(* The host traps folding a division, or follows the null pointer that
   stands for the instruction defining an argument. *)
Crash ==
  /\ \/ Visiting("fold") /\ Foldable(code[at]) /\ Traps(code[at])
     \/ Visiting("peep") /\ IsNot(code[at]) /\ code[at].args[1].kind = "arg"
  /\ phase' = "crashed"
  /\ UNCHANGED <<program, code, ret, at, hit, changed, iter, strayed>>

Applies(i) ==
  \/ IsSameBool(i) \/ IsExtTest(i) \/ IsByOne(i) \/ IsByPow2(i) \/ IsAddBack(i)
  \/ IsNeutral(i) \/ IsAbsorbing(i) \/ IsInvertible(i)
PeepSkip ==
  /\ Visiting("peep") /\ Stays
  /\ ~Applies(code[at]) /\ ~(IsNot(code[at]) /\ code[at].args[1].kind = "arg")
  /\ Skip /\ UNCHANGED <<hit, changed, strayed>>

-----------------------------------------------------------------------------
(* Dead instructions: the last sweep of the peephole pass, and the pass of
   its own, which visits a block once however often it repeats. *)
Used(c, r, id) ==
  \/ r.kind = "instr" /\ r.n = id
  \/ \E k \in DOMAIN c : \E a \in DOMAIN c[k].args :
       c[k].args[a].kind = "instr" /\ c[k].args[a].n = id
SweepVisit ==
  /\ Visiting("sweep") \/ Visiting("dce")
  /\ Stays /\ UNCHANGED strayed
  /\ IF Used(code, ret, code[at].id)
       THEN Skip /\ UNCHANGED <<hit, changed>>
       ELSE code' = RemoveAt(code, at) /\ UNCHANGED <<ret, at>> /\ Report(TRUE)

AtEnd(p) == phase = p /\ at = Len(code) + 1
NextPass(p) ==
  /\ phase' = p /\ at' = 1 /\ hit' = FALSE
  /\ UNCHANGED <<program, code, ret, strayed>>
(* A sweep that changed something is repeated. *)
SweepAgain ==
  /\ \E p \in {"fold", "peep"} : AtEnd(p) /\ hit /\ NextPass(p)
  /\ UNCHANGED <<iter, changed>>
(* The result of the dead code pass replaces that of the passes before. *)
PassEnds_Overwritten ==
  /\ \/ AtEnd("canon") /\ iter = 0 /\ NextPass("fold")
     \/ AtEnd("fold") /\ ~hit /\ iter = 0 /\ NextPass("dce")
     \/ AtEnd("fold") /\ ~hit /\ iter > 0 /\ NextPass("canon")
     \/ AtEnd("canon") /\ iter > 0 /\ NextPass("peep")
     \/ AtEnd("peep") /\ ~hit /\ NextPass("sweep")
     \/ AtEnd("sweep") /\ NextPass("dce")
  /\ changed' = (changed /\ phase # "sweep") /\ UNCHANGED iter
(* The order of the passes, before the loop and in it. *)
PassEnds ==
  /\ \/ AtEnd("canon") /\ iter = 0 /\ NextPass("fold")
     \/ AtEnd("fold") /\ ~hit /\ iter = 0 /\ NextPass("dce")
     \/ AtEnd("fold") /\ ~hit /\ iter > 0 /\ NextPass("canon")
     \/ AtEnd("canon") /\ iter > 0 /\ NextPass("peep")
     \/ AtEnd("peep") /\ ~hit /\ NextPass("sweep")
     \/ AtEnd("sweep") /\ NextPass("dce")
  /\ UNCHANGED <<iter, changed>>
(* changed is not reset when an iteration starts. *)
IterationEnds_NoReset ==
  /\ AtEnd("dce")
  /\ IF iter = 0 \/ (changed /\ iter < MaxIterations)
       THEN NextPass("fold") /\ iter' = iter + 1 /\ UNCHANGED changed
       ELSE NextPass("done") /\ UNCHANGED <<iter, changed>>
(* One round before the loop, then until nothing changes. *)
IterationEnds ==
  /\ AtEnd("dce")
  /\ IF iter = 0 \/ (changed /\ iter < MaxIterations)
       THEN NextPass("fold") /\ iter' = iter + 1 /\ changed' = FALSE
       ELSE NextPass("done") /\ UNCHANGED <<iter, changed>>

Next ==
  \/ FoldVisit \/ CanonVisit
  \/ SetccBool \/ SetccExt \/ DivMulOne \/ DivMulPow2 \/ AddBack \/ Neutral
  \/ Absorbing \/ XorInvert \/ Crash \/ PeepSkip
  \/ SweepVisit \/ SweepAgain \/ PassEnds \/ IterationEnds

Spec == Init /\ [][Next]_vars
FairSpec == Spec /\ WF_vars(Next)

-----------------------------------------------------------------------------
(* Types, and that every operand names an instruction further up: rewriting
   in place keeps definitions before uses (jx_ir_bbInsertInstrBefore). *)
OperandOK(o, n) ==
  /\ o.type \in Type
  /\ o.kind = "const" => o.n \in 0 .. 2^Wide - 1
  /\ o.kind = "instr" => \E k \in 1 .. n : code[k].id = o.n /\ code[k].type = o.type
TypeOK ==
  /\ phase \in {"fold", "canon", "peep", "sweep", "dce", "done", "crashed"}
  /\ at \in 1 .. Len(code) + 1 /\ iter \in 0 .. MaxIterations
  /\ {hit, changed, strayed} \subseteq BOOLEAN
  /\ \A k \in DOMAIN code :
       /\ \A a \in DOMAIN code[k].args : OperandOK(code[k].args[a], k - 1)
       /\ \A l \in DOMAIN code : code[k].id = code[l].id => k = l
  /\ OperandOK(ret, Len(code)) /\ ret.type = program.ret.type

(* However folding, reordering and the peephole rules feed each other, the
   function returns what it returned before, for every argument for which
   it had a meaning: constants stored wider than their type, changed
   comparisons and shifts included.  Rewrites known to be inexact are those
   that set strayed (jir_pass.c:2005, 2043,
   2080; 1440 for words out of range). *)
ValuePreserved ==
  strayed \/ \A x \in Samples :
    LET source == Values(program.code, x)
    IN  HasMeaning(program.code, source, x) =>
          Result(code, ret, x) = ValueOf(program.ret, source, x)

(* When the loop ends because nothing changed there is nothing left for any
   pass to do, although some rewrites are not reported as changes and the
   reordering pass reports none (jir_pass.c:2763). *)
NormalForm ==
  phase = "done" /\ ~changed =>
    \A k \in DOMAIN code :
      /\ ~Foldable(code[k]) /\ Canonical(code[k]) = code[k] /\ ~Applies(code[k])
      /\ Used(code, ret, code[k].id)

(* The passes stop, and because nothing is left to do: the cap on the
   iterations (jir.c:497) is never what ends the loop. *)
Settles == <>(phase = "crashed" \/ (phase = "done" /\ ~changed))
=============================================================================

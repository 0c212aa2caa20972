------------------------------ MODULE IRPasses ------------------------------
(***************************************************************************)
(* The passes of jx_ir_moduleEnd on the SSA form of a function (jir_pass.c): *)
(* one block for all returns, constant folding, the order of operands, the  *)
(* peephole rules for values and for branches, redundant phis, the control  *)
(* flow graph, dead code, local value numbering, inlining and the order of  *)
(* the blocks; with the functions of jir.c that keep the phis of a block    *)
(* and its predecessors in step. Select describes the form.                 *)
(*                                                                         *)
(* A constant is what its type's constructor stores: words wider than their *)
(* type are the subject of Rewrites. A new instruction that takes the uses  *)
(* of another has its id.                                                   *)
(***************************************************************************)
EXTENDS Machine

Stored(t, c) == CASE t = "bool" -> c % 2 [] IsFloatType(t) -> c [] t = "ptr" -> c % 65536
                  [] IsSignedType(t) /\ ~IsFloatType(t) -> Signed(Convert(t), c)
                  [] OTHER -> c % Mod(Convert(t))
Constant(t, c) == [k |-> "const", c |-> Stored(t, c), t |-> t]
ValueOf(i) == [k |-> "val", id |-> i.id, t |-> i.t]
Label(b) == [k |-> "bb", bb |-> b, t |-> "label"]
Instr(op, id, t, a) == [op |-> op, id |-> id, t |-> t, a |-> a, of |-> Scalar("i32"), cc |-> "eq", fn |-> NoProto]
Branch(b) == Instr("branch", 0, "void", <<Label(b)>>)

(***************************************************************************)
(* Functions, blocks and their edges                                       *)
(***************************************************************************)
Joined(seqs) == Fold(LAMBDA acc, s : acc \o s, <<>>, seqs)
Names(fn) == [k \in DOMAIN fn.blocks |-> fn.blocks[k].b]
IndexOf(fn, b) == CHOOSE k \in DOMAIN fn.blocks : fn.blocks[k].b = b
Body(fn, b) == fn.blocks[IndexOf(fn, b)].ins
WithBody(fn, b, ins) == [fn EXCEPT !.blocks[IndexOf(fn, b)].ins = ins]
AllIns(fn) == UNION {ToSet(fn.blocks[k].ins) : k \in DOMAIN fn.blocks}
MapAll(fn, Op(_)) ==
    [fn EXCEPT !.blocks = [k \in DOMAIN @ |-> [@[k] EXCEPT !.ins = [n \in DOMAIN @ |-> Op(@[n])]]]]
After(S) == CHOOSE n \in {m + 1 : m \in S} : \A m \in S : m < n
NewId(fn) == After({0} \cup {i.id : i \in AllIns(fn)})
NewBlock(fn) == After(ToSet(Names(fn)))

\* jx_ir_instrIsUncondBranch, jx_ir_instrIsCondBranch
IsGoto(i) == i.op = "branch" /\ Len(i.a) = 1
IsIf(i) == i.op = "branch" /\ Len(i.a) = 3
Dests(i) == IF i.op # "branch" THEN <<>>
            ELSE LET to == SelectSeq(i.a, LAMBDA v : v.k = "bb") IN [n \in DOMAIN to |-> to[n].bb]
\* m_PredArr: a block once for every edge.
Preds(fn, b) == Fold(LAMBDA acc, blk : acc \o [n \in DOMAIN SelectSeq(Dests(Last(blk.ins)), LAMBDA d : d = b) |-> blk.b],
                     <<>>, SelectSeq(fn.blocks, LAMBDA blk : blk.ins # <<>>))

\* jir_bbRemovePred: each phi of the block loses its first value from the predecessor.
WithoutPred(i, b) ==
    LET from == {n \in 1..(Len(i.a) \div 2) : i.op = "phi" /\ i.a[2 * n].bb = b}
    IN  IF from = {} THEN i
        ELSE LET n == CHOOSE x \in from : \A y \in from : x <= y
             IN  [i EXCEPT !.a = SubSeq(@, 1, 2 * n - 2) \o SubSeq(@, 2 * n + 1, Len(@))]
RemovePred(fn, to, b) ==
    LET ins == Body(fn, to) IN WithBody(fn, to, [n \in DOMAIN ins |-> WithoutPred(ins[n], b)])
\* The terminator of the block is removed and freed; another one ends it.
Unlink(fn, b) ==
    LET ins == Body(fn, b)
    IN  Fold(LAMBDA g, to : RemovePred(g, to, b), WithBody(fn, b, Front(ins)), Dests(Last(ins)))
Terminate(fn, b, i) == LET g == Unlink(fn, b) IN WithBody(g, b, Append(Body(g, b), i))
DropBlock(fn, b) == [fn EXCEPT !.blocks = SelectSeq(@, LAMBDA blk : blk.b # b)]
\* jx_ir_funcRemoveBasicBlock and jx_ir_bbFree
RemoveBlock(fn, b) == DropBlock(Unlink(fn, b), b)

\* jx_ir_valueReplaceAllUsesWith
Subst(i, id, v) == [i EXCEPT !.a = [n \in DOMAIN @ |-> IF @[n].k = "val" /\ @[n].id = id THEN v ELSE @[n]]]
ReplaceUses(fn, id, v) == MapAll(fn, LAMBDA i : Subst(i, id, v))
DeleteAt(fn, b, m) == WithBody(fn, b, RemoveAt(Body(fn, b), m))
ReplaceByValue(fn, b, m, v) == ReplaceUses(DeleteAt(fn, b, m), Body(fn, b)[m].id, v)
DefOf(fn, v) == CHOOSE i \in AllIns(fn) : i.id = v.id /\ i.op # "branch"
DefinedBy(fn, v, ops) == v.k = "val" /\ DefOf(fn, v).op \in ops
\* jx_ir_instrIsDead
IsUsed(fn, id) == \E i \in AllIns(fn) : \E n \in DOMAIN i.a : i.a[n].k = "val" /\ i.a[n].id = id
IsDead(fn, i) == i.op \notin {"branch", "call", "ret", "store"} /\ ~IsUsed(fn, i.id)

(***************************************************************************)
(* A pass goes over the blocks in list order and over the instructions of   *)
(* a block from its head, taking the next one before it changes anything:   *)
(* what is after an instruction stays, so the visits count from the end.    *)
(* s is [fn, n]: the function and the changes the pass has counted.          *)
(***************************************************************************)
Counted(s, fn) == [fn |-> fn, n |-> s.n + 1]
Uncounted(s, fn) == [s EXCEPT !.fn = fn]
SweepBlock(s, b, Visit(_, _, _)) ==
    LET len == Len(Body(s.fn, b))
    IN  Fold(LAMBDA t, j : LET m == Len(Body(t.fn, b)) - (len - j) IN Visit(t, b, m), s, [j \in 1..len |-> j])
SweepOnce(s, Visit(_, _, _)) ==
    Fold(LAMBDA t, b : IF Contains(Names(t.fn), b) THEN SweepBlock(t, b, Visit) ELSE t, s, Names(s.fn))
Start(fn) == [fn |-> fn, n |-> 0]
\* Sweeps until one of them counts no change.
SweepAll(s0, Visit(_, _, _)) ==
    LET RECURSIVE Sweeps(_)
        Sweeps(s) == LET t == SweepOnce(s, Visit) IN IF t.n = s.n THEN t ELSE Sweeps(t)
    IN  Sweeps(s0)

(***************************************************************************)
(* One block for all returns                                               *)
(***************************************************************************)
SingleRet(fn) ==
    LET rets == SelectSeq(fn.blocks, LAMBDA blk : Last(blk.ins).op = "ret")
        exit == NewBlock(fn)
        phi  == Instr("phi", NewId(fn), fn.ret,
                      Joined([n \in DOMAIN rets |-> <<Last(rets[n].ins).a[1], Label(rets[n].b)>>]))
        body == IF fn.ret = "void" THEN <<Instr("ret", 0, "void", <<>>)>>
                ELSE <<phi, Instr("ret", 0, "void", <<ValueOf(phi)>>)>>
    IN  IF Len(rets) <= 1 THEN Start(fn)
        ELSE Counted(Start(fn), [Fold(LAMBDA g, blk : Terminate(g, blk.b, Branch(exit)), fn, rets)
                                    EXCEPT !.blocks = Append(@, [b |-> exit, ins |-> body])])

(***************************************************************************)
(* Constant folding                                                        *)
(***************************************************************************)
Conversions == {"trunc", "zext", "sext", "fp2si", "fp2ui", "si2fp", "ui2fp", "fptrunc", "fpext", "bitcast",
                "inttoptr", "ptrtoint"}
IntOps == {"add", "sub", "mul", "div", "rem", "and", "or", "xor", "shl", "shr"}
Foldable(i) == i.op \in IntOps \cup Conversions \cup {"set"} /\ \A n \in DOMAIN i.a : IsConst(i.a[n])
FoldFloat(op, x, y) == CASE op = "add" -> x + y [] op = "sub" -> x - y [] op = "mul" -> x * y [] op = "div" -> x \div y
FoldedTo(i) ==
    LET x == i.a[1].c
        y == i.a[Len(i.a)].c
        from == i.a[1].t
    IN  CASE i.op = "set" -> IF Holds(i.cc, x, y) THEN 1 ELSE 0
          [] i.op \in IntOps /\ IsFloatType(i.t) -> FoldFloat(i.op, x, y)
          [] i.op \in IntOps /\ i.t = "bool" -> (x + y) % 2      \* xor
          [] i.op \in IntOps /\ i.t # "bool" /\ ~IsFloatType(i.t) -> IntArith(i.op, i.t, IRConst(from, x), IRConst(i.a[2].t, y))
          [] i.op = "zext" -> IF from = "bool" THEN x ELSE x % Mod(Convert(from))
          [] i.op \in {"sext", "si2fp", "ui2fp"} -> IF from = "bool" THEN x ELSE Signed(Convert(from), x)
          [] OTHER -> x
\* jx_ir_bbConvertCondBranch: the branch stays in place, and so do the values from this block
\* in the phis of the target that is left.
ConvertCondBranch(fn, b, cond) ==
    LET i == Last(Body(fn, b))
        keep == IF cond THEN 2 ELSE 3
        fn1 == RemovePred(fn, i.a[5 - keep].bb, b)
    IN  WithBody(fn1, b, Append(Front(Body(fn1, b)), [i EXCEPT !.a = <<@[keep]>>]))
FoldVisit(s, b, m) ==
    LET i == Body(s.fn, b)[m]
    IN  CASE IsIf(i) /\ IsConst(i.a[1]) -> Counted(s, ConvertCondBranch(s.fn, b, i.a[1].c # 0))
          [] Foldable(i) -> Counted(s, ReplaceByValue(s.fn, b, m, Constant(i.t, FoldedTo(i))))
          [] OTHER -> s
ConstantFolding(fn) == SweepAll(Start(fn), FoldVisit)

(***************************************************************************)
(* The order of operands: a constant comes second, and is added, not         *)
(* subtracted. The pass never reports a change.                             *)
(***************************************************************************)
Commutes == {"add", "mul", "and", "or", "xor"}
ccSwapOperands == [le |-> "ge", ge |-> "le", lt |-> "gt", gt |-> "lt", eq |-> "eq", ne |-> "ne"]
ccInvert == [le |-> "gt", ge |-> "lt", lt |-> "ge", gt |-> "le", eq |-> "ne", ne |-> "eq"]
Canonicalize(i) ==
    CASE i.op \in Commutes /\ IsConst(i.a[1]) -> [i EXCEPT !.a = Reverse(@)]
      [] i.op = "set" /\ IsConst(i.a[1]) -> [i EXCEPT !.a = Reverse(@), !.cc = ccSwapOperands[@]]
      [] i.op = "sub" /\ IsConst(i.a[2]) /\ IsSignedType(i.a[2].t) ->
            [i EXCEPT !.op = "add", !.a[2] = Constant(@.t, 0 - @.c)]
      [] OTHER -> i
CanonicalizeOperands(fn) == Start(MapAll(fn, Canonicalize))

(***************************************************************************)
(* Peephole rules for values                                               *)
(***************************************************************************)
ByConst(i, ops) == i.op \in ops /\ IsConst(i.a[2])
Is(v, c) == v = Constant(v.t, c)
IsOnes(v) == IF v.t = "bool" THEN v.c = 1 ELSE Is(v, -1)
IsEquality(i) == ByConst(i, {"set"}) /\ i.cc \in {"eq", "ne"}
\* [v, n]: the value an instruction amounts to, none or one, and whether that counts as a change.
\* The comparison of an extended bool with zero is the bool, whether it is eq or ne.
AmountsTo(fn, i) ==
    CASE IsEquality(i) /\ i.a[1].t = "bool" ->
            IF (i.cc = "eq") = (i.a[2].c # 0) THEN {[v |-> i.a[1], n |-> 0]} ELSE {}
      [] IsEquality(i) /\ i.a[1].t # "bool" ->
            IF DefinedBy(fn, i.a[1], {"sext", "zext"}) /\ DefOf(fn, i.a[1]).a[1].t = "bool" /\ Is(i.a[2], 0)
            THEN {[v |-> DefOf(fn, i.a[1]).a[1], n |-> 1]} ELSE {}
      [] \/ ByConst(i, {"div", "mul"}) /\ Is(i.a[2], 1)
         \/ ByConst(i, {"add", "sub", "or", "xor"}) /\ Is(i.a[2], 0)
         \/ ByConst(i, {"and"}) /\ IsOnes(i.a[2]) /\ ~Is(i.a[2], 0)
         \/ ByConst(i, {"gep"}) /\ Len(i.a) = 2 /\ Is(i.a[2], 0) -> {[v |-> i.a[1], n |-> 1]}
      [] \/ ByConst(i, {"and"}) /\ Is(i.a[2], 0)
         \/ ByConst(i, {"or"}) /\ IsOnes(i.a[2]) -> {[v |-> Constant(i.t, i.a[2].c), n |-> 1]}
      [] ByConst(i, {"add"}) /\ ~IsFloatType(i.t) /\ ~Is(i.a[2], 0) ->
            IF DefinedBy(fn, i.a[1], {"add"}) /\ DefOf(fn, i.a[1]).a[2] = [i.a[2] EXCEPT !.c = 0 - @]
            THEN {[v |-> DefOf(fn, i.a[1]).a[1], n |-> 0]} ELSE {}
      [] ByConst(i, {"gep"}) /\ Len(i.a) = 2 /\ i.a[2].c < 0 ->
            IF DefinedBy(fn, i.a[1], {"gep"})
               /\ LET j == DefOf(fn, i.a[1]) IN Len(j.a) = 2 /\ IsConst(j.a[2]) /\ j.a[2].c = 0 - i.a[2].c
            THEN {[v |-> DefOf(fn, i.a[1]).a[1], n |-> 1]} ELSE {}
      [] OTHER -> {}
\* jx_isPow2_u32, jx_log2_u32 of the lower half of a word; zero is taken for a power of two.
Low(v) == v.c % 256
Powers == {2 ^ n : n \in 0..7}
Log2(n) == IF n = 0 THEN 0 ELSE CHOOSE k \in 0..7 : 2 ^ k <= n /\ n < 2 ^ (k + 1)
\* The instruction that does the same at less cost, none or one.
Cheaper(fn, i) ==
    CASE ByConst(i, {"div", "mul"}) /\ ~IsFloatType(i.t) /\ i.a[2].c > 0 /\ Low(i.a[2]) \in {0} \cup Powers ->
            {[i EXCEPT !.op = IF i.op = "div" THEN "shr" ELSE "shl",
                       !.a[2] = [k |-> "const", c |-> Log2(Low(i.a[2])), t |-> "i8"]]}
      [] ByConst(i, {"xor"}) /\ i.t = "bool" /\ IsOnes(i.a[2]) /\ DefinedBy(fn, i.a[1], {"set"}) ->
            LET test == DefOf(fn, i.a[1]) IN {[test EXCEPT !.id = i.id, !.cc = ccInvert[@]]}
      [] OTHER -> {}

(***************************************************************************)
(* Peephole rules for branches                                             *)
(***************************************************************************)
\* The branches on a condition that go to the block, once for each of their targets that does.
Users(fn, b) == SelectSeq(Preds(fn, b), LAMBDA c : IsIf(Last(Body(fn, c))))
GoesOn(fn, b) == IsGoto(Body(fn, b)[1])
\* A phi that is alone at the head of its block and chooses between true and false.
IsBoolPhi(ins, m) ==
    LET i == ins[m]
    IN  /\ i.op = "phi" /\ i.t = "bool" /\ Len(i.a) = 4
        /\ m = 1 /\ ins[2].op # "phi"
        /\ IsConst(i.a[1]) /\ IsConst(i.a[3]) /\ i.a[1].c # i.a[3].c
\* a || b and a && b: blocks that only name the result, jumped to by the two tests. The first
\* test jumps where the phi is, the second always, and the phi takes its condition.
ShortCircuit(fn, b) ==
    LET phi == Body(fn, b)[1]
        yes == phi.a[IF phi.a[1].c # 0 THEN 2 ELSE 4].bb
        no  == phi.a[IF phi.a[1].c # 0 THEN 4 ELSE 2].bb
        either == Len(Users(fn, yes)) = 2 /\ Len(Users(fn, no)) = 1
        both   == Len(Users(fn, yes)) = 1 /\ Len(Users(fn, no)) = 2
        second == Users(fn, IF either THEN no ELSE yes)[1]
        shared == Users(fn, IF either THEN yes ELSE no)
        first  == IF shared[1] = second THEN shared[2] ELSE shared[1]
        out    == IF either THEN 2 ELSE 3     \* the operand of the first test that leaves
        test1  == Last(Body(fn, first))
        test2  == Last(Body(fn, second))
        merged == [phi EXCEPT !.a = <<Constant("bool", IF either THEN 1 ELSE 0), Label(first),
                                      test2.a[1], Label(second)>>]
        fn1 == Terminate(Terminate(fn, first, [test1 EXCEPT !.a[out] = Label(b)]), second, Branch(b))
        fn2 == WithBody(fn1, b, <<merged>> \o Tail(Body(fn1, b)))
    IN  IF /\ GoesOn(fn, yes) /\ GoesOn(fn, no) /\ (either \/ both)
           /\ test1.a[out].bb = (IF either THEN yes ELSE no) /\ test2.a[2].bb = yes /\ test2.a[3].bb = no
        THEN {RemoveBlock(RemoveBlock(fn2, yes), no)} ELSE {}
\* A condition nothing uses any more is removed from the block of the branch. In another one it
\* is unlinked, unless it is at its head: then it is all that is left of that block.
RemoveCondition(fn, b, v) ==
    LET home == CHOOSE c \in ToSet(Names(fn)) : \E i \in ToSet(Body(fn, c)) : i.id = v.id /\ i.op # "branch"
        at == CHOOSE m \in DOMAIN Body(fn, home) : Body(fn, home)[m].id = v.id
    IN  CASE v.k # "val" -> fn
          [] v.k = "val" /\ ~IsDead(fn, DefOf(fn, v)) -> fn
          [] v.k = "val" /\ IsDead(fn, DefOf(fn, v)) ->
                IF home # b /\ at = 1 THEN WithBody(fn, home, <<Body(fn, home)[1]>>) ELSE DeleteAt(fn, home, at)
\* Both targets of the branch do nothing but go on to the same block, which has no phi.
EmptyIf(fn, b) ==
    LET i == Last(Body(fn, b))
        join == Dests(Body(fn, i.a[2].bb)[1])
    IN  IF /\ GoesOn(fn, i.a[2].bb) /\ GoesOn(fn, i.a[3].bb)
           /\ Dests(Body(fn, i.a[3].bb)[1]) = join /\ Body(fn, join[1])[1].op # "phi"
        THEN {RemoveCondition(Terminate(fn, b, Branch(join[1])), b, i.a[1])} ELSE {}
PeepholeVisit(s, b, m) ==
    LET fn == s.fn
        i == Body(fn, b)[m]
        One(S) == CHOOSE x \in S : TRUE
        same == AmountsTo(fn, i)
    IN  CASE IsIf(i) -> IF EmptyIf(fn, b) = {} THEN s ELSE Uncounted(s, One(EmptyIf(fn, b)))
          [] IsBoolPhi(Body(fn, b), m) ->
                IF ShortCircuit(fn, b) = {} THEN s ELSE Counted(s, One(ShortCircuit(fn, b)))
          [] i.op \in IntOps \cup {"set", "gep"} /\ same # {} ->
                [fn |-> ReplaceByValue(fn, b, m, One(same).v), n |-> s.n + One(same).n]
          [] i.op \in IntOps /\ same = {} /\ Cheaper(fn, i) # {} ->
                Counted(s, WithBody(fn, b, [Body(fn, b) EXCEPT ![m] = One(Cheaper(fn, i))]))
          [] OTHER -> s
DeadVisit(s, b, m) == IF IsDead(s.fn, Body(s.fn, b)[m]) THEN Counted(s, DeleteAt(s.fn, b, m)) ELSE s
PeepholeIR(fn) == SweepOnce(SweepAll(Start(fn), PeepholeVisit), DeadVisit)

(***************************************************************************)
(* Phis of one value                                                       *)
(***************************************************************************)
PhiVisit(s, b, m) ==
    LET i == Body(s.fn, b)[m]
        values == {i.a[2 * n - 1] : n \in 1..(Len(i.a) \div 2)} \ {ValueOf(i)}
    IN  IF i.op = "phi" /\ Cardinality(values) = 1
        THEN Counted(s, ReplaceByValue(s.fn, b, m, CHOOSE v \in values : TRUE)) ELSE s
RemoveRedundantPhis(fn) == SweepOnce(Start(fn), PhiVisit)

(***************************************************************************)
(* The control flow graph                                                  *)
(***************************************************************************)
OnItsOwn(fn, b) == Preds(fn, b) \in {<<>>, <<b>>}
Mergeable(fn, b) ==
    /\ Len(Preds(fn, b)) = 1
    /\ Body(fn, b)[1].op # "phi"
    /\ Len(Dests(Last(Body(fn, Preds(fn, b)[1])))) = 1
\* The phis that name the block name the one it is merged into.
Merge(fn, b) ==
    LET pred == Preds(fn, b)[1]
        joined == WithBody(fn, pred, Front(Body(fn, pred)) \o Body(fn, b))
        Renamed(i) == [i EXCEPT !.a = [n \in DOMAIN @ |-> IF @[n] = Label(b) THEN Label(pred) ELSE @[n]]]
    IN  MapAll(DropBlock(joined, b), Renamed)
\* The first block but the entry that can be removed or merged is; then the next one is looked for.
SimplifyCFG(fn0) ==
    LET RECURSIVE Simplify(_)
        Simplify(s) ==
            LET able == SelectSeq(Tail(Names(s.fn)), LAMBDA b : OnItsOwn(s.fn, b) \/ Mergeable(s.fn, b))
            IN  CASE able = <<>> -> s
                  [] able # <<>> /\ OnItsOwn(s.fn, able[1]) -> Simplify(Counted(s, RemoveBlock(s.fn, able[1])))
                  [] able # <<>> /\ ~OnItsOwn(s.fn, able[1]) -> Simplify(Counted(s, Merge(s.fn, able[1])))
    IN  Simplify(Start(fn0))

(***************************************************************************)
(* Dead code: the dead instructions of the blocks a walk from the entry      *)
(* reaches, and the blocks it does not reach                               *)
(***************************************************************************)
DeadButLast(s, b, m) == IF m = Len(Body(s.fn, b)) THEN s ELSE DeadVisit(s, b, m)
\* All the blocks are emptied before the first one is removed.
RemoveUnseen(s, seen) ==
    LET unseen == SelectSeq(Names(s.fn), LAMBDA b : b \notin seen)
        Empty(fn, b) == WithBody(Unlink(fn, b), b, <<>>)
    IN  [fn |-> Fold(DropBlock, Fold(Empty, s.fn, unseen), unseen), n |-> s.n + Len(unseen)]
EliminateDeadCode(fn) ==
    LET RECURSIVE Visit(_, _)
        Visit(v, b) ==     \* v = [s, seen]
            IF b \in v.seen THEN v
            ELSE LET t == SweepBlock(v.s, b, DeadButLast)
                 IN  Fold(Visit, [s |-> t, seen |-> v.seen \cup {b}], Dests(Last(Body(t.fn, b))))
        all == Visit([s |-> Start(fn), seen |-> {}], fn.blocks[1].b)
    IN  RemoveUnseen(all.s, all.seen)

(***************************************************************************)
(* Local value numbering. What is known is a set of [key, v]; the pass       *)
(* never reports a change.                                                  *)
(***************************************************************************)
EitherOrder(i) == i.op \in Commutes \/ (i.op = "set" /\ i.cc \in {"eq", "ne"})
Numbered(i) == i.op \notin {"call", "store", "alloca", "ret", "branch"}
KeyOf(i) == [op |-> i.op, t |-> i.t, cc |-> i.cc, a |-> IF EitherOrder(i) THEN <<>> ELSE i.a,
             set |-> IF EitherOrder(i) THEN ToSet(i.a) ELSE {}]
NumberBlock(fn0, b) ==
    LET Visit(s, j) ==      \* s = [fn, known]
            LET i == CHOOSE x \in ToSet(Body(s.fn, b)) : x.id = j /\ x.op # "branch"
                at == CHOOSE m \in DOMAIN Body(s.fn, b) : Body(s.fn, b)[m] = i
                hits == {k \in s.known : k.key = KeyOf(i)}
            IN  IF hits = {} THEN [s EXCEPT !.known = @ \cup {[key |-> KeyOf(i), v |-> ValueOf(i)]}]
                ELSE [s EXCEPT !.fn = ReplaceByValue(@, b, at, (CHOOSE k \in hits : TRUE).v)]
        Step(s, m) ==
            LET i == Body(fn0, b)[m]
            IN  CASE i.op \in {"call", "store"} -> [s EXCEPT !.known = {k \in @ : k.key.op # "load"}]
                  [] Numbered(i) -> Visit(s, i.id)
                  [] OTHER -> s
    IN  Fold(Step, [fn |-> fn0, known |-> {}], [m \in DOMAIN Body(fn0, b) |-> m]).fn
LocalValueNumbering(fn) == Start(Fold(NumberBlock, fn, Names(fn)))

(***************************************************************************)
(* Inlining of a call: the blocks of the callee are cloned at the end of     *)
(* the function, the block of the call is split after it.                   *)
(***************************************************************************)
Calls(fn) == Joined([k \in DOMAIN fn.blocks |-> SelectSeq(fn.blocks[k].ins, Internal)])
\* The blocks of the callee with ids and labels of the caller and the arguments in place.
Clone(fn, call) ==
    LET ids == NewId(fn)
        bbs == NewBlock(fn)
        Renamed(v) == CASE v.k = "val" -> [v EXCEPT !.id = @ + ids] [] v.k = "bb" -> Label(v.bb + bbs)
                         [] v.k = "arg" -> call.a[v.n + 1] [] OTHER -> v
        Cloned(i) == [i EXCEPT !.id = IF @ = 0 THEN 0 ELSE @ + ids, !.a = [n \in DOMAIN @ |-> Renamed(@[n])]]
    IN  [k \in DOMAIN call.fn.blocks |->
            [b |-> call.fn.blocks[k].b + bbs,
             ins |-> [n \in DOMAIN call.fn.blocks[k].ins |-> Cloned(call.fn.blocks[k].ins[n])]]]
\* The loop that moves allocas to the entry block goes on with what follows the first one where
\* it has been put: it moves no more than one, and never ends if the entry begins with another.
Hoists(clones) == clones[1].ins[1].op = "alloca"
InliningEnds(fn) == Calls(fn) # <<>> => (Hoists(Calls(fn)[1].fn.blocks) => fn.blocks[1].ins[1].op # "alloca")
Hoist(fn, clones) ==
    IF ~Hoists(clones) THEN [fn EXCEPT !.blocks = @ \o clones]
    ELSE [fn EXCEPT !.blocks = [@ EXCEPT ![1].ins = <<clones[1].ins[1]>> \o @] \o [clones EXCEPT ![1].ins = Tail(@)]]
\* jx_ir_bbSplitAt: what follows the m-th instruction of the block goes to a new one after it; the
\* phis of its successors name that one, at their end.
SplitAt(fn, b, m, cont) ==
    LET ins == Body(fn, b)
        k == IndexOf(fn, b)
        Moved(i) ==
            LET from == SelectSeq([n \in 1..(Len(i.a) \div 2) |-> n], LAMBDA n : i.op = "phi" /\ i.a[2 * n] = Label(b))
                again == Joined([n \in DOMAIN from |-> <<i.a[2 * from[1] - 1], Label(cont)>>])
            IN  [i EXCEPT !.a = Fold(LAMBDA a, n : WithoutPred([i EXCEPT !.a = a], b).a, @, from) \o again]
        fn1 == MapAll(fn, Moved)
        here == SubSeq(Body(fn1, b), 1, m) \o <<Branch(cont)>>
        there == [b |-> cont, ins |-> SubSeq(Body(fn1, b), m + 1, Len(ins))]
    IN  [fn1 EXCEPT !.blocks = InsertAt([@ EXCEPT ![k].ins = here], k + 1, there)]
\* jir_inliner_inlineCall: the call's id goes to the phi of what the clones return.
InlineCall(fn) ==
    LET call == Calls(fn)[1]
        b == CHOOSE x \in ToSet(Names(fn)) : Contains(Body(fn, x), call)
        clones == Clone(fn, call)
        hoisted == Hoist(fn, clones)
        cont == NewBlock(hoisted)
        m == CHOOSE n \in DOMAIN Body(hoisted, b) : Body(hoisted, b)[n] = call
        split == SplitAt(hoisted, b, m, cont)
        rets == SelectSeq(clones, LAMBDA blk : Last(blk.ins).op = "ret")
        phi == Instr("phi", call.id, call.fn.ret,
                     Joined([n \in DOMAIN rets |-> <<Last(rets[n].ins).a[1], Label(rets[n].b)>>]))
        here == SubSeq(Body(split, b), 1, m - 1) \o <<Branch(clones[1].b)>>
        back == Fold(LAMBDA g, blk : WithBody(g, blk.b, Append(Front(Body(g, blk.b)), Branch(cont))),
                     WithBody(split, b, here), rets)
    IN  IF call.fn.ret = "void" THEN back ELSE WithBody(back, cont, <<phi>> \o Body(back, cont))

(***************************************************************************)
(* The order of the blocks: reverse postorder, last successors first         *)
(***************************************************************************)
Postorder(fn) ==
    LET RECURSIVE Walk(_, _)
        Walk(v, b) ==      \* v = [seen, out]
            IF b \in v.seen THEN v
            ELSE LET w == Fold(Walk, [v EXCEPT !.seen = @ \cup {b}], Reverse(Dests(Last(Body(fn, b)))))
                 IN  [w EXCEPT !.out = Append(@, b)]
    IN  Walk([seen |-> {}, out |-> <<>>], fn.blocks[1].b).out
\* Every block is reached: the pass comes after dead code elimination, and so it asserts.
AllReached(fn) == ToSet(Postorder(fn)) = ToSet(Names(fn))
ReorderBlocks(fn) ==
    [fn EXCEPT !.blocks = LET order == Reverse(Postorder(fn)) IN [k \in DOMAIN order |-> [b |-> order[k], ins |-> Body(fn, order[k])]]]

(***************************************************************************)
(* jx_ir_funcCheck: what has to hold of a function between the passes        *)
(***************************************************************************)
IRCheck(fn) ==
    \A k \in DOMAIN fn.blocks :
        LET ins == fn.blocks[k].ins
            preds == Preds(fn, fn.blocks[k].b)
            End(i) == i.op \in {"branch", "ret"}
        IN  /\ ins # <<>> /\ \A n \in DOMAIN ins : End(ins[n]) <=> n = Len(ins)
            /\ \A n \in DOMAIN ins : ins[n].op = "phi" =>
                   /\ \A j \in 1..n : ins[j].op = "phi"
                   /\ Len(ins[n].a) = 2 * Len(preds)
                   /\ \A from \in ToSet(preds) : \E j \in DOMAIN preds : ins[n].a[2 * j] = Label(from)
            /\ ToSet(Dests(Last(ins))) \subseteq ToSet(Names(fn))
=============================================================================

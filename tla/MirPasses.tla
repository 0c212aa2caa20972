------------------------------ MODULE MirPasses ------------------------------
(***************************************************************************)
(* The passes of jx_mir_funcEnd over a function of the machine IR           *)
(* (jmir_pass.c), each an operator from the function to the function it     *)
(* leaves behind. The combiner is in InstrCombine; register allocation is   *)
(* given here by what a colouring may be and what is done with it: how the  *)
(* allocator finds one is the subject of RegAlloc and ColoringStack.        *)
(***************************************************************************)
EXTENDS MIR

MapBlocks(f, Op(_, _)) ==
    [f EXCEPT !.blocks = [k \in DOMAIN @ |-> [@[k] EXCEPT !.ins = Op(k, @)]]]
RemoveAll(ins, Redundant(_)) == SelectSeq(ins, LAMBDA i : ~Redundant(i))
IsInt(t) == ~IsFloat(t)
\* Immediates are kept in 32 bits; a test that also lets the unsigned ones pass.
ImmFits(v) == v \in -128..255

\* A jump at the end of a block to the block that follows it.
RemoveFallthroughJmp(f) ==
    MapBlocks(f, LAMBDA k, ins :
        IF /\ ins # <<>> /\ Last(ins).op = "jmp"
           /\ k < Len(f.blocks) /\ Last(ins).a[1].bb = f.blocks[k + 1].b
        THEN Front(ins) ELSE ins)

\* Moves of a register to itself, whatever the width.
RemoveRedundantMoves(f) ==
    MapBlocks(f, LAMBDA k, ins :
        RemoveAll(ins, LAMBDA i : /\ i.op \in {"mov", "movss", "movsd"}
                                  /\ IsReg(i.a[1]) /\ IsReg(i.a[2]) /\ i.a[1].r = i.a[2].r))

(***************************************************************************)
(* Conditional jumps: cmp, setcc, test, je/jne becomes cmp, jcc.           *)
(***************************************************************************)
At(ins, n) == IF n >= 1 THEN ins[n] ELSE Ins("none", <<>>)
IsByteReg(o) == IsReg(o) /\ o.t = "I8"
TestsSetcc(ins, n) ==
    /\ At(ins, n - 1).op = "test" /\ At(ins, n - 2).op = "setcc"
    /\ At(ins, n - 3).op \in {"cmp", "comiss", "comisd", "ucomiss", "ucomisd"}
    /\ \A o \in {ins[n - 1].a[1], ins[n - 1].a[2], ins[n - 2].a[1]} :
            IsByteReg(o) /\ o.r = ins[n - 1].a[1].r
\* The constant that a move put into the compared register comes back into the comparison.
ConstBefore(ins, m) ==
    /\ IsReg(ins[m].a[2]) /\ At(ins, m - 1).op = "mov"
    /\ IsReg(ins[m - 1].a[1]) /\ ins[m - 1].a[1].r = ins[m].a[2].r /\ IsImm(ins[m - 1].a[2])
Compared(ins, m) ==
    IF ConstBefore(ins, m)
    THEN SubSeq(ins, 1, m - 2) \o <<Ins("cmp", <<ins[m].a[1], ins[m - 1].a[2]>>)>>
    ELSE SubSeq(ins, 1, m)
ComparesZero(i) == i.op = "cmp" /\ IsReg(i.a[1]) /\ IsImm(i.a[2]) /\ i.a[2].v = 0
\* An and whose result is not live at the end of the block is a test.
AsTest(i, live) == IF IsReg(i.a[1]) /\ i.a[1].r \notin live THEN [i EXCEPT !.op = "test"] ELSE i
SimplifyJcc(ins, n, live) ==
    LET rest == SubSeq(ins, n, Len(ins))
        jcc  == [ins[n] EXCEPT !.cc = IF @ = "e" THEN Negated(ins[n - 2].cc) ELSE ins[n - 2].cc]
    IN  CASE TestsSetcc(ins, n) -> Compared(ins, n - 3) \o <<jcc>> \o Tail(rest)
          [] ComparesZero(At(ins, n - 1)) /\ At(ins, n - 2).op = "and" ->
                SubSeq(ins, 1, n - 3) \o <<AsTest(ins[n - 2], live)>> \o rest
          [] At(ins, n - 1).op = "and" -> [ins EXCEPT ![n - 1] = AsTest(@, live)]
          [] OTHER -> ins
SimplifyCondJmp(f) ==
    LET live == LiveOut(f)
    IN  MapBlocks(f, LAMBDA k, ins :
            LET n == FirstTerminator(ins)
            IN  IF n > 1 /\ ins[n].op = "jcc" /\ ins[n].cc \in {"e", "ne"}
                THEN SimplifyJcc(ins, n, live[k][Len(ins)]) ELSE ins)

(***************************************************************************)
(* Blocks: without predecessors they go, a single one of a single successor*)
(* joins it.                                                               *)
(***************************************************************************)
Unreached(f, k) == k > 1 /\ Pred(f, f.blocks[k].b) \subseteq {k}
Joins(f, k) == /\ k > 1
               /\ \E p \in Pred(f, f.blocks[k].b) : /\ Pred(f, f.blocks[k].b) = {p}
                                                    /\ Succ(f, p) = {f.blocks[k].b}
WithoutTerminator(ins) == IF FirstTerminator(ins) = 0 THEN ins
                          ELSE RemoveAt(ins, FirstTerminator(ins))
RECURSIVE SimplifyBlocks(_)
SimplifyBlocks(f) ==
    LET gone == {k \in DOMAIN f.blocks : Unreached(f, k)}
        join == {k \in DOMAIN f.blocks : Joins(f, k)}
        k == CHOOSE x \in gone \cup join : \A y \in gone \cup join : x <= y
        p == CHOOSE x \in Pred(f, f.blocks[k].b) : TRUE
    IN  IF gone \cup join = {} THEN f
        ELSE SimplifyBlocks([f EXCEPT !.blocks = RemoveAt(
                 IF k \in gone THEN @
                 ELSE [@ EXCEPT ![p].ins = WithoutTerminator(@) \o f.blocks[k].ins], k)])

(***************************************************************************)
(* Dead code: instructions all of whose definitions are dead registers.    *)
(***************************************************************************)
RECURSIVE DeadCodeElimination(_)
DeadCodeElimination(f) ==
    LET live == LiveOut(f)
        Dead(k, j) == LET d == Defs(f, f.blocks[k].ins[j])
                      IN  d # {} /\ \A r \in d : IsVirtual(r) /\ r \notin live[k][j]
        g == MapBlocks(f, LAMBDA k, ins :
                 LET kept == SelectSeq([j \in DOMAIN ins |-> j], LAMBDA j : ~Dead(k, j))
                 IN  [n \in DOMAIN kept |-> ins[kept[n]]])
    IN  IF g = f THEN f ELSE DeadCodeElimination(g)

(***************************************************************************)
(* Peephole: one sweep over the function. A sweep's state is [f, changed]; *)
(* an instruction is rewritten knowing what has become of those before it. *)
(***************************************************************************)
IsZero(o) == IsImm(o) /\ IsFloat(o.t) /\ o.v = 0
SimpleBase(o) == IsMem(o) /\ o.b # None /\ IsVirtual(o.b) /\ o.i = None /\ o.s = 1
Rebase_KeepsBase(o, p) == o
\* A base register that the instruction before has just copied or computed.
Rebase(o, p) ==
    CASE p.op = "mov" /\ IsReg(p.a[2]) -> [o EXCEPT !.b = p.a[2].r]
      [] p.op = "lea" -> Mem(o.t, p.a[2].b, p.a[2].i, p.a[2].s, o.d + p.a[2].d)
DefinesBase(p, o) == /\ IsReg(p.a[1]) /\ p.a[1].r = o.b
                     /\ ((p.op = "mov" /\ IsReg(p.a[2])) \/ (p.op = "lea" /\ IsMem(p.a[2])))
Unchanged(f, i) == [f |-> f, ins |-> <<i>>, changed |-> FALSE]
Rewritten(f, ins) == [f |-> f, ins |-> ins, changed |-> TRUE]

PeepMov(f, i, p) ==
    LET n == IF IsMem(i.a[1]) THEN 1 ELSE 2
    IN  IF p.op \in {"mov", "lea"} /\ SimpleBase(i.a[n]) /\ DefinesBase(p, i.a[n])
        THEN Rewritten(f, <<[i EXCEPT !.a[n] = Rebase(@, p)]>>) ELSE Unchanged(f, i)
PeepMovFloat(f, i) ==
    IF IsZero(i.a[2]) THEN Rewritten(f, <<Ins("xorps", <<i.a[1], i.a[1]>>)>>) ELSE Unchanged(f, i)
PeepComis(f, i) ==
    LET tmp == NextReg(f, "F128")
    IN  IF IsZero(i.a[2])
        THEN Rewritten(TakeReg(f, "F128"), <<Ins("xorps", <<tmp, tmp>>), [i EXCEPT !.a[2] = tmp]>>)
        ELSE Unchanged(f, i)
PeepJump(f, i) ==
    LET at == f.blocks[Position(f, i.a[1].bb)].ins
    IN  IF at # <<>> /\ at[1].op = "jmp"
        THEN Rewritten(f, <<[i EXCEPT !.a = at[1].a]>>) ELSE Unchanged(f, i)
PeepImul(f, i, p) ==
    IF /\ IsReg(i.a[1]) /\ IsReg(i.a[2]) /\ p.op = "mov"
       /\ SameOperand(i.a[2], p.a[1]) /\ IsImm(p.a[2]) /\ FitsI32(p.a[2].v)
    THEN Rewritten(f, <<Ins("imul3", <<i.a[1], i.a[1], p.a[2]>>)>>) ELSE Unchanged(f, i)
\* mov x, any; add x, const; movsx y, x: extend first, then add with lea.
PeepMovx(f, i, p, pp) ==
    LET tmp == NextReg(f, i.a[1].t)
    IN  IF /\ i.a[1].t \in {"I64", "PTR"} /\ IsReg(i.a[2])
           /\ p.op = "add" /\ SameOperand(i.a[2], p.a[1]) /\ IsImm(p.a[2])
           /\ pp.op = "mov" /\ SameOperand(p.a[1], pp.a[1])
        THEN Rewritten(TakeReg(f, i.a[1].t),
                       <<Ins(i.op, <<tmp, pp.a[2]>>),
                         Ins("lea", <<i.a[1], Mem(i.a[1].t, tmp.r, None, 1, p.a[2].v)>>)>>)
        ELSE Unchanged(f, i)
Peep(f, i, before) ==
    LET p  == At(before, Len(before))
        pp == At(before, Len(before) - 1)
    IN  CASE i.op = "mov" -> PeepMov(f, i, p)
          [] i.op \in {"movss", "movsd"} -> PeepMovFloat(f, i)
          [] i.op \in {"comiss", "comisd", "ucomiss", "ucomisd"} -> PeepComis(f, i)
          [] i.op \in {"jmp", "jcc"} -> PeepJump(f, i)
          [] i.op = "imul" -> PeepImul(f, i, p)
          [] i.op \in {"movsx", "movzx"} -> PeepMovx(f, i, p, pp)
          [] OTHER -> Unchanged(f, i)
PeepBlock(s, k) ==
    LET \* the rewritten part of the block is in place while the rest is looked at
        Step(acc, j) ==
            LET before == SubSeq(acc.f.blocks[k].ins, 1, acc.n)
                r == Peep(acc.f, acc.f.blocks[k].ins[acc.n + 1], before)
            IN  [f |-> [r.f EXCEPT !.blocks[k].ins =
                           before \o r.ins \o SubSeq(@, acc.n + 2, Len(@))],
                 n |-> acc.n + Len(r.ins), changed |-> acc.changed \/ r.changed]
        res == Fold(Step, [f |-> s.f, n |-> 0, changed |-> s.changed],
                        [j \in DOMAIN s.f.blocks[k].ins |-> j])
    IN  [f |-> res.f, changed |-> res.changed]
PeepholeSweep(f) ==
    Fold(PeepBlock, [f |-> f, changed |-> FALSE], [k \in DOMAIN f.blocks |-> k])

(***************************************************************************)
(* Register allocation: interference, a colouring, the registers replaced. *)
(***************************************************************************)
Virtuals(f) == UNION {UNION {Uses(f, i) \cup Defs(f, i) : i \in ToSet(f.blocks[k].ins)}
                      : k \in DOMAIN f.blocks} \ 0..199
Interference(f) ==
    LET live == LiveOut(f)
        At_(k, j) == {{d, r} : d \in Defs(f, f.blocks[k].ins[j]), r \in live[k][j]}
    IN  {e \in UNION {UNION {At_(k, j) : j \in DOMAIN f.blocks[k].ins} : k \in DOMAIN f.blocks} :
            Cardinality(e) = 2 /\ Cardinality({ClassOf(r) : r \in e}) = 1}
Moves(f) ==
    UNION {{<<i.a[1].r, i.a[2].r>> : i \in {x \in ToSet(f.blocks[k].ins) : IsMovRegReg(x)}}
           : k \in DOMAIN f.blocks}
GPColors == <<1, 2, 8, 9, 10, 11, 0, 3, 6, 7, 12, 13, 14, 15>>
XMMColors == <<101, 102, 103, 104, 105, 100, 106, 107, 108, 109, 110, 111, 112, 113, 114, 115>>
ReplaceRegs_Unmarked(f, color) ==
    MapIns(f, LAMBDA i : MapRegs(i, LAMBDA r : IF r \in DOMAIN color THEN color[r] ELSE r))
ReplaceRegs(f, color) ==
    [MapIns(f, LAMBDA i : MapRegs(i, LAMBDA r : IF r \in DOMAIN color THEN color[r] ELSE r))
        EXCEPT !.used = @ \cup Range(color)]

(***************************************************************************)
(* Redundant constants, after allocation: what constant each register holds*)
(***************************************************************************)
Forget(known, rs) == [r \in DOMAIN known \ rs |-> known[r]]
Learn(known, r, o) == (r :> o) @@ known
Known(known, r, o) == r \in DOMAIN known /\ known[r].t = o.t /\ known[r].v = o.v
\* [keep, known]: is the instruction kept, and what is known after it.
ConstStep(f, i, known) ==
    LET d == i.a[1].r
        Keep(k) == [keep |-> TRUE, known |-> k]
        Set(r, o) == [keep |-> ~Known(known, r, o), known |-> Learn(known, r, o)]
    IN  CASE i.op \in {"mov", "movss", "movsd"} /\ IsReg(i.a[1]) ->
                CASE IsImm(i.a[2]) -> Set(d, i.a[2])
                  [] IsReg(i.a[2]) /\ i.a[2].r \in DOMAIN known ->
                        Keep(Learn(known, d, known[i.a[2].r]))
                  [] OTHER -> Keep(Forget(known, {d}))
          [] ClearsItself(i) -> Set(d, Imm(i.a[1].t, 0))
          [] i.op \in {"cmp", "test", "comiss", "comisd", "ucomiss", "ucomisd", "push", "pop"} ->
                Keep(known)
          [] OTHER -> Keep(Forget(known, Defs(f, i)))
RedundantConstElimination(f) ==
    MapBlocks(f, LAMBDA k, ins :
        Fold(LAMBDA acc, i :
                     LET s == ConstStep(f, i, acc.known)
                     IN  [ins |-> IF s.keep THEN Append(acc.ins, i) ELSE acc.ins, known |-> s.known],
                 [ins |-> <<>>, known |-> <<>>], ins).ins)
=============================================================================

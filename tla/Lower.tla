-------------------------------- MODULE Lower --------------------------------
(***************************************************************************)
(* A function on its way from the SSA form to the machine: taken through    *)
(* the passes of jx_ir_moduleEnd (IRPasses), selected (Select), taken       *)
(* through the passes of jx_mir_funcEnd (MirPasses, InstrCombine), given    *)
(* registers, a prologue and an epilogue. One action per pass; the loop of  *)
(* the peephole pass is an action per sweep, inlining one per call.         *)
(***************************************************************************)
EXTENDS MirMachine, IRPasses

CONSTANTS
    Programs,       \* [fn, inputs, spills, optimize]: functions of the IR, what they are called
                    \* with, how many registers the allocator spills of its own choice and whether
                    \* they have the passes of the IR before them
    GPRegs,         \* the colours of a small machine, a subset of the allocator's
    XmmRegs,
    Fuel            \* how many jumps a run may take

VARIABLES
    p,              \* the program
    ir,             \* its function in the SSA form
    late,           \* has its module been through the inliner
    f,              \* its function in the machine IR
    pc,             \* the next pass
    iter,           \* rounds of the optimisation loop under way
    changed,        \* has a pass of this round changed anything
    sweeps,         \* sweeps of the peephole pass under way
    chosen          \* registers spilled by choice

vars == <<p, ir, late, f, pc, iter, changed, sweeps, chosen>>

Init ==
    /\ p \in Programs
    /\ ir = p.fn /\ late = FALSE
    /\ f = NewFunction(NoProto)
    /\ pc = (IF p.optimize THEN "ir canonicalize" ELSE "generate")
    /\ iter = 0 /\ changed = FALSE /\ sweeps = 0 /\ chosen = 0

(***************************************************************************)
(* The passes of the IR: some once, then rounds of others until one changes *)
(* nothing; inlining; the rounds again, between orderings of the blocks.     *)
(***************************************************************************)
MaxIRRounds == 10
IRPass(here, there, Op(_)) ==
    /\ pc = here
    /\ ir' = Op(ir).fn
    /\ pc' = there
    /\ UNCHANGED <<p, late, f, iter, changed, sweeps, chosen>>
StartIRRound ==
    /\ pc = "ir round"
    /\ IF iter = 0 \/ (changed /\ iter < MaxIRRounds)
       THEN pc' = "round fold" /\ iter' = iter + 1
       ELSE pc' = (IF late THEN "reorder again" ELSE "inline") /\ iter' = 0
    /\ changed' = FALSE
    /\ UNCHANGED <<p, ir, late, f, sweeps, chosen>>
RoundPass(here, there, Op(_)) ==
    /\ pc = here
    /\ ir' = Op(ir).fn
    /\ changed' = (changed \/ Op(ir).n # 0)
    /\ pc' = there
    /\ UNCHANGED <<p, late, f, iter, sweeps, chosen>>
Inline ==
    /\ pc = "inline"
    /\ IF Calls(ir) # <<>> THEN InliningEnds(ir) /\ ir' = InlineCall(ir) /\ UNCHANGED <<pc, late>>
       ELSE pc' = "reorder" /\ late' = TRUE /\ UNCHANGED ir
    /\ UNCHANGED <<p, f, iter, changed, sweeps, chosen>>
Reorder(here, there) ==
    /\ pc = here
    /\ ir' = ReorderBlocks(ir)
    /\ pc' = there
    /\ UNCHANGED <<p, late, f, iter, changed, sweeps, chosen>>

(***************************************************************************)
(* The passes of the machine IR                                            *)
(***************************************************************************)
Generate ==
    /\ pc = "generate"
    /\ f' = FuncBuild(ir)
    /\ pc' = "fallthrough"
    /\ UNCHANGED <<p, ir, late, iter, changed, sweeps, chosen>>

Pass(here, there, Op(_)) ==
    /\ pc = here
    /\ f' = Op(f)
    /\ pc' = there
    /\ UNCHANGED <<p, ir, late, iter, changed, sweeps, chosen>>

(***************************************************************************)
(* The loop of combiner, dead code elimination and peephole                *)
(***************************************************************************)
MaxRounds == 5
Noting(here, there, Op(_)) ==
    /\ pc = here
    /\ f' = Op(f)
    /\ changed' = (changed \/ f' # f)
    /\ pc' = there
    /\ UNCHANGED <<p, ir, late, iter, sweeps, chosen>>

StartRound ==
    /\ pc = "round"
    /\ IF iter = 0 \/ (changed /\ iter < MaxRounds)
       THEN pc' = "combine" /\ iter' = iter + 1 /\ changed' = FALSE
       ELSE pc' = "renumber" /\ UNCHANGED <<iter, changed>>
    /\ UNCHANGED <<p, ir, late, f, sweeps, chosen>>

Peephole(here, there) ==
    /\ pc = here
    /\ f' = PeepholeSweep(f).f
    /\ changed' = (changed \/ PeepholeSweep(f).changed)
    /\ pc' = IF PeepholeSweep(f).changed THEN here ELSE there
    /\ sweeps' = IF PeepholeSweep(f).changed THEN sweeps + 1 ELSE 0
    /\ UNCHANGED <<p, ir, late, iter, chosen>>

(***************************************************************************)
(* Register allocation: any register may be spilled; what the colours do    *)
(* not suffice for is.                                                      *)
(***************************************************************************)
Neighbours(edges, r) == UNION {e \in edges : r \in e} \ {r}
Partners(moves, r) == {m[1] : m \in {n \in moves : n[2] = r}} \cup {m[2] : m \in {n \in moves : n[1] = r}}
\* The registers of the machine that some of rs, virtual ones coloured so far and others, are.
Held(rs, color) == {IF IsVirtual(q) THEN color[q] ELSE q :
                       q \in {x \in rs : IsVirtual(x) => x \in DOMAIN color}}
\* A free colour, or the one of a register that r is moved from or to.
ColorOf(r, color, edges, moves, palette, bias) ==
    LET taken == Held(Neighbours(edges, r), color)
        free  == SelectSeq(palette, LAMBDA c : c \in GPRegs \cup XmmRegs /\ c \notin taken)
        same  == SelectSeq(free, LAMBDA c : c \in Held(Partners(moves, r), color))
    IN  CASE free = <<>> -> None
          [] free # <<>> /\ bias /\ same # <<>> -> same[1]
          [] OTHER -> free[1]
Descending(rs) == SelectSeq([n \in 1..200 |-> 400 - n], LAMBDA r : r \in rs)
\* The virtual registers are coloured with the newest, those that spilling has made, first; by
\* the colour of a partner and the allocator's order, or plainly by the order turned round.
Colors(plain) ==
    LET edges == Interference(f)
        moves == Moves(f)
        Palette(r) == LET all == IF ClassOf(r) = "gp" THEN GPColors ELSE XMMColors
                      IN  IF plain THEN Reverse(all) ELSE all
    IN  Fold(LAMBDA color, r :
                LET c == ColorOf(r, color, edges, moves, Palette(r), ~plain)
                IN  IF c = None THEN color ELSE (r :> c) @@ color,
             <<>>, Descending(Virtuals(f)))
SpillByChoice ==
    /\ pc = "alloc" /\ chosen < p.spills
    /\ \E r \in Virtuals(f) : f' = SpillReg(f, r)
    /\ chosen' = chosen + 1
    /\ UNCHANGED <<p, ir, late, pc, iter, changed, sweeps>>
Allocate ==
    /\ pc = "alloc"
    /\ \E plain \in BOOLEAN :
          LET color == Colors(plain)
              spilled == Virtuals(f) \ DOMAIN color
          IN  IF spilled = {} THEN f' = ReplaceRegs(f, color) /\ pc' = "moves"
              ELSE f' = Fold(SpillReg, f, Descending(spilled)) /\ UNCHANGED pc
    /\ UNCHANGED <<p, ir, late, iter, changed, sweeps, chosen>>

Next ==
    \/ IRPass("ir canonicalize", "ir single ret", CanonicalizeOperands)
    \/ IRPass("ir single ret", "ir fold", SingleRet)
    \/ IRPass("ir fold", "ir dce", ConstantFolding)
    \/ IRPass("ir dce", "ir phis", EliminateDeadCode)
    \/ IRPass("ir phis", "ir number", RemoveRedundantPhis)
    \/ IRPass("ir number", "ir round", LocalValueNumbering)
    \/ StartIRRound
    \/ RoundPass("round fold", "round canonicalize", ConstantFolding)
    \/ RoundPass("round canonicalize", "round peephole", CanonicalizeOperands)
    \/ RoundPass("round peephole", "round phis", PeepholeIR)
    \/ RoundPass("round phis", "round cfg", RemoveRedundantPhis)
    \/ RoundPass("round cfg", "round dce", SimplifyCFG)
    \/ RoundPass("round dce", "ir round", EliminateDeadCode)
    \/ Inline
    \/ Reorder("reorder", "ir round")
    \/ Reorder("reorder again", "generate")
    \/ Generate
    \/ Pass("fallthrough", "condjmp", RemoveFallthroughJmp)
    \/ Pass("condjmp", "blocks", SimplifyCondJmp)
    \/ Pass("blocks", "round", SimplifyBlocks)
    \/ StartRound
    \/ Noting("combine", "dce", InstrCombine)
    \/ Noting("dce", "peephole", DeadCodeElimination)
    \/ Peephole("peephole", "dce again")
    \/ Noting("dce again", "round", DeadCodeElimination)
    \/ Pass("renumber", "alloc", Renumber)
    \/ SpillByChoice
    \/ Allocate
    \/ Pass("moves", "constants", RemoveRedundantMoves)
    \/ Pass("constants", "condjmp again", RedundantConstElimination)
    \/ Pass("condjmp again", "peephole again", SimplifyCondJmp)
    \/ Peephole("peephole again", "prologue")
    \/ Pass("prologue", "done", AddPrologue)
    \/ (pc = "done" /\ UNCHANGED vars)

\* The compiler is one thread that runs its passes one after the other.
Spec == Init /\ [][Next]_vars

(***************************************************************************)
(* Properties                                                              *)
(***************************************************************************)
IRStages == {"ir canonicalize", "ir single ret", "ir fold", "ir dce", "ir phis", "ir number", "ir round", "round fold",
              "round canonicalize", "round peephole", "round phis", "round cfg", "round dce", "inline", "reorder",
              "reorder again", "generate"}
Allocated == pc \in {"moves", "constants", "condjmp again", "peephole again", "prologue", "done"}
Expected == [q \in Programs |-> [a \in q.inputs |-> RunIR(q.fn, a, Fuel)]]

\* Jumps go to blocks of the function, nothing follows a jump that is always taken, and the
\* virtual registers in use are ones the function has handed out.
WellFormed ==
    \A k \in DOMAIN f.blocks :
        LET ins == f.blocks[k].ins
        IN  /\ Targets(ins) \subseteq {f.blocks[x].b : x \in DOMAIN f.blocks}
            /\ \A j \in 1..(Len(ins) - 1) : ins[j].op \notin {"jmp", "ret"}
            /\ UNION {UNION {ReadRegs(o) : o \in ToSet(i.a)} : i \in ToSet(ins)}
                   \subseteq 0..15 \cup 100..115 \cup 200..(f.gp - 1) \cup 300..(f.xmm - 1)
TypeOK ==
    /\ WellFormed
    /\ p \in Programs /\ late \in BOOLEAN /\ iter \in 0..(IF pc \in IRStages THEN MaxIRRounds ELSE MaxRounds)
    /\ sweeps \in Nat /\ chosen \in 0..p.spills /\ changed \in BOOLEAN
    /\ pc \in IRStages \cup {"fallthrough", "condjmp", "blocks", "round", "combine", "dce", "peephole",
               "dce again", "renumber", "alloc", "moves", "constants", "condjmp again",
               "peephole again", "prologue", "done"}

\* After every pass, for every input, the function does what the program says: the same
\* result, the same memory, the same calls with the same arguments; it faults nowhere and in
\* the end gives the stack and the callee-saved registers back. Between the passes of the IR it
\* is what jx_ir_funcCheck asks for; those that order the blocks find them all reached.
SameBehaviour ==
    IF pc \in IRStages
    THEN /\ IRCheck(ir) /\ (pc \in {"reorder", "reorder again"} => AllReached(ir))
         /\ \A a \in p.inputs : RunIR(ir, a, Fuel) = Expected[p][a]
    ELSE \A a \in p.inputs : RunMIR(f, a, pc = "done", Fuel) = Expected[p][a]

\* No register is read before it is written: none but the arguments' and the frame's is live
\* on entry, at any stage of the translation. (A return is said to use A, whatever it returns.)
NothingUndefined ==
    LET in == LiveIn(f, [k \in DOMAIN f.blocks |-> {}])
    IN  f.blocks # <<>> =>
            in[1] \subseteq ToSet(ArgIReg) \cup ToSet(ArgFReg) \cup {RegSP, RegBP}
                            \cup (IF IsFloat(f.proto.ret) THEN {RegA} ELSE {})
                            \cup (IF pc = "done" THEN f.used ELSE {})

\* After allocation every register is one of the machine's, and those the function has to
\* give back unchanged are among the ones the prologue saves.
AllAllocated ==
    Allocated => /\ Virtuals(f) = {}
                 /\ \A k \in DOMAIN f.blocks : \A i \in ToSet(f.blocks[k].ins) :
                        pc # "done" => Defs(f, i) \cap (ToSet(CalleeSavedI) \cup ToSet(CalleeSavedF)) \subseteq f.used

RegistersSound == NothingUndefined /\ AllAllocated

\* Variables, spilled registers and saved registers never share a byte of the frame, lie above
\* the room for the arguments of calls, keep their alignment, and the frame keeps the stack's.
FrameSound ==
    /\ FrameDisjoint(f.frame) /\ FrameBounded(f.frame)
    /\ \A o \in ToSet(f.frame.objs) : o.d % o.al = 0
    /\ pc = "done" => f.frame.size % 16 = 0

\* Every pass ends: the peephole pass, which goes over the function until nothing changes
\* and has no other limit, does not change it more often than it has instructions; the rounds
\* over the IR come to rest before the tenth, where they would be cut off; so does the loop
\* that moves the variables of an inlined function.
PassesEnd ==
    /\ sweeps <= Fold(LAMBDA n, blk : n + Len(blk.ins), 0, f.blocks)
    /\ pc \in IRStages => iter < MaxIRRounds
    /\ pc = "inline" => InliningEnds(ir)
=============================================================================

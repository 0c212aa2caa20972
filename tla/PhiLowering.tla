---------------------------- MODULE PhiLowering ----------------------------
(***************************************************************************)
(* How jmir_gen.c takes a function out of SSA form.  The phis of the IR    *)
(* are gathered while the blocks are translated; jmirgen_processPhis then  *)
(* puts one mov for every operand of every phi into the predecessor it     *)
(* names, straight into the phi's register, without temporaries and        *)
(* without splitting edges.                                                *)
(*                                                                         *)
(* The module translates a function and then runs both forms of it side    *)
(* by side: env is the IR's (phis of a block change together, on the       *)
(* edge), regs the machine IR's (movs one by one, where the code put       *)
(* them).  Safe is the condition under which the two agree.                *)
(*                                                                         *)
(* A function is a record:                                                 *)
(*   entry   its first block                                               *)
(*   args    its arguments                                                 *)
(*   succs   the successors of a block, <<true, false>> when it ends in a  *)
(*           conditional branch, <<>> when it returns                      *)
(*   code    the instructions of a block without phis and branch           *)
(*   cond    the condition a block branches on, or the value it returns    *)
(*   phis    the phis in the order of the blocks and of the instructions   *)
(*           in them, with their operands                                  *)
(*   live    the values still to be read, at each boundary of code         *)
(* An instruction is an "op", a "setcc", or the unsigned 64-bit to float   *)
(* "conv"ersion that ends its machine block.                               *)
(***************************************************************************)
EXTENDS Integers, Sequences, FiniteSetsExt

CONSTANTS
  Block, Value, Data,
  Programs,     \* the functions to translate, in a table
  InitRegs,     \* what registers may hold on entry
  Op, Cmp,      \* what an op or a setcc makes of its operand
  Holds,        \* the contents on which jnz jumps
  NoFlag        \* the flags before the test

Boundary(p, b) == 0 .. Len(p.code[b])

(* The predecessors of a phi operand and its value, as m_OperandArr has
   them.                                                                   *)
Phi == [bb : Block, dst : Value, ops : Seq([value : Value, bb : Block])]

IsProgram(p) ==
  /\ p.entry \in Block /\ p.args \subseteq Value
  /\ p.succs \in [Block -> Seq(Block)]
  /\ p.code \in [Block -> Seq([op : {"op", "setcc", "conv"}, dst : Value, src : Value])]
  /\ p.cond \in [Block -> Value]
  /\ p.phis \in Seq(Phi)
  /\ \A b \in Block : p.live[b] \in [Boundary(p, b) -> SUBSET Value]
  /\ \A b \in Block : Len(p.succs[b]) \in 0 .. 2

ASSUME ProgramAssumption == \A f \in DOMAIN Programs : IsProgram(Programs[f])
ASSUME RegsAssumption == InitRegs \subseteq [Value -> Data]
ASSUME FlagAssumption == NoFlag \notin Data
ASSUME OpAssumption == Op \in [Data -> Data] /\ Cmp \in [Data -> Data]

VARIABLES
  fn,       \* the function
  phase,    \* "translate" or "run"
  iPhi, iOperand,   \* the loops of jmirgen_processPhis
  movs,     \* movs[b]: the movs put into b, as <<phi, operand>> pairs
  env,      \* the IR's values
  regs,     \* the machine IR's virtual registers
  bb,       \* the block running
  pc,       \* how many instructions of it were run ...
  done,     \* ... and how many of its movs
  flag      \* what test cond, cond left: a value, or NoFlag

vars == <<fn, phase, iPhi, iOperand, movs, env, regs, bb, pc, done, flag>>

prog == Programs[fn]

-----------------------------------------------------------------------------
(* The place of the movs in a block: the first terminator of the machine
   block the IR block was first translated to, ...                         *)
Conversions(p, b) == {i \in 1 .. Len(p.code[b]) : p.code[b][i].op = "conv"}

FirstTerminator(p, b) ==
  IF Conversions(p, b) = {} THEN Len(p.code[b]) + 1 ELSE Min(Conversions(p, b))

EndsInJcc(p, b) == Conversions(p, b) # {} \/ Len(p.succs[b]) = 2

(* ... and, when it is a conditional jump, the nearest comparison before
   it.  Setcc is a comparison, the test of the condition is not.           *)
Comparisons(p, b) ==
  {i \in 1 .. FirstTerminator(p, b) - 1 : p.code[b][i].op = "setcc"}

InsertionPoint(p, b) ==
  IF EndsInJcc(p, b) /\ Comparisons(p, b) # {}
    THEN Max(Comparisons(p, b)) - 1
    ELSE FirstTerminator(p, b) - 1

MovDst(p, m) == p.phis[m[1]].dst
(* Mutant: the value of the first operand, whatever the edge. *)
MovSrc_First(p, m) == p.phis[m[1]].ops[1].value
MovSrc(p, m) == p.phis[m[1]].ops[m[2]].value

-----------------------------------------------------------------------------
Init ==
  /\ fn \in DOMAIN Programs
  /\ phase = "translate"
  /\ iPhi = 1 /\ iOperand = 1
  /\ movs = [b \in Block |-> <<>>]
  /\ env \in InitRegs /\ regs \in InitRegs
  /\ \A v \in prog.args : env[v] = regs[v]
  /\ bb = prog.entry /\ pc = 0 /\ done = 0 /\ flag = NoFlag

(* Mutant: into the phi's block instead of the predecessor. *)
InsertMov_OwnBlock ==
  /\ phase = "translate"
  /\ iPhi <= Len(prog.phis) /\ iOperand <= Len(prog.phis[iPhi].ops)
  /\ movs' = [movs EXCEPT ![prog.phis[iPhi].bb] = Append(@, <<iPhi, iOperand>>)]
  /\ iOperand' = iOperand + 1
  /\ UNCHANGED <<fn, phase, iPhi, env, regs, bb, pc, done, flag>>

(* One mov for one operand of one phi.                                     *)
InsertMov ==
  /\ phase = "translate"
  /\ iPhi <= Len(prog.phis) /\ iOperand <= Len(prog.phis[iPhi].ops)
  /\ LET b == prog.phis[iPhi].ops[iOperand].bb
     IN  movs' = [movs EXCEPT ![b] = Append(@, <<iPhi, iOperand>>)]
  /\ iOperand' = iOperand + 1
  /\ UNCHANGED <<fn, phase, iPhi, env, regs, bb, pc, done, flag>>

NextPhi ==
  /\ phase = "translate"
  /\ iPhi <= Len(prog.phis) /\ iOperand > Len(prog.phis[iPhi].ops)
  /\ iPhi' = iPhi + 1 /\ iOperand' = 1
  /\ UNCHANGED <<fn, phase, movs, env, regs, bb, pc, done, flag>>

PhisProcessed ==
  /\ phase = "translate"
  /\ iPhi > Len(prog.phis)
  /\ phase' = "run"
  /\ UNCHANGED <<fn, iPhi, iOperand, movs, env, regs, bb, pc, done, flag>>

-----------------------------------------------------------------------------
MovsDone == done = Len(movs[bb])
Body == prog.code[bb]

Result(instr, contents) ==
  IF instr.op = "setcc" THEN Cmp[contents[instr.src]] ELSE Op[contents[instr.src]]

(* An instruction runs in both forms.                                      *)
RunInstr ==
  /\ phase = "run"
  /\ pc < Len(Body)
  /\ pc = InsertionPoint(prog, bb) => MovsDone
  /\ LET instr == Body[pc + 1]
     IN  /\ env' = [env EXCEPT ![instr.dst] = Result(instr, env)]
         /\ regs' = [regs EXCEPT ![instr.dst] = Result(instr, regs)]
  /\ pc' = pc + 1
  /\ UNCHANGED <<fn, phase, iPhi, iOperand, movs, bb, done, flag>>

(* Mutant: the movs stand anywhere in the block. *)
RunMov_AnyTime ==
  /\ phase = "run"
  /\ ~MovsDone
  /\ LET m == movs[bb][done + 1]
     IN  regs' = [regs EXCEPT ![MovDst(prog, m)] = regs[MovSrc(prog, m)]]
  /\ done' = done + 1
  /\ UNCHANGED <<fn, phase, iPhi, iOperand, movs, env, bb, pc, flag>>

(* A mov runs in the machine form only.  At the end of a conditional block
   without a comparison the movs stand between the test and the jump.      *)
RunMov ==
  /\ phase = "run"
  /\ pc = InsertionPoint(prog, bb) /\ ~MovsDone
  /\ pc = Len(Body) /\ Len(prog.succs[bb]) = 2 => flag # NoFlag
  /\ LET m == movs[bb][done + 1]
     IN  regs' = [regs EXCEPT ![MovDst(prog, m)] = regs[MovSrc(prog, m)]]
  /\ done' = done + 1
  /\ UNCHANGED <<fn, phase, iPhi, iOperand, movs, env, bb, pc, flag>>

(* test cond, cond                                                         *)
RunTest ==
  /\ phase = "run"
  /\ pc = Len(Body) /\ Len(prog.succs[bb]) = 2 /\ flag = NoFlag
  /\ flag' = regs[prog.cond[bb]]
  /\ UNCHANGED <<fn, phase, iPhi, iOperand, movs, env, regs, bb, pc, done>>

Target ==
  IF Len(prog.succs[bb]) = 1 \/ flag \in Holds THEN prog.succs[bb][1] ELSE prog.succs[bb][2]

(* The phis of block b, and the operand of one of them for an edge.        *)
PhisOf(p, b) == {i \in 1 .. Len(p.phis) : p.phis[i].bb = b}
OperandsFrom(p, i, from) == {o \in 1 .. Len(p.phis[i].ops) : p.phis[i].ops[o].bb = from}
Incoming(p, i, from) == p.phis[i].ops[CHOOSE o \in OperandsFrom(p, i, from) : TRUE].value

(* Mutant: the movs done are not forgotten. *)
Jump_KeepDone ==
  /\ phase = "run"
  /\ pc = Len(Body) /\ MovsDone
  /\ Len(prog.succs[bb]) = 1 \/ (Len(prog.succs[bb]) = 2 /\ flag # NoFlag)
  /\ bb' = Target
  /\ pc' = 0 /\ flag' = NoFlag
  /\ UNCHANGED <<fn, phase, iPhi, iOperand, movs, env, regs, done>>

(* The jump: in the IR all phis of the target change together.             *)
Jump ==
  /\ phase = "run"
  /\ pc = Len(Body) /\ MovsDone
  /\ Len(prog.succs[bb]) = 1 \/ (Len(prog.succs[bb]) = 2 /\ flag # NoFlag)
  /\ env' = [v \in Value |->
               IF \E i \in PhisOf(prog, Target) : prog.phis[i].dst = v
                 THEN env[Incoming(prog, CHOOSE i \in PhisOf(prog, Target) : prog.phis[i].dst = v, bb)]
                 ELSE env[v]]
  /\ bb' = Target
  /\ pc' = 0 /\ done' = 0 /\ flag' = NoFlag
  /\ UNCHANGED <<fn, phase, iPhi, iOperand, movs, regs>>

Next ==
  \/ InsertMov \/ NextPhi \/ PhisProcessed
  \/ RunInstr \/ RunMov \/ RunTest \/ Jump

Spec == Init /\ [][Next]_vars

-----------------------------------------------------------------------------
(* A function is in SSA form: a phi has a register of its own and one
   operand for each predecessor of its block.                              *)
PhisWellFormed(p) ==
  /\ \A i, j \in 1 .. Len(p.phis) : p.phis[i].dst = p.phis[j].dst => i = j
  /\ \A i \in 1 .. Len(p.phis), b \in Block :
       LET from == OperandsFrom(p, i, b)
       IN  /\ (\E k \in 1 .. Len(p.succs[b]) : p.succs[b][k] = p.phis[i].bb) <=> from # {}
           /\ \A o1, o2 \in from : o1 = o2

(* live has every value an instruction, the branch or a later block reads,
   phis reading on the edge, and nothing but arguments is live on entry.   *)
LiveIsLive(p) ==
  /\ p.live[p.entry][0] \subseteq p.args
  /\ \A b \in Block :
      /\ \A i \in 1 .. Len(p.code[b]) :
           LET instr == p.code[b][i]
           IN  {instr.src} \union (p.live[b][i] \ {instr.dst}) \subseteq p.live[b][i - 1]
      /\ Len(p.succs[b]) # 1 => p.cond[b] \in p.live[b][Len(p.code[b])]
      /\ \A k \in 1 .. Len(p.succs[b]) :
           LET s == p.succs[b][k]
           IN  /\ p.live[s][0] \ {p.phis[i].dst : i \in PhisOf(p, s)} \subseteq p.live[b][Len(p.code[b])]
               /\ \A i \in PhisOf(p, s) : \A o \in OperandsFrom(p, i, b) :
                    p.phis[i].ops[o].value \in p.live[b][Len(p.code[b])]

(* No register is overwritten by a mov of a block before a later mov of
   the block reads it.  (The swap problem, and its harmless relatives.)    *)
MovsInOrder(p) ==
  \A b \in Block : \A i, j \in 1 .. Len(p.phis) :
    \A o1 \in OperandsFrom(p, i, b), o2 \in OperandsFrom(p, j, b) :
      i < j => p.phis[i].dst # p.phis[j].ops[o2].value

(* What stands after the movs neither reads nor writes what they write, and
   writes nothing they read.                                               *)
NothingAfterMovs(p) ==
  \A b \in Block, i \in 1 .. Len(p.phis) : \A o \in OperandsFrom(p, i, b) :
    LET src == p.phis[i].ops[o].value
        dst == p.phis[i].dst
    IN  /\ \A n \in Boundary(p, b) : n >= InsertionPoint(p, b) => src \in p.live[b][n]
        /\ \A n \in 1 .. Len(p.code[b]) : n > InsertionPoint(p, b) =>
             dst # p.code[b][n].src /\ p.code[b][n].dst \notin {src, dst}
        /\ InsertionPoint(p, b) < Len(p.code[b]) => dst # p.cond[b]

(* A phi's register is not needed where the other successor of one of its
   predecessors leads.  (The lost copy.)                                   *)
NothingLost(p) ==
  \A b \in Block, i \in 1 .. Len(p.phis) : OperandsFrom(p, i, b) # {} =>
    \A k \in 1 .. Len(p.succs[b]) :
      p.phis[i].dst \in p.live[p.succs[b][k]][0] => p.phis[i].bb = p.succs[b][k]

WellFormed(p) == PhisWellFormed(p) /\ LiveIsLive(p)
Safe(p) == WellFormed(p) /\ MovsInOrder(p) /\ NothingAfterMovs(p) /\ NothingLost(p)

SafeInit == fn \in DOMAIN Programs /\ Safe(prog) /\ Init
SafeSpec == SafeInit /\ [][Next]_vars

-----------------------------------------------------------------------------
TypeOK ==
  /\ fn \in DOMAIN Programs
  /\ phase \in {"translate", "run"}
  /\ iPhi \in 1 .. Len(prog.phis) + 1 /\ iOperand \in Nat \ {0}
  /\ movs \in [Block -> Seq(Nat \X Nat)]
  /\ env \in [Value -> Data] /\ regs \in [Value -> Data]
  /\ bb \in Block /\ pc \in Boundary(prog, bb) /\ done \in 0 .. Len(movs[bb])
  /\ flag \in Data \union {NoFlag}

(* The two forms branch the same way: the test sees the condition the IR
   computed, wherever the movs went.                                       *)
SameBranch == phase = "run" /\ flag # NoFlag => flag = env[prog.cond[bb]]

(* ... and return the same value.                                          *)
SameResult ==
  phase = "run" /\ pc = Len(Body) /\ prog.succs[bb] = <<>> =>
    regs[prog.cond[bb]] = env[prog.cond[bb]]

(* On entry to a block every register still to be read, those of its phis
   included, holds what the IR says: each edge ran its movs, and only its
   own.                                                                    *)
SameOnEntry ==
  phase = "run" /\ pc = 0 /\ done = 0 => \A v \in prog.live[bb][0] : regs[v] = env[v]

-----------------------------------------------------------------------------
(* The inductive invariant.  While translating, the movs of a block are the
   operands passed so far that name it; ...                                *)
Passed(i, o) == i < iPhi \/ (i = iPhi /\ o < iOperand)

MovsPassed ==
  \A b \in Block : \A k \in 1 .. Len(movs[b]) :
    /\ movs[b][k][1] \in 1 .. Len(prog.phis)
    /\ movs[b][k][2] \in OperandsFrom(prog, movs[b][k][1], b)
    /\ Passed(movs[b][k][1], movs[b][k][2])

MovsOrdered ==
  \A b \in Block : \A k, l \in 1 .. Len(movs[b]) :
    /\ k < l => movs[b][k][1] <= movs[b][l][1]
    /\ movs[b][k] = movs[b][l] => k = l

PassedHaveMovs ==
  \A b \in Block : \A i \in 1 .. Len(prog.phis) : \A o \in OperandsFrom(prog, i, b) :
    Passed(i, o) => \E k \in 1 .. Len(movs[b]) : movs[b][k] = <<i, o>>

MovsInv == MovsPassed /\ MovsOrdered /\ PassedHaveMovs

RunStarted == phase = "run" => iPhi = Len(prog.phis) + 1
NotStarted ==
  phase = "translate" =>
    /\ bb = prog.entry /\ pc = 0 /\ done = 0 /\ flag = NoFlag
    /\ \A v \in prog.live[bb][0] : regs[v] = env[v]

(* ... while running, the registers agree with the IR but for the phis
   already written, and these hold the value they will have.               *)
Written == {MovDst(prog, movs[bb][k]) : k \in 1 .. done}

RunInv ==
  phase = "run" =>
    /\ done > 0 => pc >= InsertionPoint(prog, bb)
    /\ pc > InsertionPoint(prog, bb) => MovsDone
    /\ \A v \in prog.live[bb][pc] \ Written : regs[v] = env[v]
    /\ \A k \in 1 .. done : regs[MovDst(prog, movs[bb][k])] = env[MovSrc(prog, movs[bb][k])]
    /\ flag # NoFlag => pc = Len(Body) /\ Len(prog.succs[bb]) = 2 /\ flag = env[prog.cond[bb]]
    /\ flag = NoFlag /\ done > 0 /\ Len(prog.succs[bb]) = 2 => InsertionPoint(prog, bb) < Len(Body)

IInv == TypeOK /\ MovsInv /\ RunStarted /\ NotStarted /\ RunInv

=============================================================================

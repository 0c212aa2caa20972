----------------------------- MODULE SimpleSSA -----------------------------
(***************************************************************************)
(* The SSA construction of src/src/jir_pass.c (jir_funcPass_simpleSSARun): *)
(* loads from and stores to promotable allocas are replaced by values and  *)
(* phi instructions, on the fly and iteratively.                           *)
(* "ssa" holds the function under transformation and the pass's maps.  A   *)
(* phi is its block (home) and its operands, which are kept in the order   *)
(* of the use lists (uses): replacing a value appends its uses to those of *)
(* the new value.  When the pass is done the original function and its     *)
(* result are executed side by side along a path of the CFG.               *)
(* A JX_CHECK that is false, or a visit to a freed instruction, is recorded*)
(* in ssa.failed and stops the pass.                                       *)
(***************************************************************************)
EXTENDS Integers, FiniteSets, SequencesExt, Functions

CONSTANTS
  Shapes,         \* the functions, see below
  MaxIds,         \* bound: results of instructions are told apart up to here
  MaxIterations   \* JIR_SIMPLESSA_CONFIG_MAX_ITERATIONS

(* A shape is a CFG (succs, preds: for each block, 1 being the entry and the
   order that of the list), the allocas of the entry block, the front end's
   phis (home, uses), for each block the menu of its instruction sequences,
   and maxWalk, the bound on the blocks executed after the pass.           *)

VARIABLES
  prog,           \* the function the pass was given
  ssa,            \* the function and the maps of the pass
  at,             \* [phase, bb, instr, iter]: where the pass is
  walk            \* the side by side execution

vars == <<prog, ssa, at, walk>>

ASSUME InputAssumption ==
  /\ MaxIds \in Nat \ {0} /\ MaxIterations \in Nat
  /\ \A g \in Shapes :
       /\ DOMAIN g.preds = DOMAIN g.succs /\ DOMAIN g.succs \subseteq DOMAIN g.menu
       /\ \A b, c \in DOMAIN g.succs : b \in ToSet(g.preds[c]) <=> c \in ToSet(g.succs[b])

Block == DOMAIN prog.succs

(* Values: allocas, constants, results of opaque instructions, loads, phis. *)
Val(kind, n) == [kind |-> kind, n |-> n]
Alloca(a) == Val("alloca", a)
Phi(p) == Val("phi", p)
Load(id) == Val("load", id)
Op(id) == Val("op", id)
Const(n) == Val("const", n)
Zero == Const(0)
NoVal == Val("none", 0)

Preds(bb) == prog.preds[bb]
Succs(bb) == prog.succs[bb]

Operands(s, phi) == SelectSeq(s.uses, LAMBDA u : u.phi = phi)
AllInstrs(s) == UNION {ToSet(s.code[b]) : b \in Block}

-----------------------------------------------------------------------------
(* The maps of the pass *)

RECURSIVE Replacement(_, _)
Replacement(s, v) == IF v \in DOMAIN s.repl THEN Replacement(s, s.repl[v]) ELSE v

(* Mutant: the first definition in a block wins. *)
WriteVariable_First(s, bb, addr, v) == [s EXCEPT !.def = @ @@ (<<bb, addr>> :> v)]

WriteVariable(s, bb, addr, v) == [s EXCEPT !.def = (<<bb, addr>> :> v) @@ @]

Fail(s) == [s EXCEPT !.failed = TRUE]

(* jx_ir_valueReplaceAllUsesWith. *)
ReplaceAllUses(s, v, w) ==
  LET Sub(x) == IF x = v THEN w ELSE x
      Others == SelectSeq(s.uses, LAMBDA u : u.val # v)
      Moved == SelectSeq(s.uses, LAMBDA u : u.val = v)
  IN  [s EXCEPT !.uses = Others \o [i \in DOMAIN Moved |-> [Moved[i] EXCEPT !.val = w]],
                !.code = [b \in Block |-> [i \in DOMAIN s.code[b] |->
                            [s.code[b][i] EXCEPT !.addr = Sub(@), !.val = Sub(@)]]]]

ReplaceVariable(s, v, w) ==
  LET new == Replacement(s, w)
  IN  IF new = v THEN Fail(s)
      ELSE [ReplaceAllUses(s, v, new) EXCEPT !.repl = (v :> new) @@ @]

NewPhi(s, bb) == [s EXCEPT !.home = (s.nextPhi :> bb) @@ @, !.nextPhi = @ + 1]

(* Mutant: the operands of a freed phi stay in use lists. *)
RemovePhi_KeepUses(s, phi) == [s EXCEPT !.home = Restrict(@, DOMAIN @ \ {phi})]

RemovePhi(s, phi) ==
  [s EXCEPT !.home = Restrict(@, DOMAIN @ \ {phi}),
            !.uses = SelectSeq(@, LAMBDA u : u.phi # phi)]

(* Only the first operand that is the phi itself is removed. *)
DropSelfUse(s, phi) ==
  LET self == {i \in DOMAIN s.uses : s.uses[i].phi = phi /\ s.uses[i].val = Phi(phi)}
  IN  IF self = {} THEN s ELSE [s EXCEPT !.uses = RemoveAt(@, Min(self))]

-----------------------------------------------------------------------------
(* Reading a variable.  Every operator returns [s, v]: state and value. *)

Result(s, v) == [s |-> s, v |-> v]

RECURSIVE ReadVariable(_, _, _), AddPhiOperands(_, _, _), TryRemoveTrivialPhi(_, _)

(* The phis that use a value, each once, in use list order. *)
PhiUsers(s, v) ==
  LET users == SelectSeq(s.uses, LAMBDA u : u.val = v)
  IN  FoldLeft(LAMBDA seq, u : IF u.phi \in ToSet(seq) THEN seq ELSE Append(seq, u.phi), <<>>, users)

(* Mutant: the value that replaced the phi may itself be gone. *)
FinalValue_Stale(s, same) == same

FinalValue(s, same) == Replacement(s, same)

TryRemoveTrivialPhi(s, phi) ==
  IF phi \notin DOMAIN s.home THEN Result(Fail(s), Phi(phi))
  ELSE IF Len(Operands(s, phi)) # Len(Preds(s.home[phi])) THEN Result(Fail(s), Phi(phi))
  ELSE
  LET others == {u.val : u \in ToSet(Operands(s, phi))} \ {Phi(phi)}
      same == IF others = {} THEN Zero ELSE CHOOSE v \in others : TRUE
      dropped == DropSelfUse(s, phi)
      users == PhiUsers(dropped, Phi(phi))
      removed == RemovePhi(ReplaceVariable(dropped, Phi(phi), same), phi)
      recursed == FoldLeft(LAMBDA t, q : IF t.failed THEN t ELSE TryRemoveTrivialPhi(t, q).s, removed, users)
  IN  IF Cardinality(others) > 1 THEN Result(s, Phi(phi))
      ELSE Result(recursed, FinalValue(recursed, same))

AddPhiOperands(s, phi, addr) ==
  LET AddOperand(t, pred) ==
        LET r == ReadVariable(t, pred, addr)
        IN  [r.s EXCEPT !.uses = Append(@, [phi |-> phi, pred |-> pred, val |-> r.v])]
  IN  TryRemoveTrivialPhi(FoldLeft(AddOperand, s, Preds(s.home[phi])), phi)

IncompletePhi(s, bb, addr) ==
  Result([NewPhi(s, bb) EXCEPT !.incomplete = Append(@, [bb |-> bb, addr |-> addr, phi |-> s.nextPhi])],
         Phi(s.nextPhi))

JoinPhi(s, bb, addr) ==
  AddPhiOperands(WriteVariable(NewPhi(s, bb), bb, addr, Phi(s.nextPhi)), s.nextPhi, addr)

ReadVariableR(s, bb, addr) ==
  LET r == IF bb \notin s.sealed THEN IncompletePhi(s, bb, addr)
           ELSE IF Len(Preds(bb)) = 1 /\ Preds(bb)[1] # bb THEN ReadVariable(s, Preds(bb)[1], addr)
           ELSE JoinPhi(s, bb, addr)
  IN  Result(WriteVariable(r.s, bb, addr, r.v), r.v)

ReadVariable(s, bb, addr) ==
  IF <<bb, addr>> \in DOMAIN s.def THEN Result(s, Replacement(s, s.def[<<bb, addr>>]))
  ELSE ReadVariableR(s, bb, addr)

-----------------------------------------------------------------------------
(* Sealing and filling *)

(* Incomplete phis of the block, last first; reading their operands may add
   incomplete phis of other blocks at the end.                             *)
CompletePhis(s, bb) ==
  LET Complete(t, i) ==
        LET phi == t.incomplete[i]
            done == AddPhiOperands(t, phi.phi, phi.addr).s
        IN  IF phi.bb # bb \/ t.failed THEN t
            ELSE [done EXCEPT !.incomplete = RemoveAt(@, i)]
  IN  FoldRight(LAMBDA i, t : Complete(t, i), [i \in DOMAIN s.incomplete |-> i], s)

TrySealBlock(s, bb) ==
  IF bb \in s.sealed \/ ~(ToSet(Preds(bb)) \subseteq s.filled) THEN s
  ELSE [CompletePhis(s, bb) EXCEPT !.sealed = @ \cup {bb}]

FillBlock(s, bb) == FoldLeft(TrySealBlock, [s EXCEPT !.filled = @ \cup {bb}], Succs(bb))

-----------------------------------------------------------------------------
(* The pass *)

(* Only loads from the alloca and stores to it. *)
IsAllocaPromotable(s, a) ==
  /\ \A u \in ToSet(s.uses) : u.val # Alloca(a)
  /\ \A i \in AllInstrs(s) : i.val # Alloca(a)

Promotable(s) == SelectSeq(s.allocas, LAMBDA a : IsAllocaPromotable(s, a))

CanPromote(addr) == \E a \in ToSet(ssa.promotable) : addr = Alloca(a)

Instr == ssa.code[at.bb][at.instr]
InBlock == at.phase = "promote" /\ at.instr <= Len(ssa.code[at.bb]) /\ ~ssa.failed

(* One instruction sequence of its menu for every block. *)
Codes(g) == FoldLeft(LAMBDA S, b : {Append(c, i) : c \in S, i \in g.menu[b]}, {<<>>}, [b \in DOMAIN g.succs |-> b])

Init ==
  /\ \E g \in Shapes : \E code \in Codes(g) :
       prog = [preds |-> g.preds, succs |-> g.succs, home |-> g.home, uses |-> g.uses,
               allocas |-> g.allocas, code |-> code, maxWalk |-> g.maxWalk]
  /\ ssa = [code |-> prog.code, home |-> prog.home, uses |-> prog.uses, allocas |-> prog.allocas,
            nextPhi |-> Cardinality(DOMAIN prog.home) + 1, promotable |-> <<>>,
            def |-> <<>>, repl |-> <<>>, incomplete |-> <<>>,
            sealed |-> {}, filled |-> {}, failed |-> FALSE]
  /\ at = [phase |-> "round", bb |-> 1, instr |-> 1, iter |-> 0]
  /\ walk = <<>>

(* One iteration starts: the flags of the blocks are not reset here. *)
StartRound ==
  /\ at.phase = "round" /\ ~ssa.failed
  /\ at.iter < MaxIterations
  /\ Promotable(ssa) # <<>>
  /\ ssa' = TrySealBlock([ssa EXCEPT !.promotable = Promotable(ssa), !.def = <<>>, !.repl = <<>>,
                                     !.incomplete = <<>>], 1)
  /\ at' = [at EXCEPT !.phase = "promote", !.bb = 1, !.instr = 1]
  /\ UNCHANGED <<prog, walk>>

ProcessStore ==
  /\ InBlock /\ Instr.op = "store" /\ CanPromote(Instr.addr)
  /\ ssa' = WriteVariable(ssa, at.bb, Instr.addr, Instr.val)
  /\ at' = [at EXCEPT !.instr = @ + 1]
  /\ UNCHANGED <<prog, walk>>

ProcessLoad ==
  /\ InBlock /\ Instr.op = "load" /\ CanPromote(Instr.addr)
  /\ LET r == ReadVariable(ssa, at.bb, Instr.addr)
         s == ReplaceVariable(r.s, Load(Instr.id), r.v)
     IN  ssa' = [s EXCEPT !.code[at.bb] = RemoveAt(@, at.instr)]
  /\ UNCHANGED <<prog, at, walk>>

SkipInstr ==
  /\ InBlock /\ ~(Instr.op \in {"load", "store"} /\ CanPromote(Instr.addr))
  /\ at' = [at EXCEPT !.instr = @ + 1]
  /\ UNCHANGED <<prog, ssa, walk>>

FinishBlock ==
  /\ at.phase = "promote" /\ at.instr > Len(ssa.code[at.bb]) /\ ~ssa.failed
  /\ LET filled == FillBlock(ssa, at.bb)
     IN  IF at.bb < Len(prog.succs)
         THEN /\ ssa' = TrySealBlock(filled, at.bb + 1)
              /\ at' = [at EXCEPT !.bb = @ + 1, !.instr = 1]
         ELSE /\ ssa' = [filled EXCEPT !.failed = @ \/ filled.incomplete # <<>>]
              /\ at' = [at EXCEPT !.phase = "clean"]
  /\ UNCHANGED <<prog, walk>>

(* Mutant: the stores go, the alloca stays. *)
TryRemoveDeadAlloca_KeepAlloca(s, a) ==
  [s EXCEPT !.code = [b \in Block |-> SelectSeq(s.code[b], LAMBDA i : i.addr # Alloca(a))]]

TryRemoveDeadAlloca(s, a) ==
  LET uses == {i \in AllInstrs(s) : Alloca(a) \in {i.addr, i.val}}
  IN  IF (\E i \in uses : i.op # "store") \/ (\E u \in ToSet(s.uses) : u.val = Alloca(a)) THEN s
      ELSE [s EXCEPT !.code = [b \in Block |-> SelectSeq(s.code[b], LAMBDA i : i \notin uses)],
                     !.allocas = Remove(@, a)]

EndRound ==
  /\ at.phase = "clean" /\ ~ssa.failed
  /\ ssa' = FoldLeft(TryRemoveDeadAlloca, ssa, ssa.promotable)
  /\ at' = [at EXCEPT !.phase = "round", !.iter = @ + 1]
  /\ UNCHANGED <<prog, walk>>

-----------------------------------------------------------------------------
(* Executing a function: env holds the values of instructions, mem those of
   allocas, seen what the block's opaque users were given.                 *)

Undef == NoVal
EmptyMachine == [env |-> <<>>, mem |-> <<>>, seen |-> <<>>, ub |-> FALSE]

Eval(m, v) ==
  IF v.kind \in {"const", "alloca"} THEN v
  ELSE IF v \in DOMAIN m.env THEN m.env[v] ELSE Undef

(* The phis of a block read their operands at once. *)
EnterBlock(m, f, bb, pred) ==
  LET here == {u \in ToSet(f.uses) : f.home[u.phi] = bb /\ u.pred = pred}
      value == [v \in {Phi(u.phi) : u \in here} |->
                  Eval(m, (CHOOSE u \in here : Phi(u.phi) = v).val)]
  IN  [m EXCEPT !.env = value @@ @, !.seen = <<>>]

Execute(m, i, time) ==
  LET addr == Eval(m, i.addr)
      loaded == IF addr \in DOMAIN m.mem THEN m.mem[addr] ELSE Undef
  IN  CASE i.op = "op" -> [m EXCEPT !.env = (Op(i.id) :> Val("result", time * MaxIds + i.id)) @@ @]
        [] i.op = "use" -> [m EXCEPT !.seen = Append(@, Eval(m, i.val))]
        [] i.op \in {"load", "store"} /\ addr.kind # "alloca" -> [m EXCEPT !.ub = TRUE]
        [] i.op = "store" /\ addr.kind = "alloca" -> [m EXCEPT !.mem = (addr :> Eval(m, i.val)) @@ @]
        [] i.op = "load" /\ addr.kind = "alloca" -> [m EXCEPT !.env = (Load(i.id) :> loaded) @@ @]

RunBlock(m, f, bb, pred, time) ==
  FoldLeft(LAMBDA n, i : Execute(n, i, time), EnterBlock(m, f, bb, pred), f.code[bb])

PassDone == at.phase = "round" /\ (Promotable(ssa) = <<>> \/ at.iter = MaxIterations) /\ ~ssa.failed

StartWalk ==
  /\ PassDone
  /\ walk' = [bb |-> 1, time |-> 1,
              before |-> RunBlock(EmptyMachine, prog, 1, 0, 0),
              after |-> RunBlock(EmptyMachine, ssa, 1, 0, 0)]
  /\ at' = [at EXCEPT !.phase = "walk"]
  /\ UNCHANGED <<prog, ssa>>

TakeBranch ==
  /\ at.phase = "walk" /\ walk.time < prog.maxWalk /\ ~walk.before.ub
  /\ \E bb \in ToSet(Succs(walk.bb)) :
       walk' = [bb |-> bb, time |-> walk.time + 1,
                before |-> RunBlock(walk.before, prog, bb, walk.bb, walk.time),
                after |-> RunBlock(walk.after, ssa, bb, walk.bb, walk.time)]
  /\ UNCHANGED <<prog, ssa, at>>

Next == StartRound \/ ProcessStore \/ ProcessLoad \/ SkipInstr \/ FinishBlock \/ EndRound
        \/ StartWalk \/ TakeBranch

Spec == Init /\ [][Next]_vars

-----------------------------------------------------------------------------
(* Properties *)

TypeOK ==
  /\ at.phase \in {"round", "promote", "clean", "walk"} /\ at.bb \in Block /\ at.iter \in 0..MaxIterations
  /\ DOMAIN ssa.home \subseteq 1..(ssa.nextPhi - 1)
  /\ \A u \in ToSet(ssa.uses) : u.phi \in DOMAIN ssa.home
  /\ \A i \in DOMAIN ssa.incomplete : ssa.incomplete[i].phi \in DOMAIN ssa.home
  /\ ToSet(ssa.allocas) \subseteq ToSet(prog.allocas)

(* The transformed function shows every opaque user the value the original
   shows it, on every path, unless the original reads an uninitialised
   variable: the promise of the pass.                                      *)
SameValues ==
  at.phase = "walk" /\ ~walk.before.ub =>
    /\ ~walk.after.ub
    /\ Len(walk.after.seen) = Len(walk.before.seen)
    /\ \A i \in DOMAIN walk.before.seen :
         walk.before.seen[i] # Undef => walk.after.seen[i] = walk.before.seen[i]

(* Between two instructions every sealed block's phis have one operand per
   predecessor and the only phis without operands wait in m_IncompletePhis. *)
PhisMatchPredecessors ==
  ~ssa.failed => \A p \in DOMAIN ssa.home :
    LET from == [i \in DOMAIN Operands(ssa, p) |-> Operands(ssa, p)[i].pred]
    IN  IF \E i \in DOMAIN ssa.incomplete : ssa.incomplete[i].phi = p
        THEN from = <<>> /\ ssa.home[p] \notin ssa.sealed
        ELSE Len(from) = Len(Preds(ssa.home[p])) /\ ToSet(from) = ToSet(Preds(ssa.home[p]))

(* Nothing left in the function refers to a load or a phi that has been
   removed (the case of c-testsuite/00181.c).                              *)
NoDanglingOperands ==
  ~ssa.failed =>
    LET operands == {u.val : u \in ToSet(ssa.uses)}
                    \cup UNION {{i.addr, i.val} : i \in AllInstrs(ssa)}
    IN  \A v \in operands :
          /\ v.kind = "phi" => v.n \in DOMAIN ssa.home
          /\ v.kind = "load" => \E i \in AllInstrs(ssa) : i.op = "load" /\ i.id = v.n
          /\ v.kind = "alloca" => v.n \in ToSet(ssa.allocas)

(* No phi that the pass made and leaves behind is trivial, that is, could be
   replaced by its only operand.                                           *)
NoTrivialPhi ==
  at.phase = "clean" => \A p \in DOMAIN ssa.home \ DOMAIN prog.home :
    Cardinality({u.val : u \in ToSet(Operands(ssa, p))} \ {Phi(p)}) > 1

(* The phis at hand are those SSA form asks for, and nothing refers to what
   was removed, although the removal of a phi recurses into others.        *)
PhisSound == PhisMatchPredecessors /\ NoTrivialPhi /\ NoDanglingOperands

(* No JX_CHECK of the pass fails and no freed instruction is visited. *)
ChecksHold == ~ssa.failed

(* Every iteration removes every alloca it promoted, so the iterations end
   and the limit is never what ends them.                                  *)
EveryRoundRemovesAllocas ==
  [][at.phase = "clean" /\ at'.phase = "round" =>
       ToSet(ssa'.allocas) = ToSet(ssa.allocas) \ ToSet(ssa.promotable)]_vars
=============================================================================

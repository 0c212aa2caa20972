---------------------------- MODULE MCSimpleSSA ----------------------------
(* Instances of SimpleSSA: CFGs and, per block, a few instruction sequences
   over one variable x or over x and a pointer to it.                      *)
EXTENDS SimpleSSA

MaxBlock == 9
BlockNumber == 1..MaxBlock

Instruction(op, id, addr, val) == [op |-> op, id |-> id, addr |-> addr, val |-> val]
OpInstr(b) == Instruction("op", b, NoVal, NoVal)
StoreInstr(addr, val) == Instruction("store", 0, addr, val)
LoadInstr(id, addr) == Instruction("load", id, addr, NoVal)
UseInstr(val) == Instruction("use", 0, NoVal, val)

X == Alloca(1)
P == Alloca(2)
StoreNew(b) == <<OpInstr(b), StoreInstr(X, Op(b))>>
StoreConst == <<StoreInstr(X, Const(1))>>
ReadX(b) == <<LoadInstr(b, X), UseInstr(Load(b))>>

(* Through the pointer: p is loaded first. *)
PointAtX == <<StoreInstr(P, X)>>
StoreVia(b) == <<OpInstr(b), LoadInstr(2 * MaxBlock + b, P), StoreInstr(Load(2 * MaxBlock + b), Op(b))>>
ReadVia(b) == <<LoadInstr(MaxBlock + b, P), LoadInstr(b, Load(MaxBlock + b)), UseInstr(Load(b))>>

Ascending(S) == SetToSortSeq(S, LAMBDA a, b : a < b)
CFG(succ, up, allocas, maxWalk, menu) ==
  LET pred(b) == Ascending({a \in DOMAIN succ : b \in succ[a]})
  IN  [succs |-> [b \in DOMAIN succ |-> Ascending(succ[b])],
       preds |-> [b \in DOMAIN succ |-> IF up THEN pred(b) ELSE Reverse(pred(b))],
       home |-> <<>>, uses |-> <<>>, allocas |-> allocas, maxWalk |-> maxWalk, menu |-> menu]

-----------------------------------------------------------------------------
(* Every CFG of three blocks, unreachable blocks, self loops and irreducible
   loops included: the entry has no predecessor, a block at most two
   successors, and the arrays of predecessors are in either order.         *)
SmallBlock == 1..3
SmallMenu == [b \in BlockNumber |-> {<<>>, StoreNew(b), StoreConst, ReadX(b), ReadX(b) \o StoreNew(b)}]
MCSmallShapes ==
  {CFG(succ, up, <<1>>, 6, SmallMenu) : succ \in [SmallBlock -> SUBSET {2, 3}], up \in BOOLEAN}

(* What jir_gen.c makes of  for (;c;inc) { if (..) { then } rest }  when then
   falls through, continues or breaks (5 is the unreachable rest of then),
   and of a conditional expression in the body, which has a phi of its own. *)
LoopMenu ==
  [b \in BlockNumber |->
    CASE b = 1 -> {StoreConst, StoreNew(1)}
      [] b = 2 -> {<<>>, ReadX(2)}
      [] b = 4 -> {ReadX(4), ReadX(4) \o StoreConst, ReadX(4) \o StoreNew(4)}
      [] b = 5 -> {<<>>, StoreNew(5)}
      [] b = 6 -> {<<>>, ReadX(6), ReadX(6) \o StoreNew(6)}
      [] b = 7 -> {<<>>, ReadX(7) \o StoreConst}
      [] b = 8 -> {ReadX(8)}
      [] OTHER -> {<<>>}]
LoopWithIf(next) == CFG(<<{2}, {3, 8}, {4, 6}, {next}, {6}, {7}, {2}, {}>>, TRUE, <<1>>, 14, LoopMenu)
LoopWithConditional ==
  [CFG(<<{2}, {3, 8}, {4, 5}, {6}, {6}, {7}, {2}, {}>>, TRUE, <<1>>, 14, LoopMenu) EXCEPT
     !.home = (1 :> 6),
     !.uses = <<[phi |-> 1, pred |-> 4, val |-> Load(4)], [phi |-> 1, pred |-> 5, val |-> Const(1)]>>]

(* if (..) goto 8; for (;;) { for (;c;) { if (..) goto 8; } }  8:  *)
LeaveBoth ==
  CFG(<<{2, 8}, {3}, {4, 6}, {5, 8}, {3}, {7}, {2}, {}>>, TRUE, <<1>>, 14,
      [b \in BlockNumber |-> CASE b = 1 -> {StoreConst, StoreNew(1)}
                          [] b \in {5, 6} -> {<<>>, StoreNew(b), ReadX(b) \o StoreNew(b)}
                          [] b = 8 -> {ReadX(8)}
                          [] OTHER -> {<<>>}])
MCLoopShapes == {LoopWithIf(next) : next \in {5, 7, 8}} \cup {LoopWithConditional, LeaveBoth}

(* for (;c;) { if (..) { if (..) { 5 } 6 } 7 } *)
MCNestedShapes ==
  {CFG(<<{2}, {3, 9}, {4, 7}, {5, 6}, {6}, {7}, {8}, {2}, {}>>, TRUE, <<1>>, 1,
       [b \in BlockNumber |-> CASE b = 1 -> {StoreConst, StoreNew(1)}
                           [] b = 5 -> {<<>>, StoreConst, StoreNew(5)}
                           [] b = 6 -> {<<>>, ReadX(6)}
                           [] b = 7 -> {<<>>, ReadX(7), ReadX(7) \o StoreConst, ReadX(7) \o StoreNew(7)}
                           [] b \in {8, 9} -> {<<>>, ReadX(b)}
                           [] OTHER -> {<<>>}])}

(* x is reached through p only: a diamond. *)
MCDiamondShapes ==
  {CFG(<<{2, 3}, {4}, {4}, {}>>, TRUE, <<1, 2>>, 4,
       [b \in BlockNumber |->
          IF b = 1 THEN {PointAtX, StoreConst \o PointAtX, StoreConst \o PointAtX \o StoreVia(1)}
          ELSE {<<>>, StoreVia(b), ReadVia(b), ReadVia(b) \o StoreVia(b), StoreVia(b) \o ReadVia(b), PointAtX}])}

MCShapes == MCSmallShapes \cup MCLoopShapes \cup MCDiamondShapes
=============================================================================

--------------------------- MODULE MCPhiLowering ---------------------------
(* Small functions for PhiLowering: a loop of one block, a loop with a test
   in a block of its own, and an if without else.  a and b are arguments,
   x and y phis, t, u and w are computed, c is the condition.                 *)
EXTENDS PhiLowering

MCBlock == {"entry", "loop", "body", "exit"}
MCValue == {"a", "b", "x", "y", "t", "u", "w", "c"}
MCData == 0 .. 2
MCOp == [d \in MCData |-> (d + 1) % 3]
MCCmp == [d \in MCData |-> IF d < 2 THEN 1 ELSE 0]
MCHolds == 1 .. 2
MCNoFlag == -1

(* Arguments take every value, what else registers hold on entry is junk.  *)
MCInitRegs ==
  {[v \in MCValue |-> CASE v = "a" -> a [] v = "b" -> b [] OTHER -> junk] :
     a \in {0, 2}, b \in {0, 1}, junk \in {0, 1}}

-----------------------------------------------------------------------------
(* The values live at the boundaries of a block's code, from the last to
   the first, and the least sets that are consistent over all blocks.      *)
RECURSIVE Backwards(_, _, _)
Backwards(code, n, out) ==
  IF n = Len(code)
    THEN out
    ELSE LET after == Backwards(code, n + 1, out)
         IN  (after \ {code[n + 1].dst}) \union {code[n + 1].src}

LiveOut(f, live, b) ==
  (IF Len(f.succs[b]) = 1 THEN {} ELSE {f.cond[b]})
  \union UNION {live[f.succs[b][k]] \ {f.phis[i].dst : i \in PhisOf(f, f.succs[b][k])} :
                  k \in 1 .. Len(f.succs[b])}
  \union UNION {{f.phis[i].ops[o].value : o \in OperandsFrom(f, i, b)} : i \in 1 .. Len(f.phis)}

RECURSIVE LiveIn(_, _)
LiveIn(f, live) ==
  LET more == [b \in MCBlock |-> live[b] \union Backwards(f.code[b], 0, LiveOut(f, live, b))]
  IN  IF more = live THEN live ELSE LiveIn(f, more)

WithLive(f) ==
  LET entry == LiveIn(f, [b \in MCBlock |-> {}])
      live == [b \in MCBlock |->
                 [n \in 0 .. Len(f.code[b]) |-> Backwards(f.code[b], n, LiveOut(f, entry, b))]]
  IN  [entry |-> f.entry, args |-> f.args, succs |-> f.succs, code |-> f.code, cond |-> f.cond,
       phis |-> f.phis, live |-> live]

-----------------------------------------------------------------------------
Instr(op, dst, src) == [op |-> op, dst |-> dst, src |-> src]
Arg(v, b) == [value |-> v, bb |-> b]
PhiOf(dst, b, ops) == [dst |-> dst, bb |-> b, ops |-> ops]
InBlocks(entry, loop, body, exit) ==
  [b \in MCBlock |-> CASE b = "entry" -> entry [] b = "loop" -> loop
                       [] b = "body" -> body [] b = "exit" -> exit]

Function(succs, code, cond, ret, phis) ==
  WithLive([entry |-> "entry", args |-> {"a", "b"}, succs |-> succs, code |-> code,
            cond |-> [b \in MCBlock |-> IF b = "exit" THEN ret ELSE cond], phis |-> phis])

Orders == <<<<1, 2, 3>>, <<1, 3, 2>>, <<2, 1, 3>>, <<2, 3, 1>>, <<3, 1, 2>>, <<3, 2, 1>>>>
Reorder(body, order) == [k \in 1 .. 3 |-> body[order[k]]]

(* The functions of a family are numbered, the number's digits, each of a
   given weight, making the choices.                                       *)
Choice(n, weight, choices) == choices[((n \div weight) % Len(choices)) + 1]

(* do { ... } while (c): t, u and c in any order, each from one source; or
   with a phi for the condition.                                           *)
SelfLoop(n) ==
  LET cond == Choice(n, 1296, <<"c", "x">>)
      ret == Choice(n, 1, <<"x", "u">>)
      order == Choice(n, 2, Orders)
      body == <<Instr("op", "t", "x"), Instr("op", "u", Choice(n, 12, <<"y", "t">>)),
                Instr(IF cond = "c" THEN "setcc" ELSE "op", "c", Choice(n, 24, <<"x", "t", "u">>))>>
      phiX == PhiOf("x", "loop", <<Arg("a", "entry"), Arg(Choice(n, 72, <<"y", "t", "a">>), "loop")>>)
      phiY == PhiOf("y", "loop", <<Arg("b", "entry"), Arg(Choice(n, 216, <<"x", "u", "b">>), "loop")>>)
  IN  Function(InBlocks(<<"loop">>, <<"loop", "exit">>, <<>>, <<>>),
               InBlocks(<<>>, Reorder(body, order), <<>>, <<>>), cond, ret,
               Choice(n, 648, <<<<phiX, phiY>>, <<phiY, phiX>>>>))

(* for (; c;) { ... } *)
ForLoop(n) ==
  LET ret == Choice(n, 1, <<"x", "y">>)
      test == Choice(n, 2, <<"x", "y">>)
      body == <<Instr("op", "t", "x"), Instr("op", "u", Choice(n, 4, <<"y", "t">>))>>
      phiX == PhiOf("x", "loop", <<Arg("a", "entry"), Arg(Choice(n, 8, <<"y", "t", "u">>), "body")>>)
      phiY == PhiOf("y", "loop", <<Arg("b", "entry"), Arg(Choice(n, 24, <<"x", "u", "t">>), "body")>>)
  IN  Function(InBlocks(<<"loop">>, <<"body", "exit">>, <<"loop">>, <<>>),
               InBlocks(<<>>, <<Instr("setcc", "c", test)>>, body, <<>>), "c", ret,
               Choice(n, 72, <<<<phiX, phiY>>, <<phiY, phiX>>>>))

(* if (c) { ... }, the condition computed in the entry block.              *)
IfThen(n) ==
  LET ret == Choice(n, 1, <<"x", "y">>)
      order == Choice(n, 2, Orders)
      head == <<Instr("op", "t", "a"),
                Instr(Choice(n, 12, <<"op", "conv">>), "u", Choice(n, 24, <<"b", "t">>)),
                Instr("setcc", "c", Choice(n, 48, <<"a", "t", "u">>))>>
      phiX == PhiOf("x", "exit", <<Arg(Choice(n, 144, <<"a", "t">>), "entry"), Arg("w", "body")>>)
      phiY == PhiOf("y", "exit", <<Arg(Choice(n, 288, <<"b", "t">>), "entry"), Arg("b", "body")>>)
  IN  Function(InBlocks(<<"body", "exit">>, <<>>, <<"exit">>, <<>>),
               InBlocks(Reorder(head, order), <<>>, <<Instr("op", "w", "t")>>, <<>>), "c", ret,
               <<phiX, phiY>>)

(* do { old = x; x = x + 1; } while (old < 2); return x                    *)
CompareOld ==
  Function(InBlocks(<<"loop">>, <<"loop", "exit">>, <<>>, <<>>),
           InBlocks(<<>>, <<Instr("op", "t", "x"), Instr("setcc", "c", "x")>>, <<>>, <<>>), "c", "t",
           <<PhiOf("x", "loop", <<Arg("a", "entry"), Arg("t", "loop")>>)>>)

MCCompareOld == <<CompareOld>>

(* Compared with itself a function is tabulated once and for all by TLC.   *)
Tabulated(f) == CHOOSE g \in {f} : g = f

Numbered ==
  Tabulated([n \in 1 .. 3312 |->
               CASE n <= 2592 -> SelfLoop(n)
                 [] n > 2592 /\ n <= 2736 -> ForLoop(n)
                 [] OTHER -> IfThen(n)])

MCPrograms == Numbered
=============================================================================

----------------------------- MODULE MCRegAlloc -----------------------------
(* Instances of RegAlloc: every interference graph over a few registers, with
   every short sequence of moves between them, and two colours to hand out;
   and what the round ends by.                                              *)
EXTENDS RegAlloc

MCColor == 0..2
MCAvail == {0, 1}
MCHWColor == [h \in HWNode |-> h - 1]

Pairs == {e \in Node \X Node : e[1] < e[2] /\ e[2] \in VNode}
NodeSeq == [i \in 1..(NumHW + NumVirtual) |-> i]

(* All pairs in lexicographic order; a graph is any selection of them. *)
AllPairs ==
  FoldLeft(LAMBDA s, u : s \o FoldLeft(LAMBDA r, v : IF <<u, v>> \in Pairs THEN Append(r, <<u, v>>) ELSE r,
                                       <<>>, NodeSeq),
           <<>>, NodeSeq)
MCGraphs == {SelectSeq(AllPairs, LAMBDA e : e \in S) : S \in SUBSET Pairs}

(* Moves from a hardware register, between registers in both directions, along
   a chain, and of a register to itself.                                   *)
Moves == {[dst |-> 2, src |-> 1], [dst |-> 2, src |-> 3], [dst |-> 4, src |-> 3], [dst |-> 3, src |-> 3]}
MCMovSeqs == {<<>>} \cup {<<a>> : a \in Moves} \cup {<<a, b>> : a, b \in Moves}

-----------------------------------------------------------------------------
(* Termination of the loop over the worklists.  RegAlloc with one bit that
   flips at every iteration, so that an iteration that changes nothing is
   still a step: a loop that spins without effect does not terminate.      *)
VARIABLE tick

loopVars == <<vars, tick>>

LoopInit == Init /\ tick = FALSE
LoopNext == Next /\ tick' = ~tick

(* The loop is sequential code: it takes its next step until it has finished.
   That a step is always possible is checked as the absence of deadlock.   *)
LoopSpec ==
  LoopInit /\ [][LoopNext]_loopVars /\ ([]<>Finished \/ []<><<LoopNext>>_loopVars)

(* The round ends: the loop over the worklists, where nodes and moves go back
   and forth between lists, does not run for ever.                         *)
Termination == <>Finished
=============================================================================

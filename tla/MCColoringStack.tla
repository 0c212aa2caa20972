-------------------------- MODULE MCColoringStack --------------------------
(* Three virtual registers and two hardware registers, one not available. *)
EXTENDS ColoringStack

MCNode == 1..5
MCHWNode == {1, 2}
MCColor == {0, 1, 2}
MCAvail == {0, 2}
MCHWColor == [h \in MCHWNode |-> h - 1]

(* The relation given by a set of unordered pairs of nodes. *)
Interference(pairs) == [n \in Node |-> {m \in Node : n # m /\ {n, m} \in pairs}]

Pairs == {p \in SUBSET Node : Cardinality(p) = 2}

(* Init, with the relations enumerated. *)
MCInit == edges \in {Interference(pairs) : pairs \in SUBSET Pairs} /\ Init
MCSpec == MCInit /\ [][Next]_vars
=============================================================================

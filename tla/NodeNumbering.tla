---------------------------- MODULE NodeNumbering ----------------------------
(***************************************************************************)
(* What sampling expects of the hash table: the nodes of a mini-batch are  *)
(* numbered 0, 1, 2, ... without gaps, every node once, and a node keeps   *)
(* its number when a further layer adds its own.  In which order a layer's *)
(* new nodes are numbered is open.                                         *)
(***************************************************************************)
EXTENDS Naturals, Sequences, SequencesExt

CONSTANT Ids

VARIABLES
    nodes,      \* nodes[k] has the number k - 1
    pending     \* the nodes of a fill that is under way

numberingVars == <<nodes, pending>>

NumberingInit == nodes = << >> /\ pending = {}

Begin(S) ==
    /\ pending = {}
    /\ pending' = S
    /\ UNCHANGED nodes

Finish ==
    /\ pending # {}
    /\ IsPrefix(nodes, nodes')
    /\ IsInjective(nodes')
    /\ ToSet(nodes') = ToSet(nodes) \cup pending
    /\ pending' = {}

Clear ==
    /\ pending = {}
    /\ nodes' = << >>
    /\ UNCHANGED pending

NumberingSpec ==
    NumberingInit /\ [][(\E S \in SUBSET Ids : Begin(S)) \/ Finish \/ Clear]_numberingVars
==============================================================================

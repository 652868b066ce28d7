---------------------------- MODULE MCStackDepot ----------------------------
(* stackA and stackB share a bucket; stackC has one of its own and a larger  *)
(* node.  A region holds any two of the nodes, not all three.                *)
EXTENDS StackDepotReverseMap

CONSTANTS stackA, stackB, stackC

MCHash == [s \in Stacks |-> IF s = stackC THEN 1 ELSE 0]
MCSize == [s \in Stacks |-> IF s = stackC THEN 2 ELSE 1]
=============================================================================

----------------------------- MODULE MCPacking -----------------------------
(***************************************************************************)
(* Two transactions and contract batches on two heights.  MapLimit is 0:   *)
(* the second look-up already trims preHashMap.  In PackingSlow there is   *)
(* one transaction and one height, and no look-up fails: each takes the    *)
(* ten seconds of a WaitData that some of the nodes do not answer.         *)
(***************************************************************************)
EXTENDS Packing

HeightsDef == 1 .. 2
OneHeight == {1}
QuickDef == {1}
SlowDef == {10}
BadDef == {1, 10}
=============================================================================

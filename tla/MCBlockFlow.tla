---------------------------- MODULE MCBlockFlow ----------------------------
(***************************************************************************)
(* Instance of BlockFlow for TLC.  The build has kConsensus = 3 and sends  *)
(* a block to as many verify nodes as KReSend_node_threshold asks for; the *)
(* instances keep that equality with fewer nodes.                          *)
(***************************************************************************)
EXTENDS BlockFlow, TLC

CONSTANTS b1, b2, t1, t2, n1, n2, n3, n4

MCSymmetry == Permutations({t1, t2}) \union Permutations({n3, n4})

=============================================================================

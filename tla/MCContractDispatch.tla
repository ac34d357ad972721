------------------------- MODULE MCContractDispatch -------------------------
(***************************************************************************)
(* Small instances of ContractDispatch.  The requests a, b and c form a    *)
(* path: a and b share the address x, b and c share y; free depends on no  *)
(* address.                                                                *)
(***************************************************************************)
EXTENDS ContractDispatch, TLC

CONSTANTS a, b, c, free, x, y, node, dispatcher

needs == (a :> {x}) @@ (b :> {x, y}) @@ (c :> {y}) @@ (free :> {})
MCDeps == [r \in Requests |-> needs[r]]

\* All requests are made at one node.
OriginAtNode == [r \in Requests |-> node]

\* The requests are made at two nodes, one of which dispatches.
OriginApart == [r \in Requests |-> IF r = b THEN dispatcher ELSE node]

=============================================================================

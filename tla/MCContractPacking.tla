------------------------- MODULE MCContractPacking -------------------------
(***************************************************************************)
(* A small instance of ContractPacking: 1 and 3 share the contract x, 3    *)
(* and 4 share y, 4 and 2 share z.                                         *)
(***************************************************************************)
EXTENDS ContractPacking, TLC

CONSTANTS x, y, z, m1, m2, own

calls == 1 :> {x} @@ 2 :> {z} @@ 3 :> {x, y} @@ 4 :> {y, z}
MCCalls == [t \in Txs |-> calls[t]]

Load(n, first, second, third) ==
  [threads |-> n, todo |-> (m1 :> first) @@ (m2 :> second) @@ (own :> third)]

\* Three that form a path, then some of them again; two, then one of them with
\* another; the path of four, which may be put into two groups; and the
\* dispatcher's own message, of two block times, while two others may fill the
\* pool.
MCLoads == {
  Load(3, <<{1, 3, 4}>>, <<{1, 3}>>, <<>>),
  Load(3, <<{3, 4}>>, <<{1, 3}>>, <<>>),
  Load(2, <<{1, 2, 3, 4}>>, <<>>, <<>>),
  Load(2, <<{2}>>, <<{2}>>, <<{1, 3}, {2}>>)}

=============================================================================

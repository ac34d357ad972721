---------------------------- MODULE MCBlockPool ----------------------------
(***************************************************************************)
(* Small instances of BlockPool.  Over the genesis block g stand two       *)
(* blocks of height 1 that spend the same output, a and rival; b follows   *)
(* a, and c follows b.                                                     *)
(***************************************************************************)
EXTENDS BlockPool, TLC

CONSTANTS g, a, rival, b, c

heights == (g :> 0) @@ (a :> 1) @@ (rival :> 1) @@ (b :> 2) @@ (c :> 3)
MCHeight == [x \in Blocks |-> heights[x]]

times == (g :> 0) @@ (a :> 1) @@ (rival :> 2) @@ (b :> 3) @@ (c :> 4)
MCTime == [x \in Blocks |-> times[x]]

previous == (g :> g) @@ (a :> g) @@ (rival :> g) @@ (b :> a) @@ (c :> b)
MCPrev == [x \in Blocks |-> previous[x]]

\* Every block spends the output of its predecessor, so a and rival conflict.
MCSpends == [x \in Blocks |-> {previous[x]} \ {x}]

=============================================================================

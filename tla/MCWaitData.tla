----------------------------- MODULE MCWaitData -----------------------------
(***************************************************************************)
(* Instance of WaitData for TLC: two calls that ask overlapping sets of    *)
(* peers, with the 80% quorum the callers compute, rounded down: 2 answers *)
(* of 3 peers and, the edge case, 0 answers of 1 peer.                     *)
(***************************************************************************)
EXTENDS WaitData, TLC

CONSTANTS c1, c2, n1, n2, n3

MCTargets == c1 :> {n1, n2, n3} @@ c2 :> {n1}

MCRetNum == [c \in {c1, c2} |-> (Cardinality(MCTargets[c]) * 4) \div 5]

=============================================================================

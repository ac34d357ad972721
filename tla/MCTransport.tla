---------------------------- MODULE MCTransport ----------------------------
(***************************************************************************)
(* Small instances of Transport.                                           *)
(***************************************************************************)
EXTENDS Transport

Load(n, o, i) == [conns |-> n, out |-> o, in |-> i]

\* Both directions of one connection; then each direction of a descriptor that
\* two connections use, and both directions of the first of two.
MCLoads == {
  Load(1, <<2, 0>>, <<1, 0>>),
  Load(2, <<1, 1>>, <<0, 0>>),
  Load(2, <<0, 0>>, <<2, 1>>),
  Load(2, <<1, 0>>, <<0, 1>>),
  Load(2, <<0, 1>>, <<1, 0>>)}

=============================================================================

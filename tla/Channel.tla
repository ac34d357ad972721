------------------------------ MODULE Channel ------------------------------
(***************************************************************************)
(* What a connection promises its two ends: the packs handed over at one   *)
(* end come out at the other, whole, once each and in order, until the     *)
(* connection is cut.  A pack is named by its place among those sent.      *)
(***************************************************************************)
EXTENDS Naturals, Sequences

VARIABLES
  sent,   \* how many packs have been handed over
  got,    \* the packs that have come out
  cut     \* the connection has been given up

chan == <<sent, got, cut>>

Init == sent = 0 /\ got = <<>> /\ cut = FALSE

Send == sent' = sent + 1 /\ UNCHANGED <<got, cut>>

\* Several packs may come out of one read.
Deliver ==
  /\ \E n \in Len(got) + 1 .. sent : got' = [i \in 1 .. n |-> i]
  /\ UNCHANGED <<sent, cut>>

Cut == cut' = TRUE /\ UNCHANGED <<sent, got>>

Next == Send \/ Deliver \/ Cut

Safe == Init /\ [][Next]_chan

\* All that has been sent comes out, whenever the sender pauses for long enough.
Delivers == []<>(Len(got) = sent \/ cut)

=============================================================================

------------------------- MODULE MCXConnectorEpoll -------------------------
(* Instances of XConnectorEpoll for TLC: one connector alone, and two that  *)
(* share the events array.                                                  *)
EXTENDS XConnectorEpoll, TLC

CONSTANTS k1, k2, p1, p2, p3

OneTarget == [p \in {p1, p2, p3} |-> k1]

TwoPeers == (p1 :> k1) @@ (p2 :> k2)

(* The peers of one connector are interchangeable.                          *)
PeerSymmetry == Permutations({p1, p2, p3})

=============================================================================

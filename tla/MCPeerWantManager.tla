------------------------- MODULE MCPeerWantManager -------------------------
(* Two peers and two or three wants, as model values.                      *)
EXTENDS PeerWantManager, TLC

Symmetry == Permutations(Peers) \cup Permutations(Wants)
=============================================================================

------------------------------ MODULE Network -------------------------------
(***************************************************************************)
(* The peers, whom the connection events and the wants of the PeerManager  *)
(* are both about.                                                         *)
(***************************************************************************)
CONSTANT Peers  \* peers that may connect
=============================================================================

--------------------------- MODULE MCPeerManager ----------------------------
(* One peer, and a queue that can outlive its replacement by another. *)
EXTENDS PeerManager
=============================================================================

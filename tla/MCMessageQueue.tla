--------------------------- MODULE MCMessageQueue ---------------------------
(* One want, in all its entries: broadcast, want-have and want-block.      *)
EXTENDS MessageQueue
=============================================================================

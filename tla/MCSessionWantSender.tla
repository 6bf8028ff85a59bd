------------------------ MODULE MCSessionWantSender -------------------------
(* Every want has a CID of its own.                                        *)
EXTENDS SessionWantSender

MCCidOf == [w \in Wants |-> w]
=============================================================================

------------------------------ MODULE MCSession -----------------------------
(* Wants with different CIDs.                                              *)
EXTENDS Session

MCCidOf == [w \in Wants |-> w]
=============================================================================

------------------------------ MODULE MCEngine -------------------------------
(* Every want has a CID of its own, and every peer may read every block.   *)
EXTENDS Engine, TLC

MCCidOf == [w \in Wants |-> w]
MCAllowed == Peers \X Wants

\* A want-block that asks for a DONT_HAVE, a want-have that does not, alone and
\* as the full wantlist, and a cancel.
Message(type, sendDontHave, full) == [type |-> type, sendDontHave |-> sendDontHave, full |-> full]

MCMessages ==
    {Message("block", TRUE, FALSE), Message("have", FALSE, FALSE), Message("have", FALSE, TRUE),
     Message("cancel", FALSE, FALSE)}

\* Bound: a behaviour in which Bitswap closes has at most one message.
ClosesEarly == phase # "running" => events.messages <= 1

Symmetry == Permutations(Workers) \cup Permutations(Senders)
=============================================================================

---------------------------- MODULE PeerWantSpec ----------------------------
(***************************************************************************)
(* What the PeerManager promises to the sessions that call it: every       *)
(* connected peer is asked for each want at a level, "none", "have" or     *)
(* "block".  A broadcast raises every peer to "have" at least, targeted    *)
(* wants raise one peer, a cancel lowers every peer to "none", and a peer  *)
(* that connects starts from the broadcast wants.  Nothing else moves a    *)
(* level: in particular no level drops except by a cancel.                 *)
(***************************************************************************)
CONSTANTS Peers, Wants

VARIABLES
    bcast,  \* the broadcast wants
    level   \* connected peer -> want -> level at which it is asked

Levels == {"none", "have", "block"}

Init ==
    /\ bcast = {}
    /\ level = [p \in {} |-> {}]

Connect(p) ==
    /\ p \notin DOMAIN level
    /\ level' = [q \in DOMAIN level \cup {p} |->
                    IF q = p THEN [w \in Wants |-> IF w \in bcast THEN "have" ELSE "none"]
                    ELSE level[q]]
    /\ UNCHANGED bcast

Disconnect(p) ==
    /\ level' = [q \in DOMAIN level \ {p} |-> level[q]]
    /\ UNCHANGED bcast

Broadcast(ws) ==
    /\ bcast' = bcast \cup ws
    /\ level' = [p \in DOMAIN level |-> [w \in Wants |->
                    IF w \in ws /\ level[p][w] = "none" THEN "have" ELSE level[p][w]]]

Send(p, blocks, haves) ==
    /\ level' = [q \in DOMAIN level |-> [w \in Wants |->
                    IF q = p /\ w \in blocks THEN "block"
                    ELSE IF q = p /\ w \in haves /\ level[q][w] = "none" THEN "have"
                    ELSE level[q][w]]]
    /\ UNCHANGED bcast

Cancel(ws) ==
    /\ bcast' = bcast \ ws
    /\ level' = [p \in DOMAIN level |-> [w \in Wants |->
                    IF w \in ws THEN "none" ELSE level[p][w]]]

Next ==
    \/ \E p \in Peers : Connect(p) \/ Disconnect(p)
    \/ \E ws \in SUBSET Wants : Broadcast(ws) \/ Cancel(ws)
    \/ \E p \in Peers, blocks \in SUBSET Wants, haves \in SUBSET Wants : Send(p, blocks, haves)

Spec == Init /\ [][Next]_<<bcast, level>>
=============================================================================

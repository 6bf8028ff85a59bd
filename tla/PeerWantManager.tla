-------------------------- MODULE PeerWantManager --------------------------
(***************************************************************************)
(* The peerWantManager of internal/peermanager: which want-blocks and      *)
(* want-haves were handed to the message queue of each connected peer,     *)
(* which wants are broadcast to every peer, a reverse index from wants to  *)
(* peers, and two gauges.  Every operation runs under PeerManager.pqLk, so *)
(* an operation is one action.                                             *)
(*                                                                         *)
(* A want is the pair of a CID and an auth string; the manager only        *)
(* compares wants, so they are opaque here.  The []auth.Want arguments are *)
(* sets: the loops treat each want independently of the others, and the    *)
(* callers pass no want twice to sendCancels.                              *)
(*                                                                         *)
(* queue[p] is what the manager has asked of the message queue of p, the   *)
(* net effect of its AddBroadcastWantHaves, AddWants and AddCancels calls. *)
(***************************************************************************)
EXTENDS Integers, FiniteSets, Network

CONSTANT Wants  \* auth.Want values

ASSUME WantsFinite == IsFiniteSet(Wants)

VARIABLES
    peerWants,       \* connected peer -> want-blocks and want-haves sent to it
    wantPeers,       \* want -> peers that have it in peerWants
    broadcastWants,  \* the current broadcast wants
    wantGauge,       \* number of active want-haves and want-blocks
    wantBlockGauge,  \* number of active want-blocks
    queue            \* connected peer -> what its message queue was asked

vars == <<peerWants, wantPeers, broadcastWants, wantGauge, wantBlockGauge, queue>>

PeerWant == [wantBlocks : SUBSET Wants, wantHaves : SUBSET Wants]
PeerQueue == [bcst : SUBSET Wants, blocks : SUBSET Wants, haves : SUBSET Wants]

Tracked == DOMAIN peerWants
Targeted(p) == peerWants[p].wantBlocks \cup peerWants[p].wantHaves

-----------------------------------------------------------------------------
(* Calls on the message queue q of a peer: the new value of its record.    *)

newQueue == [bcst |-> {}, blocks |-> {}, haves |-> {}]

AddBroadcastWantHaves(q, wantHaves) ==
    [bcst |-> q.bcst \cup wantHaves, blocks |-> q.blocks, haves |-> q.haves]

\* A want-have does not override a want-block; a want-block overrides.
AddWants(q, wantBlocks, wantHaves) ==
    [bcst   |-> q.bcst,
     blocks |-> q.blocks \cup wantBlocks,
     haves  |-> (q.haves \cup (wantHaves \ q.blocks)) \ wantBlocks]

AddCancels(q, cancelKs) ==
    [bcst |-> q.bcst \ cancelKs, blocks |-> q.blocks \ cancelKs, haves |-> q.haves \ cancelKs]

-----------------------------------------------------------------------------
(* The reverse index and the counts read from it.                          *)

IndexedPeers(w) == IF w \in DOMAIN wantPeers THEN wantPeers[w] ELSE {}

\* The index once peer p was added for every want of ws.
reverseIndexAdd(ws, p) ==
    [w \in DOMAIN wantPeers \cup ws |->
        IF w \in ws THEN IndexedPeers(w) \cup {p} ELSE wantPeers[w]]

\* Variant that leaves entries without peers behind.
reverseIndexRemove_KeepEmpty(ws, p) ==
    [w \in DOMAIN wantPeers |-> IF w \in ws THEN wantPeers[w] \ {p} ELSE wantPeers[w]]

\* The index once peer p was removed for every want of ws; a want left
\* without peers loses its entry.
reverseIndexRemove(ws, p) ==
    [w \in {k \in DOMAIN wantPeers : k \in ws => wantPeers[k] \ {p} # {}} |->
        IF w \in ws THEN wantPeers[w] \ {p} ELSE wantPeers[w]]

\* wantPeerCounts(w): the peers of idx with a want-block, and with only a
\* want-have, for w.  The code compares the two counts with zero only.
BlockPeers(w, idx) == {p \in idx \cap Tracked : w \in peerWants[p].wantBlocks}
HavePeers(w, idx) ==
    {p \in idx \cap Tracked : w \in peerWants[p].wantHaves \ peerWants[p].wantBlocks}

\* Variant that forgets the broadcast wants.
wanted_NoBroadcast(w, idx) == BlockPeers(w, idx) # {} \/ HavePeers(w, idx) # {}

\* wantPeerCnts.wanted()
wanted(w, idx) ==
    \/ BlockPeers(w, idx) # {}
    \/ HavePeers(w, idx) # {}
    \/ w \in broadcastWants

getWantBlocks == UNION {peerWants[p].wantBlocks : p \in Tracked}
getWantHaves == (UNION {peerWants[p].wantHaves : p \in Tracked}) \cup broadcastWants
getWants == broadcastWants \cup DOMAIN wantPeers

-----------------------------------------------------------------------------
newPeerWantManager ==
    /\ peerWants = [p \in {} |-> {}]
    /\ wantPeers = [w \in {} |-> {}]
    /\ broadcastWants = {}
    /\ wantGauge = 0
    /\ wantBlockGauge = 0
    /\ queue = [p \in {} |-> {}]

\* Variant that does not send the live broadcast wants to the new peer.
addPeer_NoBroadcast(p) ==
    /\ p \notin Tracked
    /\ peerWants' = [q \in Tracked \cup {p} |->
                        IF q = p THEN [wantBlocks |-> {}, wantHaves |-> {}]
                        ELSE peerWants[q]]
    /\ queue' = [q \in Tracked \cup {p} |-> IF q = p THEN newQueue ELSE queue[q]]
    /\ UNCHANGED <<wantPeers, broadcastWants, wantGauge, wantBlockGauge>>

\* A peer that is already tracked is left alone (the early return).
addPeer(p) ==
    /\ p \notin Tracked
    /\ peerWants' = [q \in Tracked \cup {p} |->
                        IF q = p THEN [wantBlocks |-> {}, wantHaves |-> {}]
                        ELSE peerWants[q]]
    /\ queue' = [q \in Tracked \cup {p} |->
                    IF q = p THEN AddBroadcastWantHaves(newQueue, broadcastWants)
                    ELSE queue[q]]
    /\ UNCHANGED <<wantPeers, broadcastWants, wantGauge, wantBlockGauge>>

\* The gauges are read after p left the index entry of each want.
removePeer(p) ==
    LET blocks == peerWants[p].wantBlocks
        haves == peerWants[p].wantHaves
        Rest(w) == IndexedPeers(w) \ {p}
    IN  /\ p \in Tracked
        /\ wantBlockGauge' = wantBlockGauge
               - Cardinality({w \in blocks : BlockPeers(w, Rest(w)) = {}})
        /\ wantGauge' = wantGauge
               - Cardinality({w \in blocks : ~wanted(w, Rest(w))})
               - Cardinality({w \in haves : ~wanted(w, Rest(w))})
        /\ wantPeers' = reverseIndexRemove(blocks \cup haves, p)
        /\ peerWants' = [q \in Tracked \ {p} |-> peerWants[q]]
        /\ queue' = [q \in Tracked \ {p} |-> queue[q]]
        /\ UNCHANGED broadcastWants

-----------------------------------------------------------------------------
(* What each call hands to the queue of p.                                 *)

\* Broadcast wants that p was not sent.
peerUnsent(p, wantHaves) == (wantHaves \ broadcastWants) \ Targeted(p)

\* Variant without the check that a want-block was sent already.
fltWantBlks_All(p, wantBlocks) == wantBlocks

fltWantBlks(p, wantBlocks) == wantBlocks \ peerWants[p].wantBlocks

\* The loop over want-blocks runs first, so a want in both arguments is sent
\* as a want-block only.
fltWantHvs(p, wantBlocks, wantHaves) ==
    wantHaves \ (broadcastWants \cup Targeted(p) \cup fltWantBlks(p, wantBlocks))

\* A broadcast want is cancelled at every peer; otherwise only the peers the
\* index names for one of the keys get a cancel.
cancelPeers(cancelKs) ==
    IF cancelKs \cap broadcastWants # {} THEN Tracked
    ELSE (UNION {IndexedPeers(w) : w \in cancelKs}) \cap Tracked

\* Variant that cancels every key at every peer that is told.
toCancel_All(p, cancelKs) == cancelKs

toCancel(p, cancelKs) == cancelKs \cap (broadcastWants \cup Targeted(p))

-----------------------------------------------------------------------------
broadcastWantHaves(wantHaves) ==
    LET unsent == wantHaves \ broadcastWants
    IN  /\ unsent # {}
        /\ broadcastWants' = broadcastWants \cup unsent
        /\ wantGauge' = wantGauge + Cardinality(unsent \ DOMAIN wantPeers)
        /\ queue' = [p \in Tracked |->
                        AddBroadcastWantHaves(queue[p], peerUnsent(p, wantHaves))]
        /\ UNCHANGED <<peerWants, wantPeers, wantBlockGauge>>

sendWants(p, wantBlocks, wantHaves) ==
    LET blks == fltWantBlks(p, wantBlocks)
        hvs == fltWantHvs(p, wantBlocks, wantHaves)
        sent == blks \cup hvs
    IN  /\ p \in Tracked
        /\ wantBlockGauge' = wantBlockGauge
               + Cardinality({w \in blks : BlockPeers(w, IndexedPeers(w)) = {}})
        /\ wantGauge' = wantGauge
               + Cardinality({w \in sent : ~wanted(w, IndexedPeers(w))})
        /\ peerWants' = [peerWants EXCEPT ![p] =
               [wantBlocks |-> @.wantBlocks \cup blks,
                wantHaves  |-> (@.wantHaves \ blks) \cup hvs]]
        /\ wantPeers' = reverseIndexAdd(sent, p)
        /\ queue' = [queue EXCEPT ![p] = AddWants(@, blks, hvs)]
        /\ UNCHANGED broadcastWants

sendCancels(cancelKs) ==
    /\ cancelKs # {}
    /\ peerWants' = [p \in Tracked |->
           IF p \in cancelPeers(cancelKs)
           THEN [wantBlocks |-> peerWants[p].wantBlocks \ cancelKs,
                 wantHaves  |-> peerWants[p].wantHaves \ cancelKs]
           ELSE peerWants[p]]
    /\ queue' = [p \in Tracked |->
           IF p \in cancelPeers(cancelKs)
           THEN AddCancels(queue[p], toCancel(p, cancelKs)) ELSE queue[p]]
    /\ wantBlockGauge' = wantBlockGauge
           - Cardinality({w \in cancelKs : BlockPeers(w, IndexedPeers(w)) # {}})
    /\ wantGauge' = wantGauge
           - Cardinality({w \in cancelKs : wanted(w, IndexedPeers(w))})
    /\ broadcastWants' = broadcastWants \ cancelKs
    /\ wantPeers' = [w \in DOMAIN wantPeers \ cancelKs |-> wantPeers[w]]

-----------------------------------------------------------------------------
Init == newPeerWantManager

Next ==
    \/ \E p \in Peers : addPeer(p)
    \/ \E p \in Peers : removePeer(p)
    \/ \E ws \in SUBSET Wants : broadcastWantHaves(ws)
    \/ \E p \in Peers, bs \in SUBSET Wants, hs \in SUBSET Wants : sendWants(p, bs, hs)
    \/ \E ws \in SUBSET Wants : sendCancels(ws)

Spec == Init /\ [][Next]_vars

-----------------------------------------------------------------------------
(* Each record is well formed, and the manager and the queues know the     *)
(* same peers.                                                             *)
TypeOK ==
    /\ DOMAIN peerWants \subseteq Peers
    /\ \A p \in DOMAIN peerWants : peerWants[p] \in PeerWant
    /\ DOMAIN queue = DOMAIN peerWants
    /\ \A p \in DOMAIN queue : queue[p] \in PeerQueue
    /\ DOMAIN wantPeers \subseteq Wants
    /\ \A w \in DOMAIN wantPeers : wantPeers[w] \in SUBSET Peers
    /\ broadcastWants \in SUBSET Wants
    /\ wantGauge \in Int
    /\ wantBlockGauge \in Int

\* "Reverse index of all wants in peerWants" (peerwantmanager.go:27): the
\* index has an entry exactly for the wants some peer was sent, and the entry
\* is exactly the set of those peers.  Disconnects, upgrades of want-haves to
\* want-blocks and the batch removal in sendCancels keep it so; it is what
\* makes the two "should never happen" branches unreachable.
ReverseIndexExact ==
    /\ \A w \in DOMAIN wantPeers :
          /\ wantPeers[w] # {}
          /\ wantPeers[w] = {p \in Tracked : w \in Targeted(p)}
    /\ \A p \in Tracked : Targeted(p) \subseteq DOMAIN wantPeers

\* No peer has a want recorded both as a want-block and as a want-have.
BlocksHavesDisjoint ==
    \A p \in Tracked : peerWants[p].wantBlocks \cap peerWants[p].wantHaves = {}

\* The gauges count exactly the wants that GetWantlist reports and the
\* want-blocks that GetWantBlocks reports, although they are only ever
\* incremented and decremented by per-operation estimates.
GaugesExact ==
    /\ wantGauge = Cardinality(getWants)
    /\ wantBlockGauge = Cardinality(getWantBlocks)

QueueMatches(p) ==
    /\ queue[p].bcst \cup queue[p].blocks \cup queue[p].haves
          = broadcastWants \cup Targeted(p)
    /\ queue[p].blocks = peerWants[p].wantBlocks
    /\ queue[p].haves = peerWants[p].wantHaves

\* "A peer's wants is the _union_ of the broadcast wants and the wants in
\* this list" (peerwantmanager.go:23): the queue of every connected peer was
\* asked for exactly that union, at the recorded level.  This is what
\* justifies filtering wants "already sent": the filter never drops a want
\* the queue does not have, and no cancelled want survives in a queue.
QueuesMatchWants == \A p \in Tracked : QueueMatches(p)

\* The targeted wants of a queue, at the level asked.
levels(c) ==
    [w \in Wants |-> IF w \in c.blocks THEN "block" ELSE IF w \in c.haves THEN "have" ELSE "none"]

Client(p) == INSTANCE QueueClient WITH
    asked <- levels(queue[p]), askedBcst <- queue[p].bcst, ctxOpen <- TRUE

\* "sendWants only sends the peer the want-blocks and want-haves that have not
\* already been sent to it" (peerwantmanager.go:158), and likewise for
\* broadcasts and cancels: whatever list of wants a session hands over next,
\* no queue is asked again for what it was asked, at the same or a lower
\* level, and none is told to cancel a want that it was not asked for, also
\* where the call would have no effect on what the queue holds.
CallsAllowed ==
    \A p \in Tracked, ws \in SUBSET Wants :
        /\ Client(p)!MayBroadcast(peerUnsent(p, ws))
        /\ p \in cancelPeers(ws) => Client(p)!MayCancel(toCancel(p, ws))
        /\ \A hs \in SUBSET Wants :
              Client(p)!MayAsk(fltWantBlks(p, ws), fltWantHvs(p, ws, hs))

\* The strongest level at which a queue is asked for a want.
levelIn(q, w) == IF w \in q.blocks THEN "block"
                 ELSE IF w \in q.bcst \cup q.haves THEN "have" ELSE "none"

queueLevel == [p \in DOMAIN queue |-> [w \in Wants |-> levelIn(queue[p], w)]]

Promise == INSTANCE PeerWantSpec WITH bcast <- broadcastWants, level <- queueLevel

\* The filters against duplicates, the reverse index and the per-peer cancel
\* lists are invisible to the callers: what the queues are asked for moves
\* exactly as PeerWantSpec says.
RefinesPeerWantSpec == Promise!Spec
=============================================================================

---------------------------- MODULE PeerManager -----------------------------
(***************************************************************************)
(* The PeerManager as a whole: the connection events and queues of         *)
(* PeerConnectivity and the wants of PeerWantManager, under pqLk.  A peer  *)
(* that connects gets a queue and is added to the peerWantManager in one   *)
(* call, and loses both in one call; the calls of the sessions come in     *)
(* between.  queue[p] of PeerWantManager is what was asked of the queue    *)
(* pwmQueues[p].                                                           *)
(***************************************************************************)
EXTENDS PeerConnectivity, PeerWantManager

allVars == <<connVars, vars>>

-----------------------------------------------------------------------------
(* The part of Connected and Disconnected that is about wants.  A peer     *)
(* that is already tracked is not added, an unknown one not removed.       *)

WantsFollowConnect(p) ==
    IF balance'[p] > balance[p] /\ p \notin Tracked THEN addPeer(p) ELSE UNCHANGED vars

WantsFollowDisconnect(p) ==
    IF balance'[p] < balance[p] /\ p \in DOMAIN peerQueues \cap Tracked
    THEN removePeer(p) ELSE UNCHANGED vars

ConnectionOpens(p) == NetConnected(p) /\ WantsFollowConnect(p)

ConnectionCloses(p) == NetDisconnected(p) /\ WantsFollowDisconnect(p)

MessageArrives(h, p) == NetMessageCheck(h, p) /\ UNCHANGED vars

MessageCounts(h) == NetMessageUpdate(h) /\ WantsFollowConnect(handler[h])

QueueSends(q) == sendMessage(q) /\ UNCHANGED vars

QueueRuns(q) == RunQueue(q) /\ WantsFollowDisconnect(owner[q])

-----------------------------------------------------------------------------
(* The calls of the sessions.                                              *)

BroadcastWantHaves(ws) == broadcastWantHaves(ws) /\ UNCHANGED connVars

SendWants(p, wantBlocks, wantHaves) ==
    /\ p \in DOMAIN peerQueues
    /\ sendWants(p, wantBlocks, wantHaves)
    /\ UNCHANGED connVars

SendCancels(ks) == sendCancels(ks) /\ UNCHANGED connVars

-----------------------------------------------------------------------------
PMInit == CInit /\ Init

PMNext ==
    \/ \E p \in Peers : ConnectionOpens(p) \/ ConnectionCloses(p)
    \/ \E h \in Handlers, p \in Peers : MessageArrives(h, p)
    \/ \E h \in Handlers : MessageCounts(h)
    \/ \E q \in Queues : QueueSends(q) \/ QueueRuns(q)
    \/ \E ws \in SUBSET Wants : BroadcastWantHaves(ws) \/ SendCancels(ws)
    \/ \E p \in Peers, bs \in SUBSET Wants, hs \in SUBSET Wants : SendWants(p, bs, hs)

\* The fairness of PeerConnectivity.
PMSpec == PMInit /\ [][PMNext]_allVars /\ \A q \in Queues : WF_allVars(QueueRuns(q))

-----------------------------------------------------------------------------
(* A queue as its client sees it.                                          *)

contents(q) == IF q \in Range(pwmQueues) THEN queue[owner[q]] ELSE newQueue

Calls(q) == INSTANCE QueueClient WITH
    asked <- levels(contents(q)), askedBcst <- contents(q).bcst, ctxOpen <- (q \in ctxOpen)

QueuesStart == \A q \in Queues : Calls(q)!ClientInit
QueuesStep == \A q \in Queues : Calls(q)!ClientStep

QueuesTakeCalls == CallsAllowed /\ \A p \in Tracked : pwmQueues[p] \in ctxOpen

\* Every message queue is called as MessageQueue relies on, whatever the
\* connections, failing senders and sessions do.  What was asked of a queue
\* changes only by a call that QueueClient allows, a new queue starts from
\* nothing, and also a call without effect is an allowed one: in every state
\* no list of wants makes a session ask a queue again for what it was asked,
\* cancel what it was not asked, or call a queue that was shut down.
QueuesCalledAsAssumed ==
    /\ QueuesStart /\ QueuesTakeCalls
    /\ [][QueuesStep /\ QueuesTakeCalls']_allVars
=============================================================================

------------------------------ MODULE Session -------------------------------
(***************************************************************************)
(* One session: the run loop with its sessionWants, the calls of GetBlocks *)
(* (getter and notifications), and the goroutines that bring blocks, from  *)
(* the message to the publication.  What several sessions do to each other *)
(* is in module SessionManager; here the others may want a block too and   *)
(* have a want cancelled at the peers.                                     *)
(*                                                                         *)
(* A call asks for one want and a message brings one block.  The code      *)
(* tells wants apart by CID and auth string in some places, by CID alone   *)
(* in others: CidOf gives the CID of a want.  The sessionWantSender        *)
(* appears as its interface: it tracks the wants added, forgets one some   *)
(* time after it was told of the block, and until then may send it to a    *)
(* peer or have it broadcast.                                              *)
(***************************************************************************)
EXTENDS FiniteSetsExt, Functions, Integers, Sequences

CONSTANTS
    Calls, Repeated,        \* calls of GetBlocks, and those made repeatedly
    Handlers,               \* goroutines that run receiveBlocksFrom
    Wants, CidOf,           \* auth.Want values and their CIDs
    IncomingCap,            \* capacity of Session.incoming
    SpillBound,             \* bound: operations that wait for room in incoming
    QueueBound,             \* bound: length of toFetch.elems when a call is made
    LateInputs,             \* bound: whether inputs come once the context is done
    broadcastLimit,
    liveWantsOrderGCLimit

ASSUME SessionAssumption ==
    /\ DOMAIN CidOf = Wants
    /\ Repeated \subseteq Calls
    /\ IncomingCap \in Nat \ {0} /\ SpillBound \in Nat /\ QueueBound \in Nat
    /\ LateInputs \in BOOLEAN
    /\ broadcastLimit \in Nat \ {0} /\ liveWantsOrderGCLimit \in Nat

VARIABLES
    sim,         \* the interests of this session
    loop,        \* where the run loop is
    ctxDone,     \* the context of the session is cancelled
    searching,   \* periodicSearchTimer runs
    incoming,    \* Session.incoming
    spilled,     \* operations that wait in a goroutine for room in incoming
    elems, eset, \* toFetch: the queue and the set of CIDs in it
    live,        \* keys of liveWants
    order,       \* liveWantsOrder
    sws,         \* what the sessionWantSender tracks
    hasPeers,    \* the session has a peer
    discovered,  \* the session has ever had a peer
    asked,       \* wants the peers are asked for
    call,        \* the calls of GetBlocks
    handler      \* the goroutines that receive blocks

swVars == <<elems, eset, live, order>>
loopVars == <<loop, ctxDone, searching>>
opVars == <<incoming, spilled>>
swsVars == <<sws, hasPeers, discovered>>
vars == <<sim, loopVars, opVars, swVars, swsVars, asked, call, handler>>

-----------------------------------------------------------------------------
\* Calls, blocks, answers and connection events may come.
Inputs == LateInputs \/ ~ctxDone

(* PeerManager, as PeerWantSpec promises.                                  *)

Ask(ws) == asked' = asked \cup ws
SendCancels(ws) == asked' = asked \ ws

\* Another session ends, or received the block before this one wanted it.
othersCancel(w) ==
    /\ Inputs /\ w \in asked /\ SendCancels({w})
    /\ UNCHANGED <<sim, loopVars, opVars, swVars, swsVars, call, handler>>

-----------------------------------------------------------------------------
(* The operations in the incoming channel.                                 *)

Op(kind, ws, cids) == [op |-> kind, ws |-> ws, cids |-> cids]

Room == Len(incoming) < IncomingCap

Enqueue(o) == incoming' = Append(incoming, o)

\* A full channel does not hold up the sessionWantSender.
nonBlockingEnqueue(o) ==
    \/ Room /\ Enqueue(o) /\ UNCHANGED spilled
    \/ /\ ~Room /\ spilled' = spilled \cup {o} /\ UNCHANGED incoming
       /\ Cardinality(spilled') <= SpillBound

\* The goroutine of a spilled operation.
enqueueSpilled ==
    /\ \E o \in spilled :
          /\ spilled' = spilled \ {o}
          /\ \/ Room /\ Enqueue(o)
             \/ ctxDone /\ UNCHANGED incoming
    /\ UNCHANGED <<sim, loopVars, swVars, swsVars, asked, call, handler>>

-----------------------------------------------------------------------------
(* sessionWantSender and SessionPeerManager, as the session sees them.     *)

\* The sender runs until the session shuts down.
swsRuns == loop # "exited"

\* Add: a tracked want stays tracked.  onChange applies the additions of a
\* batch before its blocks, so that a want added again while its block has
\* not been looked at may be forgotten with the block.
swsAdd(w) ==
    \E to \in {"tracked"} \cup ({"late"} \cap {sws[w]}) : sws' = [sws EXCEPT ![w] = to]

\* Update with the block of w; a local block (from = "") is not looked at.
swsUpdate(w, local) ==
    sws' = [sws EXCEPT ![w] = IF @ = "no" \/ local THEN @ ELSE "late"]

PeerFound == hasPeers' = TRUE /\ discovered' = TRUE

\* The sender looks at a block: the peer that sent it joins the session.
swsForget(w) ==
    /\ swsRuns /\ sws[w] = "late"
    /\ sws' = [sws EXCEPT ![w] = "no"] /\ PeerFound
    /\ UNCHANGED <<sim, loopVars, opVars, swVars, asked, call, handler>>

\* A provider or a HAVE, for a want of the session, brings a peer.
swsPeerFound ==
    /\ Inputs /\ swsRuns /\ ~hasPeers /\ \E w \in Wants : sim[w] # "none"
    /\ PeerFound
    /\ UNCHANGED <<sim, loopVars, opVars, swVars, sws, asked, call, handler>>

Tracked == {w \in Wants : sws[w] # "no"}

\* The last peer leaves: the tracked wants that were not exhausted before are
\* to be broadcast.
swsPeersGone ==
    /\ Inputs /\ swsRuns /\ hasPeers
    /\ hasPeers' = FALSE
    /\ \E ws \in SUBSET Tracked :
          IF ws = {} THEN UNCHANGED opVars ELSE nonBlockingEnqueue(Op("broadcast", ws, {}))
    /\ UNCHANGED <<sim, loopVars, swVars, sws, discovered, asked, call, handler>>

\* Every peer of the session has answered DONT_HAVE for w.
swsExhausted(w) ==
    /\ Inputs /\ swsRuns /\ hasPeers /\ w \in Tracked
    /\ nonBlockingEnqueue(Op("broadcast", {w}, {}))
    /\ UNCHANGED <<sim, loopVars, swVars, swsVars, asked, call, handler>>

\* A tracked want is sent to peers of the session.
swsSend(w) ==
    /\ swsRuns /\ hasPeers /\ w \in Tracked
    /\ Ask({w})
    /\ nonBlockingEnqueue(Op("wantsSent", {w}, {}))
    /\ UNCHANGED <<sim, loopVars, swVars, swsVars, call, handler>>

-----------------------------------------------------------------------------
(* sessionWants.  Only the run loop uses it.                               *)

CidsOf(ws) == {CidOf[w] : w \in ws}

\* The positions of toFetch.elems that Pop would return: a CID removed from
\* the set is passed over, one that was removed and pushed again is found at
\* its first position.
poppable ==
    {i \in DOMAIN elems :
        /\ CidOf[elems[i]] \in eset
        /\ \A j \in 1..(i - 1) : CidOf[elems[j]] # CidOf[elems[i]]}

\* The place of i in a set of positions, and the first n of these.
Place(i, positions) == Cardinality({j \in positions : j <= i})
FirstOf(positions, n) == {i \in positions : Place(i, positions) <= n}

\* BlocksRequested pushes the want to toFetch, unless its CID is there.
BlocksRequested(w) ==
    /\ elems' = IF CidOf[w] \in eset THEN elems ELSE Append(elems, w)
    /\ eset' = eset \cup {CidOf[w]}
    /\ UNCHANGED <<live, order>>

\* GetNextWants: what leaves toFetch for the live wants, as the limit allows.
nextWants == FirstOf(poppable, broadcastLimit - Cardinality(live))

GetNextWants ==
    LET newly == {elems[i] : i \in nextWants}
        popped(k) == elems[CHOOSE i \in nextWants : Place(i, nextWants) = k]
    IN  /\ live' = live \cup newly
        /\ order' = order \o [k \in 1..Cardinality(nextWants) |-> popped(k)]
        /\ eset' = eset \ CidsOf(newly)
        /\ elems' = SubSeq(elems, Max(nextWants \cup {0}) + 1, Len(elems))

\* Variant that takes a want for live whatever became of it.
WantsSent_Always(w) ==
    /\ eset' = eset \ {CidOf[w]} /\ order' = Append(order, w) /\ live' = live \cup {w}
    /\ UNCHANGED elems

\* WantsSent: a want waiting in toFetch goes live.
WantsSent(w) ==
    /\ IF w \notin live /\ CidOf[w] \in eset
       THEN eset' = eset \ {CidOf[w]} /\ order' = Append(order, w) /\ live' = live \cup {w}
       ELSE UNCHANGED <<eset, order, live>>
    /\ UNCHANGED elems

isWanted(w) == w \in live \/ CidOf[w] \in eset

\* BlocksReceived, with the clean-up of liveWantsOrder.  A block that is not
\* wanted is in neither of live and toFetch.
BlocksReceived(w) ==
    /\ live' = live \ {w}
    /\ eset' = eset \ {CidOf[w]}
    /\ order' = IF Len(order) - Cardinality(live') > liveWantsOrderGCLimit
                THEN SelectSeq(order, LAMBDA v : v \in live') ELSE order
    /\ UNCHANGED elems

\* Variant that broadcasts what was not sent yet.
PrepareBroadcast_Pending == {elems[i] : i \in poppable}

\* PrepareBroadcast: the oldest live wants.
PrepareBroadcast ==
    LET alive == {i \in DOMAIN order : order[i] \in live}
    IN  {order[i] : i \in FirstOf(alive, broadcastLimit)}

-----------------------------------------------------------------------------
(* The interests of the session in the SessionInterestManager.             *)

RecordSessionInterest(w) == sim' = [sim EXCEPT ![w] = "wanted"]

RemoveSessionWants(w) == sim' = [sim EXCEPT ![w] = IF @ = "wanted" THEN "interested" ELSE @]

-----------------------------------------------------------------------------
(* The run loop.                                                           *)

Receives(kind) == loop = "select" /\ incoming # <<>> /\ Head(incoming).op = kind

Consume == incoming' = Tail(incoming) /\ UNCHANGED spilled

\* Client wants blocks: the interest is recorded, the want queued and given
\* to the sessionWantSender; the broadcast of a session that has never had a
\* peer follows in a second step.
wantBlocks ==
    /\ Receives("want")
    /\ \E w \in Head(incoming).ws : RecordSessionInterest(w) /\ BlocksRequested(w) /\ swsAdd(w)
    /\ Consume
    /\ loop' = "want"
    /\ UNCHANGED <<ctxDone, searching, hasPeers, discovered, asked, call, handler>>

wantBlocksBroadcast ==
    /\ loop = "want"
    /\ loop' = "select"
    /\ IF discovered THEN UNCHANGED <<swVars, asked>>
       ELSE GetNextWants /\ Ask({elems[i] : i \in nextWants})
    /\ UNCHANGED <<sim, ctxDone, searching, opVars, swsVars, call, handler>>

\* Received blocks, stored or not.
handleReceive ==
    /\ Receives("receive") \/ Receives("unwanted")
    /\ \E w \in Head(incoming).ws :
          /\ BlocksReceived(w)
          /\ IF isWanted(w) THEN RemoveSessionWants(w) ELSE UNCHANGED sim
    /\ Consume
    /\ UNCHANGED <<loopVars, swsVars, asked, call, handler>>

\* Wants were cancelled: CancelPending takes the CIDs out of toFetch.  The
\* operation carries keys and no wants, so that sws.Cancel returns at once.
handleCancel ==
    /\ Receives("cancel")
    /\ eset' = eset \ Head(incoming).cids
    /\ Consume
    /\ UNCHANGED <<sim, loopVars, elems, live, order, swsVars, asked, call, handler>>

\* Wants were sent to a peer.
handleWantsSent ==
    /\ Receives("wantsSent")
    /\ \E w \in Head(incoming).ws : WantsSent(w)
    /\ Consume
    /\ UNCHANGED <<sim, loopVars, swsVars, asked, call, handler>>

\* The peers of the session are exhausted.
handleBroadcast ==
    /\ Receives("broadcast")
    /\ Ask(Head(incoming).ws)
    /\ Consume
    /\ UNCHANGED <<sim, loopVars, swVars, swsVars, call, handler>>

\* No block was received for a while.
idleTick ==
    /\ loop = "select"
    /\ Ask(PrepareBroadcast)
    /\ UNCHANGED <<sim, loopVars, opVars, swVars, swsVars, call, handler>>

\* The periodic search broadcasts any want of liveWantsOrder; if there is
\* none, the timer is not set again.
handlePeriodicSearch ==
    /\ loop = "select" /\ searching
    /\ \/ order = <<>> /\ searching' = FALSE /\ UNCHANGED asked
       \/ \E w \in Range(order) : Ask({w}) /\ UNCHANGED searching
    /\ UNCHANGED <<sim, loop, ctxDone, opVars, swVars, swsVars, call, handler>>

\* The context of the session is cancelled, by its user or by the manager.
sessionDone ==
    /\ ~ctxDone /\ ctxDone' = TRUE
    /\ UNCHANGED <<sim, loop, searching, opVars, swVars, swsVars, asked, call, handler>>

\* The run loop ends: the timer and the sender stop, RemoveSession takes the
\* interests away and cancels those that no other session shares.  What the
\* session holds is not looked at again.
handleShutdown ==
    /\ loop = "select" /\ ctxDone
    /\ loop' = "exited" /\ searching' = FALSE
    /\ \E shared \in SUBSET Wants : SendCancels({w \in Wants \ shared : sim[w] # "none"})
    /\ sim' = [w \in Wants |-> "none"]
    /\ spilled' = {}
    /\ elems' = <<>> /\ eset' = {} /\ live' = {} /\ order' = <<>>
    /\ sws' = [w \in Wants |-> "no"] /\ hasPeers' = FALSE /\ discovered' = FALSE
    /\ UNCHANGED <<ctxDone, incoming, call, handler>>

-----------------------------------------------------------------------------
(* GetBlocks: AsyncGetBlocks and handleIncoming of the getter, Subscribe   *)
(* of notifications.                                                       *)

SetCall(c, pc) == call' = [call EXCEPT ![c].pc = pc]

\* The call subscribes to the CID before it asks for it.
GetBlocks(c, w) ==
    /\ call[c].pc = "idle" \/ (c \in Repeated /\ call[c].pc = "done")
    /\ Inputs /\ Len(elems) < QueueBound
    /\ call' = [call EXCEPT ![c] = [pc |-> "subscribed", w |-> w, got |-> FALSE]]
    /\ UNCHANGED <<sim, loopVars, opVars, swVars, swsVars, asked, handler>>

\* The want goes to the run loop, unless a context is done.
want(c) ==
    /\ call[c].pc = "subscribed"
    /\ \/ Room /\ Enqueue(Op("want", {call[c].w}, {})) /\ SetCall(c, "waiting")
       \/ UNCHANGED incoming /\ SetCall(c, "ending")
    /\ UNCHANGED <<sim, loopVars, spilled, swVars, swsVars, asked, handler>>

\* handleIncoming ends with the block, or with the session or the context of
\* the call, when a block that was published may still be missed.
handleIncoming(c) ==
    /\ call[c].pc = "waiting"
    /\ \E got \in {call[c].got, FALSE} :
          call' = [call EXCEPT ![c].pc = "ending", ![c].got = got]
    /\ UNCHANGED <<sim, loopVars, opVars, swVars, swsVars, asked, handler>>

\* The deferred call of cfun, with the CIDs that were not received.
cancelRemaining(c) ==
    LET remaining == IF call[c].got THEN {} ELSE {CidOf[call[c].w]}
    IN  /\ call[c].pc = "ending"
        /\ \/ Room /\ Enqueue(Op("cancel", {}, remaining))
           \/ ctxDone /\ UNCHANGED incoming
        /\ SetCall(c, "done")
        /\ UNCHANGED <<sim, loopVars, spilled, swVars, swsVars, asked, handler>>

-----------------------------------------------------------------------------
(* receiveBlocksFrom.                                                      *)

\* A block arrives; it is stored if this session or another one wants it.  An
\* error of the blockstore ends the receipt with nothing changed.
receiveBlock(h, w) ==
    /\ Inputs /\ handler[h].pc = "idle"
    /\ \E elsewhere \in BOOLEAN :
          handler' = [handler EXCEPT ![h] = [pc |-> "split", w |-> w, local |-> FALSE,
                                             wanted |-> elsewhere \/ sim[w] = "wanted"]]
    /\ UNCHANGED <<sim, loopVars, opVars, swVars, swsVars, asked, call>>

\* The user adds a block.
HasBlock(h, w) ==
    /\ Inputs /\ handler[h].pc = "idle"
    /\ handler' = [handler EXCEPT ![h] = [pc |-> "split", w |-> w, local |-> TRUE, wanted |-> TRUE]]
    /\ UNCHANGED <<sim, loopVars, opVars, swVars, swsVars, asked, call>>

\* ReceiveFrom: a session that is interested tells its sender, ...
ReceiveFrom(h) ==
    LET w == handler[h].w
    IN  /\ handler[h].pc = "split"
        /\ IF sim[w] = "none" THEN UNCHANGED sws ELSE swsUpdate(w, handler[h].local)
        /\ handler' = [handler EXCEPT ![h] =
                          [pc |-> IF sim[w] = "none" THEN "cancel" ELSE "telling",
                           w |-> w, wanted |-> @.wanted]]
        /\ UNCHANGED <<sim, loopVars, opVars, swVars, hasPeers, discovered, asked, call>>

\* ... and waits for room in the channel, ...  The operation is the same for
\* a block that was split as unwanted; its name only tells it apart.
tellSession(h) ==
    /\ handler[h].pc = "telling"
    /\ \/ Room /\ Enqueue(Op(IF handler[h].wanted THEN "receive" ELSE "unwanted", {handler[h].w}, {}))
       \/ ctxDone /\ UNCHANGED incoming
    /\ handler' = [handler EXCEPT ![h].pc = "cancel"]
    /\ UNCHANGED <<sim, loopVars, spilled, swVars, swsVars, asked, call>>

\* ... before the SessionManager cancels the want at the peers.  A block that
\* was not wanted ends here.
cancelReceived(h) ==
    /\ handler[h].pc = "cancel"
    /\ SendCancels({handler[h].w})
    /\ handler' = [handler EXCEPT ![h] = IF @.wanted THEN [pc |-> "publish", w |-> @.w] ELSE [pc |-> "idle"]]
    /\ UNCHANGED <<sim, loopVars, opVars, swVars, swsVars, call>>

\* A wanted block is published to the calls that are subscribed to its CID.
Publish(h) ==
    /\ handler[h].pc = "publish"
    /\ call' = [c \in Calls |->
                   IF /\ call[c].pc \in {"subscribed", "waiting"}
                      /\ CidOf[call[c].w] = CidOf[handler[h].w]
                   THEN [call[c] EXCEPT !.got = TRUE] ELSE call[c]]
    /\ handler' = [handler EXCEPT ![h] = [pc |-> "idle"]]
    /\ UNCHANGED <<sim, loopVars, opVars, swVars, swsVars, asked>>

-----------------------------------------------------------------------------
Init ==
    /\ sim = [w \in Wants |-> "none"]
    /\ loop = "select" /\ ctxDone = FALSE /\ searching = TRUE
    /\ incoming = <<>> /\ spilled = {}
    /\ elems = <<>> /\ eset = {} /\ live = {} /\ order = <<>>
    /\ sws = [w \in Wants |-> "no"] /\ hasPeers = FALSE /\ discovered = FALSE
    /\ asked = {}
    /\ call = [c \in Calls |-> [pc |-> "idle"]]
    /\ handler = [h \in Handlers |-> [pc |-> "idle"]]

\* What the run loop does about an operation.
Loop ==
    \/ wantBlocks \/ wantBlocksBroadcast \/ handleReceive
    \/ handleCancel \/ handleWantsSent \/ handleBroadcast

Sender ==
    \/ swsPeerFound \/ swsPeersGone
    \/ \E w \in Wants : swsForget(w) \/ swsExhausted(w) \/ swsSend(w)

Call(c) ==
    \/ \E w \in Wants : GetBlocks(c, w)
    \/ want(c) \/ handleIncoming(c) \/ cancelRemaining(c)

Receive(h) == ReceiveFrom(h) \/ tellSession(h) \/ cancelReceived(h) \/ Publish(h)

Next ==
    \/ Loop \/ idleTick \/ handlePeriodicSearch \/ sessionDone \/ handleShutdown
    \/ Sender \/ enqueueSpilled
    \/ \E c \in Calls : Call(c)
    \/ \E h \in Handlers : Receive(h)
    \/ \E w \in Wants :
          othersCancel(w) \/ \E h \in Handlers : receiveBlock(h, w) \/ HasBlock(h, w)

Spec == Init /\ [][Next]_vars

\* The run loop takes the operations that come; select, which picks at random
\* among ready cases, does not pass over the idle timer for ever; a goroutine
\* that waits for room in the channel gets its turn; some peer answers a want
\* that it is asked for again and again.
LiveSpec ==
    /\ Spec
    /\ WF_vars(Loop) /\ SF_vars(idleTick)
    /\ \A h \in Handlers : SF_vars(Receive(h))
    /\ \A w \in Wants : SF_vars(w \in asked /\ \E h \in Handlers : receiveBlock(h, w))

\* Nor does select pass over the context of the session for ever.
FairSpec == LiveSpec /\ SF_vars(handleShutdown)

-----------------------------------------------------------------------------
\* A want that the session waits for, live or in toFetch, is recorded as
\* wanted, so that SplitWantedUnwanted does not throw its block away, however
\* blocks, duplicates, repeated and cancelled calls follow each other.
TrackedIsWanted ==
    \A w \in live \cup {elems[i] : i \in poppable} : sim[w] = "wanted"

\* The call has neither its block nor a reason to end.
Waits(c) == call[c].pc = "waiting" /\ ~call[c].got /\ ~ctxDone

\* A block of w that was split before w was wanted, and so is stored nowhere,
\* is about to take w from the wants.
LateBlock(w) == \E i \in DOMAIN incoming : incoming[i].op = "unwanted" /\ w \in incoming[i].ws

\* The call's want is queued again behind a block that came before the call.
QueuedAgain(w) == w \notin live /\ CidOf[w] \in eset

\* A call that waits for a live want gets its block, though others have the
\* want cancelled at the peers, blocks come twice and calls are repeated: the
\* idle timer has it asked for again.  Two races of the code are left out: a
\* block that came before the want was recorded is thrown away and yet ends
\* the want (bitswap.go:444), and the block of an earlier call, told to the
\* run loop before this call's want, takes the want out of the live wants.
LiveIsServed ==
    \A c \in Calls :
        Waits(c) /\ call[c].w \in live ~>
            ~Waits(c) \/ LateBlock(call[c].w) \/ QueuedAgain(call[c].w)

-----------------------------------------------------------------------------
(* What a comment of the code says and the code does not do.               *)

\* "CancelSessionWants is called when a session cancels wants because a call
\* to GetBlocks() is cancelled" (sessionmanager.go:170): once the only call for
\* a want has been cancelled, the session loses its interest.
CancelledCallsLeave ==
    \A c \in Calls, w \in Wants :
        call[c].pc = "done" /\ ~call[c].got /\ call[c].w = w ~> sim[w] = "none"
=============================================================================

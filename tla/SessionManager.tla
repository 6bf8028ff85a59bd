--------------------------- MODULE SessionManager ---------------------------
(***************************************************************************)
(* The sessions of a node together: the SessionManager, the                *)
(* SessionInterestManager and receiveBlocksFrom of Bitswap, which runs in  *)
(* one goroutine per incoming message.                                     *)
(*                                                                         *)
(* A session appears as what it does to the others (module Session has the *)
(* rest): it takes on a want, asks the peers for wants it is interested    *)
(* in, looks some time later at the blocks it was told of, and ends.  The  *)
(* PeerManager appears as what PeerWantSpec promises, the wants the peers  *)
(* are asked for.  A message brings one block.                             *)
(***************************************************************************)
EXTENDS Naturals

CONSTANTS SessionIDs, Wants,
          Handlers,     \* goroutines that run receiveBlocksFrom
          IncomingCap   \* how often a block fits into Session.incoming

ASSUME IncomingCapAssumption == IncomingCap \in Nat \ {0}

VARIABLES
    smOpen,      \* SessionManager.sessions is not nil
    sessions,    \* keys of SessionManager.sessions
    creating,    \* sessions that run and are not registered yet
    sim,         \* SessionInterestManager.wants
    run,         \* where the run loop of each session is
    ctxDone,     \* sessions whose context is cancelled
    ks,          \* wants that an ending session is about to cancel
    tracked,     \* wants in toFetch or liveWants of each session
    live,        \* wants in liveWants of each session
    incoming,    \* how often each session was told of each block
    asked,       \* wants the peers are asked for
    sentOut,     \* wants that some peer was asked for at some time
    store,       \* wants whose block is in the blockstore
    handler      \* the goroutines that receive blocks

smVars == <<smOpen, sessions, creating>>
sessionVars == <<run, ctxDone, ks, tracked, live, incoming>>
pmVars == <<asked, sentOut>>
vars == <<smVars, sim, sessionVars, pmVars, store, handler>>

-----------------------------------------------------------------------------
(* PeerManager, as PeerWantSpec promises.                                  *)

Ask(ws) == asked' = asked \cup ws /\ sentOut' = sentOut \cup ws
SendCancels(ws) == asked' = asked \ ws /\ UNCHANGED sentOut

-----------------------------------------------------------------------------
(* SessionInterestManager.  Each operation holds its lock.                 *)

\* Variant that does not turn an interest back into a want.
RecordSessionInterest_KeepOld(s, w) ==
    sim' = [sim EXCEPT ![s][w] = IF @ = "none" THEN "wanted" ELSE @]

RecordSessionInterest(s, w) == sim' = [sim EXCEPT ![s][w] = "wanted"]

RemoveSessionWants(s, w) ==
    sim' = [sim EXCEPT ![s][w] = IF @ = "wanted" THEN "interested" ELSE @]

\* The keys of the map for want w.
InterestedSessions(w) == {s \in SessionIDs : sim[s][w] # "none"}

\* Variant that reports only the wants the session had not received.
deletedKs_Wanted(s) == {w \in Wants : InterestedSessions(w) = {s} /\ sim[s][w] = "wanted"}

\* What RemoveSession of the SessionInterestManager returns.
deletedKs(s) == {w \in Wants : InterestedSessions(w) = {s}}

SplitWanted(w) == \E s \in SessionIDs : sim[s][w] = "wanted"

-----------------------------------------------------------------------------
(* SessionManager.                                                         *)

\* NewSession: the session runs before it is registered, ...
NewSession(s) ==
    /\ run[s] = "none"
    /\ run' = [run EXCEPT ![s] = "running"]
    /\ creating' = creating \cup {s}
    /\ UNCHANGED <<smOpen, sessions, sim, ctxDone, ks, tracked, live, incoming, pmVars, store, handler>>

\* ... which a manager that was shut down does not do.
registerSession(s) ==
    /\ s \in creating
    /\ creating' = creating \ {s}
    /\ sessions' = IF smOpen THEN sessions \cup {s} ELSE sessions
    /\ UNCHANGED <<smOpen, sim, sessionVars, pmVars, store, handler>>

\* Bitswap is closed: the manager forgets and shuts down its sessions.
Shutdown ==
    /\ smOpen
    /\ smOpen' = FALSE /\ sessions' = {}
    /\ ctxDone' = ctxDone \cup sessions
    /\ UNCHANGED <<creating, sim, run, ks, tracked, live, incoming, pmVars, store, handler>>

\* The context that the session was created with is cancelled.
sessionDone(s) ==
    /\ run[s] # "none" /\ s \notin ctxDone
    /\ ctxDone' = ctxDone \cup {s}
    /\ UNCHANGED <<smVars, sim, run, ks, tracked, live, incoming, pmVars, store, handler>>

\* RemoveSession, called by the run loop of the session when its context is
\* done and its sender stopped: the interests go, ...
RemoveSession(s) ==
    /\ run[s] = "running" /\ s \in ctxDone
    /\ sim' = [sim EXCEPT ![s] = [w \in Wants |-> "none"]]
    /\ ks' = [ks EXCEPT ![s] = deletedKs(s)]
    /\ run' = [run EXCEPT ![s] = "removed"]
    /\ tracked' = [tracked EXCEPT ![s] = {}] /\ live' = [live EXCEPT ![s] = {}]
    /\ UNCHANGED <<smVars, ctxDone, incoming, pmVars, store, handler>>

\* ... what nobody else was interested in is cancelled, ...
cancelWants(s) ==
    /\ run[s] = "removed"
    /\ SendCancels(ks[s]) /\ ks' = [ks EXCEPT ![s] = {}]
    /\ run' = [run EXCEPT ![s] = "cancelled"]
    /\ UNCHANGED <<smVars, sim, ctxDone, tracked, live, incoming, store, handler>>

\* ... and the session is forgotten.
deleteSession(s) ==
    /\ run[s] = "cancelled"
    /\ run' = [run EXCEPT ![s] = "exited"]
    /\ sessions' = sessions \ {s}
    /\ UNCHANGED <<smOpen, creating, sim, ctxDone, ks, tracked, live, incoming, pmVars, store, handler>>

-----------------------------------------------------------------------------
(* The sessions, as the others see them.                                   *)

\* wantBlocks, after a call of GetBlocks.
wantBlocks(s, w) ==
    /\ run[s] = "running" /\ s \notin creating
    /\ RecordSessionInterest(s, w)
    /\ tracked' = [tracked EXCEPT ![s] = @ \cup {w}]
    /\ UNCHANGED <<smVars, run, ctxDone, ks, live, incoming, pmVars, store, handler>>

\* Variant that leaves the asking to the other sessions that are interested.
request_Alone(s, w) ==
    /\ run[s] = "running" /\ InterestedSessions(w) = {s}
    /\ Ask({w})
    /\ UNCHANGED <<smVars, sim, sessionVars, store, handler>>

\* A broadcast, or a want sent by the sessionWantSender, which may not have
\* heard yet that the block came.
request(s, w) ==
    /\ run[s] = "running" /\ sim[s][w] # "none"
    /\ Ask({w})
    /\ UNCHANGED <<smVars, sim, sessionVars, store, handler>>

\* The run loop hears that a want was sent or broadcasts it first.
goLive(s, w) ==
    /\ run[s] = "running" /\ w \in tracked[s] \ live[s]
    /\ live' = [live EXCEPT ![s] = @ \cup {w}]
    /\ UNCHANGED <<smVars, sim, run, ctxDone, ks, tracked, incoming, pmVars, store, handler>>

\* The run loop comes to a block it was told of.
handleReceive(s, w) ==
    /\ run[s] = "running" /\ incoming[s][w] > 0
    /\ incoming' = [incoming EXCEPT ![s][w] = @ - 1]
    /\ tracked' = [tracked EXCEPT ![s] = @ \ {w}] /\ live' = [live EXCEPT ![s] = @ \ {w}]
    /\ IF w \in tracked[s] THEN RemoveSessionWants(s, w) ELSE UNCHANGED sim
    /\ UNCHANGED <<smVars, run, ctxDone, ks, pmVars, store, handler>>

-----------------------------------------------------------------------------
(* receiveBlocksFrom.                                                      *)

\* A block that a peer was asked for arrives, in time or late: it is stored
\* if a session wants it.  After an error of the blockstore receiveBlocksFrom
\* returns with nothing changed, which is a stuttering step.
receiveBlock(h, w) ==
    /\ handler[h].pc = "idle" /\ smOpen /\ w \in sentOut
    /\ store' = IF SplitWanted(w) THEN store \cup {w} ELSE store
    /\ handler' = [handler EXCEPT ![h] = [pc |-> "split", w |-> w]]
    /\ UNCHANGED <<smVars, sim, sessionVars, pmVars>>

\* The blockstore loses a block, after which it may be wanted again.
deleteBlock(w) ==
    /\ w \in store /\ store' = store \ {w}
    /\ UNCHANGED <<smVars, sim, sessionVars, pmVars, handler>>

\* The user adds a block, which is stored in any case.
HasBlock(h, w) ==
    /\ handler[h].pc = "idle" /\ smOpen
    /\ store' = store \cup {w}
    /\ handler' = [handler EXCEPT ![h] = [pc |-> "split", w |-> w]]
    /\ UNCHANGED <<smVars, sim, sessionVars, pmVars>>

\* ReceiveFrom of the SessionManager looks up the interested sessions, ...
ReceiveFrom(h) ==
    /\ handler[h].pc = "split"
    /\ handler' = [handler EXCEPT ![h] =
                      [pc |-> "sessions", w |-> @.w, todo |-> InterestedSessions(@.w)]]
    /\ UNCHANGED <<smVars, sim, sessionVars, pmVars, store>>

\* ... calls ReceiveFrom of each of them, if it is registered and still
\* interested, ...
callSession(h, s) ==
    /\ handler[h].pc = "sessions" /\ s \in handler[h].todo /\ smOpen
    /\ handler' = [handler EXCEPT ![h] =
                      IF s \in sessions /\ sim[s][@.w] # "none"
                      THEN [pc |-> "telling", w |-> @.w, todo |-> @.todo \ {s}, to |-> s]
                      ELSE [pc |-> "sessions", w |-> @.w, todo |-> @.todo \ {s}]]
    /\ UNCHANGED <<smVars, sim, sessionVars, pmVars, store>>

\* Variant that waits for room although the session is done.
tellSession_NoDone(h) ==
    LET s == handler[h].to
        w == handler[h].w
    IN  /\ handler[h].pc = "telling"
        /\ incoming[s][w] < IncomingCap /\ incoming' = [incoming EXCEPT ![s][w] = @ + 1]
        /\ handler' = [handler EXCEPT ![h] = [pc |-> "sessions", w |-> @.w, todo |-> @.todo]]
        /\ UNCHANGED <<smVars, sim, run, ctxDone, ks, tracked, live, pmVars, store>>

\* ... which waits for room in the channel of the session or for its end, ...
tellSession(h) ==
    LET s == handler[h].to
        w == handler[h].w
    IN  /\ handler[h].pc = "telling"
        /\ \/ incoming[s][w] < IncomingCap /\ incoming' = [incoming EXCEPT ![s][w] = @ + 1]
           \/ s \in ctxDone /\ UNCHANGED incoming
        /\ handler' = [handler EXCEPT ![h] = [pc |-> "sessions", w |-> @.w, todo |-> @.todo]]
        /\ UNCHANGED <<smVars, sim, run, ctxDone, ks, tracked, live, pmVars, store>>

\* ... and cancels the want at the peers; a manager that was shut down in
\* between returns without the cancel.
cancelReceived(h) ==
    /\ handler[h].pc = "sessions"
    /\ \/ handler[h].todo = {} /\ SendCancels({handler[h].w})
       \/ handler[h].todo # {} /\ ~smOpen /\ UNCHANGED pmVars
    /\ handler' = [handler EXCEPT ![h] = [pc |-> "idle"]]
    /\ UNCHANGED <<smVars, sim, sessionVars, store>>

-----------------------------------------------------------------------------
Init ==
    /\ smOpen = TRUE /\ sessions = {} /\ creating = {}
    /\ sim = [s \in SessionIDs |-> [w \in Wants |-> "none"]]
    /\ run = [s \in SessionIDs |-> "none"] /\ ctxDone = {}
    /\ ks = [s \in SessionIDs |-> {}]
    /\ tracked = [s \in SessionIDs |-> {}] /\ live = [s \in SessionIDs |-> {}]
    /\ incoming = [s \in SessionIDs |-> [w \in Wants |-> 0]]
    /\ asked = {} /\ sentOut = {} /\ store = {}
    /\ handler = [h \in Handlers |-> [pc |-> "idle"]]

Ending(s) == RemoveSession(s) \/ cancelWants(s) \/ deleteSession(s)

Receive(h) ==
    \/ ReceiveFrom(h) \/ (\E s \in SessionIDs : callSession(h, s))
    \/ tellSession(h) \/ cancelReceived(h)

Next ==
    \/ Shutdown
    \/ \E s \in SessionIDs :
          \/ NewSession(s) \/ registerSession(s) \/ sessionDone(s) \/ Ending(s)
          \/ \E w \in Wants : wantBlocks(s, w) \/ request(s, w) \/ goLive(s, w) \/ handleReceive(s, w)
    \/ \E w \in Wants : deleteBlock(w)
    \/ \E h \in Handlers :
          \/ Receive(h)
          \/ \E w \in Wants : receiveBlock(h, w) \/ HasBlock(h, w)

Spec == Init /\ [][Next]_vars

\* Goroutines go on; the idle timer of a session broadcasts its live wants
\* again and again; some peer answers a want it is asked for again and again.
FairSpec ==
    /\ Spec
    /\ \A s \in SessionIDs : WF_vars(registerSession(s)) /\ WF_vars(Ending(s))
    /\ \A s \in SessionIDs, w \in Wants :
          WF_vars(handleReceive(s, w)) /\ WF_vars(w \in live[s] /\ request(s, w))
    /\ \A h \in Handlers : WF_vars(Receive(h))
    /\ \A w \in Wants : SF_vars(w \in asked /\ \E h \in Handlers : receiveBlock(h, w))

-----------------------------------------------------------------------------
\* Peers are not asked for a want of nobody: some session is interested in
\* it, or is about to cancel it.  Wants sent late, sessions that share a want
\* and end at the same time, and blocks that come in between leave no want
\* with the peers that would never be cancelled.
AskedForSomeone ==
    \A w \in asked : \E s \in SessionIDs :
        sim[s][w] # "none" \/ (run[s] = "removed" /\ w \in ks[s])

\* The block of w arrives in this step.
Arrives(w) ==
    \E h \in Handlers : handler[h].pc = "idle" /\ handler'[h].pc = "split" /\ handler'[h].w = w

\* A block that some session waits for when it arrives is stored:
\* SplitWantedUnwanted does not throw it away, however often the want was
\* received, deleted and wanted again before, by this session and by others.
BlocksAreKept == [][\A s \in SessionIDs : \A w \in tracked[s] : Arrives(w) => w \in store']_vars

\* A live want of a session is received or the session ends: the cancels that
\* other sessions and repeated blocks cause do not leave it unasked for ever.
LiveIsServed ==
    \A s \in SessionIDs, w \in Wants :
        w \in live[s] ~> w \notin live[s] \/ ~smOpen

\* The goroutine that brings a block ends: it waits neither for a session
\* that is done nor for ever for one that runs.
ReceiveEnds == \A h \in Handlers : handler[h].pc # "idle" ~> handler[h].pc = "idle"
=============================================================================

-------------------------- MODULE PeerConnectivity --------------------------
(***************************************************************************)
(* How a connection becomes a message queue and how a failing sender takes *)
(* it away again: the connectEventManager (ConnectEventManager) calls      *)
(* Bitswap.PeerConnected and PeerDisconnected, hence PeerManager.Connected *)
(* and Disconnected, while holding its lock; the PeerManager creates,      *)
(* registers and shuts down the queue of the peer; and the run loop of     *)
(* every queue sends through streamMessageSender.multiAttempt, which       *)
(* retries and finally calls MarkUnresponsive from the queue's own         *)
(* goroutine, possibly long after the queue was replaced.                  *)
(***************************************************************************)
EXTENDS ConnectEventManager, Functions

CONSTANTS
    Queues,     \* bound: queues that exist at the same time
    MaxRetries  \* attempts of multiAttempt

ASSUME RetriesAssumption == MaxRetries \in Nat \ {0}

VARIABLES
    peerQueues,  \* PeerManager.peerQueues: connected peer -> its queue
    pwmQueues,   \* peerWantManager.peerWants: tracked peer -> queue it feeds
    ctxOpen,     \* queues whose context is not cancelled
    run,         \* where the runQueue goroutine of each queue is
    owner,       \* the peer a queue was created for
    attempt      \* failed attempts of the current multiAttempt

pmVars == <<peerQueues, pwmQueues, ctxOpen>>
runVars == <<run, owner, attempt>>
connVars == <<cemVars, pmVars, runVars>>

Unused(q) == run[q] = "stopped" /\ q \notin Range(peerQueues) \cup Range(pwmQueues)

Without(f, p) == [x \in DOMAIN f \ {p} |-> f[x]]
With(f, p, q) == [x \in DOMAIN f \cup {p} |-> IF x = p THEN q ELSE f[x]]

-----------------------------------------------------------------------------
(* PeerManager, called with the lock of the connectEventManager held.      *)

\* getOrCreate starts a queue for a peer without one; addPeer leaves a peer
\* that is still tracked with the queue it has.
PMConnected(p) ==
    LET known == p \in DOMAIN peerQueues
    IN  \E q \in Queues :
            /\ IF known THEN q = peerQueues[p] ELSE Unused(q)
            /\ peerQueues' = With(peerQueues, p, q)
            /\ pwmQueues' = IF p \in DOMAIN pwmQueues THEN pwmQueues ELSE With(pwmQueues, p, q)
            /\ ctxOpen' = IF known THEN ctxOpen ELSE ctxOpen \cup {q}
            /\ run' = IF known THEN run ELSE [run EXCEPT ![q] = "idle"]
            /\ owner' = [owner EXCEPT ![q] = p]
            /\ UNCHANGED attempt

\* Variant that keeps the peer tracked in the peerWantManager.
PMDisconnected_NoRemovePeer(p) ==
    /\ peerQueues' = Without(peerQueues, p)
    /\ ctxOpen' = ctxOpen \ {peerQueues[x] : x \in DOMAIN peerQueues \cap {p}}
    /\ UNCHANGED pwmQueues

\* Variant that does not shut the queue down.
PMDisconnected_NoShutdown(p) ==
    /\ peerQueues' = Without(peerQueues, p)
    /\ pwmQueues' = Without(pwmQueues, p)
    /\ UNCHANGED ctxOpen

PMDisconnected(p) ==
    IF p \in DOMAIN peerQueues
    THEN /\ peerQueues' = Without(peerQueues, p)
         /\ ctxOpen' = ctxOpen \ {peerQueues[p]}
         /\ pwmQueues' = Without(pwmQueues, p)
    ELSE UNCHANGED pmVars

\* The listener call, if any, that an operation on p makes.
ListenerConnects(p) ==
    IF balance'[p] > balance[p] THEN PMConnected(p) ELSE UNCHANGED <<pmVars, runVars>>
ListenerDisconnects(p) ==
    IF balance'[p] < balance[p] THEN PMDisconnected(p) ELSE UNCHANGED pmVars

-----------------------------------------------------------------------------
(* The network: connections and messages.                                  *)

NetConnected(p) == Connected(p) /\ ListenerConnects(p)

NetDisconnected(p) == Disconnected(p) /\ ListenerDisconnects(p) /\ UNCHANGED runVars

NetMessageCheck(h, p) == OnMessageCheck(h, p) /\ UNCHANGED <<pmVars, runVars>>

NetMessageUpdate(h) == OnMessageUpdate(h) /\ ListenerConnects(handler[h])

-----------------------------------------------------------------------------
(* The run loop of queue q, as far as sending goes.                        *)

MoveTo(q, state) == run' = [run EXCEPT ![q] = state]

\* The loop condition mq.ctx.Err() == nil held; initializeSender or SendMsg
\* enters multiAttempt.
sendMessage(q) ==
    /\ run[q] = "idle"
    /\ q \in ctxOpen
    /\ MoveTo(q, "trying")
    /\ attempt' = [attempt EXCEPT ![q] = 0]
    /\ UNCHANGED <<cemVars, pmVars, owner>>

attemptSucceeds(q) ==
    /\ run[q] = "trying"
    /\ MoveTo(q, "idle")
    /\ UNCHANGED <<cemVars, pmVars, owner, attempt>>

attemptFails(q) ==
    /\ run[q] = "trying"
    /\ MoveTo(q, "failed")
    /\ UNCHANGED <<cemVars, pmVars, owner, attempt>>

\* Variant that gives up without marking the peer.
afterFailure_NoMark(q) ==
    /\ run[q] = "failed"
    /\ \/ q \notin ctxOpen /\ MoveTo(q, "giveup") /\ UNCHANGED attempt
       \/ q \in ctxOpen /\ MoveTo(q, "giveup") /\ UNCHANGED attempt
       \/ /\ q \in ctxOpen
          /\ attempt[q] < MaxRetries - 1
          /\ attempt' = [attempt EXCEPT ![q] = @ + 1]
          /\ MoveTo(q, "backoff")
    /\ UNCHANGED <<cemVars, pmVars, owner>>

\* A cancelled context ends the call; an unsupported protocol (at any
\* attempt) and the last attempt mark the peer; otherwise back off.
afterFailure(q) ==
    /\ run[q] = "failed"
    /\ \/ q \notin ctxOpen /\ MoveTo(q, "giveup") /\ UNCHANGED attempt
       \/ q \in ctxOpen /\ MoveTo(q, "mark") /\ UNCHANGED attempt
       \/ /\ q \in ctxOpen
          /\ attempt[q] < MaxRetries - 1
          /\ attempt' = [attempt EXCEPT ![q] = @ + 1]
          /\ MoveTo(q, "backoff")
    /\ UNCHANGED <<cemVars, pmVars, owner>>

backoff(q) ==
    /\ run[q] = "backoff"
    /\ \/ MoveTo(q, "trying")
       \/ q \notin ctxOpen /\ MoveTo(q, "giveup")
    /\ UNCHANGED <<cemVars, pmVars, owner, attempt>>

markUnresponsive(q) ==
    /\ run[q] = "mark"
    /\ MarkUnresponsive(owner[q])
    /\ ListenerDisconnects(owner[q])
    /\ MoveTo(q, "giveup")
    /\ UNCHANGED <<owner, attempt>>

\* sendMessage got an error: mq.Shutdown().
shutdownAfterError(q) ==
    /\ run[q] = "giveup"
    /\ ctxOpen' = ctxOpen \ {q}
    /\ MoveTo(q, "idle")
    /\ UNCHANGED <<cemVars, peerQueues, pwmQueues, owner, attempt>>

\* The run loop ends: onShutdown.
exitRunQueue(q) ==
    /\ run[q] = "idle"
    /\ q \notin ctxOpen
    /\ MoveTo(q, "stopped")
    /\ UNCHANGED <<cemVars, pmVars, owner, attempt>>

RunQueue(q) ==
    \/ attemptSucceeds(q) \/ attemptFails(q) \/ afterFailure(q) \/ backoff(q)
    \/ markUnresponsive(q) \/ shutdownAfterError(q) \/ exitRunQueue(q)

-----------------------------------------------------------------------------
CInit ==
    /\ newConnectEventManager
    /\ peerQueues = [p \in {} |-> {}]
    /\ pwmQueues = [p \in {} |-> {}]
    /\ ctxOpen = {}
    /\ run = [q \in Queues |-> "stopped"]
    /\ owner = [q \in Queues |-> NoPeer]
    /\ attempt = [q \in Queues |-> 0]

CNext ==
    \/ \E p \in Peers : NetConnected(p) \/ NetDisconnected(p)
    \/ \E h \in Handlers, p \in Peers : NetMessageCheck(h, p)
    \/ \E h \in Handlers : NetMessageUpdate(h)
    \/ \E q \in Queues : sendMessage(q) \/ RunQueue(q)

\* A started attempt ends (it has a timeout), a backoff ends, and the run
\* loop goes on; nobody has to connect, send or disconnect.
CSpec == CInit /\ [][CNext]_connVars /\ \A q \in Queues : WF_connVars(RunQueue(q))

-----------------------------------------------------------------------------
\* The PeerManager has a queue for exactly the peers that have a connection
\* and answer, although senders, handlers and the network all change that, and
\* the peerWantManager feeds that queue: no want is put into a queue that was
\* shut down and replaced.
QueuesFollowConnections ==
    /\ DOMAIN peerQueues = {p \in Peers : Responsive(p)}
    /\ pwmQueues = peerQueues

\* "the networking layer will emit a Disconnect event and the MessageQueue
\* will get cleaned up" (messagequeue.go:516): a registered queue is running
\* for the peer it is registered for and is not shut down, so a queue that
\* shut itself down after an error is gone from the PeerManager by then.
RegisteredQueuesAlive ==
    \A p \in DOMAIN peerQueues :
        LET q == peerQueues[p]
        IN  q \in ctxOpen /\ run[q] # "stopped" /\ owner[q] = p

\* A queue that is no longer registered stops running: neither a pending
\* retry nor a late MarkUnresponsive keeps its goroutine.
ReplacedQueuesStop ==
    \A q \in Queues : q \notin Range(peerQueues) ~> run[q] = "stopped"
=============================================================================

------------------------ MODULE ConnectEventManager ------------------------
(***************************************************************************)
(* The connectEventManager of network/connecteventmanager.go: it counts    *)
(* the connections of each peer, knows which peers stopped answering, and  *)
(* turns both into PeerConnected and PeerDisconnected calls on a listener. *)
(* Every operation holds c.lk, the listener calls included, except         *)
(* OnMessage, which first looks under the read lock and then takes the     *)
(* write lock: it is two actions of a stream handler goroutine.            *)
(*                                                                         *)
(* open[p] is libp2p's own count of the non-transient connections to p:    *)
(* the notifiee passes each opening and each closing on exactly once.      *)
(* EarlyConns connections to each peer were open before SetDelegate        *)
(* registered the notifiee, so their opening was never passed on.          *)
(***************************************************************************)
EXTENDS Integers, Network

CONSTANTS
    Handlers,    \* goroutines that run handleNewStream
    NoPeer,      \* an idle handler
    EarlyConns,  \* connections per peer opened before SetDelegate
    MaxConns     \* bound: connections per peer

ASSUME ConnsAssumption ==
    /\ EarlyConns \in Nat
    /\ MaxConns \in Nat
    /\ EarlyConns <= MaxConns
    /\ NoPeer \notin Peers

VARIABLES
    conns,    \* known peer -> number of connections, whether it answers
    open,     \* connections of each peer, as libp2p counts them
    handler,  \* the peer whose message a handler is about to record, or NoPeer
    balance   \* PeerConnected calls less PeerDisconnected calls, per peer

cemVars == <<conns, open, handler, balance>>

ConnState == [refs : Nat \ {0}, responsive : BOOLEAN]

Known == DOMAIN conns
Responsive(p) == p \in Known /\ conns[p].responsive

\* conns with the state of p set, or with p deleted.
SetConn(p, state) == [q \in Known \cup {p} |-> IF q = p THEN state ELSE conns[q]]
DeleteConn(p) == [q \in Known \ {p} |-> conns[q]]

\* Calls of the listener.
PeerConnected(p) == balance' = [balance EXCEPT ![p] = @ + 1]
PeerDisconnected(p) == balance' = [balance EXCEPT ![p] = @ - 1]

-----------------------------------------------------------------------------
newConnectEventManager ==
    /\ conns = [p \in {} |-> {}]
    /\ open = [p \in Peers |-> EarlyConns]
    /\ handler = [h \in Handlers |-> NoPeer]
    /\ balance = [p \in Peers |-> 0]

\* Variant that counts the first connection twice.
Connected_CountTwice(p) ==
    LET refs == IF p \in Known THEN conns[p].refs + 1 ELSE 2
        responsive == p \in Known => conns[p].responsive
    IN  /\ open[p] < MaxConns
        /\ open' = [open EXCEPT ![p] = @ + 1]
        /\ conns' = SetConn(p, [refs |-> refs, responsive |-> responsive])
        /\ IF p \notin Known THEN PeerConnected(p) ELSE UNCHANGED balance
        /\ UNCHANGED handler

\* A connection opens.  Only the first one is an event, unless the peer was
\* marked unresponsive.
Connected(p) ==
    LET refs == IF p \in Known THEN conns[p].refs + 1 ELSE 1
        responsive == p \in Known => conns[p].responsive
    IN  /\ open[p] < MaxConns
        /\ open' = [open EXCEPT ![p] = @ + 1]
        /\ conns' = SetConn(p, [refs |-> refs, responsive |-> responsive])
        /\ IF refs = 1 /\ responsive THEN PeerConnected(p) ELSE UNCHANGED balance
        /\ UNCHANGED handler

\* A connection closes.  The closing of the last one is an event, unless the
\* peer was marked unresponsive; the entry of the peer goes away.
Disconnected(p) ==
    /\ open[p] > 0
    /\ open' = [open EXCEPT ![p] = @ - 1]
    /\ \/ /\ p \notin Known
          /\ UNCHANGED <<conns, balance>>
       \/ /\ p \in Known
          /\ conns[p].refs # 1
          /\ conns' = SetConn(p, [refs |-> conns[p].refs - 1, responsive |-> conns[p].responsive])
          /\ UNCHANGED balance
       \/ /\ p \in Known
          /\ conns[p].refs = 1
          /\ conns' = DeleteConn(p)
          /\ IF conns[p].responsive THEN PeerDisconnected(p) ELSE UNCHANGED balance
    /\ UNCHANGED handler

\* A sender gave up on the peer.  No effect on an unknown or an already
\* unresponsive peer (the early return).
MarkUnresponsive(p) ==
    /\ IF Responsive(p)
       THEN /\ conns' = SetConn(p, [refs |-> conns[p].refs, responsive |-> FALSE])
            /\ PeerDisconnected(p)
       ELSE UNCHANGED <<conns, balance>>
    /\ UNCHANGED <<open, handler>>

\* OnMessage under the read lock: the handler only goes on for a peer that
\* is known and unresponsive.
OnMessageCheck(h, p) ==
    /\ handler[h] = NoPeer
    /\ p \in Known
    /\ ~conns[p].responsive
    /\ handler' = [handler EXCEPT ![h] = p]
    /\ UNCHANGED <<conns, open, balance>>

\* Variant that trusts what the read lock showed.
OnMessageUpdate_NoRecheck(h) ==
    LET p == handler[h]
    IN  /\ p # NoPeer
        /\ handler' = [handler EXCEPT ![h] = NoPeer]
        /\ conns' = IF p \in Known
                    THEN SetConn(p, [refs |-> conns[p].refs, responsive |-> TRUE])
                    ELSE conns
        /\ PeerConnected(p)
        /\ UNCHANGED open

\* OnMessage under the write lock: the state is looked at again.
OnMessageUpdate(h) ==
    LET p == handler[h]
    IN  /\ p # NoPeer
        /\ handler' = [handler EXCEPT ![h] = NoPeer]
        /\ IF p \in Known /\ ~conns[p].responsive
           THEN /\ conns' = SetConn(p, [refs |-> conns[p].refs, responsive |-> TRUE])
                /\ PeerConnected(p)
           ELSE UNCHANGED <<conns, balance>>
        /\ UNCHANGED open

-----------------------------------------------------------------------------
CEMNext ==
    \/ \E p \in Peers : Connected(p) \/ Disconnected(p) \/ MarkUnresponsive(p)
    \/ \E h \in Handlers, p \in Peers : OnMessageCheck(h, p)
    \/ \E h \in Handlers : OnMessageUpdate(h)

CEMSpec == newConnectEventManager /\ [][CEMNext]_cemVars

-----------------------------------------------------------------------------
(* Records are well formed; counts are counts.                             *)
ConnsTypeOK ==
    /\ Known \subseteq Peers
    /\ \A p \in Known : conns[p] \in ConnState
    /\ open \in [Peers -> 0..MaxConns]
    /\ handler \in [Handlers -> Peers \cup {NoPeer}]
    /\ balance \in [Peers -> Int]

\* The listener hears PeerConnected and PeerDisconnected in strict
\* alternation and the last one is true: it believes a peer connected exactly
\* when the peer has a connection and answers.  Two handlers that saw the same
\* unresponsive peer, connections that open and close around them and a
\* sender that gives up in between do not make it hear an event twice.
EventsAlternate ==
    \A p \in Peers : balance[p] = IF Responsive(p) THEN 1 ELSE 0

Refs(p) == IF p \in Known THEN conns[p].refs ELSE 0

\* The reference counts are those of libp2p but for the early connections: no
\* entry outlives its connections, and a peer that is not known has no
\* connection but early ones, so that the "Should never happen" return of
\* Disconnected needs one.
RefsCounted ==
    \A p \in Peers : Refs(p) <= open[p] /\ open[p] <= Refs(p) + EarlyConns

\* "Should never happen" (connecteventmanager.go:54): no connection closes
\* for a peer that the manager does not know.
ClosedPeerKnown ==
    [][\A p \in Peers : open'[p] < open[p] => p \in Known]_cemVars
=============================================================================

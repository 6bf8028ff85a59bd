-------------------------- MODULE PeerManager_proofs ------------------------
(***************************************************************************)
(* The PeerManager and its two parts.                                      *)
(*                                                                         *)
(* For any number of peers, connections and handlers: the listener of the  *)
(* connectEventManager hears its events in strict alternation, and a peer  *)
(* is known whenever one of its connections closes, provided that no       *)
(* connection was open before SetDelegate.                                 *)
(*                                                                         *)
(* For any number of queues and retries besides: the PeerManager's queues  *)
(* follow the connections, the peerWantManager feeds those very queues,    *)
(* and each of them runs for the peer it is registered for.  The invariant *)
(* of the connectEventManager is part of the one used there.               *)
(*                                                                         *)
(* The invariants of PeerWantManager, for every set of peers and every     *)
(* finite set of wants.  None of them is inductive alone: the gauges are   *)
(* computed from the reverse index, the filters of the queues from the     *)
(* recorded wants, so they are proved together as IInv.                    *)
(*                                                                         *)
(* The two parts together call every message queue as QueueClient says.    *)
(***************************************************************************)
EXTENDS PeerManager, FiniteSetTheorems, TLAPS

\* The prover of a step that names none.
USE Zenon

-----------------------------------------------------------------------------
(* The connectEventManager by itself.                                      *)

ConnsInv == ConnsTypeOK /\ EventsAlternate /\ RefsCounted

\* A new manager knows nobody and has told its listener nothing.
LEMMA InitConnsInv == newConnectEventManager => ConnsInv
BY ConnsAssumption, SMT DEF newConnectEventManager, ConnsInv, ConnsTypeOK, EventsAlternate, RefsCounted,
   Refs, Known, Responsive

\* Setting the entry of one peer.
LEMMA SetConnFacts ==
    ASSUME NEW p \in Peers, NEW s, conns' = SetConn(p, s)
    PROVE  /\ Known' = Known \cup {p}
           /\ conns'[p] = s
           /\ \A q \in Known \ {p} : conns'[q] = conns[q]
BY DEF SetConn, Known

\* Deleting the entry of one peer.
LEMMA DeleteConnFacts ==
    ASSUME NEW p \in Peers, conns' = DeleteConn(p)
    PROVE  /\ Known' = Known \ {p}
           /\ \A q \in Known' : conns'[q] = conns[q]
BY DEF DeleteConn, Known

\* The count of a peer, known or not, is an integer.
LEMMA RefsInt == ConnsInv => \A p \in Peers : Refs(p) \in Int
BY SMT DEF ConnsInv, ConnsTypeOK, ConnState, Refs

\* A peer whose connections change is the only one whose events do.
LEMMA ConnectedIInv ==
    ASSUME ConnsInv, NEW p \in Peers, Connected(p)
    PROVE  ConnsInv'
<1> USE DEF ConnsInv
<1> DEFINE refs == IF p \in Known THEN conns[p].refs + 1 ELSE 1
           responsive == p \in Known => conns[p].responsive
<1>1. /\ open[p] < MaxConns
      /\ open' = [open EXCEPT ![p] = @ + 1]
      /\ conns' = SetConn(p, [refs |-> refs, responsive |-> responsive])
      /\ IF refs = 1 /\ responsive THEN PeerConnected(p) ELSE UNCHANGED balance
      /\ UNCHANGED handler
  BY DEF Connected
<1>2. /\ Known' = Known \cup {p}
      /\ conns'[p].refs = refs /\ conns'[p].responsive = responsive
      /\ \A q \in Known \ {p} : conns'[q] = conns[q]
  BY <1>1, SetConnFacts, SMT
<1>3. responsive \in BOOLEAN /\ refs \in Int /\ refs >= 1 /\ refs <= open[p] + 1
  BY ConnsAssumption, SMT DEF ConnsTypeOK, ConnState, RefsCounted, Refs
<1>4. conns'[p] \in ConnState
  <2>1. conns'[p] = [refs |-> refs, responsive |-> responsive]
    BY <1>1, SetConnFacts, SMT
  <2> HIDE DEF refs, responsive
  <2>. QED  BY <1>3, <2>1, SMT DEF ConnState
<1>5. open' \in [Peers -> 0..MaxConns] /\ open'[p] = open[p] + 1
      /\ \A q \in Peers \ {p} : open'[q] = open[q]
  BY <1>1, ConnsAssumption, SMT DEF ConnsTypeOK
<1>6. balance' \in [Peers -> Int] /\ \A q \in Peers \ {p} : balance'[q] = balance[q]
  BY <1>1, SMT DEF ConnsTypeOK, PeerConnected
<1>7. ConnsTypeOK'
  BY <1>1, <1>2, <1>4, <1>5, <1>6 DEF ConnsTypeOK
<1>8. RefsCounted'
  <2>1. Refs(p)' = Refs(p) + 1
    BY <1>2, SMT DEF Refs
  <2>2. \A q \in Peers \ {p} : Refs(q)' = Refs(q)
    BY <1>2 DEF Refs
  <2>. QED  BY <1>5, <2>1, <2>2, RefsInt, ConnsAssumption, SMT DEF RefsCounted, ConnsTypeOK
<1>9. EventsAlternate'
  <2>1. ASSUME NEW q \in Peers \ {p} PROVE balance'[q] = IF Responsive(q)' THEN 1 ELSE 0
    BY <1>2, <1>6 DEF EventsAlternate, Responsive
  <2>2. balance'[p] = IF Responsive(p)' THEN 1 ELSE 0
    <3>1. Responsive(p)' <=> responsive
      BY <1>2 DEF Responsive
    <3>2. CASE p \in Known
      <4>1. refs # 1
        BY <3>2, SMT DEF ConnsTypeOK, ConnState
      <4>. QED  BY <1>1, <3>1, <3>2, <4>1 DEF EventsAlternate, Responsive
    <3>3. CASE p \notin Known
      BY <1>1, <3>1, <3>3, SMT DEF EventsAlternate, Responsive, PeerConnected, ConnsTypeOK
    <3>. QED  BY <3>2, <3>3
  <2>. QED  BY <2>1, <2>2 DEF EventsAlternate
<1>. QED  BY <1>7, <1>8, <1>9

\* The last connection of a responsive peer is an event, no other closing is.
LEMMA DisconnectedIInv ==
    ASSUME ConnsInv, NEW p \in Peers, Disconnected(p)
    PROVE  ConnsInv'
<1> USE DEF ConnsInv
<1>1. /\ open[p] > 0
      /\ open' = [open EXCEPT ![p] = @ - 1]
      /\ UNCHANGED handler
  BY DEF Disconnected
<1>2. open' \in [Peers -> 0..MaxConns] /\ open'[p] = open[p] - 1
      /\ \A q \in Peers \ {p} : open'[q] = open[q]
  BY <1>1, ConnsAssumption, SMT DEF ConnsTypeOK
<1>3. CASE p \notin Known /\ UNCHANGED <<conns, balance>>
  <2>1. Known' = Known
    BY <1>3 DEF Known
  <2>2. ConnsTypeOK'
    BY <1>1, <1>2, <1>3, <2>1 DEF ConnsTypeOK
  <2>3. EventsAlternate'
    BY <1>3, <2>1 DEF EventsAlternate, Responsive
  <2>4. RefsCounted'
    <3>1. Refs(p) = 0 /\ \A q \in Peers : Refs(q)' = Refs(q)
      BY <1>3, <2>1 DEF Refs
    <3>. QED  BY <1>1, <1>2, <3>1, RefsInt, ConnsAssumption, SMT DEF RefsCounted, ConnsTypeOK
  <2>. QED  BY <2>2, <2>3, <2>4
<1>4. CASE /\ p \in Known /\ conns[p].refs # 1 /\ UNCHANGED balance
           /\ conns' = SetConn(p, [refs |-> conns[p].refs - 1, responsive |-> conns[p].responsive])
  <2>1. /\ Known' = Known
        /\ conns'[p] = [refs |-> conns[p].refs - 1, responsive |-> conns[p].responsive]
        /\ \A q \in Known \ {p} : conns'[q] = conns[q]
    BY <1>4, SetConnFacts, SMT
  <2>2. conns[p] \in ConnState /\ conns[p].refs > 1
    BY <1>4, SMT DEF ConnsTypeOK, ConnState
  <2>3. conns'[p] \in ConnState
    BY <2>1, <2>2, SMT DEF ConnState
  <2>4. ConnsTypeOK'
    BY <1>1, <1>2, <1>4, <2>1, <2>3 DEF ConnsTypeOK
  <2>5. EventsAlternate'
    BY <1>4, <2>1, SMT DEF EventsAlternate, Responsive
  <2>6. RefsCounted'
    <3>1. Refs(p)' = Refs(p) - 1
      BY <1>4, <2>1, SMT DEF Refs
    <3>2. \A q \in Peers \ {p} : Refs(q)' = Refs(q)
      BY <2>1 DEF Refs
    <3>. QED  BY <1>2, <3>1, <3>2, RefsInt, ConnsAssumption, SMT DEF RefsCounted, ConnsTypeOK
  <2>. QED  BY <2>4, <2>5, <2>6
<1>5. CASE /\ p \in Known /\ conns[p].refs = 1 /\ conns' = DeleteConn(p)
           /\ IF conns[p].responsive THEN PeerDisconnected(p) ELSE UNCHANGED balance
  <2>1. Known' = Known \ {p} /\ \A q \in Known' : conns'[q] = conns[q]
    BY <1>5, DeleteConnFacts
  <2>2. balance' \in [Peers -> Int] /\ \A q \in Peers \ {p} : balance'[q] = balance[q]
    BY <1>5, SMT DEF ConnsTypeOK, PeerDisconnected
  <2>3. ConnsTypeOK'
    BY <1>1, <1>2, <2>1, <2>2 DEF ConnsTypeOK
  <2>4. EventsAlternate'
    <3>1. ASSUME NEW q \in Peers \ {p} PROVE balance'[q] = IF Responsive(q)' THEN 1 ELSE 0
      BY <2>1, <2>2 DEF EventsAlternate, Responsive
    <3>2. balance'[p] = 0 /\ ~Responsive(p)'
      BY <1>5, <2>1, SMT DEF EventsAlternate, Responsive, PeerDisconnected, ConnsTypeOK
    <3>. QED  BY <3>1, <3>2 DEF EventsAlternate
  <2>5. RefsCounted'
    <3>1. Refs(p) = 1 /\ Refs(p)' = 0
      BY <1>5, <2>1 DEF Refs
    <3>2. \A q \in Peers \ {p} : Refs(q)' = Refs(q)
      BY <2>1 DEF Refs
    <3>. QED  BY <1>2, <3>1, <3>2, RefsInt, ConnsAssumption, SMT DEF RefsCounted, ConnsTypeOK
  <2>. QED  BY <2>3, <2>4, <2>5
<1>. QED  BY <1>3, <1>4, <1>5 DEF Disconnected

\* Changing only the responsive flag of a known peer, with the matching event.
LEMMA FlagIInv ==
    ASSUME ConnsInv, NEW p \in Known, NEW flag \in BOOLEAN, balance[p] = IF flag THEN 0 ELSE 1,
           conns' = SetConn(p, [refs |-> conns[p].refs, responsive |-> flag]),
           IF flag THEN PeerConnected(p) ELSE PeerDisconnected(p),
           UNCHANGED open, handler' \in [Handlers -> Peers \cup {NoPeer}]
    PROVE  ConnsInv'
<1> USE DEF ConnsInv
<1>1. p \in Peers
  BY DEF ConnsTypeOK
<1>2. /\ Known' = Known
      /\ conns'[p] = [refs |-> conns[p].refs, responsive |-> flag]
      /\ \A q \in Known \ {p} : conns'[q] = conns[q]
  BY <1>1, SetConnFacts
<1>3. conns'[p] \in ConnState
  BY <1>2, SMT DEF ConnsTypeOK, ConnState
<1>4. balance' \in [Peers -> Int] /\ \A q \in Peers \ {p} : balance'[q] = balance[q]
  BY SMT DEF ConnsTypeOK, PeerConnected, PeerDisconnected
<1>5. ConnsTypeOK'
  BY <1>2, <1>3, <1>4 DEF ConnsTypeOK
<1>6. EventsAlternate'
  <2>1. ASSUME NEW q \in Peers \ {p} PROVE balance'[q] = IF Responsive(q)' THEN 1 ELSE 0
    BY <1>2, <1>4 DEF EventsAlternate, Responsive
  <2>3. Responsive(p)' <=> flag
    BY <1>2, SMT DEF Responsive
  <2>4. balance'[p] = IF flag THEN 1 ELSE 0
    <3>1. CASE flag
      BY <1>1, <3>1, SMT DEF PeerConnected, ConnsTypeOK
    <3>2. CASE ~flag
      BY <1>1, <3>2, SMT DEF PeerDisconnected, ConnsTypeOK
    <3>. QED  BY <3>1, <3>2
  <2>. QED  BY <2>1, <2>3, <2>4 DEF EventsAlternate
<1>7. RefsCounted'
  BY <1>2, SMT DEF RefsCounted, Refs
<1>. QED  BY <1>5, <1>6, <1>7

\* A sender that gives up tells the listener at most once.
LEMMA MarkUnresponsiveIInv ==
    ASSUME ConnsInv, NEW p \in Peers, MarkUnresponsive(p)
    PROVE  ConnsInv'
<1>1. CASE Responsive(p)
  <2>1. p \in Known /\ balance[p] = IF FALSE THEN 0 ELSE 1
    BY <1>1 DEF Responsive, ConnsInv, EventsAlternate
  <2>2. /\ conns' = SetConn(p, [refs |-> conns[p].refs, responsive |-> FALSE])
        /\ PeerDisconnected(p) /\ UNCHANGED <<open, handler>>
    BY <1>1 DEF MarkUnresponsive
  <2>3. handler' \in [Handlers -> Peers \cup {NoPeer}]
    BY <2>2 DEF ConnsInv, ConnsTypeOK
  <2>. QED  BY <2>1, <2>2, <2>3, FlagIInv
<1>2. CASE ~Responsive(p)
  <2>1. UNCHANGED cemVars
    BY <1>2 DEF MarkUnresponsive, cemVars
  <2>. QED  BY <2>1 DEF cemVars, ConnsInv, ConnsTypeOK, EventsAlternate, RefsCounted, Refs, Known, Responsive
<1>. QED  BY <1>1, <1>2

\* The second look of OnMessage keeps a late handler from repeating an event.
LEMMA OnMessageUpdateIInv ==
    ASSUME ConnsInv, NEW h \in Handlers, OnMessageUpdate(h)
    PROVE  ConnsInv'
<1> DEFINE p == handler[h]
<1>1. p \in Peers /\ handler' \in [Handlers -> Peers \cup {NoPeer}] /\ UNCHANGED open
  BY DEF OnMessageUpdate, ConnsInv, ConnsTypeOK
<1>2. CASE p \in Known /\ ~conns[p].responsive
  <2>1. balance[p] = IF TRUE THEN 0 ELSE 1
    BY <1>1, <1>2 DEF ConnsInv, EventsAlternate, Responsive
  <2>2. /\ conns' = SetConn(p, [refs |-> conns[p].refs, responsive |-> TRUE])
        /\ PeerConnected(p)
    BY <1>2 DEF OnMessageUpdate
  <2> HIDE DEF p
  <2>. QED  BY <1>1, <1>2, <2>1, <2>2, FlagIInv
<1>3. CASE ~(p \in Known /\ ~conns[p].responsive)
  <2>1. UNCHANGED <<conns, balance, open>>
    BY <1>3 DEF OnMessageUpdate
  <2>. QED  BY <1>1, <2>1 DEF ConnsInv, ConnsTypeOK, EventsAlternate, RefsCounted, Refs, Known, Responsive
<1>. QED  BY <1>2, <1>3

\* Every operation of the manager preserves the inductive invariant.
LEMMA NextConnsInv == ConnsInv /\ [CEMNext]_cemVars => ConnsInv'
<1> SUFFICES ASSUME ConnsInv, [CEMNext]_cemVars PROVE ConnsInv'
  OBVIOUS
<1>1. ASSUME NEW h \in Handlers, NEW p \in Peers, OnMessageCheck(h, p) PROVE ConnsInv'
  BY <1>1 DEF OnMessageCheck, ConnsInv, ConnsTypeOK, EventsAlternate, RefsCounted, Refs, Known, Responsive
<1>2. CASE UNCHANGED cemVars
  BY <1>2 DEF cemVars, ConnsInv, ConnsTypeOK, EventsAlternate, RefsCounted, Refs, Known, Responsive
<1>. QED
  BY <1>1, <1>2, ConnectedIInv, DisconnectedIInv, MarkUnresponsiveIInv, OnMessageUpdateIInv DEF CEMNext

\* The inductive invariant holds in every reachable state.
THEOREM ConnsInvariant == CEMSpec => []ConnsInv
BY InitConnsInv, NextConnsInv, PTL DEF CEMSpec

\* Every entry of the map has at least one counted connection, and the
\* handlers are in one of their states.
THEOREM ConnsTypeCorrect == CEMSpec => []ConnsTypeOK
<1>1. ConnsInv => ConnsTypeOK
  BY DEF ConnsInv
<1>. QED  BY <1>1, ConnsInvariant, PTL

\* The listener hears PeerConnected and PeerDisconnected alternately, and what
\* it heard last is true, whatever the handlers, senders and connections do.
THEOREM AlternationCorrect == CEMSpec => []EventsAlternate
<1>1. ConnsInv => EventsAlternate
  BY DEF ConnsInv
<1>. QED  BY <1>1, ConnsInvariant, PTL

\* The counts of the manager and of libp2p differ by early connections only.
THEOREM RefsCorrect == CEMSpec => []RefsCounted
<1>1. ConnsInv => RefsCounted
  BY DEF ConnsInv
<1>. QED  BY <1>1, ConnsInvariant, PTL

\* The "should never happen" return of Disconnected is unreachable when no
\* connection was open before SetDelegate registered the notifiee.
THEOREM UnknownPeerUnreachable ==
    ASSUME EarlyConns = 0
    PROVE  CEMSpec => ClosedPeerKnown
<1>1. ConnsInv /\ [CEMNext]_cemVars => [\A p \in Peers : open'[p] < open[p] => p \in Known]_cemVars
  <2> SUFFICES ASSUME ConnsInv, NEW p \in Peers, open'[p] < open[p], CEMNext PROVE p \in Known
    OBVIOUS
  <2>1. \A q \in Peers : open[q] \in Int
    BY SMT DEF ConnsInv, ConnsTypeOK
  <2>2. ASSUME NEW q \in Peers, Connected(q) PROVE FALSE
    BY <2>1, <2>2, SMT DEF Connected, ConnsInv, ConnsTypeOK
  <2>3. ASSUME NEW q \in Peers, MarkUnresponsive(q) PROVE FALSE
    BY <2>1, <2>3, SMT DEF MarkUnresponsive
  <2>4. ASSUME NEW h \in Handlers, NEW q \in Peers, OnMessageCheck(h, q) PROVE FALSE
    BY <2>1, <2>4, SMT DEF OnMessageCheck
  <2>5. ASSUME NEW h \in Handlers, OnMessageUpdate(h) PROVE FALSE
    BY <2>1, <2>5, SMT DEF OnMessageUpdate
  <2>6. ASSUME NEW q \in Peers, Disconnected(q) PROVE p \in Known
    <3>1. open[q] > 0 /\ open' = [open EXCEPT ![q] = @ - 1]
      BY <2>6 DEF Disconnected
    <3>2. p = q
      BY <2>1, <3>1, SMT DEF ConnsInv, ConnsTypeOK
    <3>. QED  BY <2>1, <3>1, <3>2, SMT DEF ConnsInv, RefsCounted, Refs
  <2>. QED  BY <2>2, <2>3, <2>4, <2>5, <2>6 DEF CEMNext
<1>. QED  BY <1>1, ConnsInvariant, PTL DEF CEMSpec, ClosedPeerKnown

-----------------------------------------------------------------------------
(* Its composition with the PeerManager, the queues and their senders.     *)

RunStates == {"stopped", "idle", "trying", "failed", "backoff", "mark", "giveup"}

\* The ranges of the goroutines' variables.
Shape ==
    /\ \A p \in DOMAIN peerQueues : peerQueues[p] \in Queues
    /\ run \in [Queues -> RunStates]
    /\ owner \in [Queues -> Peers \cup {NoPeer}]

\* A queue that runs has a peer to report; one that is about to shut itself
\* down is no longer registered.
Leaving ==
    \A q \in Queues :
        /\ run[q] # "stopped" => owner[q] \in Peers
        /\ run[q] = "giveup" => \A p \in DOMAIN peerQueues : peerQueues[p] # q

CIInv == ConnsInv /\ Shape /\ QueuesFollowConnections /\ RegisteredQueuesAlive /\ Leaving

\* At first there are neither peers nor queues.
LEMMA CInitIInv == CInit => CIInv
<1> SUFFICES ASSUME CInit PROVE CIInv
  OBVIOUS
<1>1. ConnsInv
  BY InitConnsInv DEF CInit
<1>2. DOMAIN peerQueues = {} /\ {p \in Peers : Responsive(p)} = {}
  BY DEF CInit, newConnectEventManager, Responsive, Known
<1>. QED  BY <1>1, <1>2 DEF CInit, CIInv, Shape, RunStates, QueuesFollowConnections,
             RegisteredQueuesAlive, Leaving

\* The events of a peer tell whether it became responsive.
LEMMA EventFacts ==
    ASSUME ConnsInv, ConnsInv', NEW p \in Peers
    PROVE  /\ balance'[p] > balance[p] <=> ~Responsive(p) /\ Responsive(p)'
           /\ balance'[p] < balance[p] <=> Responsive(p) /\ ~Responsive(p)'
BY SMT DEF ConnsInv, EventsAlternate

\* Peers without an event stay what they are.
LEMMA QuietFacts ==
    ASSUME ConnsInv, ConnsInv', NEW p \in Peers, balance'[p] = balance[p]
    PROVE  Responsive(p)' <=> Responsive(p)
BY SMT DEF ConnsInv, EventsAlternate

\* The listener call of a new peer gives it an unused queue.
LEMMA ConnectsIInv ==
    ASSUME CIInv, ConnsInv', NEW p \in Peers, ListenerConnects(p), balance'[p] >= balance[p],
           \A x \in Peers \ {p} : balance'[x] = balance[x]
    PROVE  CIInv'
<1>1. CASE balance'[p] > balance[p]
  <2>1. ~Responsive(p) /\ Responsive(p)'
    BY <1>1, EventFacts DEF CIInv
  <2>2. p \notin DOMAIN peerQueues /\ pwmQueues = peerQueues
    BY <2>1 DEF CIInv, QueuesFollowConnections
  <2>3. PICK q \in Queues :
          /\ Unused(q)
          /\ peerQueues' = With(peerQueues, p, q) /\ pwmQueues' = peerQueues'
          /\ ctxOpen' = ctxOpen \cup {q}
          /\ run' = [run EXCEPT ![q] = "idle"]
          /\ owner' = [owner EXCEPT ![q] = p]
    BY <1>1, <2>2 DEF ListenerConnects, PMConnected
  <2>4. /\ DOMAIN peerQueues' = DOMAIN peerQueues \cup {p}
        /\ peerQueues'[p] = q
        /\ \A x \in DOMAIN peerQueues : peerQueues'[x] = peerQueues[x] /\ peerQueues[x] # q
    BY <2>2, <2>3 DEF With, Unused, Range
  <2>5. /\ run' \in [Queues -> RunStates] /\ run'[q] = "idle"
        /\ owner' \in [Queues -> Peers \cup {NoPeer}] /\ owner'[q] = p
        /\ \A u \in Queues \ {q} : run'[u] = run[u] /\ owner'[u] = owner[u]
    BY <2>3 DEF CIInv, Shape, RunStates
  <2>6. Shape'
    BY <2>4, <2>5 DEF CIInv, Shape
  <2>7. QueuesFollowConnections'
    <3>1. \A x \in Peers \ {p} : Responsive(x)' <=> Responsive(x)
      BY QuietFacts DEF CIInv
    <3>. QED  BY <2>1, <2>3, <2>4, <3>1 DEF CIInv, QueuesFollowConnections
  <2>8. RegisteredQueuesAlive'
    BY <2>3, <2>4, <2>5, SMT DEF CIInv, Shape, RegisteredQueuesAlive
  <2>9. Leaving'
    BY <2>4, <2>5, SMT DEF CIInv, Leaving
  <2>. QED  BY <2>6, <2>7, <2>8, <2>9 DEF CIInv
<1>2. CASE ~(balance'[p] > balance[p])
  <2>1. UNCHANGED <<pmVars, runVars>>
    BY <1>2 DEF ListenerConnects
  <2>2. \A x \in Peers : Responsive(x)' <=> Responsive(x)
    <3>1. balance'[p] = balance[p]
      BY <1>2, SMT DEF CIInv, ConnsInv, ConnsTypeOK
    <3>. QED  BY <3>1, QuietFacts DEF CIInv
  <2>. QED  BY <2>1, <2>2 DEF pmVars, runVars, CIInv, Shape, QueuesFollowConnections,
               RegisteredQueuesAlive, Leaving
<1>. QED  BY <1>1, <1>2

\* The listener call of a peer that is gone takes its queue away; the queue u
\* whose goroutine made the call, if any, is then on its way out.
LEMMA DisconnectsIInv ==
    ASSUME CIInv, ConnsInv', NEW p \in Peers, ListenerDisconnects(p), balance'[p] <= balance[p],
           \A x \in Peers \ {p} : balance'[x] = balance[x],
           UNCHANGED owner,
           \/ UNCHANGED run
           \/ \E u \in Queues : /\ owner[u] = p /\ ~Responsive(p)'
                                /\ run[u] # "stopped" /\ run' = [run EXCEPT ![u] = "giveup"]
    PROVE  CIInv'
<1>1. /\ DOMAIN peerQueues' = {x \in Peers : Responsive(x)'}
      /\ DOMAIN peerQueues' \subseteq DOMAIN peerQueues
      /\ \A x \in DOMAIN peerQueues' : peerQueues'[x] = peerQueues[x] /\ peerQueues'[x] \in ctxOpen'
      /\ pwmQueues' = peerQueues'
  <2>1. \A x \in Peers \ {p} : Responsive(x)' <=> Responsive(x)
    BY QuietFacts DEF CIInv
  <2>2. CASE balance'[p] < balance[p]
    <3>1. Responsive(p) /\ ~Responsive(p)'
      BY <2>2, EventFacts DEF CIInv
    <3>2. p \in DOMAIN peerQueues
      BY <3>1 DEF CIInv, QueuesFollowConnections
    <3>3. /\ peerQueues' = Without(peerQueues, p) /\ pwmQueues' = Without(pwmQueues, p)
          /\ ctxOpen' = ctxOpen \ {peerQueues[p]}
      BY <2>2, <3>2 DEF ListenerDisconnects, PMDisconnected
    <3>4. \A x \in DOMAIN peerQueues \ {p} : peerQueues[x] \in ctxOpen \ {peerQueues[p]}
      BY <3>2, SMT DEF CIInv, RegisteredQueuesAlive
    <3>. QED  BY <2>1, <3>1, <3>3, <3>4 DEF Without, CIInv, QueuesFollowConnections
  <2>3. CASE ~(balance'[p] < balance[p])
    <3>1. balance'[p] = balance[p]
      BY <2>3, SMT DEF CIInv, ConnsInv, ConnsTypeOK
    <3>2. Responsive(p)' <=> Responsive(p)
      BY <3>1, QuietFacts DEF CIInv
    <3>3. UNCHANGED pmVars
      BY <2>3 DEF ListenerDisconnects
    <3>. QED  BY <2>1, <3>2, <3>3, SMT DEF pmVars, CIInv, QueuesFollowConnections, RegisteredQueuesAlive
  <2>. QED  BY <2>2, <2>3
<1>2. \A x \in DOMAIN peerQueues' : owner[peerQueues'[x]] = x /\ run[peerQueues'[x]] # "stopped"
  BY <1>1 DEF CIInv, RegisteredQueuesAlive
<1>3. CASE UNCHANGED run
  BY <1>1, <1>2, <1>3, SMT DEF CIInv, Shape, QueuesFollowConnections, RegisteredQueuesAlive, Leaving
<1>4. ASSUME NEW u \in Queues, owner[u] = p, ~Responsive(p)', run[u] # "stopped",
             run' = [run EXCEPT ![u] = "giveup"]
      PROVE  CIInv'
  <2>1. \A x \in DOMAIN peerQueues' : peerQueues'[x] # u
    BY <1>1, <1>2, <1>4, SMT
  <2>2. run' \in [Queues -> RunStates] /\ run'[u] = "giveup"
        /\ \A v \in Queues \ {u} : run'[v] = run[v]
    BY <1>4 DEF CIInv, Shape, RunStates
  <2>. QED  BY <1>1, <1>2, <1>4, <2>1, <2>2, SMT DEF CIInv, Shape, QueuesFollowConnections, RegisteredQueuesAlive, Leaving
<1>. QED  BY <1>3, <1>4

\* A step of a queue's goroutine that leaves the connections and the PeerManager
\* alone, does not revive the queue and gives up only without being registered.
LEMMA RunIInv ==
    ASSUME CIInv, NEW q \in Queues, NEW s \in RunStates, MoveTo(q, s), run[q] # "stopped",
           UNCHANGED <<cemVars, peerQueues, pwmQueues, owner>>,
           ctxOpen' = ctxOpen \/ (ctxOpen' = ctxOpen \ {q} /\ run[q] = "giveup"),
           s = "giveup" \/ s = "stopped" => q \notin ctxOpen
    PROVE  CIInv'
<1>1. ConnsInv'
  BY NextConnsInv DEF CIInv
<1>2. \A p \in Peers : Responsive(p)' <=> Responsive(p)
  BY DEF cemVars, Responsive, Known
<1>3. /\ run' \in [Queues -> RunStates] /\ run'[q] = s
      /\ \A u \in Queues \ {q} : run'[u] = run[u]
  BY DEF CIInv, Shape, MoveTo
<1>4. \A p \in DOMAIN peerQueues : peerQueues[p] \in ctxOpen' /\ (peerQueues[p] = q => s # "giveup" /\ s # "stopped")
  BY DEF CIInv, RegisteredQueuesAlive, Leaving, Shape
<1>. QED  BY <1>1, <1>2, <1>3, <1>4, SMT DEF CIInv, Shape, QueuesFollowConnections, RegisteredQueuesAlive, Leaving

\* Every step of the network and of the queues keeps the invariant.
LEMMA CNextIInv == CIInv /\ [CNext]_connVars => CIInv'
<1> SUFFICES ASSUME CIInv, [CNext]_connVars PROVE CIInv'
  OBVIOUS
<1> USE DEF CIInv
<1>1. CASE UNCHANGED connVars
  <2>1. ConnsInv'
    BY <1>1, NextConnsInv DEF connVars
  <2>. QED  BY <1>1, <2>1 DEF connVars, cemVars, pmVars, runVars, Shape, QueuesFollowConnections,
               RegisteredQueuesAlive, Leaving, Responsive, Known
<1>2. ASSUME NEW p \in Peers, NetConnected(p) PROVE CIInv'
  <2>1. ConnsInv'
    BY <1>2, ConnectedIInv DEF NetConnected
  <2>2. balance'[p] >= balance[p] /\ \A x \in Peers \ {p} : balance'[x] = balance[x]
    BY <1>2, SMT DEF NetConnected, Connected, PeerConnected, ConnsInv, ConnsTypeOK
  <2>. QED  BY <1>2, <2>1, <2>2, ConnectsIInv DEF NetConnected
<1>3. ASSUME NEW p \in Peers, NetDisconnected(p) PROVE CIInv'
  <2>1. ConnsInv'
    BY <1>3, DisconnectedIInv DEF NetDisconnected
  <2>2. balance'[p] <= balance[p] /\ \A x \in Peers \ {p} : balance'[x] = balance[x]
    BY <1>3, SMT DEF NetDisconnected, Disconnected, PeerDisconnected, ConnsInv, ConnsTypeOK
  <2>. QED  BY <1>3, <2>1, <2>2, DisconnectsIInv DEF NetDisconnected, runVars
<1>4. ASSUME NEW h \in Handlers, NEW p \in Peers, NetMessageCheck(h, p) PROVE CIInv'
  <2>1. ConnsInv'
    BY <1>4, NextConnsInv DEF NetMessageCheck, CEMNext
  <2>. QED  BY <1>4, <2>1 DEF NetMessageCheck, OnMessageCheck, pmVars, runVars, Shape,
               QueuesFollowConnections, RegisteredQueuesAlive, Leaving, Responsive, Known
<1>5. ASSUME NEW h \in Handlers, NetMessageUpdate(h) PROVE CIInv'
  <2>1. ConnsInv'
    BY <1>5, OnMessageUpdateIInv DEF NetMessageUpdate
  <2>2. handler[h] \in Peers
    BY <1>5 DEF NetMessageUpdate, OnMessageUpdate, ConnsInv, ConnsTypeOK
  <2>3. /\ balance'[handler[h]] >= balance[handler[h]]
        /\ \A x \in Peers \ {handler[h]} : balance'[x] = balance[x]
    BY <1>5, <2>2, SMT DEF NetMessageUpdate, OnMessageUpdate, PeerConnected, ConnsInv, ConnsTypeOK
  <2>. QED  BY <1>5, <2>1, <2>2, <2>3, ConnectsIInv DEF NetMessageUpdate
<1>6. ASSUME NEW q \in Queues, markUnresponsive(q) PROVE CIInv'
  <2>1. owner[q] \in Peers /\ run[q] # "stopped" /\ run' = [run EXCEPT ![q] = "giveup"] /\ UNCHANGED owner
    BY <1>6 DEF markUnresponsive, MoveTo, Leaving
  <2>2. ConnsInv'
    BY <1>6, <2>1, MarkUnresponsiveIInv DEF markUnresponsive
  <2>3. /\ balance'[owner[q]] <= balance[owner[q]]
        /\ \A x \in Peers \ {owner[q]} : balance'[x] = balance[x]
    BY <1>6, <2>1, SMT DEF markUnresponsive, MarkUnresponsive, PeerDisconnected, ConnsInv, ConnsTypeOK
  <2>4. ~Responsive(owner[q])'
    <3>1. CASE Responsive(owner[q])
      <4>1. conns' = SetConn(owner[q], [refs |-> conns[owner[q]].refs, responsive |-> FALSE])
        BY <1>6, <3>1 DEF markUnresponsive, MarkUnresponsive
      <4>2. conns'[owner[q]].responsive = FALSE
        BY <2>1, <4>1 DEF SetConn
      <4>. QED  BY <2>1, <4>2 DEF Responsive
    <3>2. CASE ~Responsive(owner[q])
      BY <1>6, <3>2 DEF markUnresponsive, MarkUnresponsive, Responsive, Known
    <3>. QED  BY <3>1, <3>2
  <2>. QED  BY <1>6, <2>1, <2>2, <2>3, <2>4, DisconnectsIInv DEF markUnresponsive
<1>7. ASSUME NEW q \in Queues, sendMessage(q) \/ attemptSucceeds(q) \/ attemptFails(q) PROVE CIInv'
  BY <1>7, RunIInv DEF sendMessage, attemptSucceeds, attemptFails, pmVars, RunStates
<1>8. ASSUME NEW q \in Queues, afterFailure(q) PROVE CIInv'
  BY <1>8, RunIInv DEF afterFailure, pmVars, RunStates
<1>9. ASSUME NEW q \in Queues, backoff(q) PROVE CIInv'
  BY <1>9, RunIInv DEF backoff, pmVars, RunStates
<1>10. ASSUME NEW q \in Queues, shutdownAfterError(q) PROVE CIInv'
  BY <1>10, RunIInv DEF shutdownAfterError, RunStates
<1>11. ASSUME NEW q \in Queues, exitRunQueue(q) PROVE CIInv'
  BY <1>11, RunIInv DEF exitRunQueue, pmVars, RunStates
<1>. QED  BY <1>1, <1>2, <1>3, <1>4, <1>5, <1>6, <1>7, <1>8, <1>9, <1>10, <1>11 DEF CNext, RunQueue

\* The invariant holds in every reachable state.
THEOREM ConnectivityInvariant == CSpec => []CIInv
BY CInitIInv, CNextIInv, PTL DEF CSpec

\* The PeerManager has a queue for exactly the connected peers that answer, and
\* the peerWantManager feeds that queue.
THEOREM QueuesFollowConnectionsCorrect == CSpec => []QueuesFollowConnections
<1>1. CIInv => QueuesFollowConnections
  BY DEF CIInv
<1>. QED  BY <1>1, ConnectivityInvariant, PTL

\* A registered queue runs, is open and belongs to the peer it is registered
\* for: what shuts itself down after an error has been removed before.
THEOREM RegisteredQueuesAliveCorrect == CSpec => []RegisteredQueuesAlive
<1>1. CIInv => RegisteredQueuesAlive
  BY DEF CIInv
<1>. QED  BY <1>1, ConnectivityInvariant, PTL

-----------------------------------------------------------------------------
(* The peerWantManager by itself.                                          *)

IInv ==
    /\ TypeOK
    /\ ReverseIndexExact
    /\ BlocksHavesDisjoint
    /\ GaugesExact
    /\ QueuesMatchWants

-----------------------------------------------------------------------------
(* Cardinalities of finite sets of wants.                                  *)

\* A set of wants is finite, and its cardinality a natural number.
LEMMA FiniteWants ==
    ASSUME NEW S \in SUBSET Wants
    PROVE  IsFiniteSet(S) /\ Cardinality(S) \in Nat
<1>1. IsFiniteSet(S)
  BY WantsFinite, FS_Subset
<1>. QED  BY <1>1, FS_CardinalityType

\* Adding wants that are not there adds their number: the increments of the
\* gauges.
LEMMA CardinalityAdd ==
    ASSUME NEW S \in SUBSET Wants, NEW T \in SUBSET Wants
    PROVE  Cardinality(S \cup T) = Cardinality(S) + Cardinality(T \ S)
<1>1. S \cup T = S \cup (T \ S)
  OBVIOUS
<1>2. S \cap (T \ S) = {}
  OBVIOUS
<1>3. IsFiniteSet(S) /\ IsFiniteSet(T \ S)
  BY FiniteWants
<1>4. Cardinality(S \cup (T \ S))
        = Cardinality(S) + Cardinality(T \ S) - Cardinality(S \cap (T \ S))
  BY <1>3, FS_Union
<1>5. Cardinality(S) \in Nat /\ Cardinality(T \ S) \in Nat
  BY FiniteWants
<1>6. Cardinality(S \cap (T \ S)) = 0
  BY <1>2, FS_EmptySet
<1>7. Cardinality(S \cup T) = Cardinality(S \cup (T \ S))
  BY <1>1
<1>. QED  BY <1>4, <1>5, <1>6, <1>7, SMT

\* Removing wants that are there subtracts their number: the decrements.
LEMMA CardinalityRemove ==
    ASSUME NEW S \in SUBSET Wants, NEW T \in SUBSET S
    PROVE  Cardinality(S \ T) = Cardinality(S) - Cardinality(T)
<1>1. IsFiniteSet(S)
  BY FiniteWants
<1>2. S \cap T = T
  OBVIOUS
<1>. QED  BY <1>1, <1>2, FS_Difference, SMT

-----------------------------------------------------------------------------
(* What the counts read from the index mean once the index is exact.       *)

\* wantPeerCounts(w).wanted() holds exactly for the wants of getWants.
LEMMA WantedIsGetWants ==
    ASSUME TypeOK, ReverseIndexExact, NEW w
    PROVE  wanted(w, IndexedPeers(w)) <=> w \in getWants
BY SMT DEF TypeOK, ReverseIndexExact, wanted, BlockPeers, HavePeers, IndexedPeers,
       Targeted, Tracked, getWants, PeerWant

\* wantPeerCounts(w).wantBlock > 0 holds exactly for the wants of
\* getWantBlocks.
LEMMA BlockCountIsGetWantBlocks ==
    ASSUME TypeOK, ReverseIndexExact, NEW w
    PROVE  BlockPeers(w, IndexedPeers(w)) # {} <=> w \in getWantBlocks
BY SMT DEF TypeOK, ReverseIndexExact, BlockPeers, IndexedPeers, Targeted, Tracked,
       getWantBlocks, PeerWant

\* The wants that are reported are wants.
LEMMA GettersType ==
    ASSUME TypeOK
    PROVE  getWants \in SUBSET Wants /\ getWantBlocks \in SUBSET Wants
BY DEF TypeOK, getWants, getWantBlocks, Tracked, PeerWant

-----------------------------------------------------------------------------
(* The steps.  One lemma per operation.                                     *)

\* A new manager has no peers, no wants and zero gauges.
LEMMA InitIInv == Init => IInv
<1> SUFFICES ASSUME Init PROVE IInv
  OBVIOUS
<1> USE DEF Init, newPeerWantManager
<1>1. TypeOK
  BY SMT DEF TypeOK
<1>2. ReverseIndexExact /\ BlocksHavesDisjoint /\ QueuesMatchWants
  BY DEF ReverseIndexExact, BlocksHavesDisjoint, QueuesMatchWants, Tracked
<1>3. getWants = {} /\ getWantBlocks = {}
  BY DEF getWants, getWantBlocks, Tracked
<1>4. GaugesExact
  BY <1>3, FS_EmptySet DEF GaugesExact
<1>. QED  BY <1>1, <1>2, <1>4 DEF IInv

\* Connecting a peer: its queue starts from the broadcast wants.
LEMMA addPeerIInv ==
    ASSUME IInv, NEW p \in Peers, addPeer(p)
    PROVE  IInv'
<1> USE DEF IInv
<1>1. /\ Tracked' = Tracked \cup {p}
      /\ p \notin Tracked
      /\ \A q \in Tracked : peerWants'[q] = peerWants[q] /\ queue'[q] = queue[q]
      /\ peerWants'[p] = [wantBlocks |-> {}, wantHaves |-> {}]
      /\ queue'[p] = [bcst |-> broadcastWants, blocks |-> {}, haves |-> {}]
      /\ DOMAIN queue' = Tracked'
      /\ UNCHANGED <<wantPeers, broadcastWants, wantGauge, wantBlockGauge>>
  BY DEF addPeer, Tracked, AddBroadcastWantHaves, newQueue, TypeOK
<1>2. \A q \in Tracked : Targeted(q)' = Targeted(q)
  BY <1>1 DEF Targeted
<1>3. Targeted(p)' = {}
  BY <1>1, SMT DEF Targeted
<1>4. TypeOK'
  BY <1>1, SMT DEF TypeOK, Tracked, PeerWant, PeerQueue
<1>5. ReverseIndexExact'
  BY <1>1, <1>2, <1>3, SMT DEF ReverseIndexExact
<1>6. BlocksHavesDisjoint'
  BY <1>1, SMT DEF BlocksHavesDisjoint
<1>7. QueuesMatchWants'
  <2>1. ASSUME NEW q \in Tracked PROVE QueueMatches(q)'
    BY <1>1, <1>2 DEF QueuesMatchWants, QueueMatches
  <2>2. QueueMatches(p)'
    BY <1>1, <1>3, SMT DEF QueueMatches
  <2>. QED  BY <1>1, <2>1, <2>2 DEF QueuesMatchWants
<1>8. getWants' = getWants /\ getWantBlocks' = getWantBlocks
  BY <1>1, SMT DEF getWants, getWantBlocks
<1>9. GaugesExact'
  BY <1>1, <1>8 DEF GaugesExact
<1>. QED  BY <1>4, <1>5, <1>6, <1>7, <1>9

\* Broadcasting: only the wants that no peer has are new to the gauge.
LEMMA broadcastWantHavesIInv ==
    ASSUME IInv, NEW ws \in SUBSET Wants, broadcastWantHaves(ws)
    PROVE  IInv'
<1> USE DEF IInv
<1> DEFINE unsent == ws \ broadcastWants
<1>1. /\ UNCHANGED <<peerWants, wantPeers, wantBlockGauge>>
      /\ broadcastWants' = broadcastWants \cup unsent
      /\ wantGauge' = wantGauge + Cardinality(unsent \ DOMAIN wantPeers)
      /\ DOMAIN queue' = Tracked
      /\ \A p \in Tracked : queue'[p] = AddBroadcastWantHaves(queue[p], unsent \ Targeted(p))
  BY DEF broadcastWantHaves, peerUnsent
<1>2. Tracked' = Tracked /\ \A p : Targeted(p)' = Targeted(p)
  BY <1>1 DEF Tracked, Targeted
<1>3. \A p \in Tracked : /\ queue'[p].bcst = queue[p].bcst \cup (unsent \ Targeted(p))
                         /\ queue'[p].blocks = queue[p].blocks
                         /\ queue'[p].haves = queue[p].haves
                         /\ queue'[p] \in PeerQueue
  BY <1>1, SMT DEF TypeOK, PeerQueue, Tracked, AddBroadcastWantHaves
<1>4. ReverseIndexExact' /\ BlocksHavesDisjoint'
  BY <1>1, <1>2 DEF ReverseIndexExact, BlocksHavesDisjoint
<1>5. QueuesMatchWants'
  BY <1>1, <1>2, <1>3, SMT DEF QueuesMatchWants, QueueMatches, Targeted
<1>6. getWantBlocks' = getWantBlocks /\ getWants' = getWants \cup unsent
  BY <1>1, <1>2, SMT DEF getWants, getWantBlocks
<1>7. unsent \ getWants = unsent \ DOMAIN wantPeers
  BY DEF getWants
<1>8. Cardinality(getWants \cup unsent)
        = Cardinality(getWants) + Cardinality(unsent \ DOMAIN wantPeers)
  <2>1. unsent \in SUBSET Wants
    OBVIOUS
  <2>2. Cardinality(getWants \cup unsent) = Cardinality(getWants) + Cardinality(unsent \ getWants)
    BY <2>1, GettersType, CardinalityAdd
  <2>. QED  BY <2>2, <1>7
<1>9. GaugesExact'
  BY <1>1, <1>6, <1>8 DEF GaugesExact
<1>10. Cardinality(unsent \ DOMAIN wantPeers) \in Int
  BY FiniteWants, SMT
<1>11. TypeOK'
  BY <1>1, <1>2, <1>3, <1>10, SMT DEF TypeOK, Tracked
<1>. QED  BY <1>4, <1>5, <1>9, <1>11

\* Sending wants to one peer: a want new to every peer raises the gauges.
LEMMA sendWantsIInv ==
    ASSUME IInv, NEW p \in Peers, NEW bs \in SUBSET Wants, NEW hs \in SUBSET Wants,
           sendWants(p, bs, hs)
    PROVE  IInv'
<1> USE DEF IInv
<1> DEFINE blks == bs \ peerWants[p].wantBlocks
           hvs == hs \ (broadcastWants \cup Targeted(p) \cup blks)
           sent == blks \cup hvs
<1>1. /\ p \in Tracked
      /\ UNCHANGED broadcastWants
      /\ wantPeers' = reverseIndexAdd(sent, p)
      /\ peerWants' = [peerWants EXCEPT ![p] =
             [wantBlocks |-> peerWants[p].wantBlocks \cup blks,
              wantHaves  |-> (peerWants[p].wantHaves \ blks) \cup hvs]]
      /\ queue' = [queue EXCEPT ![p] = AddWants(queue[p], blks, hvs)]
      /\ wantBlockGauge' = wantBlockGauge
             + Cardinality({w \in blks : BlockPeers(w, IndexedPeers(w)) = {}})
      /\ wantGauge' = wantGauge + Cardinality({w \in sent : ~wanted(w, IndexedPeers(w))})
  BY DEF sendWants, fltWantBlks, fltWantHvs
<1> HIDE DEF blks, hvs, sent
<1>2. /\ blks \in SUBSET Wants /\ hvs \in SUBSET Wants
      /\ blks \cap peerWants[p].wantBlocks = {}
      /\ hvs \cap (broadcastWants \cup Targeted(p) \cup blks) = {}
      /\ sent = blks \cup hvs
  BY DEF blks, hvs, sent
<1>3. /\ Tracked' = Tracked /\ DOMAIN queue' = Tracked
      /\ \A q \in Tracked \ {p} : peerWants'[q] = peerWants[q] /\ queue'[q] = queue[q]
      /\ peerWants'[p].wantBlocks = peerWants[p].wantBlocks \cup blks
      /\ peerWants'[p].wantHaves = (peerWants[p].wantHaves \ blks) \cup hvs
      /\ peerWants'[p] \in PeerWant
      /\ queue'[p] = AddWants(queue[p], blks, hvs)
  BY <1>1, <1>2 DEF TypeOK, Tracked, PeerWant
<1>4. Targeted(p)' = Targeted(p) \cup sent
  BY <1>2, <1>3 DEF Targeted
<1>5. \A q \in Tracked \ {p} : Targeted(q)' = Targeted(q)
  BY <1>3 DEF Targeted
<1>6. /\ DOMAIN wantPeers' = DOMAIN wantPeers \cup sent
      /\ \A w \in sent : wantPeers'[w] = IndexedPeers(w) \cup {p}
      /\ \A w \in DOMAIN wantPeers \ sent : wantPeers'[w] = wantPeers[w]
  BY <1>1 DEF reverseIndexAdd
<1>7. \A w : IndexedPeers(w) = {q \in Tracked : w \in Targeted(q)}
  BY DEF ReverseIndexExact, IndexedPeers
<1>8. ReverseIndexExact'
  <2>1. ASSUME NEW w \in DOMAIN wantPeers'
        PROVE  wantPeers'[w] = {q \in Tracked : w \in Targeted(q)'} /\ wantPeers'[w] # {}
    <3>1. CASE w \in sent
      BY <3>1, <1>1, <1>4, <1>5, <1>6, <1>7, SMT
    <3>2. CASE w \notin sent
      <4>1. \A q \in Tracked : w \in Targeted(q)' <=> w \in Targeted(q)
        BY <3>2, <1>4, <1>5
      <4>2. w \in DOMAIN wantPeers /\ wantPeers'[w] = wantPeers[w]
        BY <3>2, <1>6
      <4>. QED  BY <4>1, <4>2 DEF ReverseIndexExact
    <3>. QED  BY <3>1, <3>2
  <2>2. ASSUME NEW q \in Tracked PROVE Targeted(q)' \subseteq DOMAIN wantPeers'
    BY <1>4, <1>5, <1>6, SMT DEF ReverseIndexExact
  <2>. QED  BY <2>1, <2>2, <1>3 DEF ReverseIndexExact
<1>9. BlocksHavesDisjoint'
  BY <1>2, <1>3 DEF BlocksHavesDisjoint, Targeted
<1>10. queue'[p] \in PeerQueue /\ QueuesMatchWants'
  <2>1. /\ queue'[p].bcst = queue[p].bcst
        /\ queue'[p].blocks = queue[p].blocks \cup blks
        /\ queue'[p].haves = (queue[p].haves \cup (hvs \ queue[p].blocks)) \ blks
        /\ queue'[p] \in PeerQueue
    BY <1>1, <1>2, <1>3, SMT DEF AddWants, PeerQueue, TypeOK, Tracked
  <2>2. /\ queue[p].blocks = peerWants[p].wantBlocks
        /\ queue[p].haves = peerWants[p].wantHaves
        /\ queue[p].bcst \cup queue[p].blocks \cup queue[p].haves
              = broadcastWants \cup Targeted(p)
    BY <1>1 DEF QueuesMatchWants, QueueMatches
  <2>3. /\ queue'[p].blocks = peerWants'[p].wantBlocks
        /\ queue'[p].haves = peerWants'[p].wantHaves
    BY <1>2, <1>3, <2>1, <2>2 DEF Targeted
  <2>4. queue'[p].bcst \cup queue'[p].blocks \cup queue'[p].haves
           = broadcastWants' \cup Targeted(p)'
    BY <1>1, <1>2, <1>4, <2>1, <2>2 DEF Targeted
  <2>5. QueueMatches(p)'
    BY <2>3, <2>4 DEF QueueMatches
  <2>6. ASSUME NEW q \in Tracked \ {p} PROVE QueueMatches(q)'
    BY <1>1, <1>3, <1>5, SMT DEF QueuesMatchWants, QueueMatches
  <2>. QED  BY <1>3, <2>1, <2>5, <2>6 DEF QueuesMatchWants
<1>11. getWants' = getWants \cup sent /\ getWantBlocks' = getWantBlocks \cup blks
  <2>1. getWants' = getWants \cup sent
    BY <1>1, <1>6 DEF getWants
  <2>2. getWantBlocks' = getWantBlocks \cup blks
    BY <1>1, <1>3, SMT DEF getWantBlocks
  <2>. QED  BY <2>1, <2>2
<1>12. /\ {w \in sent : ~wanted(w, IndexedPeers(w))} = sent \ getWants
       /\ {w \in blks : BlockPeers(w, IndexedPeers(w)) = {}} = blks \ getWantBlocks
  BY WantedIsGetWants, BlockCountIsGetWantBlocks
<1>13. /\ Cardinality(getWants \cup sent) = Cardinality(getWants) + Cardinality(sent \ getWants)
       /\ Cardinality(getWantBlocks \cup blks)
             = Cardinality(getWantBlocks) + Cardinality(blks \ getWantBlocks)
  BY <1>2, GettersType, CardinalityAdd
<1>14. GaugesExact'
  BY <1>1, <1>11, <1>12, <1>13 DEF GaugesExact
<1>15. Cardinality(sent \ getWants) \in Int /\ Cardinality(blks \ getWantBlocks) \in Int
  BY <1>2, FiniteWants, SMT
<1>16. TypeOK'
  <2>1. wantGauge' \in Int /\ wantBlockGauge' \in Int
    <3>1. /\ wantGauge' = wantGauge + Cardinality(sent \ getWants)
          /\ wantBlockGauge' = wantBlockGauge + Cardinality(blks \ getWantBlocks)
      BY <1>1, <1>12
    <3>. QED  BY <3>1, <1>15, SMT DEF TypeOK
  <2>2. DOMAIN wantPeers' \subseteq Wants /\ \A w \in DOMAIN wantPeers' : wantPeers'[w] \in SUBSET Peers
    BY <1>2, <1>6, SMT DEF TypeOK, IndexedPeers
  <2>. QED  BY <1>1, <1>3, <1>10, <2>1, <2>2 DEF TypeOK, Tracked
<1>. QED  BY <1>8, <1>9, <1>10, <1>14, <1>16

\* Disconnecting a peer: the gauges drop by the wants that nobody else has.
LEMMA removePeerIInv ==
    ASSUME IInv, NEW p \in Peers, removePeer(p)
    PROVE  IInv'
<1> USE DEF IInv
<1> DEFINE blocks == peerWants[p].wantBlocks
           haves == peerWants[p].wantHaves
           Rest(w) == IndexedPeers(w) \ {p}
           goneBlocks == {w \in blocks : ~wanted(w, Rest(w))}
           goneHaves == {w \in haves : ~wanted(w, Rest(w))}
           lastBlocks == {w \in blocks : BlockPeers(w, Rest(w)) = {}}
<1>1. /\ p \in Tracked
      /\ UNCHANGED broadcastWants
      /\ wantBlockGauge' = wantBlockGauge - Cardinality(lastBlocks)
      /\ wantGauge' = wantGauge - Cardinality(goneBlocks) - Cardinality(goneHaves)
      /\ wantPeers' = reverseIndexRemove(Targeted(p), p)
      /\ peerWants' = [q \in Tracked \ {p} |-> peerWants[q]]
      /\ queue' = [q \in Tracked \ {p} |-> queue[q]]
  BY DEF removePeer, Targeted
<1>2. /\ Tracked' = Tracked \ {p} /\ DOMAIN queue' = Tracked'
      /\ \A q \in Tracked' : peerWants'[q] = peerWants[q] /\ queue'[q] = queue[q]
  BY <1>1 DEF Tracked
<1>3. \A q \in Tracked' : Targeted(q)' = Targeted(q)
  BY <1>2 DEF Targeted
<1>4. \A w : Rest(w) = {q \in Tracked' : w \in Targeted(q)}
  BY <1>2 DEF ReverseIndexExact, IndexedPeers
<1>5. /\ DOMAIN wantPeers' = {w \in DOMAIN wantPeers : Rest(w) # {}}
      /\ \A w \in DOMAIN wantPeers' : wantPeers'[w] = Rest(w)
  <2>1. \A w \in DOMAIN wantPeers : IndexedPeers(w) = wantPeers[w]
    BY DEF IndexedPeers
  <2>2. \A w \in DOMAIN wantPeers \ Targeted(p) : wantPeers[w] \ {p} = wantPeers[w] /\ wantPeers[w] # {}
    BY DEF ReverseIndexExact
  <2>. QED  BY <1>1, <2>1, <2>2 DEF reverseIndexRemove
<1>6. ReverseIndexExact'
  <2>1. ASSUME NEW w \in DOMAIN wantPeers'
        PROVE  wantPeers'[w] # {} /\ wantPeers'[w] = {q \in Tracked' : w \in Targeted(q)'}
    BY <1>3, <1>4, <1>5, SMT
  <2>2. ASSUME NEW q \in Tracked' PROVE Targeted(q)' \subseteq DOMAIN wantPeers'
    BY <1>2, <1>3, <1>4, <1>5, SMT DEF ReverseIndexExact
  <2>. QED  BY <2>1, <2>2 DEF ReverseIndexExact
<1>7. BlocksHavesDisjoint'
  BY <1>2 DEF BlocksHavesDisjoint
<1>8. QueuesMatchWants'
  BY <1>1, <1>2, <1>3 DEF QueuesMatchWants, QueueMatches
<1>9. /\ blocks \in SUBSET Wants /\ haves \in SUBSET Wants /\ blocks \cap haves = {}
      /\ Targeted(p) = blocks \cup haves
  BY <1>1 DEF TypeOK, Tracked, PeerWant, BlocksHavesDisjoint, Targeted
<1>10. \A w : wanted(w, Rest(w)) <=> w \in broadcastWants \/ Rest(w) # {}
  BY <1>2, <1>4 DEF wanted, BlockPeers, HavePeers, Targeted
<1>11. \A w : BlockPeers(w, Rest(w)) = {q \in Tracked' : w \in peerWants[q].wantBlocks}
  BY <1>2, <1>4, SMT DEF BlockPeers, Targeted
<1>12. getWants' = getWants \ (goneBlocks \cup goneHaves)
  <2>1. \A w \in DOMAIN wantPeers \ (blocks \cup haves) : Rest(w) # {}
    BY <1>9, SMT DEF ReverseIndexExact, IndexedPeers
  <2>. QED  BY <1>1, <1>5, <1>9, <1>10, <2>1 DEF getWants
<1>13. getWantBlocks' = getWantBlocks \ lastBlocks
  <2>1. getWantBlocks' = UNION {peerWants[q].wantBlocks : q \in Tracked'}
    BY <1>2 DEF getWantBlocks
  <2>2. \A w : w \in getWantBlocks' <=> \E q \in Tracked' : w \in peerWants[q].wantBlocks
    BY <2>1
  <2>3. \A w : w \in getWantBlocks <=> \E q \in Tracked : w \in peerWants[q].wantBlocks
    BY DEF getWantBlocks
  <2>4. \A w : w \in lastBlocks <=>
                  w \in peerWants[p].wantBlocks /\ ~\E q \in Tracked' : w \in peerWants[q].wantBlocks
    BY <1>11
  <2>5. \A w : w \in getWantBlocks' <=> w \in getWantBlocks /\ w \notin lastBlocks
    BY <2>2, <2>3, <2>4, <1>1, <1>2
  <2>. QED  BY <2>5
<1>14. goneBlocks \cup goneHaves \subseteq getWants /\ lastBlocks \subseteq getWantBlocks
  BY <1>1, <1>9 DEF getWants, getWantBlocks, ReverseIndexExact
<1>15. goneBlocks \in SUBSET Wants /\ goneHaves \in SUBSET Wants /\ goneBlocks \cap goneHaves = {}
       /\ lastBlocks \in SUBSET Wants
  BY <1>9
<1> HIDE DEF goneBlocks, goneHaves, lastBlocks
<1>16. /\ Cardinality(goneBlocks) \in Int /\ Cardinality(goneHaves) \in Int
       /\ Cardinality(lastBlocks) \in Int
       /\ Cardinality(getWants) \in Int /\ Cardinality(getWantBlocks) \in Int
  BY <1>15, FiniteWants, GettersType, SMT
<1>17. Cardinality(goneBlocks \cup goneHaves) = Cardinality(goneBlocks) + Cardinality(goneHaves)
  <2>1. goneHaves \ goneBlocks = goneHaves
    BY <1>15
  <2>. QED  BY <1>15, <2>1, CardinalityAdd
<1>18. /\ Cardinality(getWants \ (goneBlocks \cup goneHaves))
             = Cardinality(getWants) - Cardinality(goneBlocks \cup goneHaves)
       /\ Cardinality(getWantBlocks \ lastBlocks)
             = Cardinality(getWantBlocks) - Cardinality(lastBlocks)
  BY <1>14, GettersType, CardinalityRemove
<1>19. GaugesExact'
  BY <1>1, <1>12, <1>13, <1>16, <1>17, <1>18, SMT DEF GaugesExact
<1>20. TypeOK'
  <2>1. wantGauge' \in Int /\ wantBlockGauge' \in Int
    BY <1>1, <1>16, SMT DEF TypeOK
  <2>2. DOMAIN wantPeers' \subseteq Wants /\ \A w \in DOMAIN wantPeers' : wantPeers'[w] \in SUBSET Peers
    BY <1>5 DEF TypeOK, IndexedPeers
  <2>. QED  BY <1>1, <1>2, <2>1, <2>2 DEF TypeOK, Tracked
<1>. QED  BY <1>6, <1>7, <1>8, <1>19, <1>20

\* Cancelling: every peer that was asked for a key is among those told.
LEMMA sendCancelsIInv ==
    ASSUME IInv, NEW ks \in SUBSET Wants, sendCancels(ks)
    PROVE  IInv'
<1> USE DEF IInv
<1> DEFINE bc == ks \cap broadcastWants
           told == IF bc # {} THEN Tracked
                          ELSE (UNION {IndexedPeers(w) : w \in ks}) \cap Tracked
           dropped(p) == bc \cup (ks \cap Targeted(p))
           NewWants(p) == [wantBlocks |-> peerWants[p].wantBlocks \ ks,
                           wantHaves  |-> peerWants[p].wantHaves \ ks]
<1>1. /\ peerWants' = [p \in Tracked |-> IF p \in told THEN NewWants(p) ELSE peerWants[p]]
      /\ queue' = [p \in Tracked |->
             IF p \in told THEN AddCancels(queue[p], dropped(p)) ELSE queue[p]]
      /\ wantBlockGauge' = wantBlockGauge
             - Cardinality({w \in ks : BlockPeers(w, IndexedPeers(w)) # {}})
      /\ wantGauge' = wantGauge - Cardinality({w \in ks : wanted(w, IndexedPeers(w))})
      /\ broadcastWants' = broadcastWants \ bc
      /\ wantPeers' = [w \in DOMAIN wantPeers \ ks |-> wantPeers[w]]
  BY DEF sendCancels, cancelPeers, toCancel
<1>2. Tracked' = Tracked /\ DOMAIN queue' = Tracked /\ broadcastWants' = broadcastWants \ ks
  BY <1>1 DEF Tracked
<1>3. \A p \in Tracked \ told : ks \cap Targeted(p) = {} /\ bc = {}
  BY DEF ReverseIndexExact, IndexedPeers
<1>4. \A p \in Tracked : /\ peerWants'[p].wantBlocks = peerWants[p].wantBlocks \ ks
                         /\ peerWants'[p].wantHaves = peerWants[p].wantHaves \ ks
                         /\ peerWants'[p] \in PeerWant
  <2>1. ASSUME NEW p \in Tracked \cap told
        PROVE  /\ peerWants'[p].wantBlocks = peerWants[p].wantBlocks \ ks
               /\ peerWants'[p].wantHaves = peerWants[p].wantHaves \ ks
               /\ peerWants'[p] \in PeerWant
    <3>1. peerWants'[p] = NewWants(p)
      BY <1>1
    <3>2. peerWants[p] \in PeerWant
      BY DEF TypeOK, Tracked
    <3>. QED  BY <3>1, <3>2, SMT DEF PeerWant
  <2>2. ASSUME NEW p \in Tracked \ told
        PROVE  /\ peerWants'[p].wantBlocks = peerWants[p].wantBlocks \ ks
               /\ peerWants'[p].wantHaves = peerWants[p].wantHaves \ ks
               /\ peerWants'[p] \in PeerWant
    <3>1. peerWants'[p] = peerWants[p]
      BY <1>1
    <3>2. peerWants[p] \in PeerWant
      BY DEF TypeOK, Tracked
    <3>. QED  BY <3>1, <3>2, <1>3 DEF Targeted
  <2>. QED  BY <2>1, <2>2
<1>5. \A p \in Tracked : Targeted(p)' = Targeted(p) \ ks
  BY <1>4 DEF Targeted
<1>6. ReverseIndexExact'
  <2>1. ASSUME NEW w \in DOMAIN wantPeers'
        PROVE  wantPeers'[w] # {} /\ wantPeers'[w] = {q \in Tracked : w \in Targeted(q)'}
    BY <1>1, <1>5, SMT DEF ReverseIndexExact
  <2>2. ASSUME NEW q \in Tracked PROVE Targeted(q)' \subseteq DOMAIN wantPeers'
    BY <1>1, <1>5 DEF ReverseIndexExact
  <2>. QED  BY <2>1, <2>2, <1>2 DEF ReverseIndexExact
<1>7. BlocksHavesDisjoint'
  BY <1>2, <1>4 DEF BlocksHavesDisjoint
<1>8. ASSUME NEW p \in Tracked PROVE QueueMatches(p)' /\ queue'[p] \in PeerQueue
  <2>1. QueueMatches(p) /\ queue[p] \in PeerQueue
    BY DEF QueuesMatchWants, TypeOK, Tracked
  <2>2. /\ queue'[p].bcst = queue[p].bcst \ ks
        /\ queue'[p].blocks = queue[p].blocks \ ks
        /\ queue'[p].haves = queue[p].haves \ ks
        /\ queue'[p] \in PeerQueue
    <3>1. queue[p].bcst \cup queue[p].blocks \cup queue[p].haves = broadcastWants \cup Targeted(p)
      BY <2>1 DEF QueueMatches
    <3>2. CASE p \in told
      <4>1. queue'[p] = AddCancels(queue[p], dropped(p))
        BY <1>1, <3>2
      <4>. QED  BY <2>1, <3>1, <4>1, SMT DEF AddCancels, PeerQueue
    <3>3. CASE p \notin told
      <4>1. queue'[p] = queue[p] /\ ks \cap (broadcastWants \cup Targeted(p)) = {}
        BY <1>1, <1>3, <3>3
      <4>. QED  BY <2>1, <3>1, <4>1
    <3>. QED  BY <3>2, <3>3
  <2>. QED  BY <1>2, <1>4, <1>5, <2>1, <2>2 DEF QueueMatches
<1>9. QueuesMatchWants'
  BY <1>2, <1>8 DEF QueuesMatchWants
<1>10. getWants' = getWants \ (ks \cap getWants)
  BY <1>1, <1>2 DEF getWants
<1>11. getWantBlocks' = getWantBlocks \ (ks \cap getWantBlocks)
  BY <1>2, <1>4, SMT DEF getWantBlocks
<1>12. /\ {w \in ks : wanted(w, IndexedPeers(w))} = ks \cap getWants
       /\ {w \in ks : BlockPeers(w, IndexedPeers(w)) # {}} = ks \cap getWantBlocks
  BY WantedIsGetWants, BlockCountIsGetWantBlocks
<1>13. /\ Cardinality(getWants \ (ks \cap getWants))
             = Cardinality(getWants) - Cardinality(ks \cap getWants)
       /\ Cardinality(getWantBlocks \ (ks \cap getWantBlocks))
             = Cardinality(getWantBlocks) - Cardinality(ks \cap getWantBlocks)
  BY GettersType, CardinalityRemove
<1>14. /\ wantGauge' = wantGauge - Cardinality(ks \cap getWants)
       /\ wantBlockGauge' = wantBlockGauge - Cardinality(ks \cap getWantBlocks)
  BY <1>1, <1>12
<1>15. GaugesExact'
  BY <1>10, <1>11, <1>13, <1>14 DEF GaugesExact
<1>16. TypeOK'
  <2>1. Cardinality(ks \cap getWants) \in Int /\ Cardinality(ks \cap getWantBlocks) \in Int
    BY FiniteWants, SMT
  <2>2. wantGauge' \in Int /\ wantBlockGauge' \in Int
    BY <1>14, <2>1, SMT DEF TypeOK
  <2>. QED  BY <1>1, <1>2, <1>4, <1>8, <2>2 DEF TypeOK, Tracked
<1>. QED  BY <1>6, <1>7, <1>9, <1>15, <1>16

-----------------------------------------------------------------------------
\* Every operation of the manager preserves the inductive invariant.
LEMMA NextIInv == IInv /\ [Next]_vars => IInv'
<1>1. ASSUME IInv, Next PROVE IInv'
  BY <1>1, addPeerIInv, removePeerIInv, broadcastWantHavesIInv, sendWantsIInv, sendCancelsIInv
     DEF Next
<1>2. ASSUME IInv, UNCHANGED vars PROVE IInv'
  BY <1>2, SMT DEF vars, IInv, TypeOK, ReverseIndexExact, BlocksHavesDisjoint, GaugesExact,
     QueuesMatchWants, QueueMatches, Tracked, Targeted, getWants, getWantBlocks
<1>. QED  BY <1>1, <1>2

\* The conjunction of the invariants holds in every reachable state of the
\* manager, whatever the peers and the (finitely many) wants.
THEOREM InductiveInvariant == Spec => []IInv
BY InitIInv, NextIInv, PTL DEF Spec

\* peerWants, the index, the gauges and the queues keep their types.
THEOREM TypeCorrect == Spec => []TypeOK
<1>1. IInv => TypeOK
  BY DEF IInv
<1>. QED  BY <1>1, InductiveInvariant, PTL

\* The reverse index of peerWantManager is exact: a cancel or a disconnect
\* that walks it misses no peer and meets no unknown one.
THEOREM ReverseIndexCorrect == Spec => []ReverseIndexExact
<1>1. IInv => ReverseIndexExact
  BY DEF IInv
<1>. QED  BY <1>1, InductiveInvariant, PTL

\* The wantlist gauges never drift from the wantlists they describe.
THEOREM GaugesCorrect == Spec => []GaugesExact
<1>1. IInv => GaugesExact
  BY DEF IInv
<1>. QED  BY <1>1, InductiveInvariant, PTL

\* Every connected peer's queue was asked for exactly the union of the
\* broadcast wants and the wants recorded for the peer.
THEOREM QueuesCorrect == Spec => []QueuesMatchWants
<1>1. IInv => QueuesMatchWants
  BY DEF IInv
<1>. QED  BY <1>1, InductiveInvariant, PTL

-----------------------------------------------------------------------------
(* Refinement: each operation of the manager is the operation of           *)
(* PeerWantSpec with the same arguments, seen through queueLevel.          *)

\* A connecting peer starts from the broadcast wants.
LEMMA addPeerRefines ==
    ASSUME IInv, NEW p \in Peers, addPeer(p)
    PROVE  Promise!Connect(p)
<1>1. /\ p \notin Tracked /\ DOMAIN queue = Tracked /\ UNCHANGED broadcastWants
      /\ DOMAIN queue' = Tracked \cup {p}
      /\ queue'[p] = AddBroadcastWantHaves(newQueue, broadcastWants)
      /\ \A q \in Tracked : queue'[q] = queue[q]
  BY DEF IInv, TypeOK, addPeer, Tracked
<1>2. \A w \in Wants : levelIn(queue'[p], w) = IF w \in broadcastWants THEN "have" ELSE "none"
  BY <1>1, SMT DEF levelIn, AddBroadcastWantHaves, newQueue
<1>3. queueLevel' = [q \in Tracked \cup {p} |->
          IF q = p THEN [w \in Wants |-> IF w \in broadcastWants THEN "have" ELSE "none"]
          ELSE queueLevel[q]]
  BY <1>1, <1>2, SMT DEF queueLevel
<1>4. DOMAIN queueLevel = Tracked
  BY <1>1 DEF queueLevel
<1>. QED  BY <1>1, <1>3, <1>4 DEF Promise!Connect

\* A disconnect takes away the levels of the peer and no other.
LEMMA removePeerRefines ==
    ASSUME IInv, NEW p \in Peers, removePeer(p)
    PROVE  Promise!Disconnect(p)
<1>1. /\ DOMAIN queue = Tracked /\ UNCHANGED broadcastWants
      /\ queue' = [q \in Tracked \ {p} |-> queue[q]]
  BY DEF IInv, TypeOK, removePeer, Tracked
<1>2. queueLevel' = [q \in Tracked \ {p} |-> queueLevel[q]]
  BY <1>1 DEF queueLevel
<1>3. DOMAIN queueLevel = Tracked
  BY <1>1 DEF queueLevel
<1>. QED  BY <1>1, <1>2, <1>3 DEF Promise!Disconnect

\* Skipping the wants a peer already has does not change its levels.
LEMMA broadcastWantHavesRefines ==
    ASSUME IInv, NEW ws \in SUBSET Wants, broadcastWantHaves(ws)
    PROVE  Promise!Broadcast(ws)
<1> DEFINE unsent == ws \ broadcastWants
<1>1. /\ DOMAIN queue = Tracked /\ broadcastWants' = broadcastWants \cup ws
      /\ queue' = [p \in Tracked |-> AddBroadcastWantHaves(queue[p], unsent \ Targeted(p))]
  BY DEF IInv, TypeOK, broadcastWantHaves, peerUnsent, Tracked
<1>2. ASSUME NEW p \in Tracked, NEW w \in Wants
      PROVE  levelIn(queue'[p], w)
                = IF w \in ws /\ levelIn(queue[p], w) = "none" THEN "have"
                  ELSE levelIn(queue[p], w)
  <2>1. queue[p].bcst \cup queue[p].blocks \cup queue[p].haves = broadcastWants \cup Targeted(p)
    BY DEF IInv, QueuesMatchWants, QueueMatches
  <2>2. /\ queue'[p].bcst = queue[p].bcst \cup (unsent \ Targeted(p))
        /\ queue'[p].blocks = queue[p].blocks /\ queue'[p].haves = queue[p].haves
    BY <1>1 DEF AddBroadcastWantHaves
  <2>. QED  BY <2>1, <2>2 DEF levelIn
<1>3. /\ DOMAIN queueLevel = Tracked
      /\ \A p \in Tracked, w \in Wants : queueLevel[p][w] = levelIn(queue[p], w)
  BY <1>1 DEF queueLevel
<1>4. queueLevel' = [p \in Tracked |-> [w \in Wants |-> levelIn(queue'[p], w)]]
  BY <1>1 DEF queueLevel
<1>5. queueLevel' = [p \in Tracked |-> [w \in Wants |->
          IF w \in ws /\ queueLevel[p][w] = "none" THEN "have" ELSE queueLevel[p][w]]]
  BY <1>2, <1>3, <1>4, SMT
<1>. QED  BY <1>1, <1>3, <1>5 DEF Promise!Broadcast

\* Filtering the wants already sent does not change what the peer is asked.
LEMMA sendWantsRefines ==
    ASSUME IInv, NEW p \in Peers, NEW bs \in SUBSET Wants, NEW hs \in SUBSET Wants,
           sendWants(p, bs, hs)
    PROVE  Promise!Send(p, bs, hs)
<1> DEFINE fltBs == bs \ peerWants[p].wantBlocks
           fltHs == hs \ (broadcastWants \cup Targeted(p) \cup fltBs)
<1>1. /\ DOMAIN queue = Tracked /\ UNCHANGED broadcastWants /\ p \in Tracked
      /\ queue' = [queue EXCEPT ![p] = AddWants(queue[p], fltBs, fltHs)]
  BY DEF IInv, TypeOK, sendWants, fltWantBlks, fltWantHvs, Tracked
<1>2. /\ queue'[p] = AddWants(queue[p], fltBs, fltHs)
      /\ DOMAIN queue' = Tracked
      /\ \A q \in Tracked \ {p} : queue'[q] = queue[q]
  BY <1>1
<1>3. ASSUME NEW w \in Wants
      PROVE  levelIn(queue'[p], w)
                = IF w \in bs THEN "block"
                  ELSE IF w \in hs /\ levelIn(queue[p], w) = "none" THEN "have"
                  ELSE levelIn(queue[p], w)
  <2>1. /\ queue[p].bcst \cup queue[p].blocks \cup queue[p].haves = broadcastWants \cup Targeted(p)
        /\ queue[p].blocks = peerWants[p].wantBlocks
    BY <1>1 DEF IInv, QueuesMatchWants, QueueMatches
  <2>2. /\ queue'[p].bcst = queue[p].bcst
        /\ queue'[p].blocks = queue[p].blocks \cup fltBs
        /\ queue'[p].haves = (queue[p].haves \cup (fltHs \ queue[p].blocks)) \ fltBs
    BY <1>2, SMT DEF AddWants
  <2>. QED  BY <2>1, <2>2 DEF levelIn
<1>4. /\ DOMAIN queueLevel = Tracked
      /\ \A q \in Tracked, w \in Wants : queueLevel[q][w] = levelIn(queue[q], w)
  BY <1>1 DEF queueLevel
<1>5. queueLevel' = [q \in Tracked |-> [w \in Wants |-> levelIn(queue'[q], w)]]
  BY <1>2 DEF queueLevel
<1>6. queueLevel' = [q \in Tracked |-> [w \in Wants |->
          IF q = p /\ w \in bs THEN "block"
          ELSE IF q = p /\ w \in hs /\ queueLevel[q][w] = "none" THEN "have"
          ELSE queueLevel[q][w]]]
  <2>1. ASSUME NEW q \in Tracked, NEW w \in Wants
        PROVE  levelIn(queue'[q], w) =
                  IF q = p /\ w \in bs THEN "block"
                  ELSE IF q = p /\ w \in hs /\ queueLevel[q][w] = "none" THEN "have"
                  ELSE queueLevel[q][w]
    <3>1. CASE q = p
      BY <3>1, <1>3, <1>4
    <3>2. CASE q # p
      BY <3>2, <1>2, <1>4
    <3>. QED  BY <3>1, <3>2
  <2>. QED  BY <1>5, <2>1
<1>. QED  BY <1>1, <1>4, <1>6 DEF Promise!Send

\* Telling only the peers that the index names withdraws the keys everywhere.
LEMMA sendCancelsRefines ==
    ASSUME IInv, NEW ks \in SUBSET Wants, sendCancels(ks)
    PROVE  Promise!Cancel(ks)
<1> DEFINE bc == ks \cap broadcastWants
           told == IF bc # {} THEN Tracked
                          ELSE (UNION {IndexedPeers(w) : w \in ks}) \cap Tracked
           dropped(p) == bc \cup (ks \cap Targeted(p))
<1>1. /\ DOMAIN queue = Tracked /\ broadcastWants' = broadcastWants \ ks
      /\ queue' = [p \in Tracked |->
             IF p \in told THEN AddCancels(queue[p], dropped(p)) ELSE queue[p]]
  BY DEF IInv, TypeOK, sendCancels, cancelPeers, toCancel, Tracked
<1>2. \A p \in Tracked \ told : ks \cap Targeted(p) = {} /\ bc = {}
  BY DEF IInv, ReverseIndexExact, IndexedPeers
<1>3. ASSUME NEW p \in Tracked, NEW w \in Wants
      PROVE  levelIn(queue'[p], w) = IF w \in ks THEN "none" ELSE levelIn(queue[p], w)
  <2>1. queue[p].bcst \cup queue[p].blocks \cup queue[p].haves = broadcastWants \cup Targeted(p)
    BY DEF IInv, QueuesMatchWants, QueueMatches
  <2>2. CASE p \in told
    <3>1. queue'[p] = AddCancels(queue[p], dropped(p))
      BY <1>1, <2>2
    <3>. QED  BY <2>1, <3>1, SMT DEF levelIn, AddCancels
  <2>3. CASE p \notin told
    <3>1. queue'[p] = queue[p] /\ ks \cap (broadcastWants \cup Targeted(p)) = {}
      BY <1>1, <1>2, <2>3
    <3>. QED  BY <2>1, <3>1 DEF levelIn
  <2>. QED  BY <2>2, <2>3
<1>4. /\ DOMAIN queueLevel = Tracked
      /\ \A q \in Tracked, w \in Wants : queueLevel[q][w] = levelIn(queue[q], w)
      /\ queueLevel' = [p \in Tracked |-> [w \in Wants |-> levelIn(queue'[p], w)]]
  BY <1>1 DEF queueLevel
<1>5. queueLevel' = [p \in Tracked |-> [w \in Wants |->
          IF w \in ks THEN "none" ELSE queueLevel[p][w]]]
  BY <1>3, <1>4, SMT
<1>. QED  BY <1>1, <1>4, <1>5 DEF Promise!Cancel

\* The manager implements PeerWantSpec: for any set of peers and any finite
\* set of wants, the duplicate filters, the reverse index and the targeted
\* cancels never change what each peer's queue is asked for.
THEOREM Refinement == Spec => RefinesPeerWantSpec
<1>1. Init => Promise!Init
  BY DEF Init, newPeerWantManager, Promise!Init, queueLevel
<1>2. ASSUME IInv, [Next]_vars
      PROVE  [Promise!Next]_<<broadcastWants, queueLevel>>
  <2>1. ASSUME NEW p \in Peers, addPeer(p) PROVE Promise!Next
    BY <1>2, <2>1, addPeerRefines DEF Promise!Next
  <2>2. ASSUME NEW p \in Peers, removePeer(p) PROVE Promise!Next
    BY <1>2, <2>2, removePeerRefines DEF Promise!Next
  <2>3. ASSUME NEW ws \in SUBSET Wants, broadcastWantHaves(ws) PROVE Promise!Next
    BY <1>2, <2>3, broadcastWantHavesRefines DEF Promise!Next
  <2>4. ASSUME NEW p \in Peers, NEW bs \in SUBSET Wants, NEW hs \in SUBSET Wants,
               sendWants(p, bs, hs)
        PROVE  Promise!Next
    BY <1>2, <2>4, sendWantsRefines DEF Promise!Next
  <2>5. ASSUME NEW ws \in SUBSET Wants, sendCancels(ws) PROVE Promise!Next
    BY <1>2, <2>5, sendCancelsRefines DEF Promise!Next
  <2>6. CASE UNCHANGED vars
    BY <2>6 DEF vars, queueLevel
  <2>. QED  BY <1>2, <2>1, <2>2, <2>3, <2>4, <2>5, <2>6 DEF Next
<1>. QED  BY <1>1, <1>2, InductiveInvariant, PTL DEF Spec, RefinesPeerWantSpec, Promise!Spec

\* What passes the filters is new to the queue, and what is cancelled was asked
\* of it: the queue holds exactly the broadcast and the targeted wants.
LEMMA FilteredCallsAllowed ==
    ASSUME IInv
    PROVE  CallsAllowed
<1> SUFFICES ASSUME NEW p \in Tracked, NEW ws \in SUBSET Wants, NEW hs \in SUBSET Wants
             PROVE  /\ Client(p)!MayBroadcast(peerUnsent(p, ws))
                    /\ Client(p)!MayCancel(toCancel(p, ws))
                    /\ Client(p)!MayAsk(fltWantBlks(p, ws), fltWantHvs(p, ws, hs))
  BY DEF CallsAllowed
<1>1. /\ queue[p].bcst \subseteq Wants /\ queue[p].blocks \subseteq Wants
      /\ queue[p].haves \subseteq Wants
  <2>1. queue[p] \in PeerQueue
    BY DEF IInv, TypeOK, Tracked
  <2>. QED  BY <2>1, SMT DEF PeerQueue
<1>2. \A w \in Wants : levels(queue[p])[w] =
         IF w \in queue[p].blocks THEN "block" ELSE IF w \in queue[p].haves THEN "have" ELSE "none"
  BY DEF levels
<1>3. Client(p)!In(levels(queue[p])) = queue[p].blocks \cup queue[p].haves
  BY <1>1, <1>2, SMT DEF Client!In
<1>4. Client(p)!AskedAny = broadcastWants \cup Targeted(p)
  BY <1>3, SMT DEF Client!AskedAny, IInv, QueuesMatchWants, QueueMatches
<1>5. \A w \in Wants : levels(queue[p])[w] = "block" <=> w \in peerWants[p].wantBlocks
  BY <1>2, SMT DEF IInv, QueuesMatchWants, QueueMatches
<1>6. Client(p)!MayBroadcast(peerUnsent(p, ws)) /\ Client(p)!MayCancel(toCancel(p, ws))
  BY <1>4 DEF Client!MayBroadcast, Client!MayCancel, peerUnsent, toCancel
<1>7. Client(p)!MayAsk(fltWantBlks(p, ws), fltWantHvs(p, ws, hs))
  BY <1>4, <1>5 DEF Client!MayAsk, fltWantBlks, fltWantHvs
<1>. QED  BY <1>6, <1>7

\* For any set of peers and any finite set of wants, no call asks a queue again
\* for what it was asked or cancels at a queue what it was not asked.
THEOREM CallsAllowedCorrect == Spec => []CallsAllowed
BY FilteredCallsAllowed, InductiveInvariant, PTL

-----------------------------------------------------------------------------
(* The PeerManager as a whole.                                             *)

\* The peers of the two parts are the same, and only registered queues are
\* open.
InStep ==
    /\ Tracked = DOMAIN peerQueues
    /\ ctxOpen \subseteq {peerQueues[p] : p \in DOMAIN peerQueues}

PInv == CIInv /\ IInv /\ InStep

\* What a step does to peers, queues and wants: nothing, ...
Quiet == UNCHANGED <<peerQueues, pwmQueues, ctxOpen, owner, vars>>

\* ... a peer gets an unused queue, ...
Joins(p, q) ==
    /\ p \notin DOMAIN peerQueues /\ Unused(q)
    /\ peerQueues' = With(peerQueues, p, q) /\ pwmQueues' = peerQueues'
    /\ ctxOpen' = ctxOpen \cup {q}
    /\ owner' = [owner EXCEPT ![q] = p]
    /\ addPeer(p)

\* ... a peer loses its queue, ...
Leaves(p) ==
    /\ p \in DOMAIN peerQueues
    /\ peerQueues' = Without(peerQueues, p) /\ pwmQueues' = peerQueues'
    /\ ctxOpen' = ctxOpen \ {peerQueues[p]}
    /\ UNCHANGED owner
    /\ removePeer(p)

\* ... or a session calls.
SessionCalls ==
    \/ \E ws \in SUBSET Wants : broadcastWantHaves(ws) \/ sendCancels(ws)
    \/ \E p \in Peers, bs \in SUBSET Wants, hs \in SUBSET Wants : sendWants(p, bs, hs)

Kinds ==
    \/ Quiet
    \/ \E p \in Peers, q \in Queues : Joins(p, q)
    \/ \E p \in Peers : Leaves(p)
    \/ UNCHANGED connVars /\ SessionCalls

\* A connection event in which the peer of the event may join.
LEMMA ConnectKinds ==
    ASSUME PInv, ConnsInv', NEW p \in Peers, ListenerConnects(p), WantsFollowConnect(p)
    PROVE  Kinds
<1>1. CASE balance'[p] > balance[p]
  <2>1. p \notin DOMAIN peerQueues /\ pwmQueues = peerQueues /\ p \notin Tracked
    BY <1>1, EventFacts DEF PInv, CIInv, QueuesFollowConnections, InStep
  <2>2. PICK q \in Queues :
          /\ Unused(q)
          /\ peerQueues' = With(peerQueues, p, q) /\ pwmQueues' = peerQueues'
          /\ ctxOpen' = ctxOpen \cup {q}
          /\ owner' = [owner EXCEPT ![q] = p]
    BY <1>1, <2>1 DEF ListenerConnects, PMConnected
  <2>3. addPeer(p)
    BY <1>1, <2>1 DEF WantsFollowConnect
  <2>. QED  BY <2>1, <2>2, <2>3 DEF Joins, Kinds
<1>2. CASE ~(balance'[p] > balance[p])
  BY <1>2 DEF ListenerConnects, WantsFollowConnect, pmVars, runVars, Kinds, Quiet
<1>. QED  BY <1>1, <1>2

\* A connection event in which the peer of the event may leave.
LEMMA DisconnectKinds ==
    ASSUME PInv, ConnsInv', NEW p \in Peers, ListenerDisconnects(p), WantsFollowDisconnect(p),
           UNCHANGED owner
    PROVE  Kinds
<1>1. CASE balance'[p] < balance[p]
  <2>1. p \in DOMAIN peerQueues /\ pwmQueues = peerQueues /\ p \in Tracked
    BY <1>1, EventFacts DEF PInv, CIInv, QueuesFollowConnections, InStep
  <2>2. /\ peerQueues' = Without(peerQueues, p) /\ pwmQueues' = peerQueues'
        /\ ctxOpen' = ctxOpen \ {peerQueues[p]}
    BY <1>1, <2>1 DEF ListenerDisconnects, PMDisconnected
  <2>3. removePeer(p)
    BY <1>1, <2>1 DEF WantsFollowDisconnect
  <2>. QED  BY <2>1, <2>2, <2>3 DEF Leaves, Kinds
<1>2. CASE ~(balance'[p] < balance[p])
  BY <1>2 DEF ListenerDisconnects, WantsFollowDisconnect, pmVars, Kinds, Quiet
<1>. QED  BY <1>1, <1>2

\* A goroutine of a queue that makes no event has none to follow.
LEMMA NoEvent ==
    ASSUME PInv, NEW q \in Queues, run[q] # "stopped", UNCHANGED cemVars, WantsFollowDisconnect(owner[q])
    PROVE  UNCHANGED vars
<1>1. owner[q] \in Peers
  BY DEF PInv, CIInv, Leaving
<1>2. ~(balance'[owner[q]] < balance[owner[q]])
  BY <1>1, SMT DEF cemVars, PInv, CIInv, ConnsInv, ConnsTypeOK
<1>. QED  BY <1>2 DEF WantsFollowDisconnect

\* Every step of the PeerManager is a step of each part and of a known kind.
LEMMA PMSteps ==
    ASSUME PInv, [PMNext]_allVars
    PROVE  [CNext]_connVars /\ [Next]_vars /\ Kinds
<1> USE DEF PInv
<1>1. CASE UNCHANGED allVars
  BY <1>1 DEF allVars, connVars, pmVars, runVars, Kinds, Quiet
<1>2. ASSUME NEW p \in Peers, NetConnected(p), WantsFollowConnect(p)
      PROVE  [CNext]_connVars /\ [Next]_vars /\ Kinds
  <2>1. ConnsInv'
    BY <1>2, ConnectedIInv DEF NetConnected, CIInv
  <2>2. Kinds
    BY <1>2, <2>1, ConnectKinds DEF NetConnected
  <2>. QED  BY <1>2, <2>2 DEF CNext, WantsFollowConnect, Next
<1>3. ASSUME NEW p \in Peers, NetDisconnected(p), WantsFollowDisconnect(p)
      PROVE  [CNext]_connVars /\ [Next]_vars /\ Kinds
  <2>1. ConnsInv'
    BY <1>3, DisconnectedIInv DEF NetDisconnected, CIInv
  <2>2. Kinds
    BY <1>3, <2>1, DisconnectKinds DEF NetDisconnected, runVars
  <2>. QED  BY <1>3, <2>2 DEF CNext, WantsFollowDisconnect, Next
<1>4. ASSUME NEW h \in Handlers, NEW p \in Peers, NetMessageCheck(h, p), UNCHANGED vars
      PROVE  [CNext]_connVars /\ [Next]_vars /\ Kinds
  BY <1>4 DEF CNext, NetMessageCheck, pmVars, runVars, Kinds, Quiet
<1>5. ASSUME NEW h \in Handlers, NetMessageUpdate(h), WantsFollowConnect(handler[h])
      PROVE  [CNext]_connVars /\ [Next]_vars /\ Kinds
  <2>1. ConnsInv'
    BY <1>5, OnMessageUpdateIInv DEF NetMessageUpdate, CIInv
  <2>2. handler[h] \in Peers
    BY <1>5 DEF NetMessageUpdate, OnMessageUpdate, CIInv, ConnsInv, ConnsTypeOK
  <2>3. Kinds
    BY <1>5, <2>1, <2>2, ConnectKinds DEF NetMessageUpdate
  <2>. QED  BY <1>5, <2>2, <2>3 DEF CNext, WantsFollowConnect, Next
<1>6. ASSUME NEW q \in Queues, markUnresponsive(q), WantsFollowDisconnect(owner[q])
      PROVE  [CNext]_connVars /\ [Next]_vars /\ Kinds
  <2>1. owner[q] \in Peers
    BY <1>6 DEF markUnresponsive, CIInv, Leaving
  <2>2. ConnsInv'
    BY <1>6, <2>1, MarkUnresponsiveIInv DEF markUnresponsive, CIInv
  <2>3. Kinds
    BY <1>6, <2>1, <2>2, DisconnectKinds DEF markUnresponsive
  <2>. QED  BY <1>6, <2>1, <2>3 DEF CNext, RunQueue, WantsFollowDisconnect, Next
<1>7. ASSUME NEW q \in Queues, sendMessage(q), UNCHANGED vars
      PROVE  [CNext]_connVars /\ [Next]_vars /\ Kinds
  BY <1>7 DEF CNext, sendMessage, pmVars, Kinds, Quiet
<1>8. ASSUME NEW q \in Queues, attemptSucceeds(q) \/ attemptFails(q) \/ afterFailure(q) \/ backoff(q) \/ exitRunQueue(q),
             WantsFollowDisconnect(owner[q])
      PROVE  [CNext]_connVars /\ [Next]_vars /\ Kinds
  <2>1. run[q] # "stopped" /\ UNCHANGED <<cemVars, pmVars, owner>>
    BY <1>8 DEF attemptSucceeds, attemptFails, afterFailure, backoff, exitRunQueue
  <2>2. UNCHANGED vars
    BY <1>8, <2>1, NoEvent
  <2>. QED  BY <1>8, <2>1, <2>2 DEF CNext, RunQueue, pmVars, Kinds, Quiet
<1>9. ASSUME NEW q \in Queues, shutdownAfterError(q), WantsFollowDisconnect(owner[q])
      PROVE  [CNext]_connVars /\ [Next]_vars /\ Kinds
  <2>1. run[q] # "stopped" /\ UNCHANGED <<cemVars, peerQueues, pwmQueues, owner>> /\ ctxOpen' = ctxOpen \ {q}
    BY <1>9 DEF shutdownAfterError
  <2>2. UNCHANGED vars
    BY <1>9, <2>1, NoEvent
  <2>3. q \notin ctxOpen
    BY <1>9 DEF shutdownAfterError, CIInv, Leaving, InStep
  <2>4. ctxOpen' = ctxOpen
    BY <2>1, <2>3
  <2>. QED  BY <1>9, <2>1, <2>2, <2>4 DEF CNext, RunQueue, Kinds, Quiet
<1>10. ASSUME UNCHANGED connVars, SessionCalls
       PROVE  [CNext]_connVars /\ [Next]_vars /\ Kinds
  BY <1>10 DEF SessionCalls, Next, Kinds
<1>11. CASE \E p \in Peers : ConnectionOpens(p) \/ ConnectionCloses(p)
  BY <1>2, <1>3, <1>11 DEF ConnectionOpens, ConnectionCloses
<1>12. CASE (\E h \in Handlers, p \in Peers : MessageArrives(h, p)) \/ \E h \in Handlers : MessageCounts(h)
  BY <1>4, <1>5, <1>12 DEF MessageArrives, MessageCounts
<1>13. CASE \E q \in Queues : QueueSends(q) \/ QueueRuns(q)
  BY <1>6, <1>7, <1>8, <1>9, <1>13 DEF QueueSends, QueueRuns, RunQueue
<1>14. CASE \/ \E ws \in SUBSET Wants : BroadcastWantHaves(ws) \/ SendCancels(ws)
            \/ \E p \in Peers, bs \in SUBSET Wants, hs \in SUBSET Wants : SendWants(p, bs, hs)
  BY <1>10, <1>14 DEF BroadcastWantHaves, SendCancels, SendWants, SessionCalls
<1>. QED  BY <1>1, <1>11, <1>12, <1>13, <1>14 DEF PMNext

\* At first there are no peers in either part.
LEMMA InitPInv == PMInit => PInv
<1> SUFFICES ASSUME PMInit PROVE PInv
  OBVIOUS
<1>1. CIInv /\ IInv
  BY CInitIInv, InitIInv DEF PMInit
<1>2. InStep
  BY DEF PMInit, CInit, Init, newPeerWantManager, InStep, Tracked
<1>. QED  BY <1>1, <1>2 DEF PInv

\* The parts stay in step.
LEMMA NextPInv == PInv /\ [PMNext]_allVars => PInv'
<1> SUFFICES ASSUME PInv, [PMNext]_allVars PROVE PInv'
  OBVIOUS
<1>1. CIInv' /\ IInv'
  BY PMSteps, CNextIInv, NextIInv DEF PInv
<1>2. ASSUME Quiet PROVE InStep'
  BY <1>2 DEF Quiet, vars, PInv, InStep, Tracked
<1>3. ASSUME NEW p \in Peers, NEW q \in Queues, Joins(p, q) PROVE InStep'
  <2>1. /\ DOMAIN peerQueues' = DOMAIN peerQueues \cup {p} /\ peerQueues'[p] = q
        /\ \A x \in DOMAIN peerQueues : peerQueues'[x] = peerQueues[x]
    BY <1>3 DEF Joins, With
  <2>2. Tracked' = Tracked \cup {p}
    BY <1>3 DEF Joins, addPeer, Tracked
  <2>3. {peerQueues'[x] : x \in DOMAIN peerQueues'} = {peerQueues[x] : x \in DOMAIN peerQueues} \cup {q}
    BY <1>3, <2>1, SMT DEF Joins
  <2>. QED  BY <1>3, <2>1, <2>2, <2>3 DEF Joins, PInv, InStep
<1>4. ASSUME NEW p \in Peers, Leaves(p) PROVE InStep'
  <2>1. /\ DOMAIN peerQueues' = DOMAIN peerQueues \ {p}
        /\ \A x \in DOMAIN peerQueues \ {p} : peerQueues'[x] = peerQueues[x]
    BY <1>4 DEF Leaves, Without
  <2>2. Tracked' = Tracked \ {p}
    BY <1>4 DEF Leaves, removePeer, Tracked
  <2>. QED  BY <1>4, <2>1, <2>2 DEF Leaves, PInv, InStep
<1>5. ASSUME UNCHANGED connVars, SessionCalls PROVE InStep'
  <2>1. UNCHANGED <<peerQueues, ctxOpen>>
    BY <1>5 DEF connVars, pmVars
  <2>2. Tracked' = Tracked
    BY <1>5 DEF SessionCalls, broadcastWantHaves, sendCancels, sendWants, Tracked
  <2>. QED  BY <2>1, <2>2 DEF PInv, InStep
<1>. QED  BY <1>1, <1>2, <1>3, <1>4, <1>5, PMSteps DEF Kinds, PInv

\* The invariant holds in every reachable state.
THEOREM PMInvariant == PMSpec => []PInv
BY InitPInv, NextPInv, PTL DEF PMSpec

\* The manager as a whole is a run of each of its parts, so what sessions see
\* of the queues is PeerWantSpec whatever the connections do.
THEOREM PartsRun == PMSpec => CInit /\ [][CNext]_connVars /\ Spec /\ RefinesPeerWantSpec
<1>1. PMInit => CInit /\ Init
  BY DEF PMInit
<1>2. PInv /\ [PMNext]_allVars => [CNext]_connVars /\ [Next]_vars
  BY PMSteps
<1>3. PMSpec => CInit /\ [][CNext]_connVars /\ Spec
  BY <1>1, <1>2, PMInvariant, PTL DEF PMSpec, Spec
<1>. QED  BY <1>3, Refinement, PTL

\* The invariants of the parts hold in the whole, where connection events add
\* and remove the peers that the sessions' calls are about.
THEOREM PartsCorrect ==
    PMSpec => []/\ EventsAlternate /\ RefsCounted
                /\ QueuesFollowConnections /\ RegisteredQueuesAlive
                /\ ReverseIndexExact /\ GaugesExact /\ QueuesMatchWants
<1>1. PInv => /\ EventsAlternate /\ RefsCounted
              /\ QueuesFollowConnections /\ RegisteredQueuesAlive
              /\ ReverseIndexExact /\ GaugesExact /\ QueuesMatchWants
  BY DEF PInv, CIInv, ConnsInv, IInv
<1>. QED  BY <1>1, PMInvariant, PTL

\* A queue that the peerWantManager feeds is open and holds what was asked for
\* its peer; any other is closed, and nothing is asked of it.
LEMMA ContentsFacts ==
    ASSUME PInv, NEW q \in Queues
    PROVE  /\ contents(q) \in PeerQueue
           /\ \A p \in Tracked : pwmQueues[p] = q => contents(q) = queue[p] /\ owner[q] = p /\ q \in ctxOpen
           /\ \/ owner[q] \in Tracked /\ pwmQueues[owner[q]] = q
              \/ q \notin Range(pwmQueues) /\ q \notin ctxOpen /\ contents(q) = newQueue
<1>1. pwmQueues = peerQueues /\ DOMAIN pwmQueues = Tracked /\ ctxOpen \subseteq Range(pwmQueues)
  BY DEF PInv, CIInv, QueuesFollowConnections, InStep, Range
<1>2. \A p \in Tracked : owner[pwmQueues[p]] = p /\ pwmQueues[p] \in ctxOpen
  BY <1>1 DEF PInv, CIInv, RegisteredQueuesAlive
<1>3. \A p \in Tracked : pwmQueues[p] = q => contents(q) = queue[p] /\ owner[q] = p /\ q \in ctxOpen
  BY <1>1, <1>2 DEF contents, Range
<1>4. \/ owner[q] \in Tracked /\ pwmQueues[owner[q]] = q
      \/ q \notin Range(pwmQueues) /\ q \notin ctxOpen /\ contents(q) = newQueue
  <2>1. CASE q \in Range(pwmQueues)
    <3>1. PICK p \in Tracked : pwmQueues[p] = q
      BY <1>1, <2>1 DEF Range
    <3>. QED  BY <1>3, <3>1
  <2>2. CASE q \notin Range(pwmQueues)
    BY <1>1, <2>2 DEF contents
  <2>. QED  BY <2>1, <2>2
<1>5. newQueue \in PeerQueue
  BY SMT DEF newQueue, PeerQueue
<1>6. \A p \in Tracked : queue[p] \in PeerQueue
  BY DEF PInv, IInv, TypeOK, Tracked
<1>. QED  BY <1>3, <1>4, <1>5, <1>6

\* What QueueClient calls asked is what the queue holds in any way.
LEMMA AskedOf ==
    ASSUME NEW q, contents(q) \in PeerQueue
    PROVE  /\ Calls(q)!AskedAny = contents(q).bcst \cup contents(q).blocks \cup contents(q).haves
           /\ \A w \in Wants : levels(contents(q))[w] = "block" <=> w \in contents(q).blocks
<1>1. contents(q).bcst \subseteq Wants /\ contents(q).blocks \subseteq Wants /\ contents(q).haves \subseteq Wants
  BY SMT DEF PeerQueue
<1>2. \A w \in Wants : levels(contents(q))[w] =
         IF w \in contents(q).blocks THEN "block" ELSE IF w \in contents(q).haves THEN "have" ELSE "none"
  BY DEF levels
<1>3. Calls(q)!In(levels(contents(q))) = contents(q).blocks \cup contents(q).haves
  BY <1>1, <1>2, SMT DEF Calls!In
<1>. QED  BY <1>2, <1>3, SMT DEF Calls!AskedAny

\* A step that leaves a queue and its context alone.
LEMMA CallsNothing ==
    ASSUME NEW q, contents(q)' = contents(q), (q \in ctxOpen)' <=> q \in ctxOpen
    PROVE  Calls(q)!ClientStep
<1>1. levels(contents(q))' = levels(contents(q)) /\ contents(q)'.bcst = contents(q).bcst
  BY DEF levels
<1>2. (q \in ctxOpen)' = (q \in ctxOpen)
  BY SMT
<1>. QED  BY <1>1, <1>2 DEF Calls!ClientStep

\* Nothing is asked of an unused queue.
LEMMA NewLevels == levels(newQueue) = [w \in Wants |-> "none"] /\ newQueue.bcst = {}
BY SMT DEF levels, newQueue

\* A peer joins: its queue is created with the broadcast wants.
LEMMA JoinsCalls ==
    ASSUME PInv, NEW p \in Peers, NEW q \in Queues, Joins(p, q), NEW u \in Queues
    PROVE  Calls(u)!ClientStep
<1>1. /\ pwmQueues = peerQueues /\ DOMAIN pwmQueues = Tracked /\ p \notin Tracked
      /\ q \notin Range(pwmQueues) /\ owner \in [Queues -> Peers \cup {NoPeer}]
  BY DEF PInv, CIInv, Shape, QueuesFollowConnections, InStep, Joins, Unused
<1>2. /\ DOMAIN pwmQueues' = Tracked \cup {p} /\ pwmQueues'[p] = q
      /\ \A x \in Tracked : pwmQueues'[x] = pwmQueues[x]
  BY <1>1 DEF Joins, With
<1>3. /\ owner'[q] = p /\ \A v \in Queues \ {q} : owner'[v] = owner[v]
      /\ ctxOpen' = ctxOpen \cup {q}
  BY <1>1 DEF Joins
<1>4. /\ queue'[p] = AddBroadcastWantHaves(newQueue, broadcastWants)
      /\ \A x \in Tracked : queue'[x] = queue[x]
  BY <1>1 DEF Joins, addPeer
<1>5. \A v \in Queues : v \in Range(pwmQueues') <=> v = q \/ v \in Range(pwmQueues)
  BY <1>1, <1>2, SMT DEF Range
<1>6. CASE u = q
  <2>1. contents(q)' = [bcst |-> broadcastWants, blocks |-> {}, haves |-> {}]
    <3>1. contents(q)' = queue'[p]
      BY <1>3, <1>5 DEF contents
    <3>. QED  BY <1>4, <3>1, SMT DEF AddBroadcastWantHaves, newQueue
  <2>2. levels(contents(q))' = [w \in Wants |-> "none"] /\ contents(q)'.bcst = broadcastWants
    BY <2>1, SMT DEF levels
  <2>3. q \notin ctxOpen /\ q \in ctxOpen'
    BY <1>1, <1>3, ContentsFacts DEF Range
  <2>4. broadcastWants \in SUBSET Wants
    BY DEF PInv, IInv, TypeOK
  <2>5. (q \in ctxOpen)' = TRUE
    BY <2>3
  <2>6. Calls(q)!Create(broadcastWants)
    BY <2>2, <2>3, <2>5 DEF Calls!Create, Calls!noWants
  <2>. QED  BY <1>6, <2>4, <2>6 DEF Calls!ClientStep, Calls!ClientNext
<1>7. CASE u # q
  <2>1. contents(u)' = contents(u)
    <3>1. CASE owner[u] \in Tracked /\ pwmQueues[owner[u]] = u
      <4>1. u \in Range(pwmQueues) /\ u \in Range(pwmQueues')
        BY <1>1, <1>5, <3>1 DEF Range
      <4>. QED  BY <1>3, <1>4, <1>7, <3>1, <4>1 DEF contents
    <3>2. CASE u \notin Range(pwmQueues)
      BY <1>5, <1>7, <3>2 DEF contents
    <3>. QED  BY <3>1, <3>2, ContentsFacts
  <2>2. (u \in ctxOpen)' <=> u \in ctxOpen
    BY <1>3, <1>7
  <2>. QED  BY <2>1, <2>2, CallsNothing
<1>. QED  BY <1>6, <1>7

\* A peer leaves: its queue is shut down and forgotten.
LEMMA LeavesCalls ==
    ASSUME PInv, NEW p \in Peers, Leaves(p), NEW u \in Queues
    PROVE  Calls(u)!ClientStep
<1>1. pwmQueues = peerQueues /\ DOMAIN pwmQueues = Tracked /\ p \in Tracked
  BY DEF PInv, CIInv, QueuesFollowConnections, InStep, Leaves
<1>2. /\ DOMAIN pwmQueues' = Tracked \ {p}
      /\ \A x \in Tracked \ {p} : pwmQueues'[x] = pwmQueues[x] /\ queue'[x] = queue[x]
  BY <1>1 DEF Leaves, Without, removePeer
<1>3. ctxOpen' = ctxOpen \ {pwmQueues[p]} /\ owner' = owner
  BY <1>1 DEF Leaves
<1>4. CASE u = pwmQueues[p]
  <2>1. u \in ctxOpen /\ owner[u] = p
    BY <1>1, <1>4, ContentsFacts
  <2>2. u \notin Range(pwmQueues')
    <3>1. \A x \in Tracked \ {p} : pwmQueues[x] # u
      BY <2>1, ContentsFacts
    <3>. QED  BY <1>2, <3>1 DEF Range
  <2>3. contents(u)' = newQueue
    BY <2>2 DEF contents
  <2>4. levels(contents(u))' = [w \in Wants |-> "none"] /\ contents(u)'.bcst = {}
    BY <2>3, NewLevels DEF levels
  <2>5. (u \in ctxOpen)' = FALSE
    BY <1>3, <1>4, SMT
  <2>6. Calls(u)!Forget
    BY <2>1, <2>4, <2>5 DEF Calls!Forget, Calls!noWants
  <2>. QED  BY <2>6 DEF Calls!ClientStep, Calls!ClientNext
<1>5. CASE u # pwmQueues[p]
  <2>1. contents(u)' = contents(u)
    <3>1. CASE owner[u] \in Tracked /\ pwmQueues[owner[u]] = u
      <4>1. owner[u] # p
        BY <1>5, <3>1
      <4>2. u \in Range(pwmQueues) /\ u \in Range(pwmQueues')
        BY <1>1, <1>2, <3>1, <4>1, SMT DEF Range
      <4>. QED  BY <1>2, <1>3, <3>1, <4>1, <4>2 DEF contents
    <3>2. CASE u \notin Range(pwmQueues)
      <4>1. u \notin Range(pwmQueues')
        BY <1>1, <1>2, <3>2, SMT DEF Range
      <4>. QED  BY <3>2, <4>1 DEF contents
    <3>. QED  BY <3>1, <3>2, ContentsFacts
  <2>2. (u \in ctxOpen)' <=> u \in ctxOpen
    BY <1>3, <1>5
  <2>. QED  BY <2>1, <2>2, CallsNothing
<1>. QED  BY <1>4, <1>5

\* What a queue holds is a record of three sets of wants.
LEMMA QueueRecord ==
    ASSUME NEW c \in PeerQueue
    PROVE  /\ c.bcst \in SUBSET Wants /\ c.blocks \in SUBSET Wants /\ c.haves \in SUBSET Wants
           /\ c = [bcst |-> c.bcst, blocks |-> c.blocks, haves |-> c.haves]
BY SMT DEF PeerQueue

\* A broadcast of wants that the queue has not is a call of the client.
LEMMA CallsBroadcast ==
    ASSUME NEW q, contents(q) \in PeerQueue, q \in ctxOpen, UNCHANGED ctxOpen,
           NEW ws \in SUBSET Wants,
           ws \cap (contents(q).bcst \cup contents(q).blocks \cup contents(q).haves) = {},
           contents(q)' = AddBroadcastWantHaves(contents(q), ws)
    PROVE  Calls(q)!ClientStep
<1> DEFINE c == contents(q)
<1>1. (q \in ctxOpen)' = (q \in ctxOpen)
  BY SMT
<1>2. CASE ws = {}
  <2>1. contents(q)' = contents(q)
    BY <1>2, QueueRecord, SMT DEF AddBroadcastWantHaves
  <2>. QED  BY <2>1, CallsNothing
<1>3. CASE ws # {}
  <2>1. contents(q)'.bcst = c.bcst \cup ws /\ contents(q)'.blocks = c.blocks /\ contents(q)'.haves = c.haves
    BY SMT DEF AddBroadcastWantHaves
  <2>2. levels(contents(q))' = levels(contents(q))
    BY <2>1 DEF levels
  <2>3. ws \cap Calls(q)!AskedAny = {}
    BY AskedOf
  <2>4. Calls(q)!AskBroadcast(ws)
    BY <1>1, <1>3, <2>1, <2>2, <2>3 DEF Calls!AskBroadcast, Calls!MayBroadcast
  <2>. QED  BY <2>4 DEF Calls!ClientStep, Calls!ClientNext
<1>. QED  BY <1>2, <1>3

\* Want-blocks and want-haves that the queue has not are a call of the client.
LEMMA CallsWants ==
    ASSUME NEW q, contents(q) \in PeerQueue, q \in ctxOpen, UNCHANGED ctxOpen,
           NEW bs \in SUBSET Wants, NEW hs \in SUBSET Wants,
           bs \cap contents(q).blocks = {},
           hs \cap (contents(q).bcst \cup contents(q).blocks \cup contents(q).haves \cup bs) = {},
           contents(q)' = AddWants(contents(q), bs, hs)
    PROVE  Calls(q)!ClientStep
<1> DEFINE c == contents(q)
<1>1. (q \in ctxOpen)' = (q \in ctxOpen)
  BY SMT
<1>2. CASE bs \cup hs = {}
  <2>1. contents(q)' = contents(q)
    BY <1>2, QueueRecord, SMT DEF AddWants
  <2>. QED  BY <2>1, CallsNothing
<1>3. CASE bs \cup hs # {}
  <2>1. /\ contents(q)'.bcst = c.bcst
        /\ contents(q)'.blocks = c.blocks \cup bs
        /\ contents(q)'.haves = (c.haves \cup (hs \ c.blocks)) \ bs
    BY SMT DEF AddWants
  <2>2. levels(contents(q))' = Calls(q)!Add(Calls(q)!Add(levels(c), hs, "have"), bs, "block")
    <3>1. levels(contents(q))' = [w \in Wants |->
              IF w \in c.blocks \cup bs THEN "block"
              ELSE IF w \in (c.haves \cup (hs \ c.blocks)) \ bs THEN "have" ELSE "none"]
      BY <2>1 DEF levels
    <3>2. Calls(q)!Add(Calls(q)!Add(levels(c), hs, "have"), bs, "block") = [w \in Wants |->
              IF w \in c.blocks \cup bs THEN "block"
              ELSE IF w \in (c.haves \cup (hs \ c.blocks)) \ bs THEN "have" ELSE "none"]
      <4> HIDE DEF c
      <4>1. levels(c) = [w \in Wants |-> IF w \in c.blocks THEN "block" ELSE IF w \in c.haves THEN "have" ELSE "none"]
        BY DEF levels
      <4>2. Calls(q)!Add(levels(c), hs, "have") = [w \in Wants |->
               IF w \in c.blocks THEN "block" ELSE IF w \in c.haves \cup hs THEN "have" ELSE "none"]
        BY <4>1, SMT DEF Calls!Add
      <4>. QED  BY <4>2, SMT DEF Calls!Add
    <3>. QED  BY <3>1, <3>2
  <2>3. /\ \A w \in bs : levels(contents(q))[w] # "block"
        /\ hs \cap (Calls(q)!AskedAny \cup bs) = {}
    BY AskedOf
  <2>4. Calls(q)!AskWants(bs, hs)
    BY <1>1, <1>3, <2>1, <2>2, <2>3 DEF Calls!AskWants, Calls!MayAsk
  <2>. QED  BY <2>4 DEF Calls!ClientStep, Calls!ClientNext
<1>. QED  BY <1>2, <1>3

\* Cancels of wants that the queue has are a call of the client.
LEMMA CallsCancels ==
    ASSUME NEW q, contents(q) \in PeerQueue, q \in ctxOpen, UNCHANGED ctxOpen,
           NEW ks \in SUBSET Wants,
           ks \subseteq contents(q).bcst \cup contents(q).blocks \cup contents(q).haves,
           contents(q)' = AddCancels(contents(q), ks)
    PROVE  Calls(q)!ClientStep
<1> DEFINE c == contents(q)
<1>1. (q \in ctxOpen)' = (q \in ctxOpen)
  BY SMT
<1>2. CASE ks = {}
  <2>1. contents(q)' = contents(q)
    BY <1>2, QueueRecord, SMT DEF AddCancels
  <2>. QED  BY <2>1, CallsNothing
<1>3. CASE ks # {}
  <2>1. contents(q)'.bcst = c.bcst \ ks /\ contents(q)'.blocks = c.blocks \ ks /\ contents(q)'.haves = c.haves \ ks
    BY SMT DEF AddCancels
  <2>2. levels(contents(q))' = Calls(q)!Remove(levels(c), ks)
    <3>1. levels(contents(q))' = [w \in Wants |->
              IF w \in c.blocks \ ks THEN "block" ELSE IF w \in c.haves \ ks THEN "have" ELSE "none"]
      BY <2>1 DEF levels
    <3>2. Calls(q)!Remove(levels(c), ks) = [w \in Wants |->
              IF w \in c.blocks \ ks THEN "block" ELSE IF w \in c.haves \ ks THEN "have" ELSE "none"]
      <4> HIDE DEF c
      <4>1. levels(c) = [w \in Wants |-> IF w \in c.blocks THEN "block" ELSE IF w \in c.haves THEN "have" ELSE "none"]
        BY DEF levels
      <4>. QED  BY <4>1, SMT DEF Calls!Remove
    <3>. QED  BY <3>1, <3>2
  <2>3. ks \subseteq Calls(q)!AskedAny
    BY AskedOf
  <2>4. Calls(q)!AskCancels(ks)
    BY <1>1, <1>3, <2>1, <2>2, <2>3 DEF Calls!AskCancels, Calls!MayCancel, Calls!TakeBack
  <2>. QED  BY <2>4 DEF Calls!ClientStep, Calls!ClientNext
<1>. QED  BY <1>2, <1>3

\* A session calls: each registered queue gets the part that it lacks or has.
LEMMA SessionCallsQueues ==
    ASSUME PInv, UNCHANGED connVars, SessionCalls, NEW u \in Queues
    PROVE  Calls(u)!ClientStep
<1>1. UNCHANGED <<pwmQueues, owner, ctxOpen>>
  BY DEF connVars, pmVars, runVars
<1>2. CASE u \notin Range(pwmQueues)
  <2>1. contents(u)' = contents(u)
    BY <1>1, <1>2 DEF contents
  <2>. QED  BY <1>1, <2>1, CallsNothing
<1>3. ASSUME NEW p, p = owner[u], p \in Tracked, pwmQueues[p] = u
      PROVE  Calls(u)!ClientStep
  <2>1. DOMAIN pwmQueues = Tracked
    BY DEF PInv, CIInv, QueuesFollowConnections, InStep
  <2>2. contents(u) = queue[p] /\ contents(u)' = queue'[p] /\ u \in ctxOpen /\ contents(u) \in PeerQueue
    <3>1. u \in Range(pwmQueues)
      BY <1>3, <2>1 DEF Range
    <3>2. contents(u)' = queue'[p]
      BY <1>1, <1>3, <3>1 DEF contents
    <3>. QED  BY <1>3, <3>2, ContentsFacts
  <2>3. contents(u).bcst \cup contents(u).blocks \cup contents(u).haves = broadcastWants \cup Targeted(p)
    BY <1>3, <2>2 DEF PInv, IInv, QueuesMatchWants, QueueMatches
  <2>4. contents(u).blocks = peerWants[p].wantBlocks
    BY <1>3, <2>2 DEF PInv, IInv, QueuesMatchWants, QueueMatches
  <2>5. UNCHANGED ctxOpen
    BY <1>1
  <2>6. DOMAIN queue = Tracked
    BY DEF PInv, IInv, TypeOK, Tracked
  <2>7. ASSUME NEW ws \in SUBSET Wants, broadcastWantHaves(ws) PROVE Calls(u)!ClientStep
    <3> DEFINE add == (ws \ broadcastWants) \ Targeted(p)
    <3>1. contents(u)' = AddBroadcastWantHaves(contents(u), add)
      BY <1>3, <2>2, <2>7 DEF broadcastWantHaves, peerUnsent
    <3>2. add \in SUBSET Wants /\ add \cap (contents(u).bcst \cup contents(u).blocks \cup contents(u).haves) = {}
      BY <2>3
    <3> HIDE DEF add
    <3>. QED  BY <2>2, <2>5, <3>1, <3>2, CallsBroadcast
  <2>8. ASSUME NEW r \in Peers, NEW bs \in SUBSET Wants, NEW hs \in SUBSET Wants, sendWants(r, bs, hs)
        PROVE  Calls(u)!ClientStep
    <3>1. CASE r # p
      <4>1. contents(u)' = contents(u)
        BY <1>3, <2>2, <2>6, <2>8, <3>1 DEF sendWants
      <4>. QED  BY <1>1, <4>1, CallsNothing
    <3>2. CASE r = p
      <4> DEFINE fb == bs \ peerWants[p].wantBlocks
                 fh == hs \ (broadcastWants \cup Targeted(p) \cup fb)
      <4>1. contents(u)' = AddWants(contents(u), fb, fh)
        BY <1>3, <2>2, <2>6, <2>8, <3>2 DEF sendWants, fltWantBlks, fltWantHvs
      <4>2. /\ fb \in SUBSET Wants /\ fh \in SUBSET Wants
            /\ fb \cap contents(u).blocks = {}
            /\ fh \cap (contents(u).bcst \cup contents(u).blocks \cup contents(u).haves \cup fb) = {}
        BY <2>3, <2>4
      <4> HIDE DEF fb, fh
      <4>. QED  BY <2>2, <2>5, <4>1, <4>2, CallsWants
    <3>. QED  BY <3>1, <3>2
  <2>9. ASSUME NEW ks \in SUBSET Wants, sendCancels(ks) PROVE Calls(u)!ClientStep
    <3> DEFINE del == ks \cap (broadcastWants \cup Targeted(p))
    <3>1. contents(u)' = AddCancels(contents(u), del) \/ contents(u)' = contents(u)
      BY <1>3, <2>2, <2>9 DEF sendCancels, toCancel
    <3>2. del \in SUBSET Wants /\ del \subseteq contents(u).bcst \cup contents(u).blocks \cup contents(u).haves
      BY <2>3
    <3> HIDE DEF del
    <3>3. CASE contents(u)' = AddCancels(contents(u), del)
      BY <2>2, <2>5, <3>2, <3>3, CallsCancels
    <3>4. CASE contents(u)' = contents(u)
      BY <1>1, <3>4, CallsNothing
    <3>. QED  BY <3>1, <3>3, <3>4
  <2>. QED  BY <2>7, <2>8, <2>9 DEF SessionCalls
<1>. QED  BY <1>2, <1>3, ContentsFacts

\* Every step of the PeerManager is a step that QueueClient allows, for every
\* queue.
LEMMA StepCallsQueues ==
    ASSUME PInv, [PMNext]_allVars
    PROVE  QueuesStep
<1> SUFFICES ASSUME NEW u \in Queues PROVE Calls(u)!ClientStep
  BY DEF QueuesStep
<1>1. CASE Quiet
  <2>1. contents(u)' = contents(u) /\ ((u \in ctxOpen)' <=> u \in ctxOpen)
    BY <1>1 DEF Quiet, vars, contents
  <2>. QED  BY <2>1, CallsNothing
<1>2. CASE \E p \in Peers, q \in Queues : Joins(p, q)
  BY <1>2, JoinsCalls
<1>3. CASE \E p \in Peers : Leaves(p)
  BY <1>3, LeavesCalls
<1>4. CASE UNCHANGED connVars /\ SessionCalls
  BY <1>4, SessionCallsQueues
<1>. QED  BY <1>1, <1>2, <1>3, <1>4, PMSteps DEF Kinds

\* At first no queue runs, and nothing was asked of any.
LEMMA InitCallsQueues == PMInit => QueuesStart
<1> SUFFICES ASSUME PMInit, NEW u \in Queues PROVE Calls(u)!ClientInit
  BY DEF QueuesStart
<1>1. u \notin Range(pwmQueues) /\ u \notin ctxOpen
  BY DEF PMInit, CInit, Range
<1>2. contents(u) = newQueue /\ (u \in ctxOpen) = FALSE
  BY <1>1, SMT DEF contents
<1>3. levels(contents(u)) = [w \in Wants |-> "none"] /\ contents(u).bcst = {}
  BY <1>2, NewLevels
<1>. QED  BY <1>2, <1>3 DEF Calls!ClientInit, Calls!noWants

\* Whatever peers, connections, failing senders and sessions do, every message
\* queue is called as MessageQueue assumes, calls without effect included: the
\* assumption of its proofs is discharged by the manager that owns the queues.
THEOREM QueuesCalledCorrect == PMSpec => QueuesCalledAsAssumed
<1>1. PInv /\ [PMNext]_allVars => [QueuesStep]_allVars
  BY StepCallsQueues
<1>2. PInv => QueuesTakeCalls
  <2>1. PInv => CallsAllowed
    BY FilteredCallsAllowed DEF PInv
  <2>2. PInv => \A p \in Tracked : pwmQueues[p] \in ctxOpen
    BY DEF PInv, CIInv, QueuesFollowConnections, RegisteredQueuesAlive, InStep
  <2>. QED  BY <2>1, <2>2 DEF QueuesTakeCalls
<1>. QED  BY <1>1, <1>2, PMInvariant, InitCallsQueues, PTL DEF PMSpec, QueuesCalledAsAssumed

\* A peer that has a connection and answers has a registered queue that is not
\* shut down and was asked for exactly the broadcast wants and the wants that
\* were targeted at it; nothing is recorded for any other peer.
ResponsivePeersServed ==
    \A p \in Peers :
        IF Responsive(p)
        THEN /\ p \in DOMAIN peerQueues \cap Tracked
             /\ peerQueues[p] \in ctxOpen
             /\ Calls(peerQueues[p])!AskedAny = broadcastWants \cup Targeted(p)
        ELSE p \notin DOMAIN peerQueues \cup Tracked

\* From the connections of libp2p down to the contents of the queues: neither
\* part of the PeerManager can say it alone.
THEOREM ResponsivePeersServedCorrect == PMSpec => []ResponsivePeersServed
<1>1. PInv => ResponsivePeersServed
  <2> SUFFICES ASSUME PInv, NEW p \in Peers
               PROVE  IF Responsive(p)
                      THEN /\ p \in DOMAIN peerQueues \cap Tracked
                           /\ peerQueues[p] \in ctxOpen
                           /\ Calls(peerQueues[p])!AskedAny = broadcastWants \cup Targeted(p)
                      ELSE p \notin DOMAIN peerQueues \cup Tracked
    BY DEF ResponsivePeersServed
  <2>1. /\ DOMAIN peerQueues = {x \in Peers : Responsive(x)} /\ Tracked = DOMAIN peerQueues
        /\ pwmQueues = peerQueues
    BY DEF PInv, CIInv, QueuesFollowConnections, InStep
  <2>2. CASE Responsive(p)
    <3>1. p \in DOMAIN peerQueues \cap Tracked /\ peerQueues[p] \in Queues
      BY <2>1, <2>2 DEF PInv, CIInv, Shape
    <3>2. /\ contents(peerQueues[p]) = queue[p] /\ peerQueues[p] \in ctxOpen
          /\ contents(peerQueues[p]) \in PeerQueue
      BY <2>1, <3>1, ContentsFacts
    <3>3. Calls(peerQueues[p])!AskedAny = queue[p].bcst \cup queue[p].blocks \cup queue[p].haves
      BY <3>2, AskedOf
    <3>4. queue[p].bcst \cup queue[p].blocks \cup queue[p].haves = broadcastWants \cup Targeted(p)
      BY <3>1 DEF PInv, IInv, QueuesMatchWants, QueueMatches
    <3>. QED  BY <2>2, <3>1, <3>2, <3>3, <3>4
  <2>3. CASE ~Responsive(p)
    BY <2>1, <2>3
  <2>. QED  BY <2>2, <2>3
<1>. QED  BY <1>1, PMInvariant, PTL
=============================================================================

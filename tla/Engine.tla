------------------------------- MODULE Engine --------------------------------
(***************************************************************************)
(* The decision engine: the ledgers of what peers want, the index from     *)
(* wants to peers, the task queue, the engine's task workers and the       *)
(* senders (task workers of Bitswap), together with the goroutines that    *)
(* call the engine: MessageReceived for a message of a peer, ReceiveFrom   *)
(* for a new block, and the connection events.                             *)
(*                                                                         *)
(* A message has one wantlist entry and a block comes alone.  Every        *)
(* release of a lock ends a step.  A ledger is an object: whoever found it *)
(* keeps it when the map forgets it, so ledgers have names, which are used *)
(* again when nobody holds them.  The task queue is a library; its tasks   *)
(* are merged by the engine's taskMerger.                                  *)
(***************************************************************************)
EXTENDS Functions, Integers

CONSTANTS
    Peers, Wants, CidOf,    \* auth.Want values and their CIDs
    Allowed,                \* pairs of a peer and a want that may be read
    Small,                  \* CIDs whose block is sent instead of a HAVE
    sendDontHaves,
    Handlers,               \* goroutines that run MessageReceived
    Receivers,              \* goroutines that run receiveBlocksFrom
    Workers, Senders,       \* task workers of the engine and of Bitswap
    engineTaskWorkerCount,  \* how many Workers there are
    Ledgers,                \* names for ledgers
    Messages,               \* what a message of a peer says about a want
    MaxConnects, MaxMessages, MaxArrivals,  \* bounds on the events of a behaviour
    None

Task == [block : BOOLEAN, have : BOOLEAN, sendDontHave : BOOLEAN]

ASSUME EngineAssumption ==
    /\ DOMAIN CidOf = Wants
    /\ Allowed \subseteq Peers \X Wants
    /\ sendDontHaves \in BOOLEAN
    /\ Messages \subseteq [type : {"have", "block", "cancel"}, sendDontHave : BOOLEAN, full : BOOLEAN]
    /\ \A m \in Messages : m.type = "cancel" => ~m.sendDontHave
    /\ {MaxConnects, MaxMessages, MaxArrivals} \subseteq Nat
    /\ None \notin Ledgers \cup Task
    /\ engineTaskWorkerCount \in Nat \ {0} /\ ExistsBijection(1..engineTaskWorkerCount, Workers)

VARIABLES
    store,          \* CIDs in the blockstore
    connected,      \* peers that are connected
    ledgerMap,      \* the ledger of a peer, or None
    wantList,       \* the wantlist of each ledger
    cids,           \* peerLedger: which peers want what
    pending,        \* tasks of each peer that wait in the queue
    workSignal,     \* the channel with room for one signal
    handler, receiver, worker, sender,
    taskWorkerCount, outboxClosed,
    phase,          \* "running", "closing" (the process), "done" (the context)
    events,         \* how many events there were
    owed            \* what peers wanted when the block arrived (history, for ArrivalIsServed)

ledgerVars == <<ledgerMap, wantList, cids>>
taskVars == <<pending, workSignal>>
stopVars == <<taskWorkerCount, outboxClosed, phase>>
history == <<events, owed>>
vars == <<store, connected, ledgerVars, taskVars, handler, receiver, worker, sender, stopVars, history>>

-----------------------------------------------------------------------------
(* The blockstore.  GetSize does not look at the auth string, Get does.    *)

getBlockSizes(w) == CidOf[w] \in store

getBlocks(p, ws) == {w \in ws : CidOf[w] \in store /\ <<p, w>> \in Allowed}

-----------------------------------------------------------------------------
(* The task queue.  The active tasks are those that workers and senders    *)
(* have popped and not reported as done.                                   *)

Holders == {worker[u] : u \in Workers} \cup {sender[s] : s \in Senders}

ActiveOf(p) == {x \in Holders : "tasks" \in DOMAIN x /\ x.p = p}

Active(p, w) == {x.tasks[w] : x \in {y \in ActiveOf(p) : w \in DOMAIN y.tasks}}

\* Variant that compares with the wanted type only.
HasNewInfo_TypeOnly(t, existing) == t.block \/ \A e \in existing : ~e.have

\* What the new task says that the active ones do not.
HasNewInfo(t, existing) ==
    \/ t.block /\ \A e \in existing : ~e.block
    \/ t.have /\ \A e \in existing : ~e.have

\* Variant that keeps what the pending task knows of the block.
Merge_TypeOnly(t, e) == [e EXCEPT !.block = @ \/ t.block]

\* Merge into a pending task.  The flag sendDontHave stays as it was.
Merge(t, e) ==
    [e EXCEPT !.block = @ \/ t.block, !.have = @ \/ t.have]

\* PushTasks of one task, on the pending tasks q.
PushTask(q, p, w, t) ==
    IF Active(p, w) # {} /\ ~HasNewInfo(t, Active(p, w)) THEN q
    ELSE [q EXCEPT ![p][w] = IF @ = None THEN t ELSE Merge(t, @)]

\* Remove takes back a pending task, not an active one.
RemoveTask(q, p, w) == [q EXCEPT ![p][w] = None]

Queued(p) == {w \in Wants : pending[p][w] # None}

\* A peer with too much outstanding work may be passed over.
MustPop(p) == Queued(p) # {} /\ ActiveOf(p) = {}

\* Variant that drops the signal.
signalNewWork_None == UNCHANGED workSignal

signalNewWork == workSignal' = TRUE

-----------------------------------------------------------------------------
(* Ledgers.                                                                *)

\* Wantlist.Add and RemoveType on one entry of a wantlist.
AddType(have, type) == IF have = "block" THEN have ELSE type

RemoveType(have, type) == IF have = "block" /\ type = "have" THEN have ELSE "none"

EmptyList == [w \in Wants |-> "none"]

Held == {x.l : x \in {y \in Range(handler) \cup Range(sender) : "l" \in DOMAIN y}}

newLedger == CHOOSE l \in Ledgers : l \notin Held \cup Range(ledgerMap)

\* A ledger that nobody can reach after the step is empty when it is used again.
Collect(lists) ==
    [l \in Ledgers |-> IF l \in Held' \cup Range(ledgerMap') THEN lists[l] ELSE EmptyList]

\* Sections that hold e.lock for writing exclude the loop of ReceiveFrom.
Writable == \A r \in Receivers : receiver[r].pc \notin {"loop", "push"}

\* A caller gets the ledger of p, which is created if there is none.
findOrCreate(p, l) ==
    IF ledgerMap[p] # None THEN l = ledgerMap[p] /\ UNCHANGED ledgerMap
    ELSE Writable /\ l = newLedger /\ l \notin Held \cup Range(ledgerMap) /\ ledgerMap' = [ledgerMap EXCEPT ![p] = l]

Contains(p, w) == ledgerMap[p] # None /\ wantList[ledgerMap[p]][w] # "none"

\* The want of p is recorded in its ledger and in the index, and nothing about
\* it is under way: no message of p, no task that answers an earlier request
\* and none that is about to be pushed.
Settled(p, w) ==
    /\ Contains(p, w) /\ p \in cids[w]
    /\ \A h \in Handlers : handler[h].pc \in {"idle", "signal"} \/ <<handler[h].p, handler[h].w>> # <<p, w>>
    /\ \A r \in Receivers : receiver[r].pc # "push" \/ <<receiver[r].p, receiver[r].w>> # <<p, w>>
    /\ \A t \in Active(p, w) : ~t.have
    /\ pending[p][w] = None \/ ~pending[p][w].have

\* What is not cancelled, dropped or deleted by a step is still owed.
StillOwed == {o \in owed : Contains(o.p, o.w)' /\ CidOf[o.w] \in store'}

-----------------------------------------------------------------------------
(* Events.                                                                 *)

\* A behaviour has bounded numbers of events, all before Bitswap closes; what
\* they start goes on afterwards.
Happens(kind, max) ==
    phase = "running" /\ events[kind] < max /\ events' = [events EXCEPT ![kind] = @ + 1]

DeleteBlock(c) ==
    /\ phase = "running" /\ c \in store /\ store' = store \ {c}
    /\ UNCHANGED <<connected, ledgerVars, taskVars, handler, receiver, worker, sender, stopVars, events>>
    /\ owed' = StillOwed

PeerConnected(p) ==
    /\ Happens("connects", MaxConnects)
    /\ p \notin connected /\ connected' = connected \cup {p}
    /\ Writable
    /\ \E l \in Ledgers : findOrCreate(p, l)
    /\ UNCHANGED <<store, wantList, cids, taskVars, handler, receiver, worker, sender, stopVars, owed>>

\* The index loses what the ledger knows; the tasks stay.
PeerDisconnected(p) ==
    /\ phase = "running" /\ p \in connected /\ connected' = connected \ {p}
    /\ Writable
    /\ cids' = [w \in Wants |-> IF Contains(p, w) THEN cids[w] \ {p} ELSE cids[w]]
    /\ ledgerMap' = [ledgerMap EXCEPT ![p] = None]
    /\ UNCHANGED <<store, taskVars, handler, receiver, worker, sender, stopVars, events>>
    /\ wantList' = Collect(wantList)
    /\ owed' = StillOwed

-----------------------------------------------------------------------------
(* MessageReceived.                                                        *)

SetHandler(h, x) == handler' = [handler EXCEPT ![h] = x]

\* A message with a want or a cancel, from a connected peer: the block size
\* is read first.  If the blockstore workers have stopped, nothing happens.
MessageReceived(h, p, w) ==
    /\ Happens("messages", MaxMessages)
    /\ handler[h].pc = "idle" /\ p \in connected
    /\ \E m \in Messages :
          SetHandler(h, [pc |-> "index", p |-> p, w |-> w, type |-> m.type,
                         sendDontHave |-> m.sendDontHave, full |-> m.full,
                         found |-> m.type # "cancel" /\ getBlockSizes(w)])
    /\ UNCHANGED <<store, connected, ledgerVars, taskVars, receiver, worker, sender, stopVars, owed>>

\* The index, under e.lock.
updateIndex(h) ==
    LET m == handler[h]
    IN  /\ m.pc = "index" /\ Writable
        /\ cids' = [cids EXCEPT ![m.w] = IF m.type = "cancel" THEN @ \ {m.p} ELSE @ \cup {m.p}]
        /\ SetHandler(h, [m EXCEPT !.pc = "find"])
        /\ UNCHANGED <<store, connected, ledgerMap, wantList, taskVars, receiver, worker, sender, stopVars, events>>
        /\ owed' = {o \in owed : m.type = "cancel" => o.p # m.p \/ o.w # m.w}

findLedger(h) ==
    LET m == handler[h]
    IN  /\ m.pc = "find"
        /\ \E l \in Ledgers :
              /\ findOrCreate(m.p, l)
              /\ SetHandler(h, [pc |-> "ledger", p |-> m.p, w |-> m.w, type |-> m.type,
                                sendDontHave |-> m.sendDontHave, full |-> m.full,
                                found |-> m.found, l |-> l])
        /\ UNCHANGED <<store, connected, wantList, cids, taskVars, receiver, worker, sender, stopVars, history>>

\* Whether a want-have is answered with the block.
sendAsBlock(type, w) == type = "block" \/ CidOf[w] \in Small

\* The task for an entry of the message, if it gets one.
hasTask(m) == m.type # "cancel" /\ (m.found \/ (sendDontHaves /\ m.sendDontHave))

taskOf(m) ==
    [block |-> IF m.found THEN sendAsBlock(m.type, m.w) ELSE m.type = "block",
     have |-> m.found, sendDontHave |-> m.sendDontHave]

\* Ledger and queue, under the lock of the ledger.  A want-have ends the claim
\* of an earlier want-block to be served (see ArrivalIsServed).
updateLedger(h) ==
    LET m == handler[h]
        old == IF m.full THEN EmptyList ELSE wantList[m.l]
    IN  /\ m.pc = "ledger"
        /\ pending' = IF hasTask(m) THEN PushTask(pending, m.p, m.w, taskOf(m))
                      ELSE IF m.type = "cancel" /\ old[m.w] # "none" THEN RemoveTask(pending, m.p, m.w)
                      ELSE pending
        /\ SetHandler(h, [pc |-> IF hasTask(m) THEN "signal" ELSE "idle"])
        /\ UNCHANGED <<store, connected, ledgerMap, cids, workSignal, receiver, worker, sender, stopVars, events>>
        /\ wantList' = Collect([wantList EXCEPT ![m.l] =
              [old EXCEPT ![m.w] = IF m.type = "cancel" THEN "none" ELSE AddType(@, m.type)]])
        /\ owed' = {o \in StillOwed : m.type = "have" /\ o.type = "block" => o.p # m.p \/ o.w # m.w}

messageDone(h) ==
    /\ handler[h].pc = "signal" /\ signalNewWork /\ SetHandler(h, [pc |-> "idle"])
    /\ UNCHANGED <<store, connected, ledgerVars, pending, receiver, worker, sender, stopVars, history>>

-----------------------------------------------------------------------------
(* receiveBlocksFrom, as far as it concerns the engine.                    *)

SetReceiver(r, x) == receiver' = [receiver EXCEPT ![r] = x]

\* A block that is wanted here, or one that the user adds (from = None), is
\* stored before the engine hears of it.
receiveBlock(r, w) ==
    /\ Happens("arrivals", MaxArrivals)
    /\ receiver[r].pc = "idle"
    /\ \E from \in connected \cup {None} :
          SetReceiver(r, [pc |-> "stored", w |-> w, from |-> from])
    /\ store' = store \cup {CidOf[w]}
    /\ UNCHANGED <<connected, ledgerVars, taskVars, handler, worker, sender, stopVars>>
    /\ owed' = owed \cup {[p |-> p, w |-> w, type |-> wantList[ledgerMap[p]][w]] :
                           p \in {q \in Peers : <<q, w>> \in Allowed /\ Settled(q, w)}}

\* ReceiveFrom makes sure that the sender of the block has a ledger, ...
recordReceived(r) ==
    LET x == receiver[r]
    IN  /\ x.pc = "stored"
        /\ SetReceiver(r, [pc |-> "look", w |-> x.w])
        /\ IF x.from = None THEN UNCHANGED ledgerMap
           ELSE \E l \in Ledgers : findOrCreate(x.from, l)
        /\ UNCHANGED <<store, connected, wantList, cids, taskVars, handler, worker, sender, stopVars, history>>

\* ... goes through the peers of the index under the read lock, ...
Loop(w, todo, missing, work) ==
    IF todo # {} THEN [pc |-> "loop", w |-> w, todo |-> todo, missing |-> missing, work |-> work]
    ELSE IF missing # {} THEN [pc |-> "recheck", w |-> w, missing |-> missing, work |-> work]
    ELSE [pc |-> IF work THEN "signal" ELSE "idle"]

lookUp(r) ==
    /\ receiver[r].pc = "look"
    /\ SetReceiver(r, Loop(receiver[r].w, cids[receiver[r].w], {}, FALSE))
    /\ UNCHANGED <<store, connected, ledgerVars, taskVars, handler, worker, sender, stopVars, history>>

lookAtPeer(r, p) ==
    LET x == receiver[r]
    IN  /\ x.pc = "loop" /\ p \in x.todo
        /\ SetReceiver(r, IF Contains(p, x.w)
              THEN [pc |-> "push", w |-> x.w, todo |-> x.todo \ {p}, missing |-> x.missing,
                    work |-> TRUE, p |-> p, block |-> sendAsBlock(wantList[ledgerMap[p]][x.w], x.w)]
              ELSE Loop(x.w, x.todo \ {p}, x.missing \cup {p}, x.work))
        /\ UNCHANGED <<store, connected, ledgerVars, taskVars, handler, worker, sender, stopVars, history>>

\* ... with a task for each that still wants the block.
pushTask(r) ==
    LET x == receiver[r]
        t == [block |-> x.block, have |-> TRUE, sendDontHave |-> FALSE]
    IN  /\ x.pc = "push"
        /\ pending' = PushTask(pending, x.p, x.w, t)
        /\ SetReceiver(r, Loop(x.w, x.todo, x.missing, TRUE))
        /\ UNCHANGED <<store, connected, ledgerVars, workSignal, handler, worker, sender, stopVars, history>>

\* Peers that were not found to want the block leave the index, unless they
\* do by now.
recheckMissing(r) ==
    LET x == receiver[r]
    IN  /\ x.pc = "recheck" /\ Writable
        /\ cids' = [cids EXCEPT ![x.w] = @ \ {p \in x.missing : ~Contains(p, x.w)}]
        /\ SetReceiver(r, [pc |-> IF x.work THEN "signal" ELSE "idle"])
        /\ UNCHANGED <<store, connected, ledgerMap, wantList, taskVars, handler, worker, sender, stopVars, history>>

receiveDone(r) ==
    /\ receiver[r].pc = "signal" /\ signalNewWork /\ SetReceiver(r, [pc |-> "idle"])
    /\ UNCHANGED <<store, connected, ledgerVars, pending, handler, worker, sender, stopVars, history>>

-----------------------------------------------------------------------------
(* The task workers of the engine.                                         *)

SetWorker(u, x) == worker' = [worker EXCEPT ![u] = x]

\* The outbox has no room: a worker hands its one-time channel to a sender
\* before it prepares the envelope.
offer(u, s) ==
    /\ worker[u].pc = "offer" /\ sender[s].pc = "idle"
    /\ SetWorker(u, [pc |-> "next", s |-> s])
    /\ sender' = [sender EXCEPT ![s] = [pc |-> "waiting"]]
    /\ UNCHANGED <<store, connected, ledgerVars, taskVars, handler, receiver, stopVars, history>>

\* PopTasks takes tasks of one peer.
popTasks(u) ==
    \E p \in Peers : \E ws \in SUBSET Queued(p) \ {{}} :
        /\ SetWorker(u, [pc |-> "fetch", s |-> worker[u].s, p |-> p,
                         tasks |-> [w \in ws |-> pending[p][w]]])
        /\ pending' = [pending EXCEPT ![p] = [w \in Wants |-> IF w \in ws THEN None ELSE @[w]]]

popNothing(u) ==
    /\ \A p \in Peers : ~MustPop(p)
    /\ SetWorker(u, [worker[u] EXCEPT !.pc = "wait"]) /\ UNCHANGED pending

\* nextEnvelope pops, and waits for the signal or the ticker while there is
\* nothing to do.
nextEnvelope(u) ==
    /\ \/ worker[u].pc = "next" /\ UNCHANGED workSignal
       \/ worker[u].pc = "wait" /\ workSignal /\ workSignal' = FALSE
    /\ popTasks(u) \/ popNothing(u)
    /\ UNCHANGED <<store, connected, ledgerVars, handler, receiver, sender, stopVars, history>>

tick(u) ==
    /\ worker[u].pc = "wait" /\ popTasks(u)
    /\ UNCHANGED <<store, connected, ledgerVars, workSignal, handler, receiver, sender, stopVars, history>>

\* The message of some tasks: blocks that are sent, HAVEs and DONT_HAVEs.
BlockTasks(ts) == {w \in DOMAIN ts : ts[w].have /\ ts[w].block}
Haves(ts) == {w \in DOMAIN ts : ts[w].have /\ ~ts[w].block}
DontHaves(ts, blks) ==
    {w \in DOMAIN ts : ~ts[w].have \/ (ts[w].block /\ w \notin blks /\ ts[w].sendDontHave)}

\* The blocks are fetched.  An envelope goes through the one-time channel to
\* the sender, if that still waits; an empty message is not sent.
makeEnvelope(u) ==
    LET x == worker[u]
        blks == getBlocks(x.p, BlockTasks(x.tasks))
    IN  /\ x.pc = "fetch"
        /\ IF blks \cup Haves(x.tasks) \cup DontHaves(x.tasks, blks) = {}
           THEN SetWorker(u, [x EXCEPT !.pc = "empty"]) /\ UNCHANGED sender
           ELSE /\ SetWorker(u, [pc |-> "offer"])
                /\ sender' = [sender EXCEPT ![x.s] = IF @.pc # "waiting" THEN @
                      ELSE [pc |-> "find", p |-> x.p, tasks |-> x.tasks, blocks |-> blks]]
        /\ UNCHANGED <<store, connected, ledgerVars, taskVars, handler, receiver, stopVars, history>>

\* TasksDone of an empty message; then the next one.
emptyDone(u) ==
    /\ worker[u].pc = "empty" /\ SetWorker(u, [pc |-> "next", s |-> worker[u].s])
    /\ UNCHANGED <<store, connected, ledgerVars, taskVars, handler, receiver, sender, stopVars, history>>

\* Variant that closes the outbox with the first worker.
taskWorkerExit_First ==
    taskWorkerCount' = taskWorkerCount - 1 /\ outboxClosed' = TRUE

\* The last worker closes the outbox.
taskWorkerExit ==
    /\ taskWorkerCount' = taskWorkerCount - 1
    /\ outboxClosed' = (outboxClosed \/ taskWorkerCount' = 0)

\* A worker returns when its context is done, or when it needs blocks and the
\* blockstore workers are stopping.  The sender that waits for it starts over.
workerStops(u) ==
    /\ \/ worker[u].pc \in {"offer", "wait"} /\ phase = "done"
       \/ worker[u].pc = "fetch" /\ phase # "running" /\ BlockTasks(worker[u].tasks) # {}
    /\ SetWorker(u, [pc |-> "exited"]) /\ taskWorkerExit
    /\ sender' = [s \in Senders |->
          IF worker[u].pc # "offer" /\ s = worker[u].s /\ sender[s].pc = "waiting"
          THEN [pc |-> "idle"] ELSE sender[s]]
    /\ UNCHANGED <<store, connected, ledgerVars, taskVars, handler, receiver, phase, history>>

-----------------------------------------------------------------------------
(* The senders.                                                            *)

SetSender(s, x) == sender' = [sender EXCEPT ![s] = x]

\* MessageSent finds the ledger of the peer, ...
MessageSent(s) ==
    LET x == sender[s]
    IN  /\ x.pc = "find"
        /\ \E l \in Ledgers :
              /\ findOrCreate(x.p, l)
              /\ SetSender(s, [pc |-> "record", p |-> x.p, tasks |-> x.tasks, blocks |-> x.blocks, l |-> l])
        /\ UNCHANGED <<store, connected, wantList, cids, taskVars, handler, receiver, worker, stopVars, history>>

\* ... and removes what is about to be sent.
removeSent(s) ==
    LET x == sender[s]
    IN  /\ x.pc = "record"
        /\ SetSender(s, [pc |-> "send", p |-> x.p, tasks |-> x.tasks])
        /\ UNCHANGED <<store, connected, ledgerMap, cids, taskVars, handler, receiver, worker, stopVars, events>>
        /\ wantList' = Collect([wantList EXCEPT ![x.l] = [w \in Wants |->
              IF w \in x.blocks THEN RemoveType(@[w], "block")
              ELSE IF w \in Haves(x.tasks) THEN RemoveType(@[w], "have") ELSE @[w]]])
        /\ owed' = {o \in StillOwed : o.p = x.p => o.w \notin x.blocks /\ ~(o.type = "have" /\ o.w \in Haves(x.tasks))}

\* sendBlocks: the message is sent, or not; then Sent reports the tasks as
\* done and asks for more work.
sendBlocks(s) ==
    /\ sender[s].pc = "send"
    /\ SetSender(s, [pc |-> "idle"]) /\ signalNewWork
    /\ UNCHANGED <<store, connected, ledgerVars, pending, handler, receiver, worker, stopVars, history>>

\* A closed outbox gives a channel on which nothing comes.
outboxEnds(s) ==
    /\ sender[s].pc = "idle" /\ outboxClosed
    /\ SetSender(s, [pc |-> "waiting"])
    /\ UNCHANGED <<store, connected, ledgerVars, taskVars, handler, receiver, worker, stopVars, history>>

senderStops(s) ==
    /\ sender[s].pc \in {"idle", "waiting"} /\ phase = "done"
    /\ SetSender(s, [pc |-> "exited"])
    /\ UNCHANGED <<store, connected, ledgerVars, taskVars, handler, receiver, worker, stopVars, history>>

\* The process of Bitswap closes first, its context is cancelled afterwards.
closeProcess ==
    /\ phase # "done"
    /\ phase' = IF phase = "running" THEN "closing" ELSE "done"
    /\ UNCHANGED <<store, connected, ledgerVars, taskVars, handler, receiver, worker, sender, taskWorkerCount, outboxClosed, history>>

-----------------------------------------------------------------------------
Init ==
    /\ store = {} /\ connected = {}
    /\ ledgerMap = [p \in Peers |-> None]
    /\ wantList = [l \in Ledgers |-> EmptyList]
    /\ cids = [w \in Wants |-> {}]
    /\ pending = [p \in Peers |-> [w \in Wants |-> None]]
    /\ workSignal = FALSE
    /\ handler = [h \in Handlers |-> [pc |-> "idle"]]
    /\ receiver = [r \in Receivers |-> [pc |-> "idle"]]
    /\ worker = [u \in Workers |-> [pc |-> "offer"]]
    /\ sender = [s \in Senders |-> [pc |-> "idle"]]
    /\ taskWorkerCount = engineTaskWorkerCount /\ outboxClosed = FALSE
    /\ phase = "running" /\ events = [connects |-> 0, messages |-> 0, arrivals |-> 0]
    /\ owed = {}

Handle(h) == updateIndex(h) \/ findLedger(h) \/ updateLedger(h) \/ messageDone(h)

Receive(r) ==
    \/ recordReceived(r) \/ lookUp(r) \/ pushTask(r) \/ recheckMissing(r) \/ receiveDone(r)
    \/ \E p \in Peers : lookAtPeer(r, p)

Work(u) ==
    \/ nextEnvelope(u) \/ tick(u) \/ makeEnvelope(u) \/ emptyDone(u)
    \/ \E s \in Senders : offer(u, s)

Send(s) == MessageSent(s) \/ removeSent(s) \/ sendBlocks(s) \/ outboxEnds(s)

Next ==
    \/ \E p \in Peers : PeerConnected(p) \/ PeerDisconnected(p)
    \/ \E c \in Range(CidOf) : DeleteBlock(c)
    \/ \E h \in Handlers : Handle(h) \/ \E p \in Peers, w \in Wants : MessageReceived(h, p, w)
    \/ \E r \in Receivers : Receive(r) \/ \E w \in Wants : receiveBlock(r, w)
    \/ \E u \in Workers : Work(u) \/ workerStops(u)
    \/ \E s \in Senders : Send(s) \/ senderStops(s)
    \/ closeProcess

Spec == Init /\ [][Next]_vars

-----------------------------------------------------------------------------
\* The variables are in their ranges, and every connected peer has a ledger.
TypeOK ==
    /\ store \subseteq Range(CidOf) /\ connected \subseteq Peers
    /\ ledgerMap \in [Peers -> Ledgers \cup {None}]
    /\ wantList \in [Ledgers -> [Wants -> {"none", "have", "block"}]]
    /\ cids \in [Wants -> SUBSET Peers]
    /\ pending \in [Peers -> [Wants -> Task \cup {None}]]
    /\ workSignal \in BOOLEAN /\ outboxClosed \in BOOLEAN
    /\ taskWorkerCount \in 0..engineTaskWorkerCount
    /\ phase \in {"running", "closing", "done"}
    /\ events \in [connects : 0..MaxConnects, messages : 0..MaxMessages, arrivals : 0..MaxArrivals]
    /\ connected \subseteq {p \in Peers : ledgerMap[p] # None}

\* While a block is on its way to a peer, no second task for the same block is
\* queued or under way: requests that are repeated or upgraded, and arrivals
\* of the block, do not make the engine send it twice.
NoDoubleSend ==
    \A p \in Peers, w \in Wants :
        LET carries(x) == "tasks" \in DOMAIN x /\ x.p = p /\ w \in BlockTasks(x.tasks)
            carriers == ({"worker"} \X {u \in Workers : carries(worker[u])})
                            \cup ({"sender"} \X {s \in Senders : carries(sender[s])})
        IN  carriers # {} => (\A i, j \in carriers : i = j) /\ pending[p][w] = None

\* Somebody will look at the queue without waiting for the ticker.
AboutToLook ==
    \/ workSignal
    \/ \E u \in Workers : worker[u].pc \in {"next", "fetch", "empty"}
    \/ \E s \in Senders : "tasks" \in DOMAIN sender[s]
    \/ \E h \in Handlers : handler[h].pc = "signal"
    \/ \E r \in Receivers : "work" \in DOMAIN receiver[r] /\ receiver[r].work
    \/ \E r \in Receivers : receiver[r].pc = "signal"

\* A worker does not sleep while there are tasks it may take: the signal, for
\* which there is room for one only, is not lost between concurrent pushes,
\* workers that take the tasks of one peer and senders that finish.
WorkIsSignalled ==
    phase = "running" /\ (\E p \in Peers : MustPop(p)) /\ (\E u \in Workers : worker[u].pc = "wait")
        => AboutToLook

\* Nobody sends to a closed outbox.
OutboxOpenForWorkers == outboxClosed => \A u \in Workers : worker[u].pc = "exited"

\* The task t gives what is owed.
Answers(t, o) == t.have /\ (o.type = "block" => t.block)

\* A peer whose want was settled when the block arrived is served: until what
\* it wanted then, the block or a HAVE, is sent, the peer cancels or leaves or
\* the block is deleted, somebody has the want in hand, whatever requests for
\* other wants or upgrades come.  Two cases are left out, because the code does
\* not serve them.  A want that is not settled, its request or an answer to it
\* still under way when the block arrives, is not claimed at all.  And the
\* claim to a block ends with a want-have for the same want: an active
\* want-block that found nothing and an active want-have that found the block
\* together count as if the block were on its way (taskmerger.go:31-40), and
\* the task of the arrival is dropped.
ArrivalIsServed ==
    phase = "running" => \A o \in owed :
        \/ pending[o.p][o.w] # None /\ Answers(pending[o.p][o.w], o)
        \/ \E r \in Receivers :
              LET x == receiver[r]
              IN  \/ x.pc \in {"stored", "look"} /\ x.w = o.w
                  \/ x.pc \in {"loop", "push"} /\ x.w = o.w /\ o.p \in x.todo
                  \/ x.pc = "push" /\ x.w = o.w /\ o.p = x.p
        \/ \E x \in ActiveOf(o.p) :
              /\ o.w \in DOMAIN x.tasks /\ Answers(x.tasks[o.w], o)
              /\ x.pc \in {"find", "record"} => o.w \in x.blocks \cup Haves(x.tasks)
              /\ x.pc \in {"fetch", "find", "record"}
=============================================================================

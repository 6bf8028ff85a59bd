# TLA+ verification of go-bitswap-auth

Bitswap exchanges blocks between peers. This fork asks for a *want*, a CID
together with an auth string, instead of a CID. This directory holds a TLA+
model of its concurrent core, TLC configurations that check it on small
instances, and TLAPS proofs of what matters most for every size.

## 1. The system

A call of `GetBlocks` belongs to a session. The session asks peers through the
PeerManager and finds new peers through the ProviderQueryManager. Each
connected peer has one MessageQueue with its own goroutine, which sends
wantlists through the network adapter. Incoming messages give blocks to the
sessions and wants to the decision engine, which sends blocks back.

| Part | Code | State | Operations that change it | Module |
|---|---|---|---|---|
| connectEventManager | `network/connecteventmanager.go` | per peer: connection count, responsive flag | Connected, Disconnected, MarkUnresponsive, OnMessage | `ConnectEventManager` |
| Network adapter | `network/ipfs_impl.go` | streams, retries | SetDelegate, notifiee, multiAttempt, handleNewStream | `PeerConnectivity` (retries, events) |
| PeerManager | `internal/peermanager/peermanager.go` | peer -> queue, sessions | Connected, Disconnected, the want calls, RegisterSession | `PeerManager` (`PeerConnectivity`, `PeerWantManager`), `SessionWantSender` |
| peerWantManager | `internal/peermanager/peerwantmanager.go` | wants per peer, broadcast wants, reverse index, gauges | addPeer, removePeer, broadcastWantHaves, sendWants, sendCancels | `PeerWantManager`, promise: `PeerWantSpec` |
| MessageQueue, Wantlist, wantlist part of Message | `internal/messagequeue/messagequeue.go`, `wantlist/wantlist.go`, `message/message.go` | pending and sent lists, cancels, signal, debounce timer | AddBroadcastWantHaves, AddWants, AddCancels, ResponseReceived, run loop, sendMessage | `MessageQueue`, its client: `QueueClient` |
| dontHaveTimeoutMgr | `internal/messagequeue/donthavetimeoutmgr.go` | active wants, queue of pending wants, timer | AddPending, CancelPending, UpdateMessageLatency, the check, Shutdown | `DontHaveTimeoutMgr` |
| ProviderQueryManager | `internal/providerquerymanager/providerquerymanager.go` | one query status per key, buffer, workers | FindProvidersAsync, four message handlers, cancel, workers | `ProviderQueryManager` |
| SessionManager, SessionInterestManager | `internal/sessionmanager`, `internal/sessioninterestmanager` | registered sessions, interests of sessions in wants | NewSession, RemoveSession, Shutdown, ReceiveFrom | `SessionManager` |
| Session, sessionWants | `internal/session/session.go`, `sessionwants.go`, `cidqueue.go` | channel of operations, timers, wants to fetch and live | GetBlocks, ReceiveFrom, run loop, shutdown | `Session` |
| sessionWantSender, SessionPeerManager, BlockPresenceManager | `internal/session/sessionwantsender.go`, `internal/sessionpeermanager`, `internal/blockpresencemanager` | per want: what peers are known to have, whom it was sent to; peers of the session | Add, Update, SignalAvailability, the loop, Shutdown | `SessionWantSender`; interface in `Session` |
| Notifications, getter | `internal/notifications`, `internal/getter` | subscriptions | Publish, Subscribe, Shutdown | `Session` (subscribe, publish, cancel) |
| Decision engine, authenticated blockstore | `internal/decision`, `auth/blockstore.go` | ledgers, index of wants, tasks, signal, outbox | MessageReceived, ReceiveFrom, MessageSent, PeerConnected, PeerDisconnected, task workers | `Engine` |
| Bitswap, workers | `bitswap.go`, `workers.go` | counters, channels | receiveBlocksFrom, PeerConnected, task workers, Close | `SessionManager`, `Session` (receipt of blocks), `PeerConnectivity`, `Engine` |

What makes these parts hard:

- a queue's goroutine and the PeerManager's calls interleave while a message
  is built without the lock;
- goroutines of replaced queues report failures late;
- a handler looks under a read lock and acts under a write lock;
- timers, signals with room for one, and channels with a limit;
- requests that are cancelled and repeated while answers to the first are on
  their way;
- derived state (gauges, reverse index, filters of what was "already sent")
  that is updated incrementally.

`PROJECT.json` lists each such hazard at its line with the properties that
cover it.

## 2. Modules

A want is an opaque value in every module. Definitions keep the names of the
code; `PROJECT.json` maps each to its lines. Operators with a suffix, such as
`addPeer_NoBroadcast`, are deliberate mistakes that the properties must detect.

**PeerWantManager.** One action per operation, each run under `pqLk`. Besides
the manager's maps the state has `queue`, what each peer's MessageQueue was
asked for through its interface. `PeerWantSpec` is the promise to the callers:
a level (none, have, block) per connected peer and want, and what each call
does to it. `RefinesPeerWantSpec` maps the queues to levels.

**ConnectEventManager.** All operations hold the lock, except that OnMessage is
two actions, the look under the read lock and the update under the write lock.
`open` is libp2p's count of connections, of which `EarlyConns` per peer were
open before SetDelegate registered the notifiee.

**PeerConnectivity** extends ConnectEventManager with the PeerManager's map of
queues and with the goroutine of each queue as far as sending goes: attempt,
retry, backoff, MarkUnresponsive, shutdown. A queue is a name that can be used
again once its goroutine has ended.

**PeerManager** composes PeerConnectivity and PeerWantManager, which share
nothing but the peers (`Network`). A connection event that adds or removes a
queue also adds the peer to the peerWantManager or removes it, in the same step,
as Connected and Disconnected do under `pqLk`; the calls of the sessions are
steps of their own. `contents(q)` is what queue `q` was asked for.

**QueueClient** is the contract between the PeerManager and a message queue: no
want is asked for again at a level that was asked for, only what was asked for
is cancelled, and a queue that was shut down is not called. The client in
MessageQueue makes exactly the calls that QueueClient allows. `CallsAllowed`
says of the lists that PeerWantManager would hand to a queue, whatever a session
asks next, that they are allowed, and `QueuesCalledAsAssumed` that PeerManager
takes no step with a queue that QueueClient does not have. The first also
judges calls that would change nothing, such as a want-block that is sent twice,
which what a queue was asked for does not show.

**MessageQueue.** Two processes: the client (PeerManager) and the run loop. The
loop is cut wherever the code releases the lock: snapshot of the lists, FINISH
(mark as sent, drop what changed), the send, recording of send times, and the
DONT_HAVE timers. AddCancels is cut between its timer cancellation, its locked
part and its signal. The client is QueueClient. Message sizes are abstract: with
`CanSplit` any legal prefix may be all that fits. Time is reduced to whether a signal is
older than the maximal delay.

**DontHaveTimeoutMgr.** Ticks of time, the ages of queue entries, the timer and
its channel, the consumer goroutine, the ping goroutine and how many fireTimeout
goroutines have which wants. AddPending is two steps: it reads the clock before
it waits for the lock. The timeout that a latency gives is any value the formula
allows.

**ProviderQueryManager.** One goroutine per request, the run loop, the workers
and their dials. A query is named by the request that created it, which lets
the model tell a message of an old query from one of the current query, as the
code cannot. Providers sent to a listener are delivered one listener at a time.

**SessionManager.** All sessions of a node: the SessionManager's map, the
interests and the goroutines of receiveBlocksFrom. Every release of a lock is a
step, so RemoveSession is three (interests, cancels, map) and the receipt of a
block is split, look-up, call, channel send and cancel. A session is reduced to
what it does to the others; the PeerManager to the set `asked` of wants that
peers are asked for, which is what PeerWantSpec promises.

**Session.** One session in detail: the channel `incoming`, goroutines that wait
for room in it, toFetch (a queue and a set, as in cidQueue), liveWants and its
order, the timers, the calls of GetBlocks from subscription to cancel, and the
receipt of blocks up to their publication. A block keeps its mark from the split
in receiveBlocksFrom, wanted or unwanted, until the run loop has handled it. The sessionWantSender is its
interface: what it tracks it may send or report as exhausted at any time. Other
sessions appear as cancels at any time.

**SessionWantSender.** The sender of one session with what it shares: the peers
of the session, the BlockPresenceManager and the PeerManager's registry of
sessions. The loop takes all changes that are in the channel and processes them
as one batch, by kind and not in order, as onChange does: new wants,
availability (the last change of a peer counts), blocks, DONT_HAVEs and HAVEs,
exhausted wants, what is sent next. A change has one want. The goroutines that
feed the channel are the session (interest first, Add later; a want may be
wanted again), a message handler (presence first, Update later), the search for
providers, the PeerManager, which holds its locks while it signals, and the
goroutines that wait for room (counted per change) or remove a peer with too
many DONT_HAVEs. RemoveKeys, which the end of another session calls, may come at
any time: the interests are looked up earlier and under another lock, and they
are per want, where the presence is per CID. The weighted random
choice of a peer is any choice among the best. The want-haves that go to the
other peers are left out; the PeerManager filters them.

**Engine.** The decision engine with its callers: handlers of messages,
receivers of blocks, connection events, the engine's task workers and Bitswap's
task workers, here called senders. Each release of a lock ends a step, so
MessageReceived is sizes, index, look-up of the ledger, ledger and queue, and
signal; ReceiveFrom goes peer by peer under the read lock, which `Writable`
keeps writers out of. Ledgers are objects: a handler may hold one that the map
has forgotten, and a new ledger is one that nobody holds. The task queue is a
library and modelled from its use: a push is merged by the taskMerger or dropped
for an active task, a pop takes tasks of one peer, and a peer with outstanding
work may be passed over. `GetSize` ignores the auth string and `Get` does not,
as in the authenticated blockstore. A message has one entry.

## 3. Runs

| Run | What it checks | Instance | Result |
|---|---|---|---|
| `peer_wants` | index, gauges, queues, allowed calls, refinement of PeerWantSpec | 2 peers, 3 wants, symmetric | holds |
| `peer_manager` | events alternate and are true, counts are those of libp2p but for early connections, queues follow connections, registered queues run, replaced ones stop, every queue is called as QueueClient says | 1 peer, 2 connections of which 1 may be early, 2 handlers, 2 queues, 2 attempts, 1 want | holds |
| `message_queue` | tracking, cancels, timer, send times; only one named step loses a wakeup; wants are eventually sent | 1 want, split messages, cutoff 1 | holds |
| `message_queue_lost_cancel` | a peer that was told a want is sent its cancel | 1 want | violated |
| `dont_have_timeouts` | queue and map agree, checks are in time; no want waits forever | 2 wants, queue of 3, timeouts of 1 and 2 ticks | holds |
| `provider_queries` | channels, contexts, completeness of answers; every request ends | 2 requests, 1 key, 2 workers | holds |
| `provider_queries_stale` | a finished query is the current one | 2 requests, 2 workers | violated |
| `session_manager` | peers are asked for somebody, awaited blocks are stored, live wants are served, receivers end | 2 sessions, 1 want, 1 handler, room for 2 | holds |
| `session` | what the session waits for is recorded as wanted; a call whose want is live gets its block, but for two races | 1 call, repeated, 1 want, channel of 1, 1 waiting operation, no inputs once the context is done | holds |
| `session_cancel` | a cancelled call ends the interest | 1 call, not repeated | violated |
| `want_sender` | wants go to peers that may have the block, do not stay with one that has not, are reported when no peer is left, but for one exception; the PeerManager is not held up | 2 peers, 1 want, channel of 2, limit of 1 DONT_HAVE, 2 messages and 2 other events | holds |
| `engine` | no block twice at once, no lost signal, arriving blocks reach who has a settled want, outbox closed by the last worker | 1 peer, 1 want, 2 workers, 2 senders, 1 connect, 2 messages of 4 kinds, 1 arrival | holds |

### Why the bounds are enough to see the hard cases

- Two peers and three wants: a broadcast want, a targeted want and one that is
  both, with a peer that has it and one that has not. The proofs remove the
  bound.
- Two handlers can see the same unresponsive peer; two connections allow an
  early one beside a counted one. The proofs remove the bound for the events
  and the counts.
- Two queues: a registered one and an old one whose goroutine is still
  retrying. The peers share the set of queues and the broadcast wants. Larger
  instances of `peer_manager` were checked once: three queues (540,000 states),
  and two peers with one handler. With its one want a cancel of too much has no
  effect; `peer_wants` checks the calls with three. The proofs remove the bounds
  for all but the stopping of old queues.
- One want in `message_queue`: the lists treat keys separately; keys meet only
  in the cutoff, which 1 makes reachable, and in a split message. With two
  wants and no split the safety invariants hold as well (5.3 million states,
  too long for a regular run). The exception of `NoLostWakeup` needs two wants
  and split messages, see the observations below; the proof covers it.
- A queue of three entries holds a cancelled entry of a want in front of its new
  one and another want; `MaxQueue` and `MaxFiring` bound only additions and
  the goroutines for expired wants. The proofs hold for any bounds.
- Two requests for one key: one is cancelled and the other restarts or joins its
  query. With three requests (one restarts, one joins) the invariants hold as
  well, which is too long for a run that also checks liveness. Keys share
  nothing but workers and channel capacity. The invariants are proved for any
  number.
- Two sessions that share a want: one ends or is told of a block while the
  other takes the want on. The safety properties are proved for any number;
  wants do not depend on each other. `IncomingCap` counts, per want, how often a
  block fits into the channel; 2 makes duplicates and a full channel possible.
- In `session` the channel has room for 1 instead of 128, so that every sender
  meets a full channel; `SpillBound` limits the goroutines of
  nonBlockingEnqueue, and `QueueBound` the queue (stale entries included) when
  a call starts. One call that is repeated gives wants that were received,
  cancelled and wanted again. With a broadcast limit of 1 and a clean-up limit
  of 0 the limits of sessionWants are reached. With `LateInputs` FALSE no call,
  block, answer or connection event comes once the context is cancelled; what
  is under way goes on until the loop sees the cancellation. `LiveIsServed` loses nothing
  by this, because no call waits after the cancellation; `session_cancel` has
  `LateInputs` TRUE. Of the two races that `LiveIsServed` leaves out the run
  meets the first; the second needs a channel with room for two. A queue of one
  has no stale entry in front of a new one. The proof of `TrackedIsWanted` removes
  the bounds, as long as wants have CIDs of their own.
- In `want_sender` two peers are enough for one that answers, or leaves, while
  the other has been asked or is known not to have the block. A channel of two
  gives batches of two changes and a full channel. Two messages (`MaxMessages`)
  are an answer of each peer or two of one; two other events (`MaxEvents`) let a
  peer leave and come back, or leave around the end of another session, a want
  that is wanted again or the shutdown. The proofs remove these bounds.
- In `engine` the queue, the ledgers and the index keep peers and wants apart.
  Two messages and an arrival give want-have and want-block in both orders,
  repeated, cancelled or with a full wantlist, around the arrival of the block;
  two workers and senders let one task be under way while the next is pushed.
  Four ledgers are one more than can be held. A behaviour in which Bitswap
  closes has at most one message (`ClosesEarly`); the others have 510,000 states
  between them. Larger instances were checked once: two connects, three
  messages, and two arrivals with one worker, 3 to 6 million states each. The
  proofs remove the bounds.

Deadlock is checked where the system always has a next step. It is not for
`peer_manager`, the ProviderQueryManager, the sessions and the engine,
where everybody may have finished for good, for `message_queue`, which ends
after a shutdown, nor for violations.

### Fairness

- MessageQueue: a call of the client ends, the loop goes on because `SendMsg`
  has a timeout, timers fire. Strong fairness of the cases of the select
  statement stands for Go's random choice among ready cases.
- DontHaveTimeoutMgr: time passes and the consumer goroutine runs. Nobody is
  assumed to answer or to cancel.
- PeerManager: a started attempt or backoff ends and the queue's loop goes
  on. Nobody is assumed to connect, send or disconnect.
- ProviderQueryManager: weak fairness of the run loop; strong fairness of each
  request and worker, because the Go runtime serves goroutines that wait on a
  channel in order, sessions read until the channel is closed, and searches
  and dials have timeouts.
- SessionManager and Session: goroutines and run loops go on, the idle timer
  fires again and again (resetIdleTick), and a peer that is asked for a want
  again and again eventually answers (strong fairness: cancels may come in
  between). Without the last one nothing is promised by anybody. In Session,
  handlers that wait for room get their turn, as Go serves senders in order.
- SessionWantSender: only that the PeerManager, which is not blocked, goes on.
  `SignalsReturn` therefore does not depend on the loop of the session.
- Engine: none. `ArrivalIsServed` is an invariant with a history variable, `owed`,
  of what peers wanted when the block arrived: each has its task in the queue,
  or a receiver, worker or sender that has it in hand.

### What the violations show

- `message_queue_lost_cancel`: send a want, cancel it, want it again and cancel
  it again before the next message. The second cancel finds the key in no sent
  list and the pending cancel was dropped by the want, so the peer keeps it.
- `provider_queries_stale`: a query is cancelled and asked again while its
  worker is finishing. The finished message of the old query names only the
  key and ends the new query; its listeners get a closed channel without
  having been searched for.

- `session_cancel`: cfun enqueues the keys of a cancelled call, the run loop
  passes the (empty) wants of the operation to `sws.Cancel`, which returns. The
  want stays live, the session keeps its interest and goes on asking for it.

### Observations without a run

TLC reaches these states too; no run is kept for them.

- `SetDelegate` does not count connections that exist already, so a peer
  without an entry can disconnect ("Should never happen",
  `connecteventmanager.go:54`). The early return makes it harmless, but a peer
  with one early and one later connection is announced as gone when the first
  of them closes. Without early connections the case is proved unreachable.
- A key with a broadcast and a targeted entry is taken out of the message
  because one of the two changed, while the other is marked as sent. The next
  rebroadcast repairs it.
- With two wants: every entry of a message that was not large enough for all
  the work is cancelled while the message is built. sendMessage returns because
  the message is empty, before it looks for work that is left
  (`messagequeue.go:533`). That work is stranded until the next call or
  rebroadcast. `NoLostWakeup` says that no other step strands work, and
  `AskedIsTold` excepts wants that are stranded.
- A late block is split as unwanted; before the interested sessions are looked
  up, a session wants it. It is told of the block and drops the want, but the
  block was neither stored nor published. `LiveIsServed` of Session leaves this
  race out (`LateBlock`), and a second one: a call repeats a want that is still
  live because the block for the earlier call waits in the channel, in front of
  the operation of the new call. The block ends the live want, the operation
  puts it into the queue, and the call waits until it is sent (`QueuedAgain`).
- A cancel between the check for sent wants and `AddPending` leaves a DONT_HAVE
  timer for a key nobody wants; the report is ignored.
- A cancelled search may run beside its successor for a moment although the
  type's comment says two never do (`providerquerymanager.go:70`).
- A want that expired, was cancelled and was wanted again may get the report of
  its first life.
- sessionWantSender: a HAVE of a peer and its later disconnect may be in one
  batch. Availability is processed first, so the want is then sent to a peer
  that no longer belongs to the session, and the rule that clears `sentTo` when
  "the peer that is being removed" is waited for (`sessionwantsender.go:729`)
  never applies. The same happens when the message of a peer is handled after
  its disconnect. The idle timer broadcasts such a want.
- "If we have discovered peers already, the sessionWantSender will send wants to
  them" (`session.go:450`): not if all peers of the session have left, or are
  known, from another want for the CID, not to have it. A new want is then
  neither sent nor reported as exhausted. The timers broadcast live wants only,
  which it becomes when it is sent, so it waits until a peer joins the session.
- The end of another session makes the BlockPresenceManager forget what it knows
  of a CID that this session has begun to want, or wants with another auth
  string. checkForExhaustedWants asks the manager and not the want, so a want
  whose last peer says DONT_HAVE is not reported when the answer of another was
  forgotten: the exception of `LostHopeIsReported`. A DONT_HAVE of a peer that is
  not in the session may then read as unknown, and the want is sent to it.
- The BlockPresenceManager is indexed by CID (`blockpresencemanager.go:15`), the
  wants are not. With two auth strings for one CID, a DONT_HAVE for the one is
  recorded for both: the other may stay with a peer that counts as not having
  the block although no answer of it is on its way.
- A batch with the block of a want and a new Add of it forgets the want, which
  then stays in the queue of the session without a sender that knows it. A
  goroutine that waits with an availability change may deliver it after a later
  one.
- Session: two auth strings for one CID share an entry of the set in cidQueue.
  The queue still has the entry of the one, whose block has come, when the other
  is pushed; `Pop` then returns the first, which is no longer wanted
  (`cidqueue.go:24`).
- Engine: the size is read as unknown, the block is stored, ReceiveFrom finds
  the want in the index but not in the ledger; its recheck removes the index
  entry, then the handler writes the ledger. The want is in the ledger, is not
  in the index, and is not served when the block is there or comes again.
- HasNewInfo joins what all active tasks know. With an active DONT_HAVE for a
  want-block and an active HAVE for a want-have of the same want, the arriving
  block counts as known, and the want-block gets no answer.
  The HAVE may also be left over from an earlier arrival, pushed when the want
  has become a want-block.
- `ArrivalIsServed` leaves these cases out: it starts from a want that is recorded
  and settled when its block arrives (no message about it is being handled, no
  answering task is queued, under way or about to be pushed), and ends when a
  want-have follows a want-block.
- A peer that asks again for a block that is sent but not yet reported as done
  gets no new task, although its ledger records the want.
- MessageReceived, MessageSent and ReceiveFrom create a ledger for a peer that
  has disconnected; it stays until the peer comes and leaves again.
- MessageSent "is called when a message has successfully been sent out"
  (`engine.go:756`), but the task worker calls it before it sends, and whatever
  the send returns (a TODO at `workers.go:55` says so).
- A block that arrives with another auth string than the one a peer asked with
  is stored but not offered to that peer.

## 4. Proofs

`PeerManager_proofs` has four parts.

The connectEventManager: for any number of peers, handlers and connections, the
types of its state and the invariants `EventsAlternate` and `RefsCounted`, and
that the "Should never happen" return is unreachable when no connection is older
than the notifiee. The inductive invariant is the conjunction of the three: the
count decides when an event is due, and the balance of events shows that the
second look of OnMessage suffices.

The queues: this is carried on for any number of queues and retries. The
invariant adds that a queue which is about to shut itself down is no longer
registered: the marking of the peer as unresponsive has removed it, which is
what the comment at `messagequeue.go:516` relies on.

The peerWantManager: for any set of peers and any finite set of wants, its types,
the three invariants of `peer_wants` and the refinement. None of the invariants is
inductive alone. The increments of the gauges are computed from the reverse
index, so they need it to be exact; the refinement needs the queues to match,
since a filter drops what the manager believes sent. The inductive invariant is
their conjunction with the disjointness of want-blocks and want-haves of a peer.
The proof has one lemma per operation. Facts about cardinalities of unions and
differences carry the gauges.

The whole: a step of PeerManager is a step, or a stutter, of each part
(`PMSteps`), so the parts' invariants hold in it (`PartsCorrect`), and so does the
refinement (`PartsRun`). The invariant `PInv` adds that the peers of the
peerWantManager are those with a queue, and that no queue but theirs is open
(`InStep`). With it every step is of one of four kinds: nothing happens to peers
and wants, a peer joins, a peer leaves, or a session calls. For each kind, what
it does to each queue is a step of QueueClient (`QueuesCalledCorrect`): that the
filters work on what the manager recorded, and the contract is about what the
queue was asked, is bridged by `QueuesMatchWants`. The same bridge gives
`CallsAllowed` (`FilteredCallsAllowed`), so calls without effect are covered too. `ResponsivePeersServedCorrect`
puts both ends together: a peer that has a connection and answers has an open
queue that was asked for exactly the broadcast wants and its own.

So MessageQueue's assumption about its client is proved of PeerManager, and the
invariants of `MessageQueue_proofs` hold of each queue. That every call which
QueueClient allows is a step of MessageQueue's client is by construction: its
actions are QueueClient's with the effect on the queue added.

`SessionManager_proofs` proves two results for any sets of sessions, wants and
handlers. `AskedForSomeone` is inductive with the ranges of three variables:
a session asks only for what it is recorded for, and what RemoveSession reports
is exactly what loses its last interest, which stays in `ks` until the cancel.
`BlocksAreKept` is about steps. Its invariant says that what a session tracks is
recorded as wanted; a lemma shows that only the two receiving steps let a block
arrive, and both store a wanted one.

`Session_proofs` proves the same tie between tracked and wanted for one session in
detail, `TrackedIsWanted`, for any calls, handlers, capacities and limits, and any
wants with CIDs of their own. The queue of toFetch keeps stale entries, so the
property is not inductive: an entry whose CID was removed becomes current when
the CID is pushed again. The invariant is about the set of CIDs instead of the queue: every want
whose CID is in it is recorded as wanted (`Recorded`), with the ranges of the
channel, the calls and the receiving goroutines. With two auth strings for one
CID this fails, see the observations.

`MessageQueue_proofs` proves the five safety properties of `message_queue` for any
finite set of wants and any cutoff. `TimerMatchesSchedule` has to hold everywhere
in the loop, and `TracksWhatWasAsked` also inside AddCancels, to be inductive.
`NoLostWakeup` is proved for any wants and messages of any size. A lemma goes
through the steps: only the end of an empty message leaves work without a wakeup
(`StrandStep`). That this takes a message which did not hold all the work is
shown by an invariant for messages that do: whatever came after the snapshot of
the message that is being built has been signalled.

`ProviderQueryManager_proofs` proves the three safety invariants of
`provider_queries` for any requests, keys, providers, workers and channel size.
The invariant `PInv` is about the manager while it runs. Besides the three it
says that a request is announced once and is in no map before (`Mail`, `Fresh`),
and that a query bears the name of a request for its own key (`Named`), which is
why the end of one query leaves the others alone.

`SessionWantSender_proofs` proves the three properties of `want_sender` that are
about wants, for any peers, wants, events and messages. `CandidatesAreAsked`
needs that a tracked want knows something of every peer of the session, and
that the peer a want was sent to is one it knows of (`SInv`). The other two need
that whatever the BlockPresenceManager has learned since, and has not forgotten,
is in the message handler, the channel or the batch (`UpToDate`). They are proved for wants with CIDs of their own
(`CidsDiffer`); with two auth strings for one CID TLC finds a violation of
`NotWaitingForDontHave`, see the observations. The case of `LostHopeIsReported`
in which a HAVE is on its way takes five messages, more than the run has; the
run meets the one in which an answer was forgotten.

The same module proves `TypeOK`: the channel and the counts of consecutive
DONT_HAVEs stay within their limits, and a want waits for a peer only if the
tracker knows that it was sent there.

`DontHaveTimeoutMgr_proofs` proves the three invariants of `dont_have_timeouts` for
any wants, timeouts and bounds. They need each other (`DInv`): the check may stop
at the first young entry because the queue is in order, and AddPending may rely
on a check that is already scheduled because an active want has an entry that it
was scheduled for. That the queue is in order although AddPending reads the
clock before it has the lock needs that no entry is younger than the time read
(`NoneSince`): one goroutine, the run loop of the queue, makes all the calls.

`Engine_proofs` proves the four invariants of `engine` and `TypeOK` for any peers, wants,
goroutines, messages and events. `EInv` carries `NoDoubleSend`, `WorkIsSignalled`
and `OutboxOpenForWorkers`. Besides these it says how the counter of workers and
the outbox follow the workers (`Counted`), that one holder at most has the block
of a want for a peer (`Alone`), and that a sender waits for one worker only
(`Handshake`), without which a worker could overwrite what another has given to
its sender. `TInv` adds to `TypeOK` the ranges of what handlers and receivers hold.
`ArrivalIsServed` rests on both and on two more facts. `Owns`: a ledger belongs to
one peer, and whoever holds a ledger that is still in the map holds that of its
own peer, so no step for another peer or with a forgotten ledger removes the
want. `Served`, for what is owed: ledger and index have the want and the block is
there; no handler works from a size read before the arrival; every task for the
want that is pushed, queued or held answers it, so that a merge or a dropped push
loses nothing; and somebody has it in hand. There is one lemma for each kind of
goroutine.

Assumptions, all evaluated by the runs: finite sets of wants in PeerWantManager
and MessageQueue (`WantsFinite`, `QueueAssumption`), a set of as many task
workers as `engineTaskWorkerCount` says (`EngineAssumption`), bounds that are
natural numbers, functions on the right domains, and a None or NoPeer that is no
peer, request, provider, ledger, task or update. `CidsDiffer` is a hypothesis of
the three theorems that need it.

Every safety property of the passing runs is proved. Only model-checked is liveness (`ReplacedQueuesStop`,
`AskedIsTold`, `WaitingEnds`, `RequestsEnd`, `LiveIsServed`, `ReceiveEnds`,
`SignalsReturn`), since the prover does not reason about fairness.

The proofs are checked with Zenon (`USE Zenon` at the top of each proof module)
unless a step names another prover.

## 5. Plan

1. Notifications (shutdown, buffers), the provide workers and the conversion of
   messages.
2. A run of Session with two wants that share a CID.
3. Composition of Session and SessionWantSender.

## 6. Not modelled

- Priorities, block sizes, latencies, statistics, tracing, logging: no control
  depends on them beyond the choices above.
- The score ledger: floating point values that only tag connections.
- Stream I/O, protocol negotiation, protobuf encoding, test networks.
- The provide workers: they announce CIDs to the routing system.
- Shutdown and buffers of the notifications; the session model has subscribe and
  publish.
- The order in which the task queue serves peers, and the freezing of a peer
  after a cancel, which only changes that order.

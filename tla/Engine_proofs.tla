---------------------------- MODULE Engine_proofs ----------------------------
(***************************************************************************)
(* For any numbers of peers, wants, goroutines and events: the outbox is   *)
(* open as long as a worker may use it, no block is on its way to a peer   *)
(* twice, a worker never sleeps beside work it may take, the variables     *)
(* keep to their ranges, and a peer that wanted a block when it arrived is *)
(* served.                                                                 *)
(***************************************************************************)
EXTENDS Engine, TLAPS

\* The prover of a step that names none.
USE Zenon

\* The holder x has a task that sends the block of w to p.
Carries(x, p, w) == "tasks" \in DOMAIN x /\ x.p = p /\ w \in BlockTasks(x.tasks)

\* What a goroutine knows depends on where it is.
QueueShape == DOMAIN pending = Peers /\ \A p \in Peers : DOMAIN pending[p] = Wants

WorkerShape ==
    /\ DOMAIN worker = Workers
    /\ \A u \in Workers :
          /\ "pc" \in DOMAIN worker[u]
          /\ worker[u].pc \in {"next", "wait", "fetch", "empty"} => "s" \in DOMAIN worker[u]
          /\ "tasks" \in DOMAIN worker[u] <=> worker[u].pc \in {"fetch", "empty"}
          /\ "tasks" \in DOMAIN worker[u] => "p" \in DOMAIN worker[u]

SenderShape ==
    /\ DOMAIN sender = Senders
    /\ \A s \in Senders :
          /\ "tasks" \in DOMAIN sender[s] <=> sender[s].pc \in {"find", "record", "send"}
          /\ "tasks" \in DOMAIN sender[s] => "p" \in DOMAIN sender[s]

HandlerShape ==
    /\ DOMAIN handler = Handlers
    /\ \A h \in Handlers : handler[h].pc \in {"index", "find", "ledger"} =>
          {"pc", "p", "w"} \subseteq DOMAIN handler[h] /\ handler[h].p \in Peers /\ handler[h].w \in Wants

ReceiverShape ==
    /\ DOMAIN receiver = Receivers
    /\ \A r \in Receivers :
          /\ receiver[r].pc \in {"stored", "look", "loop", "push", "recheck"} =>
                "w" \in DOMAIN receiver[r] /\ receiver[r].w \in Wants
          /\ "work" \in DOMAIN receiver[r] <=> receiver[r].pc \in {"loop", "push", "recheck"}
          /\ "work" \in DOMAIN receiver[r] => receiver[r].work \in BOOLEAN
          /\ receiver[r].pc = "push" => receiver[r].p \in Peers /\ receiver[r].work

Shape == QueueShape /\ WorkerShape /\ SenderShape /\ HandlerShape /\ ReceiverShape

Exited == {u \in Workers : worker[u].pc = "exited"}

\* taskWorkerCount counts the workers that run, and the last one closes the
\* outbox.
Counted ==
    /\ taskWorkerCount \in 0..engineTaskWorkerCount
    /\ ExistsBijection(1..taskWorkerCount, Workers \ Exited)
    /\ outboxClosed => Workers \ Exited = {}

\* At most one holder has the block of w for p, and nothing is queued then.
Alone ==
    \A p \in Peers, w \in Wants :
        /\ \A u \in Workers : Carries(worker[u], p, w) =>
              /\ pending[p][w] = None
              /\ \A v \in Workers : Carries(worker[v], p, w) => v = u
              /\ \A s \in Senders : ~Carries(sender[s], p, w)
        /\ \A s \in Senders : Carries(sender[s], p, w) =>
              /\ pending[p][w] = None
              /\ \A t \in Senders : Carries(sender[t], p, w) => t = s

\* The worker has handed its channel to a sender.
Engaged(u) == worker[u].pc \in {"next", "wait", "fetch", "empty"}

\* That sender waits for this worker only.
Handshake ==
    phase = "running" => \A u \in Workers : Engaged(u) =>
        /\ worker[u].s \in Senders /\ sender[worker[u].s].pc = "waiting"
        /\ \A v \in Workers : Engaged(v) /\ worker[v].s = worker[u].s => v = u

EInv == Shape /\ Counted /\ Alone /\ Handshake /\ WorkIsSignalled

-----------------------------------------------------------------------------
\* A part of the state that a step leaves alone keeps its shape.
LEMMA SameShape ==
    /\ QueueShape /\ UNCHANGED pending => QueueShape'
    /\ WorkerShape /\ UNCHANGED worker => WorkerShape'
    /\ SenderShape /\ UNCHANGED sender => SenderShape'
    /\ HandlerShape /\ UNCHANGED handler => HandlerShape'
    /\ ReceiverShape /\ UNCHANGED receiver => ReceiverShape'
<1>1. QueueShape /\ UNCHANGED pending => QueueShape'
  BY DEF QueueShape
<1>2. WorkerShape /\ UNCHANGED worker => WorkerShape'
  BY DEF WorkerShape
<1>3. SenderShape /\ UNCHANGED sender => SenderShape'
  BY DEF SenderShape
<1>4. HandlerShape /\ UNCHANGED handler => HandlerShape'
  BY DEF HandlerShape
<1>5. ReceiverShape /\ UNCHANGED receiver => ReceiverShape'
  BY DEF ReceiverShape
<1>. QED  BY <1>1, <1>2, <1>3, <1>4, <1>5

\* A task that is pushed or taken back leaves the queue a function of peers and wants.
LEMMA QueueStaysShaped ==
    ASSUME QueueShape, NEW p \in Peers, NEW w \in Wants, NEW t,
           \/ pending' = PushTask(pending, p, w, t)
           \/ pending' = RemoveTask(pending, p, w)
           \/ UNCHANGED pending
    PROVE  QueueShape'
BY DEF QueueShape, PushTask, RemoveTask

\* Counting one element less leaves one element less, and counting none leaves
\* none.
LEMMA OneLess ==
    ASSUME NEW n \in Nat, NEW S, NEW u \in S, ExistsBijection(1..n, S)
    PROVE  n > 0 /\ ExistsBijection(1..(n - 1), S \ {u})
<1>1. PICK f \in [1..n -> S] : /\ \A i, j \in 1..n : f[i] = f[j] => i = j
                              /\ \A v \in S : \E i \in 1..n : f[i] = v
  BY DEF ExistsBijection, Bijection, Injection, Surjection, IsInjective
<1>2. PICK k \in 1..n : f[k] = u
  BY <1>1
<1> DEFINE g == [i \in 1..(n - 1) |-> IF i = k THEN f[n] ELSE f[i]]
<1>3. g \in [1..(n - 1) -> S \ {u}]
  BY <1>1, <1>2, SMT
<1>4. \A i, j \in 1..(n - 1) : g[i] = g[j] => i = j
  BY <1>1, <1>2, SMT
<1>5. \A v \in S \ {u} : \E i \in 1..(n - 1) : g[i] = v
  <2> SUFFICES ASSUME NEW v \in S \ {u} PROVE \E i \in 1..(n - 1) : g[i] = v
    OBVIOUS
  <2>1. PICK i \in 1..n : f[i] = v
    BY <1>1
  <2>2. CASE i = n
    <3>1. k \in 1..(n - 1) /\ g[k] = v
      BY <1>2, <2>1, <2>2, SMT
    <3>. QED  BY <3>1
  <2>3. CASE i # n
    <3>1. i \in 1..(n - 1) /\ g[i] = v
      BY <1>2, <2>1, <2>3, SMT
    <3>. QED  BY <3>1
  <2>. QED  BY <2>2, <2>3
<1> HIDE DEF g
<1>6. DOMAIN g = 1..(n - 1)
  BY <1>3
<1>7. g \in Bijection(1..(n - 1), S \ {u})
  BY <1>3, <1>4, <1>5, <1>6 DEF Bijection, Injection, Surjection, IsInjective
<1>8. n > 0
  BY <1>2, SMT
<1>. QED  BY <1>7, <1>8 DEF ExistsBijection

LEMMA NoneLeft ==
    ASSUME NEW S, ExistsBijection(1..0, S)
    PROVE  S = {}
BY SMT DEF ExistsBijection, Bijection, Surjection

\* All workers offer, all senders are idle and the queue is empty at first.
LEMMA InitEInv == Init => EInv
<1> SUFFICES ASSUME Init PROVE EInv
  OBVIOUS
<1>1. Shape
  BY DEF Init, Shape, QueueShape, WorkerShape, SenderShape, HandlerShape, ReceiverShape
<1>2. Counted
  <2>1. Exited = {}
    BY DEF Init, Exited
  <2>. QED  BY <2>1, EngineAssumption, SMT DEF Init, Counted, EngineAssumption
<1>3. Alone
  BY DEF Init, Alone, Carries
<1>4. Handshake
  BY DEF Init, Handshake, Engaged
<1>5. WorkIsSignalled
  BY DEF Init, WorkIsSignalled
<1>. QED  BY <1>1, <1>2, <1>3, <1>4, <1>5 DEF EInv

\* Steps of the other goroutines, which leave tasks, workers and senders alone.
LEMMA QuietEInv ==
    ASSUME EInv, Shape', AboutToLook => AboutToLook',
           UNCHANGED <<pending, worker, sender, taskWorkerCount, outboxClosed>>,
           phase' = "running" => phase = "running"
    PROVE  EInv'
<1>1. Counted'
  BY DEF EInv, Counted, Exited
<1>2. Alone'
  BY SMT DEF EInv, Alone, Carries
<1>3. Handshake'
  BY DEF EInv, Handshake, Engaged
<1>4. WorkIsSignalled'
  <2>1. \A p \in Peers : MustPop(p)' <=> MustPop(p)
    BY DEF MustPop, Queued, ActiveOf, Holders
  <2>. QED  BY <2>1 DEF EInv, WorkIsSignalled
<1>. QED  BY <1>1, <1>2, <1>3, <1>4 DEF EInv

\* A goroutine that changes what is queued, by a push that somebody will hear of
\* or by taking a task back.
LEMMA QueueEInv ==
    ASSUME EInv, Shape', AboutToLook => AboutToLook',
           UNCHANGED <<worker, sender, taskWorkerCount, outboxClosed, phase>>,
           NEW p \in Peers, NEW w \in Wants, NEW t,
           \/ pending' = PushTask(pending, p, w, t) /\ AboutToLook'
           \/ pending' = RemoveTask(pending, p, w)
    PROVE  EInv'
<1>1. Counted'
  BY DEF EInv, Counted, Exited
<1>2. Handshake'
  BY DEF EInv, Handshake, Engaged
<1>3. Alone'
  <2>1. ASSUME NEW q \in Peers, NEW v \in Wants,
               NEW x \in Holders, Carries(x, q, v), pending[q][v] = None
        PROVE  pending'[q][v] = None
    <3>1. CASE pending' = RemoveTask(pending, p, w)
      BY <2>1, <3>1 DEF RemoveTask, EInv, Shape, QueueShape
    <3>2. CASE pending' = PushTask(pending, p, w, t)
      <4>1. CASE q = p /\ v = w
        <5>1. x.tasks[w] \in Active(p, w) /\ x.tasks[w].have /\ x.tasks[w].block
          BY <2>1, <4>1 DEF Carries, BlockTasks, Active, ActiveOf
        <5>2. ~HasNewInfo(t, Active(p, w))
          BY <5>1 DEF HasNewInfo
        <5>. QED  BY <2>1, <3>2, <4>1, <5>1, <5>2 DEF PushTask
      <4>2. CASE ~(q = p /\ v = w)
        BY <2>1, <3>2, <4>2 DEF PushTask, EInv, Shape, QueueShape
      <4>. QED  BY <4>1, <4>2
    <3>. QED  BY <3>1, <3>2
  <2>2. \A u \in Workers : worker[u] \in Holders
    BY DEF Holders
  <2>3. \A s \in Senders : sender[s] \in Holders
    BY DEF Holders
  <2>. QED  BY <2>1, <2>2, <2>3 DEF EInv, Alone
<1>4. WorkIsSignalled'
  <2>1. CASE AboutToLook'
    BY <2>1 DEF WorkIsSignalled
  <2>2. CASE pending' = RemoveTask(pending, p, w)
    <3>1. \A q \in Peers : Queued(q)' \subseteq Queued(q)
      BY <2>2 DEF Queued, RemoveTask, EInv, Shape, QueueShape
    <3>2. \A q \in Peers : MustPop(q)' => MustPop(q)
      BY <3>1 DEF MustPop, ActiveOf, Holders
    <3>. QED  BY <3>2 DEF EInv, WorkIsSignalled
  <2>. QED  BY <2>1, <2>2
<1>. QED  BY <1>1, <1>2, <1>3, <1>4 DEF EInv

-----------------------------------------------------------------------------
\* The steps of MessageReceived.
LEMMA HandleEInv ==
    ASSUME EInv, NEW h \in Handlers,
           Handle(h) \/ \E p \in Peers, w \in Wants : MessageReceived(h, p, w)
    PROVE  EInv'
<1> USE DEF taskVars, stopVars
<1>1. CASE updateIndex(h) \/ findLedger(h) \/ \E p \in Peers, w \in Wants : MessageReceived(h, p, w)
  <2>1. /\ handler[h].pc # "signal" /\ DOMAIN handler' = DOMAIN handler
        /\ \A k \in Handlers \ {h} : handler'[k] = handler[k]
        /\ {"pc", "p", "w"} \subseteq DOMAIN handler'[h] /\ handler'[h].p \in Peers /\ handler'[h].w \in Wants
        /\ UNCHANGED <<pending, workSignal, receiver, worker, sender, stopVars>>
    <3>1. CASE updateIndex(h)
      BY <3>1 DEF updateIndex, SetHandler, EInv, Shape, HandlerShape
    <3>2. CASE findLedger(h)
      BY <3>2, SMT DEF findLedger, SetHandler, EInv, Shape, HandlerShape
    <3>3. CASE \E p \in Peers, w \in Wants : MessageReceived(h, p, w)
      BY <3>3, SMT DEF MessageReceived, SetHandler, EInv, Shape, HandlerShape
    <3>. QED  BY <1>1, <3>1, <3>2, <3>3
  <2>2. Shape'
    <3>1. HandlerShape'
      BY <2>1 DEF EInv, Shape, HandlerShape
    <3>. QED  BY <2>1, <3>1, SameShape DEF EInv, Shape
  <2>3. AboutToLook => AboutToLook'
    BY <2>1 DEF AboutToLook
  <2>. QED  BY <2>1, <2>2, <2>3, QuietEInv
<1>2. CASE updateLedger(h)
  <2> DEFINE m == handler[h]
  <2>1. /\ m.pc = "ledger"
        /\ handler' = [handler EXCEPT ![h] = [pc |-> IF hasTask(m) THEN "signal" ELSE "idle"]]
        /\ UNCHANGED <<workSignal, receiver, worker, sender, stopVars>>
    BY <1>2 DEF updateLedger, SetHandler
  <2>2. \/ hasTask(m) /\ pending' = PushTask(pending, m.p, m.w, taskOf(m))
        \/ pending' = RemoveTask(pending, m.p, m.w)
        \/ UNCHANGED pending
    BY <1>2 DEF updateLedger
  <2>3. m.p \in Peers /\ m.w \in Wants
    BY <2>1 DEF EInv, Shape, HandlerShape
  <2>4. /\ DOMAIN handler' = Handlers /\ handler'[h].pc = IF hasTask(m) THEN "signal" ELSE "idle"
        /\ \A k \in Handlers \ {h} : handler'[k] = handler[k]
    BY <2>1 DEF EInv, Shape, HandlerShape
  <2>5. Shape'
    <3>1. HandlerShape'
      BY <2>4 DEF EInv, Shape, HandlerShape
    <3>2. QueueShape'
      BY <2>2, <2>3, QueueStaysShaped DEF EInv, Shape
    <3>. QED  BY <2>1, <3>1, <3>2, SameShape DEF EInv, Shape
  <2>6. AboutToLook => AboutToLook'
    BY <2>1, <2>4 DEF AboutToLook
  <2>7. hasTask(m) => AboutToLook'
    BY <2>4 DEF AboutToLook
  <2>8. /\ UNCHANGED <<worker, sender, taskWorkerCount, outboxClosed, phase>>
        /\ phase' = "running" => phase = "running"
    BY <2>1
  <2> HIDE DEF m
  <2>9. CASE UNCHANGED pending
    BY <2>5, <2>6, <2>8, <2>9, QuietEInv
  <2>10. CASE hasTask(m) /\ pending' = PushTask(pending, m.p, m.w, taskOf(m))
    BY <2>3, <2>5, <2>6, <2>7, <2>8, <2>10, QueueEInv
  <2>11. CASE pending' = RemoveTask(pending, m.p, m.w)
    BY <2>3, <2>5, <2>6, <2>8, <2>11, QueueEInv
  <2>. QED  BY <2>2, <2>9, <2>10, <2>11
<1>3. CASE messageDone(h)
  <2>1. AboutToLook'
    BY <1>3 DEF messageDone, signalNewWork, AboutToLook
  <2>2. HandlerShape'
    <3>1. handler' = [handler EXCEPT ![h] = [pc |-> "idle"]]
      BY <1>3 DEF messageDone, SetHandler
    <3>. QED  BY <3>1 DEF EInv, Shape, HandlerShape
  <2>3. Shape'
    BY <1>3, <2>2, SameShape DEF messageDone, EInv, Shape
  <2>. QED  BY <1>3, <2>1, <2>3, QuietEInv DEF messageDone
<1>. QED  BY <1>1, <1>2, <1>3 DEF Handle

\* What the loop of ReceiveFrom goes on with.
LEMMA LoopFacts ==
    ASSUME NEW w \in Wants, NEW todo, NEW missing, NEW work \in BOOLEAN
    PROVE  LET x == Loop(w, todo, missing, work)
           IN  /\ x.pc \in {"loop", "recheck"} => "w" \in DOMAIN x /\ x.w = w /\ x.work = work
               /\ x.pc \in {"loop", "recheck", "signal", "idle"}
               /\ "work" \in DOMAIN x <=> x.pc \in {"loop", "recheck"}
               /\ work => x.pc # "idle"
BY DEF Loop

\* One receiver moves on and remembers that there is work.
LEMMA ReceiverFacts ==
    ASSUME EInv, NEW r \in Receivers, NEW x, SetReceiver(r, x),
           x.pc \in {"stored", "look", "loop", "push", "recheck"} =>
                "w" \in DOMAIN x /\ x.w \in Wants,
           "work" \in DOMAIN x <=> x.pc \in {"loop", "push", "recheck"},
           "work" \in DOMAIN x => x.work \in BOOLEAN,
           x.pc = "push" => x.p \in Peers /\ x.work,
           QueueShape',
           UNCHANGED <<handler, worker, sender>>
    PROVE  /\ Shape'
           /\ ("work" \in DOMAIN x /\ x.work) \/ x.pc = "signal" => AboutToLook'
           /\ UNCHANGED workSignal
                /\ ~("work" \in DOMAIN receiver[r] /\ receiver[r].work) /\ receiver[r].pc # "signal"
                => (AboutToLook => AboutToLook')
<1>1. receiver'[r] = x /\ DOMAIN receiver' = Receivers
      /\ \A k \in Receivers \ {r} : receiver'[k] = receiver[k]
  BY DEF SetReceiver, EInv, Shape, ReceiverShape
<1>2. ReceiverShape'
  BY <1>1 DEF EInv, Shape, ReceiverShape
<1>3. Shape'
  BY <1>2, SameShape DEF EInv, Shape
<1>. QED  BY <1>1, <1>3, SMT DEF AboutToLook

\* The steps of receiveBlocksFrom.
LEMMA ReceiveEInv ==
    ASSUME EInv, NEW r \in Receivers, Receive(r) \/ \E w \in Wants : receiveBlock(r, w)
    PROVE  EInv'
<1> USE DEF taskVars, stopVars
<1> DEFINE x == receiver[r]
<1>1. UNCHANGED pending => QueueShape'
  BY SameShape DEF EInv, Shape
<1>2. ASSUME NEW w \in Wants, receiveBlock(r, w) PROVE EInv'
  <2>1. PICK from \in connected \cup {None} : SetReceiver(r, [pc |-> "stored", w |-> w, from |-> from])
    BY <1>2 DEF receiveBlock
  <2>2. x.pc = "idle" /\ "work" \notin DOMAIN x /\ UNCHANGED <<pending, workSignal, handler, worker, sender, stopVars>>
    BY <1>2 DEF receiveBlock, EInv, Shape, ReceiverShape
  <2>3. Shape' /\ (AboutToLook => AboutToLook')
    BY <2>1, <2>2, <1>1, ReceiverFacts
  <2>. QED  BY <2>2, <2>3, QuietEInv
<1>3. CASE recordReceived(r)
  <2>1. /\ x.pc = "stored" /\ x.w \in Wants /\ "work" \notin DOMAIN x
        /\ SetReceiver(r, [pc |-> "look", w |-> x.w])
        /\ UNCHANGED <<pending, workSignal, handler, worker, sender, stopVars>>
    BY <1>3 DEF recordReceived, EInv, Shape, ReceiverShape
  <2>2. Shape' /\ (AboutToLook => AboutToLook')
    BY <2>1, <1>1, ReceiverFacts
  <2>. QED  BY <2>1, <2>2, QuietEInv
<1>4. CASE lookUp(r)
  <2>1. /\ x.pc = "look" /\ x.w \in Wants /\ "work" \notin DOMAIN x
        /\ SetReceiver(r, Loop(x.w, cids[x.w], {}, FALSE))
        /\ UNCHANGED <<pending, workSignal, handler, worker, sender, stopVars>>
    BY <1>4 DEF lookUp, EInv, Shape, ReceiverShape
  <2> DEFINE y == Loop(x.w, cids[x.w], {}, FALSE)
  <2>2. /\ y.pc \in {"loop", "recheck"} => "w" \in DOMAIN y /\ y.w = x.w /\ y.work = FALSE
        /\ y.pc \in {"loop", "recheck", "signal", "idle"}
        /\ "work" \in DOMAIN y <=> y.pc \in {"loop", "recheck"}
    BY <2>1, LoopFacts
  <2> HIDE DEF y
  <2>3. SetReceiver(r, y)
    BY <2>1 DEF y
  <2>4. Shape' /\ (AboutToLook => AboutToLook')
    BY <2>1, <2>2, <2>3, <1>1, ReceiverFacts, ZenonT(30)
  <2>. QED  BY <2>1, <2>4, QuietEInv
<1>5. ASSUME NEW p \in Peers, lookAtPeer(r, p) PROVE EInv'
  <2>1. /\ x.pc = "loop" /\ x.w \in Wants /\ x.work \in BOOLEAN /\ "w" \in DOMAIN x
        /\ UNCHANGED <<pending, workSignal, handler, worker, sender, stopVars>>
    BY <1>5 DEF lookAtPeer, EInv, Shape, ReceiverShape
  <2>2. CASE Contains(p, x.w)
    <3> DEFINE y == [pc |-> "push", w |-> x.w, todo |-> x.todo \ {p}, missing |-> x.missing,
                     work |-> TRUE, p |-> p, block |-> sendAsBlock(wantList[ledgerMap[p]][x.w], x.w)]
    <3>1. y.pc = "push" /\ "work" \in DOMAIN y /\ y.work = TRUE /\ y.p = p /\ "w" \in DOMAIN y /\ y.w = x.w
      OBVIOUS
    <3>2. SetReceiver(r, y)
      BY <1>5, <2>2 DEF lookAtPeer
    <3> HIDE DEF y
    <3>3. Shape' /\ AboutToLook'
      BY <2>1, <3>1, <3>2, <1>1, ReceiverFacts, ZenonT(30)
    <3>. QED  BY <2>1, <3>3, QuietEInv
  <2>3. CASE ~Contains(p, x.w)
    <3> DEFINE y == Loop(x.w, x.todo \ {p}, x.missing \cup {p}, x.work)
    <3>1. /\ y.pc \in {"loop", "recheck"} => "w" \in DOMAIN y /\ y.w = x.w /\ y.work = x.work
          /\ y.pc \in {"loop", "recheck", "signal", "idle"}
          /\ "work" \in DOMAIN y <=> y.pc \in {"loop", "recheck"}
          /\ x.work => y.pc # "idle"
      BY <2>1, LoopFacts, SMT
    <3>2. SetReceiver(r, y)
      BY <1>5, <2>3 DEF lookAtPeer
    <3> HIDE DEF y
    <3>3. Shape' /\ (AboutToLook => AboutToLook')
      BY <2>1, <3>1, <3>2, <1>1, ReceiverFacts
    <3>. QED  BY <2>1, <3>3, QuietEInv
  <2>. QED  BY <2>2, <2>3
<1>6. CASE pushTask(r)
  <2> DEFINE y == Loop(x.w, x.todo, x.missing, TRUE)
             t == [block |-> x.block, have |-> TRUE, sendDontHave |-> FALSE]
  <2>1. /\ x.pc = "push" /\ x.w \in Wants /\ x.p \in Peers
        /\ SetReceiver(r, y) /\ pending' = PushTask(pending, x.p, x.w, t)
        /\ UNCHANGED <<workSignal, handler, worker, sender, stopVars>>
    BY <1>6, ZenonT(30) DEF pushTask, EInv, Shape, ReceiverShape
  <2>2. /\ y.pc \in {"loop", "recheck"} => "w" \in DOMAIN y /\ y.w = x.w /\ y.work = TRUE
        /\ y.pc \in {"loop", "recheck", "signal"}
        /\ "work" \in DOMAIN y <=> y.pc \in {"loop", "recheck"}
    BY <2>1 DEF Loop
  <2> HIDE DEF y
  <2>3. QueueShape'
    BY <2>1, QueueStaysShaped DEF EInv, Shape
  <2>4. Shape' /\ AboutToLook'
    BY <2>1, <2>2, <2>3, ReceiverFacts, ZenonT(30)
  <2>. QED  BY <2>1, <2>4, QueueEInv
<1>7. CASE recheckMissing(r)
  <2>1. /\ x.pc = "recheck" /\ x.work \in BOOLEAN
        /\ SetReceiver(r, [pc |-> IF x.work THEN "signal" ELSE "idle"])
        /\ UNCHANGED <<pending, workSignal, handler, worker, sender, stopVars>>
    BY <1>7 DEF recheckMissing, EInv, Shape, ReceiverShape
  <2>2. Shape' /\ (AboutToLook => AboutToLook')
    <3> DEFINE y == [pc |-> IF x.work THEN "signal" ELSE "idle"]
    <3>1. y.pc = (IF x.work THEN "signal" ELSE "idle") /\ "work" \notin DOMAIN y /\ SetReceiver(r, y)
      BY <2>1
    <3> HIDE DEF y
    <3>. QED  BY <2>1, <3>1, <1>1, ReceiverFacts
  <2>. QED  BY <2>1, <2>2, QuietEInv
<1>8. CASE receiveDone(r)
  <2>1. /\ SetReceiver(r, [pc |-> "idle"]) /\ workSignal' = TRUE
        /\ UNCHANGED <<pending, handler, worker, sender, stopVars>>
    BY <1>8 DEF receiveDone, signalNewWork
  <2>2. Shape'
    BY <2>1, <1>1, ReceiverFacts
  <2>3. AboutToLook'
    BY <2>1 DEF AboutToLook
  <2>. QED  BY <2>1, <2>2, <2>3, QuietEInv
<1>. QED  BY <1>2, <1>3, <1>4, <1>5, <1>6, <1>7, <1>8 DEF Receive

-----------------------------------------------------------------------------
\* One worker moves on.
LEMMA WorkerFacts ==
    ASSUME EInv, NEW u \in Workers, NEW x, SetWorker(u, x)
    PROVE  /\ DOMAIN worker' = Workers /\ worker'[u] = x
           /\ \A v \in Workers \ {u} : worker'[v] = worker[v]
           /\ worker[u].pc # "exited" /\ x.pc # "exited" => Exited' = Exited
BY DEF SetWorker, EInv, Shape, WorkerShape, Exited

\* One sender moves on.
LEMMA SenderFacts ==
    ASSUME EInv, NEW s \in Senders, NEW x, SetSender(s, x)
    PROVE  /\ DOMAIN sender' = Senders /\ sender'[s] = x
           /\ \A t \in Senders \ {s} : sender'[t] = sender[t]
BY DEF SetSender, EInv, Shape, SenderShape

\* A worker hands its channel to an idle sender.
LEMMA OfferEInv ==
    ASSUME EInv, NEW u \in Workers, NEW s \in Senders, offer(u, s)
    PROVE  EInv'
<1> USE DEF taskVars, stopVars
<1>1. /\ worker[u].pc = "offer" /\ sender[s].pc = "idle"
      /\ UNCHANGED <<pending, workSignal, handler, receiver, taskWorkerCount, outboxClosed, phase>>
  BY DEF offer
<1>2. /\ DOMAIN worker' = Workers /\ worker'[u] = [pc |-> "next", s |-> s]
      /\ \A v \in Workers \ {u} : worker'[v] = worker[v]
      /\ Exited' = Exited
  BY <1>1, WorkerFacts DEF offer
<1>3. /\ DOMAIN sender' = Senders /\ sender'[s] = [pc |-> "waiting"]
      /\ \A t \in Senders \ {s} : sender'[t] = sender[t]
  BY DEF offer, EInv, Shape, SenderShape
<1>4. Shape'
  <2>1. WorkerShape'
    BY <1>2, SMT DEF EInv, Shape, WorkerShape
  <2>2. SenderShape'
    BY <1>3, SMT DEF EInv, Shape, SenderShape
  <2>. QED  BY <1>1, <2>1, <2>2, SameShape DEF EInv, Shape
<1>5. Counted'
  BY <1>1, <1>2 DEF EInv, Counted
<1>6. Alone'
  <2>1. \A p, w : ~Carries(worker'[u], p, w) /\ ~Carries(sender'[s], p, w)
    BY <1>2, <1>3 DEF Carries
  <2>. QED  BY <1>1, <1>2, <1>3, <2>1, SMT DEF EInv, Alone
<1>7. Handshake'
  BY <1>1, <1>2, <1>3, SMT DEF EInv, Handshake, Engaged
<1>8. AboutToLook'
  BY <1>2, SMT DEF AboutToLook
<1>. QED  BY <1>4, <1>5, <1>6, <1>7, <1>8 DEF EInv, WorkIsSignalled

\* A worker takes tasks of one peer.
LEMMA PopEInv ==
    ASSUME EInv, NEW u \in Workers, worker[u].pc \in {"next", "wait"}, popTasks(u),
           UNCHANGED <<handler, receiver, sender, stopVars>>
    PROVE  EInv'
<1> USE DEF stopVars
<1>1. PICK q \in Peers, ws \in SUBSET Wants :
         /\ ws \subseteq Queued(q)
         /\ SetWorker(u, [pc |-> "fetch", s |-> worker[u].s, p |-> q, tasks |-> [w \in ws |-> pending[q][w]]])
         /\ pending' = [pending EXCEPT ![q] = [w \in Wants |-> IF w \in ws THEN None ELSE @[w]]]
  BY DEF popTasks, Queued
<1>2. /\ DOMAIN worker' = Workers
      /\ worker'[u] = [pc |-> "fetch", s |-> worker[u].s, p |-> q, tasks |-> [w \in ws |-> pending[q][w]]]
      /\ \A v \in Workers \ {u} : worker'[v] = worker[v]
      /\ Exited' = Exited
  BY <1>1, WorkerFacts
<1>3. /\ DOMAIN pending' = Peers /\ \A p \in Peers : DOMAIN pending'[p] = Wants
      /\ \A w \in ws : pending'[q][w] = None /\ pending[q][w] # None
      /\ \A p \in Peers, w \in Wants : pending'[p][w] = None \/ pending'[p][w] = pending[p][w]
  BY <1>1 DEF EInv, Shape, QueueShape, Queued
<1>4. Shape'
  <2>1. WorkerShape'
    BY <1>2, SMT DEF EInv, Shape, WorkerShape
  <2>2. QueueShape'
    BY <1>3 DEF QueueShape
  <2>. QED  BY <2>1, <2>2, SameShape DEF EInv, Shape
<1>5. Counted'
  BY <1>2 DEF EInv, Counted
<1>6. Alone'
  <2>1. \A p, w : Carries(worker'[u], p, w) => p = q /\ w \in ws
    BY <1>2, SMT DEF Carries, BlockTasks
  <2>2. \A p, w : ~Carries(worker[u], p, w)
    BY DEF Carries, EInv, Shape, WorkerShape
  <2>. QED  BY <1>2, <1>3, <2>1, <2>2, SMT DEF EInv, Alone
<1>7. Handshake'
  BY <1>2, SMT DEF EInv, Handshake, Engaged
<1>8. AboutToLook'
  BY <1>2, SMT DEF AboutToLook
<1>. QED  BY <1>4, <1>5, <1>6, <1>7, <1>8 DEF EInv, WorkIsSignalled

\* A worker finds nothing it may take.
LEMMA PopNothingEInv ==
    ASSUME EInv, NEW u \in Workers, worker[u].pc \in {"next", "wait"}, popNothing(u),
           UNCHANGED <<handler, receiver, sender, stopVars>>
    PROVE  EInv'
<1> USE DEF stopVars
<1>1. /\ DOMAIN worker' = Workers /\ DOMAIN worker'[u] = DOMAIN worker[u]
      /\ worker'[u].pc = "wait" /\ worker'[u].s = worker[u].s
      /\ \A v \in Workers \ {u} : worker'[v] = worker[v]
      /\ UNCHANGED pending
  BY DEF popNothing, SetWorker, EInv, Shape, WorkerShape
<1>2. Exited' = Exited
  BY <1>1 DEF Exited
<1>3. Shape'
  <2>1. WorkerShape'
    BY <1>1 DEF EInv, Shape, WorkerShape
  <2>. QED  BY <1>1, <2>1, SameShape DEF EInv, Shape
<1>4. Counted'
  BY <1>2 DEF EInv, Counted
<1>5. Alone'
  <2>1. \A p, w : ~Carries(worker'[u], p, w)
    BY <1>1 DEF Carries, EInv, Shape, WorkerShape
  <2>. QED  BY <1>1, <2>1, SMT DEF EInv, Alone
<1>6. Handshake'
  BY <1>1, SMT DEF EInv, Handshake, Engaged
<1>7. ASSUME NEW p \in Peers PROVE ~MustPop(p)'
  <2>1. CASE Queued(p) = {}
    BY <1>1, <2>1 DEF MustPop, Queued
  <2>2. CASE ActiveOf(p) # {}
    <3>1. PICK x \in Holders : "tasks" \in DOMAIN x /\ x.p = p
      BY <2>2 DEF ActiveOf
    <3>2. x # worker[u]
      BY <3>1 DEF EInv, Shape, WorkerShape
    <3>3. x \in Holders'
      BY <1>1, <3>1, <3>2 DEF Holders
    <3>. QED  BY <3>1, <3>3 DEF MustPop, ActiveOf
  <2>. QED  BY <2>1, <2>2 DEF popNothing, MustPop
<1>. QED  BY <1>3, <1>4, <1>5, <1>6, <1>7 DEF EInv, WorkIsSignalled

\* TasksDone of an empty message.
LEMMA EmptyDoneEInv ==
    ASSUME EInv, NEW u \in Workers, emptyDone(u)
    PROVE  EInv'
<1> USE DEF taskVars, stopVars
<1>1. /\ worker[u].pc = "empty"
      /\ UNCHANGED <<pending, workSignal, handler, receiver, sender, stopVars>>
  BY DEF emptyDone
<1>2. /\ DOMAIN worker' = Workers /\ worker'[u] = [pc |-> "next", s |-> worker[u].s]
      /\ \A v \in Workers \ {u} : worker'[v] = worker[v]
      /\ Exited' = Exited
  BY <1>1, WorkerFacts DEF emptyDone
<1>3. Shape'
  <2>1. WorkerShape'
    BY <1>2, SMT DEF EInv, Shape, WorkerShape
  <2>. QED  BY <1>1, <2>1, SameShape DEF EInv, Shape
<1>4. Counted'
  BY <1>1, <1>2 DEF EInv, Counted
<1>5. Alone'
  <2>1. \A p, w : ~Carries(worker'[u], p, w)
    BY <1>2 DEF Carries
  <2>. QED  BY <1>1, <1>2, <2>1, SMT DEF EInv, Alone
<1>6. Handshake'
  BY <1>1, <1>2, SMT DEF EInv, Handshake, Engaged
<1>7. AboutToLook'
  BY <1>2, SMT DEF AboutToLook
<1>. QED  BY <1>3, <1>4, <1>5, <1>6, <1>7 DEF EInv, WorkIsSignalled

\* The tasks of a worker are for nobody, or go to the sender it serves.
LEMMA MakeEnvelopeEInv ==
    ASSUME EInv, NEW u \in Workers, makeEnvelope(u)
    PROVE  EInv'
<1> USE DEF taskVars, stopVars
<1> DEFINE x == worker[u]
<1>1. /\ x.pc = "fetch" /\ "tasks" \in DOMAIN x
      /\ UNCHANGED <<pending, workSignal, handler, receiver, taskWorkerCount, outboxClosed, phase>>
  BY DEF makeEnvelope, EInv, Shape, WorkerShape
<1>2. CASE SetWorker(u, [x EXCEPT !.pc = "empty"]) /\ UNCHANGED sender
  <2>1. /\ DOMAIN worker' = Workers /\ DOMAIN worker'[u] = DOMAIN x
        /\ worker'[u].pc = "empty" /\ worker'[u].s = x.s /\ worker'[u].tasks = x.tasks
        /\ "p" \in DOMAIN x => worker'[u].p = x.p
        /\ \A v \in Workers \ {u} : worker'[v] = worker[v]
    BY <1>1, <1>2 DEF SetWorker, EInv, Shape, WorkerShape
  <2>2. Exited' = Exited
    BY <1>1, <2>1 DEF Exited
  <2>3. Shape'
    <3>1. WorkerShape'
      BY <1>1, <2>1 DEF EInv, Shape, WorkerShape
    <3>. QED  BY <1>1, <1>2, <3>1, SameShape DEF EInv, Shape
  <2>4. Counted'
    BY <1>1, <2>2 DEF EInv, Counted
  <2>5. Alone'
    <3>1. \A v \in Workers : \A p, w : Carries(worker'[v], p, w) => Carries(worker[v], p, w)
      BY <1>1, <2>1 DEF Carries, EInv, Shape, WorkerShape
    <3>. QED  BY <1>1, <1>2, <3>1, SMT DEF EInv, Alone
  <2>6. Handshake'
    BY <1>1, <1>2, <2>1, SMT DEF EInv, Handshake, Engaged
  <2>7. AboutToLook'
    BY <2>1 DEF AboutToLook
  <2>. QED  BY <2>3, <2>4, <2>5, <2>6, <2>7 DEF EInv, WorkIsSignalled
<1>3. ASSUME NEW blks, SetWorker(u, [pc |-> "offer"]),
             sender' = [sender EXCEPT ![x.s] = IF @.pc # "waiting" THEN @
                           ELSE [pc |-> "find", p |-> x.p, tasks |-> x.tasks, blocks |-> blks]]
      PROVE  EInv'
  <2>1. /\ DOMAIN worker' = Workers /\ worker'[u] = [pc |-> "offer"]
        /\ \A v \in Workers \ {u} : worker'[v] = worker[v]
        /\ Exited' = Exited
    BY <1>1, <1>3, WorkerFacts
  <2>2. DOMAIN sender' = Senders /\ \A s \in Senders : s # x.s \/ sender[s].pc # "waiting" => sender'[s] = sender[s]
    BY <1>3 DEF EInv, Shape, SenderShape
  <2>3. \A s \in Senders : s = x.s /\ sender[s].pc = "waiting" =>
           sender'[s] = [pc |-> "find", p |-> x.p, tasks |-> x.tasks, blocks |-> blks]
    BY <1>3 DEF EInv, Shape, SenderShape
  <2>4. Shape'
    <3>1. WorkerShape'
      BY <2>1, SMT DEF EInv, Shape, WorkerShape
    <3>2. SenderShape'
      <4> SUFFICES ASSUME NEW s \in Senders
                   PROVE  /\ "tasks" \in DOMAIN sender'[s] <=> sender'[s].pc \in {"find", "record", "send"}
                          /\ "tasks" \in DOMAIN sender'[s] => "p" \in DOMAIN sender'[s]
        BY <2>2 DEF SenderShape
      <4>1. CASE s = x.s /\ sender[s].pc = "waiting"
        BY <2>3, <4>1, SMT
      <4>2. CASE sender'[s] = sender[s]
        BY <4>2 DEF EInv, Shape, SenderShape
      <4>. QED  BY <2>2, <4>1, <4>2
    <3>. QED  BY <1>1, <3>1, <3>2, SameShape DEF EInv, Shape
  <2>5. Counted'
    BY <1>1, <2>1 DEF EInv, Counted
  <2>6. Alone'
    <3>1. \A p, w : ~Carries(worker'[u], p, w)
      BY <2>1 DEF Carries
    <3>2. \A s \in Senders : \A p, w : Carries(sender'[s], p, w) =>
             Carries(sender[s], p, w) \/ (s = x.s /\ Carries(x, p, w))
      BY <1>1, <2>2, <2>3, SMT DEF Carries
    <3>. QED  BY <1>1, <2>1, <3>1, <3>2, SMT DEF EInv, Alone
  <2>7. Handshake'
    BY <1>1, <2>1, <2>2, SMT DEF EInv, Handshake, Engaged
  <2>8. phase = "running" => AboutToLook'
    BY <1>1, <2>3 DEF EInv, Handshake, Engaged, AboutToLook
  <2>. QED  BY <1>1, <2>4, <2>5, <2>6, <2>7, <2>8 DEF EInv, WorkIsSignalled
<1>. QED  BY <1>2, <1>3 DEF makeEnvelope

\* A worker that returns is counted, and gives back its sender.
LEMMA WorkerStopsEInv ==
    ASSUME EInv, NEW u \in Workers, workerStops(u)
    PROVE  EInv'
<1> USE DEF taskVars, stopVars
<1>1. /\ worker[u].pc # "exited" /\ phase # "running"
      /\ UNCHANGED <<pending, handler, receiver, phase>>
  BY DEF workerStops
<1>2. /\ DOMAIN worker' = Workers /\ worker'[u] = [pc |-> "exited"]
      /\ \A v \in Workers \ {u} : worker'[v] = worker[v]
  BY WorkerFacts DEF workerStops
<1>3. /\ DOMAIN sender' = Senders
      /\ \A s \in Senders : sender'[s] = sender[s] \/ sender'[s] = [pc |-> "idle"]
  BY DEF workerStops
<1>4. Shape'
  <2>1. WorkerShape'
    BY <1>2, SMT DEF EInv, Shape, WorkerShape
  <2>2. SenderShape'
    BY <1>3, SMT DEF EInv, Shape, SenderShape
  <2>. QED  BY <1>1, <2>1, <2>2, SameShape DEF EInv, Shape
<1>5. Counted'
  <2>1. Workers \ Exited' = (Workers \ Exited) \ {u} /\ u \in Workers \ Exited
    BY <1>1, <1>2, SMT DEF Exited
  <2>2. taskWorkerCount \in Nat /\ taskWorkerCount \in 0..engineTaskWorkerCount /\ engineTaskWorkerCount \in Nat
    BY EngineAssumption, SMT DEF EInv, Counted, EngineAssumption
  <2>3. /\ taskWorkerCount > 0
        /\ ExistsBijection(1..(taskWorkerCount - 1), Workers \ Exited')
    BY <2>1, <2>2, OneLess DEF EInv, Counted
  <2>4. taskWorkerCount - 1 = 0 => Workers \ Exited' = {}
    BY <2>3, NoneLeft
  <2>5. taskWorkerCount' = taskWorkerCount - 1 /\ outboxClosed' = (outboxClosed \/ taskWorkerCount' = 0)
    BY DEF workerStops, taskWorkerExit
  <2>6. taskWorkerCount' \in 0..engineTaskWorkerCount
    BY <2>2, <2>3, <2>5, SMT
  <2>. QED  BY <2>1, <2>3, <2>4, <2>5, <2>6 DEF EInv, Counted
<1>6. Alone'
  <2>1. \A p, w : ~Carries(worker'[u], p, w)
    BY <1>2 DEF Carries
  <2>2. \A s \in Senders : \A p, w : Carries(sender'[s], p, w) => Carries(sender[s], p, w)
    BY <1>3, SMT DEF Carries
  <2>. QED  BY <1>1, <1>2, <2>1, <2>2, SMT DEF EInv, Alone
<1>. QED  BY <1>1, <1>4, <1>5, <1>6 DEF EInv, Handshake, WorkIsSignalled

-----------------------------------------------------------------------------
\* A sender moves on with the tasks it has, or ends with them and signals.
LEMMA SendEInv ==
    ASSUME EInv, NEW s \in Senders, NEW x, SetSender(s, x),
           UNCHANGED <<pending, worker, handler, receiver, stopVars>>,
           "tasks" \in DOMAIN x <=> x.pc \in {"find", "record", "send"},
           "tasks" \in DOMAIN x => /\ "tasks" \in DOMAIN sender[s] /\ "p" \in DOMAIN x
                                   /\ x.p = sender[s].p /\ x.tasks = sender[s].tasks,
           sender[s].pc # "waiting" \/ phase # "running",
           AboutToLook' \/ phase # "running" \/ outboxClosed
    PROVE  EInv'
<1> USE DEF stopVars
<1>1. /\ DOMAIN sender' = Senders /\ sender'[s] = x
      /\ \A t \in Senders \ {s} : sender'[t] = sender[t]
  BY SenderFacts
<1>2. Shape'
  <2>1. SenderShape'
    BY <1>1 DEF EInv, Shape, SenderShape
  <2>. QED  BY <2>1, SameShape DEF EInv, Shape
<1>3. Counted'
  BY DEF EInv, Counted, Exited
<1>4. Alone'
  <2>1. \A t \in Senders : \A p, w : Carries(sender'[t], p, w) => Carries(sender[t], p, w)
    BY <1>1 DEF Carries
  <2>. QED  BY <2>1, SMT DEF EInv, Alone
<1>5. Handshake'
  BY <1>1 DEF EInv, Handshake, Engaged
<1>6. WorkIsSignalled'
  <2>1. CASE outboxClosed
    BY <2>1 DEF EInv, Counted, Exited, WorkIsSignalled
  <2>. QED  BY <2>1 DEF WorkIsSignalled
<1>. QED  BY <1>2, <1>3, <1>4, <1>5, <1>6 DEF EInv

\* The steps of a sender.
LEMMA SenderEInv ==
    ASSUME EInv, NEW s \in Senders, Send(s) \/ senderStops(s)
    PROVE  EInv'
<1> USE DEF taskVars
<1>1. CASE MessageSent(s)
  <2>1. PICK l \in Ledgers : SetSender(s, [pc |-> "record", p |-> sender[s].p, tasks |-> sender[s].tasks,
                                           blocks |-> sender[s].blocks, l |-> l])
    BY <1>1 DEF MessageSent
  <2> DEFINE x == [pc |-> "record", p |-> sender[s].p, tasks |-> sender[s].tasks,
                   blocks |-> sender[s].blocks, l |-> l]
  <2>2. /\ sender[s].pc = "find" /\ {"tasks", "p"} \subseteq DOMAIN sender[s]
        /\ UNCHANGED <<pending, worker, handler, receiver, stopVars>>
    BY <1>1 DEF MessageSent, EInv, Shape, SenderShape
  <2>3. x.pc = "record" /\ {"tasks", "p"} \subseteq DOMAIN x
        /\ x.p = sender[s].p /\ x.tasks = sender[s].tasks
    OBVIOUS
  <2>4. SetSender(s, x)
    BY <2>1
  <2> HIDE DEF x
  <2>5. AboutToLook'
    BY <2>3, <2>4, SenderFacts DEF AboutToLook
  <2>. QED  BY <2>2, <2>3, <2>4, <2>5, SendEInv
<1>2. CASE removeSent(s)
  <2> DEFINE x == [pc |-> "send", p |-> sender[s].p, tasks |-> sender[s].tasks]
  <2>1. /\ sender[s].pc = "record" /\ "tasks" \in DOMAIN sender[s] /\ SetSender(s, x)
        /\ UNCHANGED <<pending, worker, handler, receiver, stopVars>>
    BY <1>2 DEF removeSent, EInv, Shape, SenderShape
  <2>2. AboutToLook'
    BY <2>1, SenderFacts, SMT DEF AboutToLook
  <2>. QED  BY <2>1, <2>2, SendEInv
<1>3. CASE sendBlocks(s)
  <2>1. AboutToLook'
    BY <1>3 DEF sendBlocks, signalNewWork, AboutToLook
  <2>. QED  BY <1>3, <2>1, SendEInv DEF sendBlocks
<1>4. CASE outboxEnds(s)
  BY <1>4, SendEInv DEF outboxEnds
<1>5. CASE senderStops(s)
  BY <1>5, SendEInv DEF senderStops
<1>. QED  BY <1>1, <1>2, <1>3, <1>4, <1>5 DEF Send

\* Every step of the engine and of its callers keeps the invariant.
LEMMA NextEInv == EInv /\ [Next]_vars => EInv'
<1> SUFFICES ASSUME EInv, [Next]_vars PROVE EInv'
  OBVIOUS
<1> USE DEF taskVars, stopVars
<1>1. ASSUME UNCHANGED <<taskVars, handler, receiver, worker, sender, taskWorkerCount, outboxClosed>>,
             phase' = "running" => phase = "running"
      PROVE  EInv'
  <2>1. Shape'
    BY <1>1, SameShape DEF EInv, Shape
  <2>2. AboutToLook => AboutToLook'
    BY <1>1 DEF AboutToLook
  <2>. QED  BY <1>1, <2>1, <2>2, QuietEInv
<1>2. CASE UNCHANGED vars
  BY <1>1, <1>2 DEF vars
<1>3. ASSUME NEW p \in Peers, PeerConnected(p) \/ PeerDisconnected(p) PROVE EInv'
  BY <1>1, <1>3 DEF PeerConnected, PeerDisconnected
<1>4. ASSUME NEW c, DeleteBlock(c) PROVE EInv'
  BY <1>1, <1>4 DEF DeleteBlock
<1>5. CASE closeProcess
  BY <1>1, <1>5 DEF closeProcess
<1>6. ASSUME NEW u \in Workers, nextEnvelope(u) \/ tick(u) PROVE EInv'
  BY <1>6, PopEInv, PopNothingEInv DEF nextEnvelope, tick
<1>7. ASSUME NEW u \in Workers, Work(u) PROVE EInv'
  BY <1>6, <1>7, OfferEInv, MakeEnvelopeEInv, EmptyDoneEInv DEF Work
<1>. QED  BY <1>2, <1>3, <1>4, <1>5, <1>7, HandleEInv, ReceiveEInv, WorkerStopsEInv, SenderEInv DEF Next

\* The invariant holds in every reachable state.
THEOREM EngineInvariant == Spec => []EInv
BY InitEInv, NextEInv, PTL DEF Spec

\* Nobody sends to the outbox once the last worker has closed it.
THEOREM OutboxOpenForWorkersCorrect == Spec => []OutboxOpenForWorkers
<1>1. EInv => OutboxOpenForWorkers
  BY DEF EInv, Counted, Exited, OutboxOpenForWorkers
<1>. QED  BY <1>1, EngineInvariant, PTL

\* However requests are repeated, upgraded and answered, a block is on its way
\* to a peer once, and not queued again meanwhile.
THEOREM NoDoubleSendCorrect == Spec => []NoDoubleSend
<1>1. ASSUME EInv PROVE NoDoubleSend
  <2>1. \A p \in Peers, w \in Wants, u \in Workers : Carries(worker[u], p, w) =>
           /\ pending[p][w] = None /\ \A s \in Senders : ~Carries(sender[s], p, w)
           /\ \A v \in Workers : Carries(worker[v], p, w) => v = u
    BY <1>1 DEF EInv, Alone
  <2>2. \A p \in Peers, w \in Wants, s \in Senders : Carries(sender[s], p, w) =>
           pending[p][w] = None /\ \A t \in Senders : Carries(sender[t], p, w) => t = s
    BY <1>1 DEF EInv, Alone
  <2>. QED  BY <2>1, <2>2, SMT DEF NoDoubleSend, Carries
<1>. QED  BY <1>1, EngineInvariant, PTL

\* While the engine runs, no worker sleeps beside tasks it may take without a
\* signal on its way: the channel's room for one signal is enough.
THEOREM WorkIsSignalledCorrect == Spec => []WorkIsSignalled
<1>1. EInv => WorkIsSignalled
  BY DEF EInv
<1>. QED  BY <1>1, EngineInvariant, PTL

-----------------------------------------------------------------------------
\* What the goroutines hold has its type.
HandlerTypes ==
    \A h \in Handlers : handler[h].pc \in {"index", "find", "ledger"} =>
        /\ handler[h].type \in {"have", "block", "cancel"} /\ handler[h].found \in BOOLEAN
        /\ handler[h].sendDontHave \in BOOLEAN /\ {"type", "found", "sendDontHave"} \subseteq DOMAIN handler[h]
        /\ handler[h].pc = "ledger" => handler[h].l \in Ledgers

ReceiverTypes == \A r \in Receivers : receiver[r].pc = "push" => receiver[r].block \in BOOLEAN

TInv == TypeOK /\ HandlerTypes /\ ReceiverTypes

-----------------------------------------------------------------------------
\* Merging two tasks gives a task that says what either says.
LEMMA MergeFacts ==
    ASSUME NEW t \in Task, NEW e \in Task
    PROVE  /\ Merge(t, e) \in Task
           /\ Merge(t, e).have <=> e.have \/ t.have
           /\ Merge(t, e).block <=> e.block \/ t.block
<1> DEFINE b == e.block \/ t.block
           a == e.have \/ t.have
<1>1. b \in BOOLEAN /\ a \in BOOLEAN
  BY DEF Task
<1>2. Merge(t, e) = [e EXCEPT !.block = b, !.have = a]
  BY DEF Merge
<1> HIDE DEF a, b
<1>3. Merge(t, e) \in Task
  BY <1>1, <1>2 DEF Task
<1>4. Merge(t, e).have = a /\ Merge(t, e).block = b
  BY <1>1, <1>2 DEF Task
<1>. QED  BY <1>3, <1>4 DEF a, b

\* A push concerns one task: either the active tasks say all that it says, or
\* there is a pending task that does.
LEMMA PushFacts ==
    ASSUME pending \in [Peers -> [Wants -> Task \cup {None}]],
           NEW p \in Peers, NEW w \in Wants, NEW t \in Task, pending' = PushTask(pending, p, w, t)
    PROVE  /\ pending' \in [Peers -> [Wants -> Task \cup {None}]]
           /\ \A q \in Peers, v \in Wants : q # p \/ v # w => pending'[q][v] = pending[q][v]
           /\ \/ pending' = pending /\ Active(p, w) # {} /\ ~HasNewInfo(t, Active(p, w))
              \/ /\ pending'[p][w] \in Task
                 /\ pending'[p][w].have <=> t.have \/ (pending[p][w] # None /\ pending[p][w].have)
                 /\ pending'[p][w].block <=> t.block \/ (pending[p][w] # None /\ pending[p][w].block)
<1>1. CASE Active(p, w) # {} /\ ~HasNewInfo(t, Active(p, w))
  BY <1>1 DEF PushTask
<1>2. CASE ~(Active(p, w) # {} /\ ~HasNewInfo(t, Active(p, w)))
  <2> DEFINE new == IF pending[p][w] = None THEN t ELSE Merge(t, pending[p][w])
  <2>1. pending' = [pending EXCEPT ![p][w] = new]
    BY <1>2, SMT DEF PushTask
  <2>2. /\ new \in Task
        /\ new.have <=> t.have \/ (pending[p][w] # None /\ pending[p][w].have)
        /\ new.block <=> t.block \/ (pending[p][w] # None /\ pending[p][w].block)
    <3>1. CASE pending[p][w] = None
      BY <3>1
    <3>2. CASE pending[p][w] # None
      <4>1. pending[p][w] \in Task
        BY <3>2
      <4>. QED  BY <3>2, <4>1, MergeFacts
    <3>. QED  BY <3>1, <3>2
  <2> HIDE DEF new
  <2>3. /\ pending' \in [Peers -> [Wants -> Task \cup {None}]]
        /\ \A q \in Peers, v \in Wants : q # p \/ v # w => pending'[q][v] = pending[q][v]
        /\ pending'[p][w] = new
    BY <2>1, <2>2, SMT
  <2>. QED  BY <2>2, <2>3
<1>. QED  BY <1>1, <1>2

\* The task of a message is one.
LEMMA TaskOfMessage ==
    ASSUME NEW m, m.found \in BOOLEAN, m.sendDontHave \in BOOLEAN
    PROVE  taskOf(m) \in Task
<1> DEFINE b == IF m.found THEN sendAsBlock(m.type, m.w) ELSE m.type = "block"
<1>1. b \in BOOLEAN /\ taskOf(m) = [block |-> b, have |-> m.found, sendDontHave |-> m.sendDontHave]
  BY DEF sendAsBlock, taskOf
<1> HIDE DEF b
<1>. QED  BY <1>1, SMT DEF Task

\* Whoever gets a ledger, the map stays one, and nobody loses theirs.
LEMMA FindFacts ==
    ASSUME ledgerMap \in [Peers -> Ledgers \cup {None}], NEW p, NEW l \in Ledgers, findOrCreate(p, l)
    PROVE  /\ ledgerMap' \in [Peers -> Ledgers \cup {None}]
           /\ \A q \in Peers : ledgerMap[q] # None => ledgerMap'[q] = ledgerMap[q]
           /\ p \in Peers => ledgerMap'[p] = l
           /\ \A q \in Peers \ {p} : ledgerMap'[q] = ledgerMap[q]
BY DEF findOrCreate

\* Collecting leaves lists what they are.
LEMMA CollectFacts ==
    ASSUME NEW lists \in [Ledgers -> [Wants -> {"none", "have", "block"}]]
    PROVE  Collect(lists) \in [Ledgers -> [Wants -> {"none", "have", "block"}]]
BY DEF Collect, EmptyList

\* An event that happens is counted up to its bound.
LEMMA EventsTyped ==
    ASSUME TypeOK,
           \/ Happens("connects", MaxConnects)
           \/ Happens("messages", MaxMessages)
           \/ Happens("arrivals", MaxArrivals)
    PROVE  events' \in [connects : 0..MaxConnects, messages : 0..MaxMessages, arrivals : 0..MaxArrivals]
<1>1. events \in [connects : 0..MaxConnects, messages : 0..MaxMessages, arrivals : 0..MaxArrivals]
  BY DEF TypeOK
<1>2. {MaxConnects, MaxMessages, MaxArrivals} \subseteq Nat
  BY EngineAssumption DEF EngineAssumption
<1>. QED  BY <1>1, <1>2, SMT DEF Happens

\* The variables of a step that touches neither events nor the end.
LEMMA TypesStay ==
    ASSUME TypeOK, UNCHANGED <<store, connected, stopVars, events>>,
           workSignal' \in BOOLEAN,
           ledgerMap' \in [Peers -> Ledgers \cup {None}],
           \A q \in Peers : ledgerMap[q] # None => ledgerMap'[q] = ledgerMap[q],
           wantList' \in [Ledgers -> [Wants -> {"none", "have", "block"}]],
           cids' \in [Wants -> SUBSET Peers],
           pending' \in [Peers -> [Wants -> Task \cup {None}]]
    PROVE  TypeOK'
<1>1. connected' \subseteq {p \in Peers : ledgerMap'[p] # None}
  BY DEF TypeOK
<1>. QED  BY <1>1 DEF TypeOK, stopVars

\* The steps of MessageReceived.
LEMMA HandleTInv ==
    ASSUME EInv, TInv, NEW h \in Handlers,
           Handle(h) \/ \E p \in Peers, w \in Wants : MessageReceived(h, p, w)
    PROVE  TInv'
<1> USE DEF ledgerVars, taskVars, history
<1> DEFINE m == handler[h]
<1>1. ASSUME NEW x, SetHandler(h, x),
             x.pc \in {"index", "find", "ledger"} =>
                /\ x.type \in {"have", "block", "cancel"} /\ x.found \in BOOLEAN /\ x.sendDontHave \in BOOLEAN
                /\ {"type", "found", "sendDontHave"} \subseteq DOMAIN x
                /\ x.pc = "ledger" => x.l \in Ledgers
      PROVE  HandlerTypes'
  <2>1. handler'[h] = x /\ \A k \in Handlers \ {h} : handler'[k] = handler[k]
    BY <1>1 DEF SetHandler, EInv, Shape, HandlerShape
  <2>. QED  BY <1>1, <2>1 DEF HandlerTypes, TInv
<1>2. UNCHANGED receiver => ReceiverTypes'
  BY DEF TInv, ReceiverTypes
<1>3. ASSUME NEW p \in Peers, NEW w \in Wants, MessageReceived(h, p, w) PROVE TInv'
  <2>1. PICK n \in Messages :
          SetHandler(h, [pc |-> "index", p |-> p, w |-> w, type |-> n.type, sendDontHave |-> n.sendDontHave,
                         full |-> n.full, found |-> n.type # "cancel" /\ getBlockSizes(w)])
    BY <1>3 DEF MessageReceived
  <2>2. n.type \in {"have", "block", "cancel"} /\ n.sendDontHave \in BOOLEAN
    BY EngineAssumption, SMT DEF EngineAssumption
  <2>3. HandlerTypes'
    <3> DEFINE f == n.type # "cancel" /\ getBlockSizes(w)
               x == [pc |-> "index", p |-> p, w |-> w, type |-> n.type, sendDontHave |-> n.sendDontHave,
                     full |-> n.full, found |-> f]
    <3>1. f \in BOOLEAN /\ SetHandler(h, x)
      BY <2>1
    <3> HIDE DEF f
    <3>2. x.pc = "index" /\ x.type = n.type /\ x.found = f /\ x.sendDontHave = n.sendDontHave
          /\ {"type", "found", "sendDontHave"} \subseteq DOMAIN x
      OBVIOUS
    <3> HIDE DEF x
    <3>. QED  BY <1>1, <2>2, <3>1, <3>2
  <2>4. events' \in [connects : 0..MaxConnects, messages : 0..MaxMessages, arrivals : 0..MaxArrivals]
    BY <1>3, EventsTyped DEF MessageReceived, TInv
  <2>5. UNCHANGED <<store, connected, ledgerMap, wantList, cids, pending, workSignal, stopVars, receiver>>
    BY <1>3 DEF MessageReceived
  <2>6. TypeOK'
    BY <2>4, <2>5 DEF TypeOK, TInv, stopVars
  <2>. QED  BY <1>2, <2>3, <2>5, <2>6 DEF TInv
<1>4. CASE updateIndex(h)
  <2>1. /\ m.pc = "index" /\ m.p \in Peers /\ m.w \in Wants
        /\ SetHandler(h, [m EXCEPT !.pc = "find"])
        /\ UNCHANGED <<store, connected, ledgerMap, wantList, pending, workSignal, stopVars, events, receiver>>
    BY <1>4 DEF updateIndex, EInv, Shape, HandlerShape
  <2>2. cids' \in [Wants -> SUBSET Peers]
    <3>1. cids' = [cids EXCEPT ![m.w] = IF m.type = "cancel" THEN @ \ {m.p} ELSE @ \cup {m.p}]
      BY <1>4 DEF updateIndex
    <3>. QED  BY <2>1, <3>1, SMT DEF TypeOK, TInv
  <2>3. HandlerTypes'
    <3> DEFINE x == [m EXCEPT !.pc = "find"]
    <3>2. /\ m.type \in {"have", "block", "cancel"} /\ m.found \in BOOLEAN /\ m.sendDontHave \in BOOLEAN
          /\ {"type", "found", "sendDontHave"} \subseteq DOMAIN m
      BY <2>1 DEF TInv, HandlerTypes
    <3>1. x.pc = "find" /\ x.type = m.type /\ x.found = m.found /\ x.sendDontHave = m.sendDontHave /\ DOMAIN x = DOMAIN m
      BY <2>1, <3>2 DEF EInv, Shape, HandlerShape
    <3>3. SetHandler(h, x)
      BY <2>1
    <3> HIDE DEF x
    <3>. QED  BY <1>1, <3>1, <3>2, <3>3
  <2>4. TypeOK'
    BY <2>1, <2>2, TypesStay DEF TypeOK, TInv
  <2>. QED  BY <1>2, <2>1, <2>3, <2>4 DEF TInv
<1>5. CASE findLedger(h)
  <2>1. /\ m.pc = "find"
        /\ UNCHANGED <<store, connected, wantList, cids, pending, workSignal, stopVars, events, receiver>>
    BY <1>5 DEF findLedger
  <2>2. PICK l \in Ledgers :
           /\ findOrCreate(m.p, l)
           /\ SetHandler(h, [pc |-> "ledger", p |-> m.p, w |-> m.w, type |-> m.type,
                             sendDontHave |-> m.sendDontHave, full |-> m.full, found |-> m.found, l |-> l])
    BY <1>5 DEF findLedger
  <2>3. HandlerTypes'
    <3> DEFINE x == [pc |-> "ledger", p |-> m.p, w |-> m.w, type |-> m.type,
                     sendDontHave |-> m.sendDontHave, full |-> m.full, found |-> m.found, l |-> l]
    <3>1. x.type = m.type /\ x.found = m.found /\ x.sendDontHave = m.sendDontHave /\ x.l = l
          /\ {"type", "found", "sendDontHave"} \subseteq DOMAIN x
      OBVIOUS
    <3>2. m.type \in {"have", "block", "cancel"} /\ m.found \in BOOLEAN /\ m.sendDontHave \in BOOLEAN
      BY <2>1 DEF TInv, HandlerTypes
    <3>3. SetHandler(h, x)
      BY <2>2
    <3> HIDE DEF x
    <3>. QED  BY <1>1, <3>1, <3>2, <3>3
  <2>4. TypeOK'
    BY <2>1, <2>2, FindFacts, TypesStay DEF TypeOK, TInv
  <2>. QED  BY <1>2, <2>1, <2>3, <2>4 DEF TInv
<1>6. CASE updateLedger(h)
  <2>1. /\ m.pc = "ledger" /\ m.p \in Peers /\ m.w \in Wants
        /\ SetHandler(h, [pc |-> IF hasTask(m) THEN "signal" ELSE "idle"])
        /\ UNCHANGED <<store, connected, ledgerMap, cids, workSignal, stopVars, events, receiver>>
    BY <1>6 DEF updateLedger, EInv, Shape, HandlerShape
  <2>2. m.l \in Ledgers /\ m.type \in {"have", "block", "cancel"} /\ taskOf(m) \in Task
    <3>1. /\ m.l \in Ledgers /\ m.type \in {"have", "block", "cancel"}
          /\ m.found \in BOOLEAN /\ m.sendDontHave \in BOOLEAN
      BY <2>1 DEF TInv, HandlerTypes
    <3> HIDE DEF m
    <3>. QED  BY <3>1, TaskOfMessage, SMT
  <2>3. pending' \in [Peers -> [Wants -> Task \cup {None}]]
    <3>1. pending \in [Peers -> [Wants -> Task \cup {None}]]
      BY DEF TypeOK, TInv
    <3>2. CASE pending' = PushTask(pending, m.p, m.w, taskOf(m))
      BY <2>1, <2>2, <3>1, <3>2, PushFacts
    <3>3. CASE pending' = RemoveTask(pending, m.p, m.w)
      BY <2>1, <3>1, <3>3, SMT DEF RemoveTask
    <3>. QED  BY <1>6, <3>1, <3>2, <3>3 DEF updateLedger
  <2>4. wantList' \in [Ledgers -> [Wants -> {"none", "have", "block"}]]
    <3> DEFINE old == IF m.full THEN EmptyList ELSE wantList[m.l]
               new == [old EXCEPT ![m.w] = IF m.type = "cancel" THEN "none" ELSE AddType(@, m.type)]
    <3>1. wantList' = Collect([wantList EXCEPT ![m.l] = new])
      BY <1>6 DEF updateLedger
    <3>2. old \in [Wants -> {"none", "have", "block"}]
      BY <2>2 DEF EmptyList, TypeOK, TInv
    <3> HIDE DEF old
    <3>3. new \in [Wants -> {"none", "have", "block"}]
      BY <2>2, <3>2 DEF AddType
    <3> HIDE DEF new
    <3>4. [wantList EXCEPT ![m.l] = new] \in [Ledgers -> [Wants -> {"none", "have", "block"}]]
      BY <2>2, <3>3 DEF TypeOK, TInv
    <3>. QED  BY <3>1, <3>4, CollectFacts
  <2>5. HandlerTypes'
    BY <1>1, <2>1
  <2>6. TypeOK'
    BY <2>1, <2>3, <2>4, TypesStay DEF TypeOK, TInv
  <2>. QED  BY <1>2, <2>1, <2>5, <2>6 DEF TInv
<1>7. CASE messageDone(h)
  <2>1. /\ SetHandler(h, [pc |-> "idle"]) /\ workSignal' = TRUE
        /\ UNCHANGED <<store, connected, ledgerMap, wantList, cids, pending, stopVars, events, receiver>>
    BY <1>7 DEF messageDone, signalNewWork
  <2>2. HandlerTypes'
    BY <1>1, <2>1
  <2>3. TypeOK'
    BY <2>1, TypesStay DEF TypeOK, TInv
  <2>. QED  BY <1>2, <2>1, <2>2, <2>3 DEF TInv
<1>. QED  BY <1>3, <1>4, <1>5, <1>6, <1>7 DEF Handle

\* The steps of receiveBlocksFrom.
LEMMA ReceiveTInv ==
    ASSUME EInv, TInv, NEW r \in Receivers, Receive(r) \/ \E w \in Wants : receiveBlock(r, w)
    PROVE  TInv'
<1> USE DEF ledgerVars, taskVars, history
<1> DEFINE x == receiver[r]
<1>1. ASSUME NEW y, SetReceiver(r, y), y.pc # "push" \/ y.block \in BOOLEAN
      PROVE  ReceiverTypes'
  <2>1. receiver'[r] = y /\ \A k \in Receivers \ {r} : receiver'[k] = receiver[k]
    BY <1>1 DEF SetReceiver, EInv, Shape, ReceiverShape
  <2>. QED  BY <1>1, <2>1 DEF ReceiverTypes, TInv
<1>2. UNCHANGED handler => HandlerTypes'
  BY DEF TInv, HandlerTypes
<1>3. ASSUME NEW w, NEW todo, NEW missing, NEW work \in BOOLEAN, SetReceiver(r, Loop(w, todo, missing, work))
      PROVE  ReceiverTypes'
  <2>1. Loop(w, todo, missing, work).pc # "push"
    BY DEF Loop
  <2>. QED  BY <1>1, <1>3, <2>1
<1>4. ASSUME NEW w \in Wants, receiveBlock(r, w) PROVE TInv'
  <2>1. PICK from \in connected \cup {None} : SetReceiver(r, [pc |-> "stored", w |-> w, from |-> from])
    BY <1>4 DEF receiveBlock
  <2>2. ReceiverTypes'
    BY <1>1, <2>1
  <2>3. events' \in [connects : 0..MaxConnects, messages : 0..MaxMessages, arrivals : 0..MaxArrivals]
    BY <1>4, EventsTyped DEF receiveBlock, TInv
  <2>4. /\ store' = store \cup {CidOf[w]}
        /\ UNCHANGED <<connected, ledgerMap, wantList, cids, pending, workSignal, stopVars, handler>>
    BY <1>4 DEF receiveBlock
  <2>5. store' \subseteq Range(CidOf)
    BY <2>4, EngineAssumption DEF EngineAssumption, Range, TypeOK, TInv
  <2>6. TypeOK'
    BY <2>3, <2>4, <2>5 DEF TypeOK, TInv, stopVars
  <2>. QED  BY <1>2, <2>2, <2>4, <2>6 DEF TInv
<1>5. CASE recordReceived(r)
  <2>1. /\ SetReceiver(r, [pc |-> "look", w |-> x.w])
        /\ UNCHANGED <<store, connected, wantList, cids, pending, workSignal, stopVars, events, handler>>
    BY <1>5 DEF recordReceived
  <2>2. ReceiverTypes'
    BY <1>1, <2>1
  <2>3. /\ ledgerMap' \in [Peers -> Ledgers \cup {None}]
        /\ \A q \in Peers : ledgerMap[q] # None => ledgerMap'[q] = ledgerMap[q]
    <3>1. CASE UNCHANGED ledgerMap
      BY <3>1 DEF TypeOK, TInv
    <3>2. ASSUME NEW l \in Ledgers, findOrCreate(x.from, l)
          PROVE  /\ ledgerMap' \in [Peers -> Ledgers \cup {None}]
                 /\ \A q \in Peers : ledgerMap[q] # None => ledgerMap'[q] = ledgerMap[q]
      BY <3>2, FindFacts DEF TypeOK, TInv
    <3>. QED  BY <1>5, <3>1, <3>2 DEF recordReceived
  <2>4. TypeOK'
    BY <2>1, <2>3, TypesStay DEF TypeOK, TInv
  <2>. QED  BY <1>2, <2>1, <2>2, <2>4 DEF TInv
<1>6. CASE lookUp(r)
  <2>1. /\ SetReceiver(r, Loop(x.w, cids[x.w], {}, FALSE))
        /\ UNCHANGED <<store, connected, ledgerMap, wantList, cids, pending, workSignal, stopVars, events, handler>>
    BY <1>6 DEF lookUp
  <2>2. ReceiverTypes'
    BY <1>3, <2>1
  <2>3. TypeOK'
    BY <2>1, TypesStay DEF TypeOK, TInv
  <2>. QED  BY <1>2, <2>1, <2>2, <2>3 DEF TInv
<1>7. ASSUME NEW p \in Peers, lookAtPeer(r, p) PROVE TInv'
  <2>1. /\ x.pc = "loop" /\ x.work \in BOOLEAN
        /\ UNCHANGED <<store, connected, ledgerMap, wantList, cids, pending, workSignal, stopVars, events, handler>>
    BY <1>7 DEF lookAtPeer, EInv, Shape, ReceiverShape
  <2>2. ReceiverTypes'
    <3>1. CASE Contains(p, x.w)
      <4> DEFINE b == sendAsBlock(wantList[ledgerMap[p]][x.w], x.w)
                 y == [pc |-> "push", w |-> x.w, todo |-> x.todo \ {p}, missing |-> x.missing,
                       work |-> TRUE, p |-> p, block |-> b]
      <4>1. b \in BOOLEAN /\ y.block = b
        BY DEF sendAsBlock
      <4>2. SetReceiver(r, y)
        BY <1>7, <3>1 DEF lookAtPeer
      <4> HIDE DEF b, y
      <4>. QED  BY <1>1, <4>1, <4>2
    <3>2. CASE ~Contains(p, x.w)
      BY <1>3, <1>7, <2>1, <3>2 DEF lookAtPeer
    <3>. QED  BY <3>1, <3>2
  <2>3. TypeOK'
    BY <2>1, TypesStay DEF TypeOK, TInv
  <2>. QED  BY <1>2, <2>1, <2>2, <2>3 DEF TInv
<1>8. CASE pushTask(r)
  <2>1. /\ x.pc = "push" /\ x.p \in Peers /\ x.w \in Wants
        /\ SetReceiver(r, Loop(x.w, x.todo, x.missing, TRUE))
        /\ UNCHANGED <<store, connected, ledgerMap, wantList, cids, workSignal, stopVars, events, handler>>
    BY <1>8 DEF pushTask, EInv, Shape, ReceiverShape
  <2>2. ReceiverTypes'
    BY <1>3, <2>1
  <2>3. [block |-> x.block, have |-> TRUE, sendDontHave |-> FALSE] \in Task
    BY <2>1, SMT DEF Task, TInv, ReceiverTypes
  <2>4. pending' \in [Peers -> [Wants -> Task \cup {None}]]
    BY <1>8, <2>1, <2>3, PushFacts DEF pushTask, TypeOK, TInv
  <2>5. TypeOK'
    BY <2>1, <2>4, TypesStay DEF TypeOK, TInv
  <2>. QED  BY <1>2, <2>1, <2>2, <2>5 DEF TInv
<1>9. CASE recheckMissing(r)
  <2>1. /\ SetReceiver(r, [pc |-> IF x.work THEN "signal" ELSE "idle"])
        /\ UNCHANGED <<store, connected, ledgerMap, wantList, pending, workSignal, stopVars, events, handler>>
    BY <1>9 DEF recheckMissing
  <2>2. ReceiverTypes'
    BY <1>1, <2>1
  <2>3. cids' \in [Wants -> SUBSET Peers]
    <3> DEFINE gone == {p \in x.missing : ~Contains(p, x.w)}
    <3>1. cids' = [cids EXCEPT ![x.w] = @ \ gone] /\ cids \in [Wants -> SUBSET Peers]
      BY <1>9 DEF recheckMissing, TypeOK, TInv
    <3> HIDE DEF gone
    <3>. QED  BY <3>1
  <2>4. TypeOK'
    BY <2>1, <2>3, TypesStay DEF TypeOK, TInv
  <2>. QED  BY <1>2, <2>1, <2>2, <2>4 DEF TInv
<1>10. CASE receiveDone(r)
  <2>1. /\ SetReceiver(r, [pc |-> "idle"]) /\ workSignal' = TRUE
        /\ UNCHANGED <<store, connected, ledgerMap, wantList, cids, pending, stopVars, events, handler>>
    BY <1>10 DEF receiveDone, signalNewWork
  <2>2. ReceiverTypes'
    BY <1>1, <2>1
  <2>3. TypeOK'
    BY <2>1, TypesStay DEF TypeOK, TInv
  <2>. QED  BY <1>2, <2>1, <2>2, <2>3 DEF TInv
<1>. QED  BY <1>4, <1>5, <1>6, <1>7, <1>8, <1>9, <1>10 DEF Receive

\* The steps of the task workers and of the senders.
LEMMA TaskTInv ==
    ASSUME EInv, EInv', TInv,
           \/ \E u \in Workers : Work(u) \/ workerStops(u)
           \/ \E s \in Senders : Send(s) \/ senderStops(s)
    PROVE  TInv'
<1> USE DEF ledgerVars, taskVars, stopVars, history
<1>1. UNCHANGED <<handler, receiver>> => HandlerTypes' /\ ReceiverTypes'
  BY DEF TInv, HandlerTypes, ReceiverTypes
<1>2. ASSUME NEW u \in Workers, popTasks(u) \/ UNCHANGED pending
      PROVE  pending' \in [Peers -> [Wants -> Task \cup {None}]]
  <2>1. pending \in [Peers -> [Wants -> Task \cup {None}]]
    BY DEF TypeOK, TInv
  <2>2. CASE popTasks(u)
    <3>1. PICK q \in Peers, ws \in SUBSET Wants :
             pending' = [pending EXCEPT ![q] = [w \in Wants |-> IF w \in ws THEN None ELSE @[w]]]
      BY <2>2 DEF popTasks, Queued
    <3> DEFINE new == [w \in Wants |-> IF w \in ws THEN None ELSE pending[q][w]]
    <3>2. pending' = [pending EXCEPT ![q] = new]
      BY <3>1
    <3>3. pending[q] \in [Wants -> Task \cup {None}]
      BY <2>1
    <3>4. new \in [Wants -> Task \cup {None}]
      BY <3>3, SMT
    <3> HIDE DEF new
    <3>. QED  BY <2>1, <3>2, <3>4
  <2>. QED  BY <1>2, <2>1, <2>2
<1>3. ASSUME UNCHANGED <<store, connected, ledgerMap, wantList, cids, taskWorkerCount, outboxClosed, phase, events>>,
             workSignal' \in BOOLEAN, pending' \in [Peers -> [Wants -> Task \cup {None}]]
      PROVE  TypeOK'
  BY <1>3, TypesStay DEF TypeOK, TInv
<1>4. ASSUME NEW u \in Workers, nextEnvelope(u) \/ tick(u) PROVE TInv'
  <2>1. /\ UNCHANGED <<store, connected, ledgerMap, wantList, cids, taskWorkerCount, outboxClosed, phase, events>>
        /\ UNCHANGED <<handler, receiver>>
        /\ workSignal' \in BOOLEAN /\ (popTasks(u) \/ UNCHANGED pending)
    BY <1>4 DEF nextEnvelope, tick, popNothing, TypeOK, TInv
  <2>. QED  BY <1>1, <1>2, <1>3, <2>1 DEF TInv
<1>5. ASSUME UNCHANGED <<store, connected, ledgerMap, wantList, cids, pending, workSignal, handler, receiver>>,
             UNCHANGED <<taskWorkerCount, outboxClosed, phase, events>>
      PROVE  TInv'
  BY <1>1, <1>3, <1>5 DEF TypeOK, TInv
<1>6. ASSUME NEW u \in Workers, NEW s \in Senders, makeEnvelope(u) \/ emptyDone(u) \/ offer(u, s) PROVE TInv'
  BY <1>5, <1>6 DEF makeEnvelope, emptyDone, offer
<1>7. ASSUME NEW u \in Workers, makeEnvelope(u) \/ emptyDone(u) PROVE TInv'
  BY <1>5, <1>7 DEF makeEnvelope, emptyDone
<1>8. ASSUME NEW u \in Workers, workerStops(u) PROVE TInv'
  <2>1. UNCHANGED <<store, connected, ledgerMap, wantList, cids, pending, workSignal, phase, events, handler, receiver>>
    BY <1>8 DEF workerStops
  <2>2. outboxClosed' \in BOOLEAN
    BY <1>8 DEF workerStops, taskWorkerExit
  <2>3. taskWorkerCount' \in 0..engineTaskWorkerCount
    BY DEF EInv, Counted
  <2>4. TypeOK'
    BY <2>1, <2>2, <2>3 DEF TypeOK, TInv
  <2>. QED  BY <1>1, <2>1, <2>4 DEF TInv
<1>9. ASSUME NEW s \in Senders, MessageSent(s) PROVE TInv'
  <2>1. /\ UNCHANGED <<store, connected, wantList, cids, pending, workSignal, taskWorkerCount, outboxClosed, phase>>
        /\ UNCHANGED <<handler, receiver, events>>
    BY <1>9 DEF MessageSent
  <2>2. PICK l \in Ledgers : findOrCreate(sender[s].p, l)
    BY <1>9 DEF MessageSent
  <2>3. TypeOK'
    BY <2>1, <2>2, FindFacts, TypesStay DEF TypeOK, TInv
  <2>. QED  BY <1>1, <2>1, <2>3 DEF TInv
<1>10. ASSUME NEW s \in Senders, removeSent(s) PROVE TInv'
  <2> DEFINE x == sender[s]
             new == [w \in Wants |->
                        IF w \in x.blocks THEN RemoveType(wantList[x.l][w], "block")
                        ELSE IF w \in Haves(x.tasks) THEN RemoveType(wantList[x.l][w], "have")
                        ELSE wantList[x.l][w]]
  <2>1. /\ UNCHANGED <<store, connected, ledgerMap, cids, pending, workSignal, taskWorkerCount, outboxClosed, phase>>
        /\ UNCHANGED <<handler, receiver, events>>
    BY <1>10 DEF removeSent
  <2>2. wantList' \in [Ledgers -> [Wants -> {"none", "have", "block"}]]
    <3>1. wantList' = Collect([wantList EXCEPT ![x.l] = new])
      BY <1>10 DEF removeSent
    <3>2. ASSUME x.l \in Ledgers PROVE new \in [Wants -> {"none", "have", "block"}]
      <4>1. wantList[x.l] \in [Wants -> {"none", "have", "block"}]
        BY <3>2 DEF TypeOK, TInv
      <4>. QED  BY <4>1, SMT DEF RemoveType
    <3> HIDE DEF new
    <3>3. [wantList EXCEPT ![x.l] = new] \in [Ledgers -> [Wants -> {"none", "have", "block"}]]
      BY <3>2 DEF TypeOK, TInv
    <3>. QED  BY <3>1, <3>3, CollectFacts
  <2>3. TypeOK'
    BY <2>1, <2>2, TypesStay DEF TypeOK, TInv
  <2>. QED  BY <1>1, <2>1, <2>3 DEF TInv
<1>11. ASSUME NEW s \in Senders, sendBlocks(s) PROVE TInv'
  <2>1. /\ UNCHANGED <<store, connected, ledgerMap, wantList, cids, taskWorkerCount, outboxClosed, phase, events>>
        /\ workSignal' = TRUE /\ UNCHANGED <<pending, handler, receiver>>
    BY <1>11 DEF sendBlocks, signalNewWork
  <2>. QED  BY <1>1, <1>3, <2>1 DEF TypeOK, TInv
<1>12. ASSUME NEW s \in Senders, outboxEnds(s) \/ senderStops(s) PROVE TInv'
  BY <1>5, <1>12 DEF outboxEnds, senderStops
<1>. QED  BY <1>4, <1>6, <1>7, <1>8, <1>9, <1>10, <1>11, <1>12 DEF Work, Send

\* Every step of the engine and of its callers keeps the types.
LEMMA NextTInv == EInv /\ EInv' /\ TInv /\ [Next]_vars => TInv'
<1> SUFFICES ASSUME EInv, EInv', TInv, [Next]_vars PROVE TInv'
  OBVIOUS
<1> USE DEF ledgerVars, taskVars, stopVars, history
<1>1. UNCHANGED <<handler, receiver>> => HandlerTypes' /\ ReceiverTypes'
  BY DEF TInv, HandlerTypes, ReceiverTypes
<1>2. CASE UNCHANGED vars
  <2>1. TypeOK'
    BY <1>2 DEF vars, TypeOK, TInv
  <2>. QED  BY <1>1, <1>2, <2>1 DEF vars, TInv
<1>3. ASSUME NEW p \in Peers, PeerConnected(p) PROVE TInv'
  <2>1. PICK l \in Ledgers : findOrCreate(p, l)
    BY <1>3 DEF PeerConnected
  <2>2. /\ connected' = connected \cup {p}
        /\ UNCHANGED <<store, wantList, cids, pending, workSignal, taskWorkerCount, outboxClosed, phase>>
        /\ UNCHANGED <<handler, receiver>>
    BY <1>3 DEF PeerConnected
  <2>3. events' \in [connects : 0..MaxConnects, messages : 0..MaxMessages, arrivals : 0..MaxArrivals]
    BY <1>3, EventsTyped DEF PeerConnected, TInv
  <2>4. /\ ledgerMap' \in [Peers -> Ledgers \cup {None}] /\ ledgerMap'[p] = l
        /\ \A q \in Peers : ledgerMap[q] # None => ledgerMap'[q] = ledgerMap[q]
    BY <2>1, FindFacts DEF TypeOK, TInv
  <2>5. connected' \subseteq {q \in Peers : ledgerMap'[q] # None}
    BY <2>2, <2>4, EngineAssumption DEF EngineAssumption, TypeOK, TInv
  <2>6. TypeOK'
    BY <2>2, <2>3, <2>4, <2>5 DEF TypeOK, TInv
  <2>. QED  BY <1>1, <2>2, <2>6 DEF TInv
<1>4. ASSUME NEW p \in Peers, PeerDisconnected(p) PROVE TInv'
  <2>1. /\ connected' = connected \ {p} /\ ledgerMap' = [ledgerMap EXCEPT ![p] = None]
        /\ cids' = [w \in Wants |-> IF Contains(p, w) THEN cids[w] \ {p} ELSE cids[w]]
        /\ UNCHANGED <<store, pending, workSignal, taskWorkerCount, outboxClosed, phase, events, handler, receiver>>
        /\ wantList' = Collect(wantList)
    BY <1>4 DEF PeerDisconnected
  <2>2. cids' \in [Wants -> SUBSET Peers]
    BY <2>1, SMT DEF TypeOK, TInv
  <2>3. wantList' \in [Ledgers -> [Wants -> {"none", "have", "block"}]]
    BY <2>1, CollectFacts DEF TypeOK, TInv
  <2>4. ledgerMap' \in [Peers -> Ledgers \cup {None}] /\ \A q \in Peers \ {p} : ledgerMap'[q] = ledgerMap[q]
    BY <2>1 DEF TypeOK, TInv
  <2>5. connected' \subseteq {q \in Peers : ledgerMap'[q] # None}
    BY <2>1, <2>4 DEF TypeOK, TInv
  <2>6. TypeOK'
    BY <2>1, <2>2, <2>3, <2>4, <2>5 DEF TypeOK, TInv
  <2>. QED  BY <1>1, <2>1, <2>6 DEF TInv
<1>5. ASSUME NEW c, DeleteBlock(c) PROVE TInv'
  <2>1. /\ store' \subseteq store
        /\ UNCHANGED <<connected, ledgerMap, wantList, cids, pending, workSignal, taskWorkerCount, outboxClosed>>
        /\ UNCHANGED <<phase, events, handler, receiver>>
    BY <1>5 DEF DeleteBlock
  <2>2. TypeOK'
    BY <2>1 DEF TypeOK, TInv
  <2>. QED  BY <1>1, <2>1, <2>2 DEF TInv
<1>6. CASE closeProcess
  <2>1. /\ phase' \in {"running", "closing", "done"}
        /\ UNCHANGED <<store, connected, ledgerMap, wantList, cids, pending, workSignal, taskWorkerCount, outboxClosed>>
        /\ UNCHANGED <<events, handler, receiver>>
    BY <1>6 DEF closeProcess
  <2>2. TypeOK'
    BY <2>1 DEF TypeOK, TInv
  <2>. QED  BY <1>1, <2>1, <2>2 DEF TInv
<1>. QED  BY <1>2, <1>3, <1>4, <1>5, <1>6, HandleTInv, ReceiveTInv, TaskTInv DEF Next

-----------------------------------------------------------------------------
\* A ledger belongs to one peer: whoever holds a ledger that is still in the
\* map holds the one of the peer it works for.
Owns ==
    /\ \A p, q \in Peers : ledgerMap[p] # None /\ ledgerMap[p] = ledgerMap[q] => p = q
    /\ \A h \in Handlers : handler[h].pc = "ledger" =>
          "l" \in DOMAIN handler[h] /\ \A q \in Peers : ledgerMap[q] = handler[h].l => q = handler[h].p
    /\ \A u \in Workers : worker[u].pc = "fetch" => worker[u].p \in Peers
    /\ \A s \in Senders : sender[s].pc \in {"find", "record"} => sender[s].p \in Peers
    /\ \A s \in Senders : sender[s].pc = "record" =>
          /\ "l" \in DOMAIN sender[s] /\ sender[s].l \in Ledgers
          /\ \A q \in Peers : ledgerMap[q] = sender[s].l => q = sender[s].p

\* What is owed is wanted by ledger and index, and may be had.
Wanted(o) ==
    /\ Contains(o.p, o.w) /\ (o.type = "block" => wantList[ledgerMap[o.p]][o.w] = "block")
    /\ o.p \in cids[o.w] /\ CidOf[o.w] \in store /\ <<o.p, o.w>> \in Allowed

\* A message of the peer that is under way has found the block, and a cancel
\* has not yet got to the index.
Asked(o) ==
    \A h \in Handlers :
        handler[h].pc \in {"index", "find", "ledger"} /\ handler[h].p = o.p /\ handler[h].w = o.w =>
            IF handler[h].type = "cancel" THEN handler[h].pc = "index" ELSE handler[h].found

\* A task that has the block in hand gives what is owed, and will be sent.
RightPush(o) ==
    \A r \in Receivers : receiver[r].pc = "push" /\ receiver[r].p = o.p /\ receiver[r].w = o.w
                            => (o.type = "block" => receiver[r].block)

InQueue(o) == pending[o.p][o.w] # None /\ pending[o.p][o.w].have

RightQueue(o) == InQueue(o) => (o.type = "block" => pending[o.p][o.w].block)

Has(x, o) == "tasks" \in DOMAIN x /\ x.p = o.p /\ o.w \in DOMAIN x.tasks /\ x.tasks[o.w].have

RightTask(x, o) ==
    Has(x, o) => /\ o.type = "block" => x.tasks[o.w].block
                 /\ x.pc \in {"fetch", "find", "record"}
                 /\ x.pc \in {"find", "record"} => o.w \in x.blocks \cup Haves(x.tasks)

RightHeld(o) == (\A u \in Workers : RightTask(worker[u], o)) /\ \A s \in Senders : RightTask(sender[s], o)

\* ReceiveFrom is about to push a task for it.
Coming(x, o) ==
    \/ x.pc \in {"stored", "look"} /\ x.w = o.w
    \/ x.pc \in {"loop", "push"} /\ x.w = o.w /\ o.p \in x.todo
    \/ x.pc = "push" /\ x.w = o.w /\ x.p = o.p

InHand(o) ==
    \/ InQueue(o)
    \/ \E r \in Receivers : Coming(receiver[r], o)
    \/ (\E u \in Workers : Has(worker[u], o)) \/ (\E s \in Senders : Has(sender[s], o))

OwedType(o) == o.p \in Peers /\ o.w \in Wants /\ o.type \in {"have", "block"}

Served(o) ==
    OwedType(o) /\ Wanted(o) /\ Asked(o) /\ RightPush(o) /\ RightQueue(o) /\ RightHeld(o) /\ InHand(o)

SInv == EInv /\ TInv /\ Owns /\ (phase = "running" => \A o \in owed : Served(o))

\* What a step leaves alone stays as it is.
LEMMA ServedStays ==
    ASSUME NEW o
    PROVE  /\ Wanted(o) /\ UNCHANGED <<store, ledgerMap, wantList, cids>> => Wanted(o)'
           /\ Asked(o) /\ UNCHANGED handler => Asked(o)'
           /\ RightPush(o) /\ UNCHANGED receiver => RightPush(o)'
           /\ RightQueue(o) /\ UNCHANGED pending => RightQueue(o)'
           /\ RightHeld(o) /\ UNCHANGED <<worker, sender>> => RightHeld(o)'
           /\ InHand(o) /\ UNCHANGED <<pending, receiver, worker, sender>> => InHand(o)'
<1>1. Wanted(o) /\ UNCHANGED <<store, ledgerMap, wantList, cids>> => Wanted(o)'
  BY DEF Wanted, Contains
<1>2. Asked(o) /\ UNCHANGED handler => Asked(o)'
  BY DEF Asked
<1>3. RightPush(o) /\ UNCHANGED receiver => RightPush(o)'
  BY DEF RightPush
<1>4. RightQueue(o) /\ UNCHANGED pending => RightQueue(o)'
  BY DEF RightQueue, InQueue
<1>5. RightHeld(o) /\ UNCHANGED <<worker, sender>> => RightHeld(o)'
  BY DEF RightHeld
<1>6. InHand(o) /\ UNCHANGED <<pending, receiver, worker, sender>> => InHand(o)'
  BY DEF InHand, InQueue
<1>. QED  BY <1>1, <1>2, <1>3, <1>4, <1>5, <1>6

\* More ledgers and more blocks do no harm.
LEMMA WantedStays ==
    ASSUME NEW o, OwedType(o), Wanted(o), UNCHANGED <<wantList, cids>>, store \subseteq store',
           \A q \in Peers : ledgerMap[q] # None => ledgerMap'[q] = ledgerMap[q]
    PROVE  Wanted(o)'
<1>1. ledgerMap[o.p] # None /\ ledgerMap'[o.p] = ledgerMap[o.p]
  BY DEF OwedType, Wanted, Contains
<1>. QED  BY <1>1 DEF Wanted, Contains

\* A ledger that the map knows is not collected.
LEMMA CollectKeeps ==
    ASSUME NEW lists, NEW q \in Peers, ledgerMap' \in [Peers -> Ledgers \cup {None}], ledgerMap'[q] # None
    PROVE  Collect(lists)[ledgerMap'[q]] = lists[ledgerMap'[q]]
<1>1. ledgerMap'[q] \in Ledgers /\ ledgerMap'[q] \in Range(ledgerMap')
  BY DEF Range
<1>. QED  BY <1>1 DEF Collect

\* A push of a task that gives what is owed, if it has the block at all, leaves
\* the queue right and the want in hand.
LEMMA PushServed ==
    ASSUME TInv, NEW o, OwedType(o), RightQueue(o),
           NEW p \in Peers, NEW w \in Wants, NEW t \in Task, pending' = PushTask(pending, p, w, t),
           p = o.p /\ w = o.w /\ t.have => (o.type = "block" => t.block)
    PROVE  /\ RightQueue(o)' /\ (InQueue(o) => InQueue(o)')
           /\ p = o.p /\ w = o.w /\ t.have => InQueue(o)' \/ \E x \in Holders : Has(x, o)
<1>1. pending \in [Peers -> [Wants -> Task \cup {None}]]
  BY DEF TInv, TypeOK
<1>2. /\ \A q \in Peers, v \in Wants : q # p \/ v # w => pending'[q][v] = pending[q][v]
      /\ \/ pending' = pending /\ Active(p, w) # {} /\ ~HasNewInfo(t, Active(p, w))
         \/ /\ pending'[p][w] \in Task
            /\ pending'[p][w].have <=> t.have \/ (pending[p][w] # None /\ pending[p][w].have)
            /\ pending'[p][w].block <=> t.block \/ (pending[p][w] # None /\ pending[p][w].block)
  BY <1>1, PushFacts
<1>3. CASE o.p # p \/ o.w # w
  BY <1>2, <1>3 DEF OwedType, RightQueue, InQueue
<1>4. CASE /\ o.p = p /\ o.w = w
           /\ pending' = pending /\ Active(p, w) # {} /\ ~HasNewInfo(t, Active(p, w))
  <2>1. ASSUME t.have PROVE \E x \in Holders : Has(x, o)
    <3>1. PICK e \in Active(p, w) : e.have
      BY <1>4, <2>1 DEF HasNewInfo
    <3>2. PICK x \in ActiveOf(p) : w \in DOMAIN x.tasks /\ x.tasks[w] = e
      BY DEF Active
    <3>. QED  BY <1>4, <3>1, <3>2 DEF ActiveOf, Has
  <2>. QED  BY <1>4, <2>1 DEF RightQueue, InQueue
<1>5. CASE /\ o.p = p /\ o.w = w
           /\ pending'[p][w] \in Task
           /\ pending'[p][w].have <=> t.have \/ (pending[p][w] # None /\ pending[p][w].have)
           /\ pending'[p][w].block <=> t.block \/ (pending[p][w] # None /\ pending[p][w].block)
  <2>1. pending'[p][w] # None
    BY <1>5, EngineAssumption DEF EngineAssumption
  <2>. QED  BY <1>5, <2>1 DEF RightQueue, InQueue
<1>. QED  BY <1>2, <1>3, <1>4, <1>5

\* A caller that finds or makes a ledger gets that of its peer, and nobody
\* else's: a new one is held by nobody.
LEMMA FindOwns ==
    ASSUME EInv, TInv, Owns, NEW p, NEW l \in Ledgers, findOrCreate(p, l)
    PROVE  /\ \A q, k \in Peers : ledgerMap'[q] # None /\ ledgerMap'[q] = ledgerMap'[k] => q = k
           /\ \A h \in Handlers : handler[h].pc = "ledger" =>
                 \A q \in Peers : ledgerMap'[q] = handler[h].l => q = handler[h].p
           /\ \A s \in Senders : sender[s].pc = "record" =>
                 \A q \in Peers : ledgerMap'[q] = sender[s].l => q = sender[s].p
           /\ p \in Peers => \A q \in Peers : ledgerMap'[q] = l => q = p
<1>1. ledgerMap \in [Peers -> Ledgers \cup {None}] /\ None \notin Ledgers
  BY EngineAssumption DEF EngineAssumption, TInv, TypeOK
<1>2. CASE UNCHANGED ledgerMap /\ l = ledgerMap[p]
  BY <1>1, <1>2 DEF Owns
<1>3. \A q, k \in Peers : ledgerMap[q] # None /\ ledgerMap[q] = ledgerMap[k] => q = k
  BY DEF Owns
<1>4. \A h \in Handlers : handler[h].pc = "ledger" =>
         "l" \in DOMAIN handler[h] /\ \A q \in Peers : ledgerMap[q] = handler[h].l => q = handler[h].p
  BY DEF Owns
<1>5. \A s \in Senders : sender[s].pc = "record" =>
         "l" \in DOMAIN sender[s] /\ \A q \in Peers : ledgerMap[q] = sender[s].l => q = sender[s].p
  BY DEF Owns
<1>6. CASE l \notin Held \cup Range(ledgerMap) /\ ledgerMap' = [ledgerMap EXCEPT ![p] = l]
  <2>1. /\ \A h \in Handlers : handler[h].pc = "ledger" => handler[h].l # l
        /\ \A s \in Senders : sender[s].pc = "record" => sender[s].l # l
    <3>1. DOMAIN handler = Handlers /\ DOMAIN sender = Senders
      BY DEF EInv, Shape, HandlerShape, SenderShape
    <3>2. \A h \in Handlers : handler[h] \in Range(handler)
      BY <3>1 DEF Range
    <3>3. \A s \in Senders : sender[s] \in Range(sender)
      BY <3>1 DEF Range
    <3>. QED  BY <1>6, <1>4, <1>5, <3>2, <3>3 DEF Held
  <2>2. \A q \in Peers : ledgerMap[q] # l
    BY <1>1, <1>6 DEF Range
  <2>3. \A q \in Peers : (q = p /\ ledgerMap'[q] = l) \/ (q # p /\ ledgerMap'[q] = ledgerMap[q])
    BY <1>1, <1>6
  <2>4. \A q, k \in Peers : ledgerMap'[q] # None /\ ledgerMap'[q] = ledgerMap'[k] => q = k
    BY <1>3, <2>2, <2>3
  <2>5. \A h \in Handlers : handler[h].pc = "ledger" =>
           \A q \in Peers : ledgerMap'[q] = handler[h].l => q = handler[h].p
    BY <1>4, <2>1, <2>3, SMT
  <2>6. \A s \in Senders : sender[s].pc = "record" =>
           \A q \in Peers : ledgerMap'[q] = sender[s].l => q = sender[s].p
    BY <1>5, <2>1, <2>3, SMT
  <2>7. \A q \in Peers : ledgerMap'[q] = l => q = p
    BY <2>2, <2>3
  <2>. QED  BY <2>4, <2>5, <2>6, <2>7
<1>. QED  BY <1>2, <1>6 DEF findOrCreate

\* Every step keeps ledgers with their peers.
LEMMA NextOwns == EInv /\ TInv /\ Owns /\ [Next]_vars => Owns'
<1> SUFFICES ASSUME EInv, TInv, Owns, [Next]_vars PROVE Owns'
  OBVIOUS
<1> USE DEF ledgerVars, taskVars, stopVars, history
<1> DEFINE One(map) == \A p, q \in Peers : map[p] # None /\ map[p] = map[q] => p = q
           OfHandler(map, m) == m.pc = "ledger" =>
               "l" \in DOMAIN m /\ \A q \in Peers : map[q] = m.l => q = m.p
           OfWorker(x) == x.pc = "fetch" => x.p \in Peers
           OfSender(map, x) ==
               /\ x.pc \in {"find", "record"} => x.p \in Peers
               /\ x.pc = "record" =>
                     /\ "l" \in DOMAIN x /\ x.l \in Ledgers
                     /\ \A q \in Peers : map[q] = x.l => q = x.p
<1>1. /\ One(ledgerMap) /\ \A h \in Handlers : OfHandler(ledgerMap, handler[h])
      /\ (\A u \in Workers : OfWorker(worker[u])) /\ \A s \in Senders : OfSender(ledgerMap, sender[s])
  BY DEF Owns
<1>2. ASSUME One(ledgerMap'), \A h \in Handlers : OfHandler(ledgerMap', handler'[h]),
             \A u \in Workers : OfWorker(worker'[u]), \A s \in Senders : OfSender(ledgerMap', sender'[s])
      PROVE  Owns'
  BY <1>2 DEF Owns
<1>3. ASSUME NEW p, NEW l \in Ledgers, findOrCreate(p, l)
      PROVE  /\ One(ledgerMap') /\ \A h \in Handlers : OfHandler(ledgerMap', handler[h])
             /\ \A s \in Senders : OfSender(ledgerMap', sender[s])
             /\ p \in Peers => \A q \in Peers : ledgerMap'[q] = l => q = p
  <2>1. /\ One(ledgerMap')
        /\ \A h \in Handlers : handler[h].pc = "ledger" =>
              \A q \in Peers : ledgerMap'[q] = handler[h].l => q = handler[h].p
        /\ \A s \in Senders : sender[s].pc = "record" =>
              \A q \in Peers : ledgerMap'[q] = sender[s].l => q = sender[s].p
        /\ p \in Peers => \A q \in Peers : ledgerMap'[q] = l => q = p
    BY <1>3, FindOwns
  <2>2. \A h \in Handlers : OfHandler(ledgerMap', handler[h])
    BY <1>1, <2>1
  <2>3. \A s \in Senders : OfSender(ledgerMap', sender[s])
    BY <1>1, <2>1
  <2>. QED  BY <2>1, <2>2, <2>3
<1> HIDE DEF One, OfHandler, OfWorker, OfSender
<1>4. CASE UNCHANGED <<ledgerMap, handler, worker, sender>>
  BY <1>1, <1>2, <1>4
<1>5. ASSUME NEW p, NEW l \in Ledgers, findOrCreate(p, l), UNCHANGED <<handler, worker, sender>>
      PROVE  Owns'
  BY <1>1, <1>2, <1>3, <1>5
<1>6. ASSUME NEW h \in Handlers, NEW m, SetHandler(h, m), m.pc # "ledger",
             UNCHANGED <<ledgerMap, worker, sender>>
      PROVE  Owns'
  <2>1. \A k \in Handlers : handler'[k] = handler[k] \/ handler'[k] = m
    BY <1>6 DEF SetHandler, EInv, Shape, HandlerShape
  <2>2. OfHandler(ledgerMap, m)
    BY <1>6 DEF OfHandler
  <2>3. \A k \in Handlers : OfHandler(ledgerMap', handler'[k])
    BY <1>1, <1>6, <2>1, <2>2
  <2>. QED  BY <1>1, <1>2, <1>6, <2>3
<1>7. ASSUME \A u \in Workers : worker'[u] = worker[u] \/ worker'[u].pc # "fetch" \/ worker'[u].p \in Peers,
             \A s \in Senders : \/ sender'[s] = sender[s] \/ sender'[s].pc \notin {"find", "record"}
                                \/ sender'[s].pc = "find" /\ sender'[s].p \in Peers,
             UNCHANGED <<ledgerMap, handler>>
      PROVE  Owns'
  <2>1. \A u \in Workers : OfWorker(worker'[u])
    BY <1>1, <1>7 DEF OfWorker
  <2>2. \A s \in Senders : OfSender(ledgerMap', sender'[s])
    BY <1>1, <1>7 DEF OfSender
  <2>. QED  BY <1>1, <1>2, <1>7, <2>1, <2>2
<1>8. ASSUME NEW p \in Peers, PeerConnected(p) \/ PeerDisconnected(p) PROVE Owns'
  <2>1. CASE PeerConnected(p)
    BY <1>5, <2>1 DEF PeerConnected
  <2>2. CASE PeerDisconnected(p)
    <3>1. ledgerMap' = [ledgerMap EXCEPT ![p] = None] /\ UNCHANGED <<handler, worker, sender>>
      BY <2>2 DEF PeerDisconnected
    <3>2. /\ ledgerMap'[p] = None /\ \A q \in Peers \ {p} : ledgerMap'[q] = ledgerMap[q]
      BY <3>1 DEF TInv, TypeOK
    <3>3. \A q \in Peers, l \in Ledgers : ledgerMap'[q] = l => ledgerMap[q] = l
      BY <3>2, EngineAssumption DEF EngineAssumption
    <3>4. One(ledgerMap')
      BY <1>1, <3>2 DEF One
    <3>5. ASSUME NEW h \in Handlers PROVE OfHandler(ledgerMap', handler[h])
      <4>1. handler[h].pc = "ledger" => handler[h].l \in Ledgers
        BY DEF TInv, HandlerTypes
      <4>2. OfHandler(ledgerMap, handler[h])
        BY <1>1
      <4>. QED  BY <3>3, <4>1, <4>2 DEF OfHandler
    <3>6. ASSUME NEW s \in Senders PROVE OfSender(ledgerMap', sender[s])
      <4>1. OfSender(ledgerMap, sender[s])
        BY <1>1
      <4>. QED  BY <3>3, <4>1 DEF OfSender
    <3>. QED  BY <1>1, <1>2, <3>1, <3>4, <3>5, <3>6
  <2>. QED  BY <1>8, <2>1, <2>2
<1>9. ASSUME NEW h \in Handlers, Handle(h) \/ \E p \in Peers, w \in Wants : MessageReceived(h, p, w) PROVE Owns'
  <2>1. CASE \E p \in Peers, w \in Wants : MessageReceived(h, p, w)
    <3>1. PICK p \in Peers, w \in Wants, n \in Messages :
            SetHandler(h, [pc |-> "index", p |-> p, w |-> w, type |-> n.type, sendDontHave |-> n.sendDontHave,
                           full |-> n.full, found |-> n.type # "cancel" /\ getBlockSizes(w)])
      BY <2>1 DEF MessageReceived
    <3>2. UNCHANGED <<ledgerMap, worker, sender>>
      BY <2>1 DEF MessageReceived
    <3>. QED  BY <1>6, <3>1, <3>2
  <2>2. CASE updateIndex(h)
    <3>1. SetHandler(h, [handler[h] EXCEPT !.pc = "find"]) /\ UNCHANGED <<ledgerMap, worker, sender>>
      BY <2>2 DEF updateIndex
    <3>2. [handler[h] EXCEPT !.pc = "find"].pc = "find"
      BY <2>2 DEF updateIndex, EInv, Shape, HandlerShape
    <3>. QED  BY <1>6, <3>1, <3>2
  <2>3. CASE findLedger(h)
    <3> DEFINE m == handler[h]
    <3>1. PICK l \in Ledgers :
             /\ findOrCreate(m.p, l)
             /\ SetHandler(h, [pc |-> "ledger", p |-> m.p, w |-> m.w, type |-> m.type,
                               sendDontHave |-> m.sendDontHave, full |-> m.full, found |-> m.found, l |-> l])
      BY <2>3 DEF findLedger
    <3> DEFINE n == [pc |-> "ledger", p |-> m.p, w |-> m.w, type |-> m.type,
                     sendDontHave |-> m.sendDontHave, full |-> m.full, found |-> m.found, l |-> l]
    <3>2. m.p \in Peers /\ UNCHANGED <<worker, sender>>
      BY <2>3 DEF findLedger, EInv, Shape, HandlerShape
    <3>3. "l" \in DOMAIN n /\ n.p = m.p /\ n.l = l
      OBVIOUS
    <3>4. \A k \in Handlers : handler'[k] = handler[k] \/ handler'[k] = n
      BY <3>1 DEF SetHandler, EInv, Shape, HandlerShape
    <3> HIDE DEF n
    <3>5. OfHandler(ledgerMap', n)
      BY <1>3, <3>1, <3>2, <3>3 DEF OfHandler
    <3>6. \A k \in Handlers : OfHandler(ledgerMap', handler'[k])
      BY <1>3, <3>1, <3>4, <3>5
    <3>. QED  BY <1>1, <1>2, <1>3, <3>1, <3>2, <3>6
  <2>4. CASE updateLedger(h)
    BY <1>6, <2>4 DEF updateLedger
  <2>5. CASE messageDone(h)
    BY <1>6, <2>5 DEF messageDone
  <2>. QED  BY <1>9, <2>1, <2>2, <2>3, <2>4, <2>5 DEF Handle
<1>10. ASSUME NEW r \in Receivers, Receive(r) \/ \E w \in Wants : receiveBlock(r, w) PROVE Owns'
  <2>1. CASE recordReceived(r)
    BY <1>4, <1>5, <2>1 DEF recordReceived
  <2>2. CASE lookUp(r) \/ pushTask(r) \/ recheckMissing(r) \/ receiveDone(r)
    BY <1>4, <2>2 DEF lookUp, pushTask, recheckMissing, receiveDone
  <2>3. CASE (\E p \in Peers : lookAtPeer(r, p)) \/ \E w \in Wants : receiveBlock(r, w)
    BY <1>4, <2>3 DEF lookAtPeer, receiveBlock
  <2>. QED  BY <1>10, <2>1, <2>2, <2>3 DEF Receive
<1>11. ASSUME NEW u \in Workers, Work(u) \/ workerStops(u) PROVE Owns'
  <2>1. ASSUME NEW s \in Senders, offer(u, s) PROVE Owns'
    <3>1. /\ \A v \in Workers : worker'[v] = worker[v] \/ worker'[v].pc = "next"
          /\ \A t \in Senders : sender'[t] = sender[t] \/ sender'[t].pc = "waiting"
          /\ UNCHANGED <<ledgerMap, handler>>
      BY <2>1 DEF offer, SetWorker, EInv, Shape, WorkerShape, SenderShape
    <3>. QED  BY <1>7, <3>1
  <2>2. CASE popTasks(u) /\ UNCHANGED <<ledgerMap, handler, sender>>
    <3>1. PICK p \in Peers, ws \in SUBSET Wants :
            SetWorker(u, [pc |-> "fetch", s |-> worker[u].s, p |-> p, tasks |-> [w \in ws |-> pending[p][w]]])
      BY <2>2 DEF popTasks, Queued
    <3>2. \A v \in Workers : worker'[v] = worker[v] \/ worker'[v].p = p
      BY <3>1 DEF SetWorker, EInv, Shape, WorkerShape
    <3>. QED  BY <1>7, <2>2, <3>2
  <2>3. CASE popNothing(u) /\ worker[u].pc \in {"next", "wait"} /\ UNCHANGED <<ledgerMap, handler, sender>>
    <3>1. \A v \in Workers : worker'[v] = worker[v] \/ worker'[v].pc = "wait"
      BY <2>3 DEF popNothing, SetWorker, EInv, Shape, WorkerShape
    <3>. QED  BY <1>7, <2>3, <3>1
  <2>4. CASE makeEnvelope(u)
    <3>1. worker[u].p \in Peers /\ UNCHANGED <<ledgerMap, handler>>
      BY <1>1, <2>4 DEF makeEnvelope, OfWorker
    <3>2. \A v \in Workers : worker'[v] = worker[v] \/ worker'[v].pc # "fetch"
      <4>1. "pc" \in DOMAIN worker[u]
        BY DEF EInv, Shape, WorkerShape
      <4>2. SetWorker(u, [worker[u] EXCEPT !.pc = "empty"]) \/ SetWorker(u, [pc |-> "offer"])
        BY <2>4 DEF makeEnvelope
      <4>3. PICK y : SetWorker(u, y) /\ y.pc # "fetch"
        <5>1. CASE SetWorker(u, [worker[u] EXCEPT !.pc = "empty"])
          <6>1. [worker[u] EXCEPT !.pc = "empty"].pc # "fetch"
            BY <4>1
          <6>. QED  BY <5>1, <6>1
        <5>2. CASE SetWorker(u, [pc |-> "offer"])
          <6>1. [pc |-> "offer"].pc # "fetch"
            OBVIOUS
          <6>. QED  BY <5>2, <6>1
        <5>. QED  BY <4>2, <5>1, <5>2
      <4>. QED  BY <4>3, WorkerFacts
    <3>3. ASSUME NEW t \in Senders
          PROVE  sender'[t] = sender[t] \/ (sender'[t].pc = "find" /\ sender'[t].p = worker[u].p)
      <4>1. CASE UNCHANGED sender
        BY <4>1
      <4>2. ASSUME NEW blks,
                   sender' = [sender EXCEPT ![worker[u].s] = IF @.pc # "waiting" THEN @
                      ELSE [pc |-> "find", p |-> worker[u].p, tasks |-> worker[u].tasks, blocks |-> blks]]
            PROVE  sender'[t] = sender[t] \/ (sender'[t].pc = "find" /\ sender'[t].p = worker[u].p)
        BY <4>2 DEF EInv, Shape, SenderShape
      <4>. QED  BY <2>4, <4>1, <4>2 DEF makeEnvelope
    <3>. QED  BY <1>7, <3>1, <3>2, <3>3
  <2>5. CASE emptyDone(u)
    <3>1. /\ \A v \in Workers : worker'[v] = worker[v] \/ worker'[v].pc # "fetch"
          /\ UNCHANGED <<ledgerMap, handler, sender>>
      BY <2>5 DEF emptyDone, SetWorker, EInv, Shape, WorkerShape
    <3>. QED  BY <1>7, <3>1
  <2>6. CASE workerStops(u)
    <3>1. /\ \A v \in Workers : worker'[v] = worker[v] \/ worker'[v].pc # "fetch"
          /\ \A t \in Senders : sender'[t] = sender[t] \/ sender'[t].pc = "idle"
          /\ UNCHANGED <<ledgerMap, handler>>
      BY <2>6 DEF workerStops, SetWorker, EInv, Shape, WorkerShape
    <3>. QED  BY <1>7, <3>1
  <2>. QED  BY <1>11, <2>1, <2>2, <2>3, <2>4, <2>5, <2>6 DEF Work, nextEnvelope, tick
<1>12. ASSUME NEW s \in Senders, Send(s) \/ senderStops(s) PROVE Owns'
  <2> DEFINE x == sender[s]
  <2>1. CASE MessageSent(s)
    <3>1. PICK l \in Ledgers :
             /\ findOrCreate(x.p, l)
             /\ SetSender(s, [pc |-> "record", p |-> x.p, tasks |-> x.tasks, blocks |-> x.blocks, l |-> l])
      BY <2>1 DEF MessageSent
    <3> DEFINE y == [pc |-> "record", p |-> x.p, tasks |-> x.tasks, blocks |-> x.blocks, l |-> l]
    <3>2. x.p \in Peers /\ UNCHANGED <<handler, worker>>
      BY <1>1, <2>1 DEF MessageSent, OfSender
    <3>3. y.pc = "record" /\ "l" \in DOMAIN y /\ y.p = x.p /\ y.l = l
      OBVIOUS
    <3>4. \A t \in Senders : sender'[t] = sender[t] \/ sender'[t] = y
      BY <3>1, SenderFacts
    <3> HIDE DEF y
    <3>5. OfSender(ledgerMap', y)
      BY <1>3, <3>1, <3>2, <3>3 DEF OfSender
    <3>6. \A t \in Senders : OfSender(ledgerMap', sender'[t])
      BY <1>3, <3>1, <3>4, <3>5
    <3>. QED  BY <1>1, <1>2, <1>3, <3>1, <3>2, <3>6
  <2>2. ASSUME NEW y, SetSender(s, y), y.pc \notin {"find", "record"}, UNCHANGED <<ledgerMap, handler, worker>>
        PROVE  Owns'
    <3>1. \A t \in Senders : sender'[t] = sender[t] \/ sender'[t] = y
      BY <2>2, SenderFacts
    <3>. QED  BY <1>7, <2>2, <3>1
  <2>3. CASE removeSent(s)
    BY <2>2, <2>3 DEF removeSent
  <2>4. CASE sendBlocks(s) \/ outboxEnds(s) \/ senderStops(s)
    BY <2>2, <2>4 DEF sendBlocks, outboxEnds, senderStops
  <2>. QED  BY <1>12, <2>1, <2>3, <2>4 DEF Send
<1>13. CASE UNCHANGED vars \/ closeProcess \/ \E c \in Range(CidOf) : DeleteBlock(c)
  BY <1>4, <1>13 DEF vars, closeProcess, DeleteBlock
<1>. QED  BY <1>8, <1>9, <1>10, <1>11, <1>12, <1>13 DEF Next

-----------------------------------------------------------------------------
\* What a peer says about a want does not take what it is owed out of hand.
LEMMA HandleServed ==
    ASSUME SInv, phase = "running", NEW h \in Handlers,
           Handle(h) \/ \E p \in Peers, w \in Wants : MessageReceived(h, p, w),
           NEW o \in owed'
    PROVE  Served(o)'
<1> USE DEF ledgerVars, taskVars, history
<1> DEFINE m == handler[h]
<1>1. UNCHANGED <<store, receiver, worker, sender>> /\ o \in owed
  BY DEF Handle, MessageReceived, updateIndex, findLedger, updateLedger, messageDone, StillOwed
<1>2. Served(o) /\ OwedType(o)
  BY <1>1 DEF SInv, Served
<1>3. ASSUME Wanted(o)', Asked(o)', UNCHANGED pending PROVE Served(o)'
  BY <1>1, <1>2, <1>3, ServedStays DEF Served, OwedType
<1>4. ASSUME NEW x, SetHandler(h, x),
             x.pc \in {"index", "find", "ledger"} /\ x.p = o.p /\ x.w = o.w =>
                 IF x.type = "cancel" THEN x.pc = "index" ELSE x.found
      PROVE  Asked(o)'
  <2>1. handler'[h] = x /\ \A k \in Handlers \ {h} : handler'[k] = handler[k]
    BY <1>4 DEF SetHandler, SInv, EInv, Shape, HandlerShape
  <2>2. Asked(o)
    BY <1>2 DEF Served
  <2>3. ASSUME NEW k \in Handlers, handler'[k].pc \in {"index", "find", "ledger"},
               handler'[k].p = o.p, handler'[k].w = o.w
        PROVE  IF handler'[k].type = "cancel" THEN handler'[k].pc = "index" ELSE handler'[k].found
    <3>1. CASE k = h
      BY <1>4, <2>1, <2>3, <3>1
    <3>2. CASE k # h
      <4>1. handler'[k] = handler[k]
        BY <2>1, <3>2
      <4>. QED  BY <2>2, <2>3, <4>1 DEF Asked
    <3>. QED  BY <3>1, <3>2
  <2>. QED  BY <2>3 DEF Asked
<1>5. ASSUME NEW p \in Peers, NEW w \in Wants, MessageReceived(h, p, w) PROVE Served(o)'
  <2>1. PICK n \in Messages :
          SetHandler(h, [pc |-> "index", p |-> p, w |-> w, type |-> n.type, sendDontHave |-> n.sendDontHave,
                         full |-> n.full, found |-> n.type # "cancel" /\ getBlockSizes(w)])
    BY <1>5 DEF MessageReceived
  <2>2. UNCHANGED <<ledgerMap, wantList, cids, pending>>
    BY <1>5 DEF MessageReceived
  <2>3. CidOf[o.w] \in store
    BY <1>2 DEF Served, Wanted
  <2>4. Asked(o)'
    <3> DEFINE x == [pc |-> "index", p |-> p, w |-> w, type |-> n.type, sendDontHave |-> n.sendDontHave,
                     full |-> n.full, found |-> n.type # "cancel" /\ getBlockSizes(w)]
    <3>1. /\ x.pc = "index" /\ x.w = w /\ x.type = n.type
          /\ x.found <=> n.type # "cancel" /\ CidOf[w] \in store
      BY DEF getBlockSizes
    <3>2. SetHandler(h, x)
      BY <2>1
    <3> HIDE DEF x
    <3>3. x.w = o.w => IF x.type = "cancel" THEN x.pc = "index" ELSE x.found
      BY <2>3, <3>1
    <3>. QED  BY <1>4, <3>2, <3>3
  <2>5. Wanted(o)'
    BY <1>1, <1>2, <2>2, ServedStays DEF Served
  <2>. QED  BY <1>3, <2>2, <2>4, <2>5
<1>6. CASE updateIndex(h)
  <2>1. /\ m.pc = "index" /\ m.p \in Peers /\ m.w \in Wants
        /\ SetHandler(h, [m EXCEPT !.pc = "find"])
        /\ cids' = [cids EXCEPT ![m.w] = IF m.type = "cancel" THEN @ \ {m.p} ELSE @ \cup {m.p}]
        /\ UNCHANGED <<ledgerMap, wantList, pending>>
        /\ m.type = "cancel" => o.p # m.p \/ o.w # m.w
    BY <1>6 DEF updateIndex, SInv, EInv, Shape, HandlerShape
  <2>2. Asked(o)'
    <3> DEFINE x == [m EXCEPT !.pc = "find"]
    <3>1. {"pc", "p", "w", "type", "found"} \subseteq DOMAIN m
      BY <2>1 DEF SInv, EInv, Shape, HandlerShape, TInv, HandlerTypes
    <3>2. x.p = m.p /\ x.w = m.w /\ x.type = m.type /\ x.found = m.found
      BY <3>1
    <3>3. SetHandler(h, x)
      BY <2>1
    <3> HIDE DEF x
    <3>4. m.p = o.p /\ m.w = o.w /\ m.type # "cancel" => m.found
      BY <1>2, <2>1 DEF Served, Asked
    <3>. QED  BY <1>4, <2>1, <3>2, <3>3, <3>4
  <2>3. o.p \in cids'[o.w]
    <3>1. o.p \in cids[o.w] /\ o.w \in Wants
      BY <1>2 DEF Served, Wanted, OwedType
    <3>2. cids \in [Wants -> SUBSET Peers]
      BY DEF SInv, TInv, TypeOK
    <3>. QED  BY <2>1, <3>1, <3>2
  <2>4. Wanted(o)'
    BY <1>1, <1>2, <2>1, <2>3 DEF Served, Wanted, Contains
  <2>. QED  BY <1>3, <2>1, <2>2, <2>4
<1>7. CASE findLedger(h)
  <2>1. m.pc = "find" /\ UNCHANGED <<wantList, cids, pending>>
    BY <1>7 DEF findLedger
  <2>2. PICK l \in Ledgers :
           /\ findOrCreate(m.p, l)
           /\ SetHandler(h, [pc |-> "ledger", p |-> m.p, w |-> m.w, type |-> m.type,
                             sendDontHave |-> m.sendDontHave, full |-> m.full, found |-> m.found, l |-> l])
    BY <1>7 DEF findLedger
  <2>3. Asked(o)'
    <3> DEFINE x == [pc |-> "ledger", p |-> m.p, w |-> m.w, type |-> m.type,
                     sendDontHave |-> m.sendDontHave, full |-> m.full, found |-> m.found, l |-> l]
    <3>1. x.p = m.p /\ x.w = m.w /\ x.type = m.type /\ x.found = m.found
      OBVIOUS
    <3>2. SetHandler(h, x)
      BY <2>2
    <3> HIDE DEF x
    <3>3. m.p = o.p /\ m.w = o.w => m.type # "cancel" /\ m.found
      BY <1>2, <2>1 DEF Served, Asked
    <3>. QED  BY <1>4, <3>1, <3>2, <3>3
  <2>4. \A q \in Peers : ledgerMap[q] # None => ledgerMap'[q] = ledgerMap[q]
    BY <2>2, FindFacts DEF SInv, TInv, TypeOK
  <2>5. Wanted(o)'
    BY <1>1, <1>2, <2>1, <2>4, WantedStays DEF Served
  <2>. QED  BY <1>3, <2>1, <2>3, <2>5
<1>8. CASE messageDone(h)
  <2>1. SetHandler(h, [pc |-> "idle"]) /\ UNCHANGED <<ledgerMap, wantList, cids, pending>>
    BY <1>8 DEF messageDone
  <2>2. Asked(o)'
    BY <1>4, <2>1
  <2>3. Wanted(o)'
    BY <1>1, <1>2, <2>1, ServedStays DEF Served
  <2>. QED  BY <1>3, <2>1, <2>2, <2>3
<1>9. CASE updateLedger(h)
  <2> DEFINE old == IF m.full THEN EmptyList ELSE wantList[m.l]
             new == [old EXCEPT ![m.w] = IF m.type = "cancel" THEN "none" ELSE AddType(@, m.type)]
  <2>1. /\ m.pc = "ledger" /\ m.p \in Peers /\ m.w \in Wants
        /\ SetHandler(h, [pc |-> IF hasTask(m) THEN "signal" ELSE "idle"])
        /\ UNCHANGED <<ledgerMap, cids>>
        /\ o \in StillOwed /\ (m.type = "have" /\ o.type = "block" => o.p # m.p \/ o.w # m.w)
    BY <1>9 DEF updateLedger, SInv, EInv, Shape, HandlerShape
  <2>2. wantList' = Collect([wantList EXCEPT ![m.l] = new])
    BY <1>9 DEF updateLedger
  <2>3. /\ m.type \in {"have", "block", "cancel"} /\ m.l \in Ledgers
        /\ m.found \in BOOLEAN /\ m.sendDontHave \in BOOLEAN
    BY <2>1 DEF SInv, TInv, HandlerTypes
  <2>4. m.p = o.p /\ m.w = o.w =>
           m.type # "cancel" /\ m.found /\ (o.type = "block" => m.type = "block")
    BY <1>2, <2>1, <2>3 DEF Served, Asked
  <2>5. Asked(o)'
    BY <1>4, <2>1
  <2>6. Wanted(o)'
    <3>1. Contains(o.p, o.w)' /\ CidOf[o.w] \in store'
      BY <2>1 DEF StillOwed
    <3>2. ASSUME o.type = "block" PROVE wantList'[ledgerMap'[o.p]][o.w] = "block"
      <4> DEFINE l == ledgerMap[o.p]
      <4>1. l \in Ledgers /\ o.p \in Peers /\ o.w \in Wants
        BY <1>2 DEF Served, OwedType, Wanted, Contains, SInv, TInv, TypeOK
      <4>2. wantList[l][o.w] = "block" /\ wantList \in [Ledgers -> [Wants -> {"none", "have", "block"}]]
        BY <1>2, <3>2 DEF Served, Wanted, SInv, TInv, TypeOK
      <4>3. ledgerMap'[o.p] = l /\ ledgerMap' \in [Peers -> Ledgers \cup {None}] /\ l # None
        BY <2>1, <3>1 DEF Contains, SInv, TInv, TypeOK
      <4>4. wantList'[l] = [wantList EXCEPT ![m.l] = new][l]
        <5> DEFINE lists == [wantList EXCEPT ![m.l] = new]
        <5>1. wantList' = Collect(lists)
          BY <2>2
        <5> HIDE DEF lists
        <5>2. Collect(lists)[ledgerMap'[o.p]] = lists[ledgerMap'[o.p]]
          BY <4>1, <4>3, CollectKeeps
        <5>3. wantList'[l] = lists[l]
          BY <4>3, <5>1, <5>2
        <5>. QED  BY <5>3 DEF lists
      <4>5. CASE l # m.l
        BY <4>1, <4>2, <4>3, <4>4, <4>5
      <4>6. CASE l = m.l
        <5>1. wantList'[l] = new
          BY <4>1, <4>2, <4>4, <4>6
        <5>2. o.p = m.p
          BY <2>1, <4>1, <4>6 DEF SInv, Owns
        <5>3. wantList'[l][o.w] # "none"
          BY <3>1, <4>3 DEF Contains
        <5>4. DOMAIN old = Wants
          BY <2>3, <4>2 DEF EmptyList
        <5>5. CASE o.w = m.w
          <6>1. m.type = "block"
            BY <2>4, <3>2, <5>2, <5>5
          <6>. QED  BY <2>1, <4>3, <5>1, <5>4, <5>5, <6>1 DEF AddType
        <5>6. CASE o.w # m.w
          <6>1. new[o.w] = old[o.w]
            BY <4>1, <5>4, <5>6
          <6>2. ~m.full
            BY <4>1, <5>1, <5>3, <6>1 DEF EmptyList
          <6>. QED  BY <4>2, <4>3, <4>6, <5>1, <6>1, <6>2
        <5>. QED  BY <5>5, <5>6
      <4>. QED  BY <4>5, <4>6
    <3>. QED  BY <1>2, <2>1, <3>1, <3>2 DEF Served, Wanted
  <2>7. RightQueue(o)' /\ (InQueue(o) => InQueue(o)')
    <3>1. CASE pending' = PushTask(pending, m.p, m.w, taskOf(m))
      <4> DEFINE t == taskOf(m)
      <4>1. t \in Task
        BY <2>3, TaskOfMessage, SMT
      <4>2. m.p = o.p /\ m.w = o.w => (o.type = "block" => t.block)
        BY <2>4 DEF taskOf, sendAsBlock
      <4>3. pending' = PushTask(pending, m.p, m.w, t)
        BY <3>1
      <4> HIDE DEF t
      <4>. QED  BY <1>2, <2>1, <4>1, <4>2, <4>3, PushServed DEF Served, SInv
    <3>2. CASE m.type = "cancel" /\ pending' = RemoveTask(pending, m.p, m.w)
      <4>1. o.p # m.p \/ o.w # m.w
        BY <2>4, <3>2
      <4>2. pending'[o.p][o.w] = pending[o.p][o.w]
        BY <1>2, <2>1, <3>2, <4>1, SMT DEF RemoveTask, OwedType, SInv, TInv, TypeOK
      <4>. QED  BY <1>2, <4>2 DEF Served, RightQueue, InQueue
    <3>3. CASE UNCHANGED pending
      BY <1>2, <3>3 DEF Served, RightQueue, InQueue
    <3>. QED  BY <1>9, <3>1, <3>2, <3>3 DEF updateLedger
  <2>8. InHand(o)'
    BY <1>1, <1>2, <2>7 DEF Served, InHand
  <2>9. RightPush(o)' /\ RightHeld(o)'
    BY <1>1, <1>2, ServedStays DEF Served
  <2>. QED  BY <1>2, <2>5, <2>6, <2>7, <2>8, <2>9 DEF Served, OwedType
<1>. QED  BY <1>5, <1>6, <1>7, <1>8, <1>9 DEF Handle

\* The arrival of a block and what ReceiveFrom does about it: a want that was
\* settled is in hand, from the block's being stored to the task's being pushed.
LEMMA ReceiveServed ==
    ASSUME SInv, phase = "running", NEW r \in Receivers,
           Receive(r) \/ \E w \in Wants : receiveBlock(r, w),
           NEW o \in owed'
    PROVE  Served(o)'
<1> USE DEF ledgerVars, taskVars, history
<1> DEFINE x == receiver[r]
<1>1. UNCHANGED <<handler, worker, sender>>
  BY DEF Receive, receiveBlock, recordReceived, lookUp, lookAtPeer, pushTask, recheckMissing, receiveDone
<1>2. ASSUME NEW y, SetReceiver(r, y)
      PROVE  receiver'[r] = y /\ \A k \in Receivers \ {r} : receiver'[k] = receiver[k]
  BY <1>2 DEF SetReceiver, SInv, EInv, Shape, ReceiverShape
<1>3. ASSUME Served(o), NEW y, SetReceiver(r, y), Wanted(o)', UNCHANGED pending,
             y.pc = "push" /\ y.p = o.p /\ y.w = o.w => (o.type = "block" => y.block),
             Coming(x, o) => Coming(y, o)
      PROVE  Served(o)'
  <2>1. receiver'[r] = y /\ \A k \in Receivers \ {r} : receiver'[k] = receiver[k]
    BY <1>2, <1>3
  <2>2. RightPush(o)'
    BY <1>3, <2>1 DEF Served, RightPush
  <2>3. InHand(o)'
    <3>1. \A k \in Receivers : Coming(receiver[k], o) => Coming(receiver'[k], o)
      BY <1>3, <2>1
    <3>. QED  BY <1>1, <1>3, <3>1 DEF Served, InHand, InQueue
  <2>. QED  BY <1>1, <1>3, <2>2, <2>3, ServedStays DEF Served, OwedType
<1>4. ASSUME NEW w \in Wants, receiveBlock(r, w) PROVE Served(o)'
  <2>1. PICK from \in connected \cup {None} : SetReceiver(r, [pc |-> "stored", w |-> w, from |-> from])
    BY <1>4 DEF receiveBlock
  <2> DEFINE y == [pc |-> "stored", w |-> w, from |-> from]
  <2>2. y.pc = "stored" /\ y.w = w /\ SetReceiver(r, y)
    BY <2>1
  <2> HIDE DEF y
  <2>3. /\ x.pc = "idle" /\ store' = store \cup {CidOf[w]}
        /\ UNCHANGED <<ledgerMap, wantList, cids, pending>>
    BY <1>4 DEF receiveBlock
  <2>4. CASE o \in owed
    <3>1. Served(o) /\ ~Coming(x, o)
      BY <2>3, <2>4 DEF SInv, Coming
    <3>2. Wanted(o)'
      BY <2>3, <3>1, WantedStays DEF Served
    <3>. QED  BY <1>3, <2>2, <2>3, <3>1, <3>2
  <2>5. CASE o \notin owed
    <3>1. PICK p \in Peers : /\ <<p, w>> \in Allowed /\ Settled(p, w)
                             /\ o = [p |-> p, w |-> w, type |-> wantList[ledgerMap[p]][w]]
      BY <1>4, <2>5 DEF receiveBlock
    <3>2. o.p = p /\ o.w = w /\ o.type = wantList[ledgerMap[p]][w]
      BY <3>1
    <3>3. /\ Contains(p, w) /\ p \in cids[w]
          /\ \A h \in Handlers : handler[h].pc \in {"idle", "signal"} \/ <<handler[h].p, handler[h].w>> # <<p, w>>
          /\ \A k \in Receivers : receiver[k].pc # "push" \/ <<receiver[k].p, receiver[k].w>> # <<p, w>>
          /\ (\A t \in Active(p, w) : ~t.have) /\ (pending[p][w] = None \/ ~pending[p][w].have)
      BY <3>1 DEF Settled
    <3>4. receiver'[r] = y /\ \A k \in Receivers \ {r} : receiver'[k] = receiver[k]
      BY <1>2, <2>2
    <3>5. OwedType(o)
      <4>1. ledgerMap[p] \in Ledgers /\ wantList[ledgerMap[p]][w] # "none"
        BY <3>3 DEF Contains, SInv, TInv, TypeOK
      <4>2. wantList \in [Ledgers -> [Wants -> {"none", "have", "block"}]]
        BY DEF SInv, TInv, TypeOK
      <4>3. wantList[ledgerMap[p]][w] \in {"none", "have", "block"}
        BY <4>1, <4>2
      <4>. QED  BY <3>2, <4>1, <4>3 DEF OwedType
    <3>6. Wanted(o)'
      BY <2>3, <3>1, <3>2, <3>3 DEF Wanted, Contains
    <3>7. Asked(o)'
      BY <1>1, <3>2, <3>3 DEF Asked
    <3>8. RightPush(o)'
      BY <2>2, <3>2, <3>3, <3>4 DEF RightPush
    <3>9. RightQueue(o)' 
      BY <2>3, <3>2, <3>3 DEF RightQueue, InQueue
    <3>10. ASSUME NEW z \in Holders PROVE ~Has(z, o)
      <4>1. ASSUME Has(z, o) PROVE FALSE
        <5>1. z.tasks[w] \in Active(p, w) /\ z.tasks[w].have
          BY <3>2, <4>1 DEF Has, Active, ActiveOf
        <5>. QED  BY <3>3, <5>1
      <4>. QED  BY <4>1
    <3>11. RightHeld(o)'
      <4>1. \A u \in Workers : ~Has(worker[u], o)
        BY <3>10 DEF Holders
      <4>2. \A s \in Senders : ~Has(sender[s], o)
        BY <3>10 DEF Holders
      <4>. QED  BY <1>1, <4>1, <4>2 DEF RightHeld, RightTask
    <3>12. InHand(o)'
      <4>1. Coming(y, o)
        BY <2>2, <3>2 DEF Coming
      <4>. QED  BY <3>4, <4>1 DEF InHand
    <3>. QED  BY <3>5, <3>6, <3>7, <3>8, <3>9, <3>11, <3>12 DEF Served, OwedType
  <2>. QED  BY <2>4, <2>5
<1>5. CASE Receive(r)
  <2>1. Served(o) /\ OwedType(o) /\ Wanted(o) /\ UNCHANGED store
    BY <1>5 DEF Receive, recordReceived, lookUp, lookAtPeer, pushTask, recheckMissing, receiveDone, SInv, Served
  <2>2. UNCHANGED <<ledgerMap, wantList, cids>> => Wanted(o)'
    BY <2>1, ServedStays
  <2>3. ASSUME NEW w, NEW todo, NEW missing, NEW work
        PROVE  /\ Loop(w, todo, missing, work).pc # "push"
               /\ w = o.w /\ o.p \in todo => Coming(Loop(w, todo, missing, work), o)
    BY DEF Loop, Coming
  <2>4. CASE recordReceived(r)
    <3> DEFINE y == [pc |-> "look", w |-> x.w]
    <3>1. /\ x.pc = "stored" /\ SetReceiver(r, y)
          /\ UNCHANGED <<wantList, cids, pending>>
      BY <2>4 DEF recordReceived
    <3>2. \A q \in Peers : ledgerMap[q] # None => ledgerMap'[q] = ledgerMap[q]
      BY <2>4, FindFacts DEF recordReceived, SInv, TInv, TypeOK
    <3>3. Wanted(o)'
      BY <2>1, <3>1, <3>2, WantedStays
    <3>4. y.pc = "look" /\ (Coming(x, o) => Coming(y, o))
      BY <3>1 DEF Coming
    <3> HIDE DEF y
    <3>. QED  BY <1>3, <2>1, <3>1, <3>3, <3>4
  <2>5. CASE lookUp(r)
    <3> DEFINE y == Loop(x.w, cids[x.w], {}, FALSE)
    <3>1. /\ x.pc = "look" /\ SetReceiver(r, y)
          /\ UNCHANGED <<ledgerMap, wantList, cids, pending>>
      BY <2>5 DEF lookUp
    <3>2. y.pc # "push" /\ (Coming(x, o) => Coming(y, o))
      <4>1. Coming(x, o) => x.w = o.w /\ o.p \in cids[x.w]
        BY <2>1, <3>1 DEF Coming, Wanted
      <4>. QED  BY <2>3, <4>1
    <3> HIDE DEF y
    <3>. QED  BY <1>3, <2>1, <2>2, <3>1, <3>2
  <2>6. ASSUME NEW p \in Peers, lookAtPeer(r, p) PROVE Served(o)'
    <3>1. x.pc = "loop" /\ UNCHANGED <<ledgerMap, wantList, cids, pending>>
      BY <2>6 DEF lookAtPeer
    <3>2. CASE Contains(p, x.w)
      <4> DEFINE y == [pc |-> "push", w |-> x.w, todo |-> x.todo \ {p}, missing |-> x.missing,
                       work |-> TRUE, p |-> p, block |-> sendAsBlock(wantList[ledgerMap[p]][x.w], x.w)]
      <4>1. /\ y.pc = "push" /\ y.w = x.w /\ y.todo = x.todo \ {p} /\ y.p = p
            /\ y.block = sendAsBlock(wantList[ledgerMap[p]][x.w], x.w)
        OBVIOUS
      <4>2. SetReceiver(r, y)
        BY <2>6, <3>2 DEF lookAtPeer
      <4> HIDE DEF y
      <4>3. y.p = o.p /\ y.w = o.w => (o.type = "block" => y.block)
        BY <2>1, <4>1 DEF Wanted, sendAsBlock
      <4>4. Coming(x, o) => Coming(y, o)
        BY <3>1, <4>1 DEF Coming
      <4>. QED  BY <1>3, <2>1, <2>2, <3>1, <4>2, <4>3, <4>4
    <3>3. CASE ~Contains(p, x.w)
      <4> DEFINE y == Loop(x.w, x.todo \ {p}, x.missing \cup {p}, x.work)
      <4>1. SetReceiver(r, y)
        BY <2>6, <3>3 DEF lookAtPeer
      <4>2. Coming(x, o) => x.w = o.w /\ o.p \in x.todo \ {p}
        BY <2>1, <3>1, <3>3 DEF Coming, Wanted
      <4>3. y.pc # "push" /\ (Coming(x, o) => Coming(y, o))
        BY <2>3, <4>2
      <4> HIDE DEF y
      <4>. QED  BY <1>3, <2>1, <2>2, <3>1, <4>1, <4>3
    <3>. QED  BY <3>2, <3>3
  <2>7. CASE pushTask(r)
    <3> DEFINE t == [block |-> x.block, have |-> TRUE, sendDontHave |-> FALSE]
               y == Loop(x.w, x.todo, x.missing, TRUE)
    <3>1. /\ x.pc = "push" /\ x.p \in Peers /\ x.w \in Wants /\ SetReceiver(r, y)
          /\ UNCHANGED <<ledgerMap, wantList, cids>> /\ pending' = PushTask(pending, x.p, x.w, t)
      BY <2>7, ZenonT(30) DEF pushTask, SInv, EInv, Shape, ReceiverShape
    <3>2. t \in Task
      BY <3>1, SMT DEF Task, SInv, TInv, ReceiverTypes
    <3>3. t.have /\ (x.p = o.p /\ x.w = o.w => (o.type = "block" => t.block))
      BY <2>1, <3>1 DEF Served, RightPush
    <3>4. y.pc # "push" /\ (x.w = o.w /\ o.p \in x.todo => Coming(y, o))
      BY <2>3
    <3> HIDE DEF t, y
    <3>5. /\ RightQueue(o)' /\ (InQueue(o) => InQueue(o)')
          /\ x.p = o.p /\ x.w = o.w => InQueue(o)' \/ \E z \in Holders : Has(z, o)
      BY <2>1, <3>1, <3>2, <3>3, PushServed DEF Served, SInv
    <3>6. receiver'[r] = y /\ \A k \in Receivers \ {r} : receiver'[k] = receiver[k]
      BY <1>2, <3>1
    <3>7. RightPush(o)'
      BY <2>1, <3>4, <3>6 DEF Served, RightPush
    <3>8. InHand(o)'
      <4>1. CASE InQueue(o)'
        BY <4>1 DEF InHand
      <4>2. CASE \E z \in Holders : Has(z, o)
        BY <1>1, <4>2 DEF Holders, InHand
      <4>3. CASE \E k \in Receivers : Coming(receiver[k], o)
        <5>1. CASE Coming(x, o)
          <6>1. CASE x.p = o.p /\ x.w = o.w
            BY <3>5, <4>1, <4>2, <6>1
          <6>2. CASE ~(x.p = o.p /\ x.w = o.w)
            BY <3>1, <3>4, <3>6, <5>1, <6>2 DEF Coming, InHand
          <6>. QED  BY <6>1, <6>2
        <5>2. CASE \E k \in Receivers \ {r} : Coming(receiver[k], o)
          BY <3>6, <5>2 DEF InHand
        <5>. QED  BY <4>3, <5>1, <5>2
      <4>4. CASE (\E u \in Workers : Has(worker[u], o)) \/ (\E s \in Senders : Has(sender[s], o))
        BY <1>1, <4>4 DEF InHand
      <4>. QED  BY <2>1, <3>5, <4>1, <4>3, <4>4 DEF Served, InHand
    <3>. QED  BY <1>1, <2>1, <2>2, <3>1, <3>5, <3>7, <3>8, ServedStays DEF Served, OwedType
  <2>8. CASE recheckMissing(r)
    <3> DEFINE y == [pc |-> IF x.work THEN "signal" ELSE "idle"]
               gone == {p \in x.missing : ~Contains(p, x.w)}
    <3>1. /\ x.pc = "recheck" /\ SetReceiver(r, y) /\ UNCHANGED <<ledgerMap, wantList, pending>>
          /\ cids' = [cids EXCEPT ![x.w] = @ \ gone]
      BY <2>8 DEF recheckMissing
    <3>2. y.pc # "push" /\ ~Coming(x, o)
      BY <3>1 DEF Coming
    <3>3. o.w = x.w => o.p \notin gone
      BY <2>1 DEF Wanted
    <3> HIDE DEF y, gone
    <3>4. o.p \in cids'[o.w]
      <4>1. o.p \in cids[o.w] /\ o.w \in Wants /\ cids \in [Wants -> SUBSET Peers]
        BY <2>1 DEF Wanted, OwedType, SInv, TInv, TypeOK
      <4>. QED  BY <3>1, <3>3, <4>1
    <3>5. Wanted(o)'
      BY <2>1, <3>1, <3>4 DEF Wanted, Contains
    <3>. QED  BY <1>3, <2>1, <3>1, <3>2, <3>5
  <2>9. CASE receiveDone(r)
    <3> DEFINE y == [pc |-> "idle"]
    <3>1. x.pc = "signal" /\ SetReceiver(r, y) /\ UNCHANGED <<ledgerMap, wantList, cids, pending>>
      BY <2>9 DEF receiveDone
    <3>2. y.pc # "push" /\ ~Coming(x, o)
      BY <3>1 DEF Coming
    <3> HIDE DEF y
    <3>. QED  BY <1>3, <2>1, <2>2, <3>1, <3>2
  <2>. QED  BY <1>5, <2>4, <2>5, <2>6, <2>7, <2>8, <2>9 DEF Receive
<1>. QED  BY <1>4, <1>5

\* A holder that has no tasks has none that is owed.
LEMMA HasTasks ==
    ASSUME SInv, NEW o
    PROVE  /\ \A u \in Workers : Has(worker[u], o) => worker[u].pc \in {"fetch", "empty"}
           /\ \A s \in Senders : Has(sender[s], o) => sender[s].pc \in {"find", "record", "send"}
BY DEF SInv, EInv, Shape, WorkerShape, SenderShape, Has

\* A task worker keeps what is owed in hand until a sender has it: what it takes
\* from the queue it fetches, and a message that has it is not empty.
LEMMA WorkServed ==
    ASSUME SInv, phase = "running", NEW u \in Workers, Work(u), NEW o \in owed'
    PROVE  Served(o)'
<1> USE DEF ledgerVars, taskVars, stopVars, history
<1> DEFINE x == worker[u]
<1>1. UNCHANGED <<store, ledgerMap, wantList, cids, handler, receiver, owed>>
  BY DEF Work, nextEnvelope, tick, makeEnvelope, emptyDone, offer
<1>2. /\ Served(o) /\ OwedType(o) /\ Wanted(o) /\ EInv
      /\ (\A v \in Workers : RightTask(worker[v], o)) /\ \A t \in Senders : RightTask(sender[t], o)
  BY <1>1 DEF SInv, Served, RightHeld
<1>3. ASSUME RightQueue(o)', RightHeld(o)', InHand(o)' PROVE Served(o)'
  BY <1>1, <1>2, <1>3, ServedStays DEF Served, OwedType
<1>4. ASSUME NEW y, SetWorker(u, y), ~Has(x, o), ~Has(y, o), UNCHANGED pending,
             \A t \in Senders : sender'[t] = sender[t] \/ (~Has(sender[t], o) /\ ~Has(sender'[t], o))
      PROVE  Served(o)'
  <2>1. worker'[u] = y /\ \A v \in Workers \ {u} : worker'[v] = worker[v]
    BY <1>2, <1>4, WorkerFacts
  <2>2. RightHeld(o)'
    BY <1>2, <1>4, <2>1 DEF RightHeld, RightTask
  <2>3. InHand(o)'
    BY <1>1, <1>2, <1>4, <2>1 DEF Served, InHand, InQueue
  <2>4. RightQueue(o)'
    BY <1>2, <1>4, ServedStays DEF Served
  <2>. QED  BY <1>3, <2>2, <2>3, <2>4
<1>5. ASSUME NEW s \in Senders, offer(u, s) PROVE Served(o)'
  <2> DEFINE y == [pc |-> "next", s |-> s]
             z == [pc |-> "waiting"]
  <2>1. SetWorker(u, y) /\ sender' = [sender EXCEPT ![s] = z] /\ UNCHANGED pending
    BY <1>5 DEF offer
  <2>2. ~Has(y, o) /\ ~Has(z, o)
    BY DEF Has
  <2> HIDE DEF y, z
  <2>3. ~Has(x, o) /\ ~Has(sender[s], o)
    BY <1>5, HasTasks DEF offer
  <2>4. \A t \in Senders : sender'[t] = sender[t] \/ (t = s /\ sender'[t] = z)
    BY <2>1 DEF SInv, EInv, Shape, SenderShape
  <2>. QED  BY <1>4, <2>1, <2>2, <2>3, <2>4
<1>6. CASE popNothing(u) /\ x.pc \in {"next", "wait"} /\ UNCHANGED sender
  <2> DEFINE y == [x EXCEPT !.pc = "wait"]
  <2>1. SetWorker(u, y) /\ UNCHANGED pending
    BY <1>6 DEF popNothing
  <2>2. ~Has(x, o) /\ ~Has(y, o)
    BY <1>6 DEF Has, SInv, EInv, Shape, WorkerShape
  <2> HIDE DEF y
  <2>. QED  BY <1>4, <1>6, <2>1, <2>2
<1>7. CASE popTasks(u) /\ x.pc \in {"next", "wait"} /\ UNCHANGED sender
  <2>1. PICK p \in Peers, ws \in SUBSET Wants :
          /\ ws \subseteq Queued(p)
          /\ SetWorker(u, [pc |-> "fetch", s |-> x.s, p |-> p, tasks |-> [w \in ws |-> pending[p][w]]])
          /\ pending' = [pending EXCEPT ![p] = [w \in Wants |-> IF w \in ws THEN None ELSE @[w]]]
    BY <1>7 DEF popTasks, Queued
  <2> DEFINE y == [pc |-> "fetch", s |-> x.s, p |-> p, tasks |-> [w \in ws |-> pending[p][w]]]
             popped == o.p = p /\ o.w \in ws
  <2>2. /\ y.pc = "fetch" /\ "tasks" \in DOMAIN y /\ y.p = p
        /\ DOMAIN y.tasks = ws /\ \A w \in ws : y.tasks[w] = pending[p][w]
    OBVIOUS
  <2>3. worker'[u] = y /\ \A v \in Workers \ {u} : worker'[v] = worker[v]
    BY <1>2, <2>1, WorkerFacts
  <2> HIDE DEF y
  <2>4. ~Has(x, o)
    BY <1>7, HasTasks
  <2>5. /\ popped => pending'[o.p][o.w] = None
        /\ ~popped => pending'[o.p][o.w] = pending[o.p][o.w]
    BY <1>2, <2>1, SMT DEF OwedType, SInv, TInv, TypeOK
  <2>6. Has(y, o) => popped /\ y.tasks[o.w] = pending[o.p][o.w]
    BY <2>2, SMT DEF Has
  <2>7. popped /\ pending[o.p][o.w].have => Has(y, o)
    BY <2>2, SMT DEF Has
  <2>8. RightQueue(o)'
    BY <1>2, <2>5 DEF Served, RightQueue, InQueue
  <2>9. RightTask(y, o)
    <3>1. ASSUME Has(y, o) PROVE o.type = "block" => y.tasks[o.w].block
      <4>1. popped /\ y.tasks[o.w] = pending[o.p][o.w] /\ pending[o.p][o.w].have
        BY <2>6, <3>1 DEF Has
      <4>2. pending[o.p][o.w] # None
        BY <2>1, <4>1 DEF Queued
      <4>. QED  BY <1>2, <4>1, <4>2 DEF Served, RightQueue, InQueue
    <3>. QED  BY <2>2, <3>1 DEF RightTask
  <2>10. RightHeld(o)'
    BY <1>2, <1>7, <2>3, <2>9 DEF RightHeld
  <2>11. InHand(o)'
    <3>1. CASE InQueue(o)
      <4>1. CASE popped
        BY <2>3, <2>7, <3>1, <4>1 DEF InHand, InQueue
      <4>2. CASE ~popped
        BY <2>5, <3>1, <4>2 DEF InHand, InQueue
      <4>. QED  BY <4>1, <4>2
    <3>2. CASE ~InQueue(o)
      BY <1>1, <1>2, <1>7, <2>3, <2>4, <3>2 DEF Served, InHand
    <3>. QED  BY <3>1, <3>2
  <2>. QED  BY <1>3, <2>8, <2>10, <2>11
<1>8. CASE makeEnvelope(u)
  <2> DEFINE blks == getBlocks(x.p, BlockTasks(x.tasks))
  <2>1. x.pc = "fetch" /\ UNCHANGED pending
    BY <1>8 DEF makeEnvelope
  <2>2. Has(x, o) => o.w \in blks \cup Haves(x.tasks)
    BY <1>2 DEF Has, getBlocks, BlockTasks, Haves, Wanted
  <2>3. CASE /\ blks \cup Haves(x.tasks) \cup DontHaves(x.tasks, blks) = {}
             /\ SetWorker(u, [x EXCEPT !.pc = "empty"]) /\ UNCHANGED sender
    <3> DEFINE y == [x EXCEPT !.pc = "empty"]
    <3>1. ~Has(x, o)
      BY <2>2, <2>3
    <3>2. DOMAIN y = DOMAIN x /\ ("tasks" \in DOMAIN x => y.p = x.p /\ y.tasks = x.tasks)
      BY DEF SInv, EInv, Shape, WorkerShape
    <3>3. SetWorker(u, y)
      BY <2>3
    <3> HIDE DEF y
    <3>4. ~Has(y, o)
      BY <3>1, <3>2 DEF Has
    <3>. QED  BY <1>4, <2>1, <2>3, <3>1, <3>3, <3>4
  <2>4. CASE /\ SetWorker(u, [pc |-> "offer"])
             /\ sender' = [sender EXCEPT ![x.s] = IF @.pc # "waiting" THEN @
                              ELSE [pc |-> "find", p |-> x.p, tasks |-> x.tasks, blocks |-> blks]]
    <3> DEFINE y == [pc |-> "find", p |-> x.p, tasks |-> x.tasks, blocks |-> blks]
    <3>1. x.s \in Senders /\ sender[x.s].pc = "waiting" /\ "tasks" \in DOMAIN x
      BY <2>1 DEF SInv, EInv, Handshake, Engaged, Shape, WorkerShape
    <3>2. /\ sender'[x.s] = y /\ \A t \in Senders \ {x.s} : sender'[t] = sender[t]
      BY <2>4, <3>1 DEF SInv, EInv, Shape, SenderShape
    <3>3. worker'[u] = [pc |-> "offer"] /\ \A v \in Workers \ {u} : worker'[v] = worker[v]
      BY <1>2, <2>4, WorkerFacts
    <3>4. y.pc = "find" /\ "tasks" \in DOMAIN y /\ y.p = x.p /\ y.tasks = x.tasks /\ y.blocks = blks
      OBVIOUS
    <3>5. ~Has(worker'[u], o) /\ ~Has(sender[x.s], o)
      <4>1. ~Has(worker'[u], o)
        BY <3>3 DEF Has
      <4>. QED  BY <3>1, <4>1, HasTasks
    <3> HIDE DEF y, blks
    <3>6. Has(y, o) <=> Has(x, o)
      BY <3>1, <3>4 DEF Has
    <3>7. RightTask(y, o)
      <4>1. RightTask(x, o)
        BY <1>2
      <4>. QED  BY <2>2, <3>4, <3>6, <4>1 DEF RightTask
    <3>8. RightHeld(o)'
      <4>1. RightTask(worker'[u], o)
        BY <3>5 DEF RightTask
      <4>. QED  BY <1>2, <3>2, <3>3, <3>7, <4>1 DEF RightHeld
    <3>9. InHand(o)'
      <4>1. CASE Has(x, o)
        BY <3>1, <3>2, <3>6, <4>1 DEF InHand
      <4>2. CASE ~Has(x, o)
        BY <1>1, <1>2, <2>1, <3>2, <3>3, <3>5, <4>2 DEF Served, InHand, InQueue
      <4>. QED  BY <4>1, <4>2
    <3>10. RightQueue(o)'
      BY <1>2, <2>1, ServedStays DEF Served
    <3>. QED  BY <1>3, <3>8, <3>9, <3>10
  <2>. QED  BY <1>8, <2>3, <2>4 DEF makeEnvelope
<1>9. CASE emptyDone(u)
  <2> DEFINE y == [pc |-> "next", s |-> x.s]
  <2>1. x.pc = "empty" /\ SetWorker(u, y) /\ UNCHANGED <<pending, sender>>
    BY <1>9 DEF emptyDone
  <2>2. ~Has(x, o)
    BY <1>2, <2>1 DEF RightTask
  <2>3. ~Has(y, o)
    BY DEF Has
  <2> HIDE DEF y
  <2>. QED  BY <1>4, <2>1, <2>2, <2>3
<1>. QED  BY <1>5, <1>6, <1>7, <1>8, <1>9 DEF Work, nextEnvelope, tick

\* A sender records and sends what is owed, after which it is owed no more.
LEMMA SendServed ==
    ASSUME SInv, phase = "running", NEW s \in Senders, Send(s) \/ senderStops(s), NEW o \in owed'
    PROVE  Served(o)'
<1> USE DEF ledgerVars, taskVars, stopVars, history
<1> DEFINE x == sender[s]
<1>1. UNCHANGED <<store, cids, pending, handler, receiver, worker>> /\ o \in owed
  BY DEF Send, MessageSent, removeSent, sendBlocks, outboxEnds, senderStops, StillOwed
<1>2. /\ Served(o) /\ OwedType(o) /\ Wanted(o) /\ EInv /\ RightTask(x, o)
      /\ \A t \in Senders : RightTask(sender[t], o)
  BY <1>1 DEF SInv, Served, RightHeld
<1>3. ASSUME NEW y, SetSender(s, y), Wanted(o)', RightTask(y, o), Has(x, o) => Has(y, o)
      PROVE  Served(o)'
  <2>1. sender'[s] = y /\ \A t \in Senders \ {s} : sender'[t] = sender[t]
    BY <1>2, <1>3, SenderFacts
  <2>2. RightHeld(o)'
    BY <1>1, <1>2, <1>3, <2>1 DEF Served, RightHeld
  <2>3. InHand(o)'
    BY <1>1, <1>2, <1>3, <2>1 DEF Served, InHand, InQueue
  <2>. QED  BY <1>1, <1>2, <1>3, <2>2, <2>3, ServedStays DEF Served, OwedType
<1>4. CASE MessageSent(s)
  <2>1. x.pc = "find" /\ "tasks" \in DOMAIN x /\ UNCHANGED wantList
    BY <1>4 DEF MessageSent, SInv, EInv, Shape, SenderShape
  <2>2. PICK l \in Ledgers :
          /\ findOrCreate(x.p, l)
          /\ SetSender(s, [pc |-> "record", p |-> x.p, tasks |-> x.tasks, blocks |-> x.blocks, l |-> l])
    BY <1>4 DEF MessageSent
  <2> DEFINE y == [pc |-> "record", p |-> x.p, tasks |-> x.tasks, blocks |-> x.blocks, l |-> l]
  <2>3. y.pc = "record" /\ "tasks" \in DOMAIN y /\ y.p = x.p /\ y.tasks = x.tasks /\ y.blocks = x.blocks
    OBVIOUS
  <2>4. SetSender(s, y)
    BY <2>2
  <2> HIDE DEF y
  <2>5. Has(y, o) <=> Has(x, o)
    BY <2>1, <2>3 DEF Has
  <2>6. RightTask(y, o)
    BY <1>2, <2>1, <2>3, <2>5 DEF RightTask
  <2>7. \A q \in Peers : ledgerMap[q] # None => ledgerMap'[q] = ledgerMap[q]
    BY <2>2, FindFacts DEF SInv, TInv, TypeOK
  <2>8. Wanted(o)'
    BY <1>1, <1>2, <2>1, <2>7, WantedStays
  <2>. QED  BY <1>3, <2>4, <2>5, <2>6, <2>8
<1>5. CASE removeSent(s)
  <2> DEFINE y == [pc |-> "send", p |-> x.p, tasks |-> x.tasks]
             new == [w \in Wants |->
                        IF w \in x.blocks THEN RemoveType(wantList[x.l][w], "block")
                        ELSE IF w \in Haves(x.tasks) THEN RemoveType(wantList[x.l][w], "have")
                        ELSE wantList[x.l][w]]
  <2>1. /\ x.pc = "record" /\ "tasks" \in DOMAIN x /\ SetSender(s, y) /\ UNCHANGED ledgerMap
        /\ o \in StillOwed
        /\ o.p = x.p => o.w \notin x.blocks /\ ~(o.type = "have" /\ o.w \in Haves(x.tasks))
    BY <1>5 DEF removeSent, SInv, EInv, Shape, SenderShape
  <2>2. wantList' = Collect([wantList EXCEPT ![x.l] = new])
    BY <1>5 DEF removeSent
  <2>3. ~Has(x, o)
    <3>1. ASSUME Has(x, o) PROVE FALSE
      <4>1. o.p = x.p /\ o.w \in Haves(x.tasks)
        BY <1>2, <2>1, <3>1 DEF RightTask, Has
      <4>2. o.type = "block"
        BY <1>2, <2>1, <4>1 DEF OwedType
      <4>. QED  BY <1>2, <3>1, <4>1, <4>2 DEF RightTask, Haves
    <3>. QED  BY <3>1
  <2>4. ~Has(y, o)
    <3>1. y.p = x.p /\ y.tasks = x.tasks
      OBVIOUS
    <3> HIDE DEF y
    <3>. QED  BY <2>1, <2>3, <3>1 DEF Has
  <2>5. Wanted(o)'
    <3>1. Contains(o.p, o.w)' /\ CidOf[o.w] \in store'
      BY <2>1 DEF StillOwed
    <3>2. ASSUME o.type = "block" PROVE wantList'[ledgerMap'[o.p]][o.w] = "block"
      <4> DEFINE l == ledgerMap[o.p]
                 lists == [wantList EXCEPT ![x.l] = new]
      <4>1. l \in Ledgers /\ o.p \in Peers /\ o.w \in Wants
        BY <1>2 DEF OwedType, Wanted, Contains, SInv, TInv, TypeOK
      <4>2. wantList[l][o.w] = "block" /\ wantList \in [Ledgers -> [Wants -> {"none", "have", "block"}]]
        BY <1>2, <3>2 DEF Wanted, SInv, TInv, TypeOK
      <4>3. ledgerMap'[o.p] = l /\ ledgerMap' \in [Peers -> Ledgers \cup {None}] /\ l # None
        BY <2>1, <3>1 DEF Contains, SInv, TInv, TypeOK
      <4>4. wantList' = Collect(lists)
        BY <2>2
      <4> HIDE DEF lists
      <4>5. Collect(lists)[ledgerMap'[o.p]] = lists[ledgerMap'[o.p]]
        BY <4>1, <4>3, CollectKeeps
      <4>6. wantList'[l] = lists[l]
        BY <4>3, <4>4, <4>5
      <4>7. CASE l # x.l
        BY <4>1, <4>2, <4>3, <4>6, <4>7 DEF lists
      <4>8. CASE l = x.l
        <5>1. o.p = x.p
          BY <2>1, <4>1, <4>8 DEF SInv, Owns
        <5>2. o.w \notin x.blocks
          BY <2>1, <5>1
        <5>3. wantList'[l] = new
          BY <4>1, <4>2, <4>6, <4>8 DEF lists
        <5>4. wantList[x.l][o.w] = "block"
          BY <4>2, <4>8
        <5>5. new[o.w] = "block"
          BY <4>1, <5>2, <5>4 DEF RemoveType
        <5> HIDE DEF new
        <5>. QED  BY <4>3, <5>3, <5>5
      <4>. QED  BY <4>7, <4>8
    <3>. QED  BY <1>1, <1>2, <3>1, <3>2 DEF Wanted
  <2>6. SetSender(s, y)
    BY <2>1
  <2> HIDE DEF y
  <2>. QED  BY <1>3, <2>3, <2>4, <2>5, <2>6 DEF RightTask
<1>6. ASSUME NEW pc, SetSender(s, [pc |-> pc]), x.pc \in {"send", "idle", "waiting"}, UNCHANGED <<ledgerMap, wantList>>
      PROVE  Served(o)'
  <2> DEFINE y == [pc |-> pc]
  <2>1. ~Has(y, o)
    BY DEF Has
  <2>2. ~Has(x, o)
    BY <1>2, <1>6, HasTasks DEF RightTask
  <2>3. Wanted(o)'
    BY <1>1, <1>2, <1>6, ServedStays
  <2>4. SetSender(s, y)
    BY <1>6
  <2> HIDE DEF y
  <2>. QED  BY <1>3, <2>1, <2>2, <2>3, <2>4 DEF RightTask
<1>7. CASE sendBlocks(s) \/ outboxEnds(s) \/ senderStops(s)
  BY <1>6, <1>7 DEF sendBlocks, outboxEnds, senderStops
<1>. QED  BY <1>4, <1>5, <1>7 DEF Send

\* The events around the engine.
LEMMA EventServed ==
    ASSUME SInv, phase = "running", NEW o \in owed',
           \/ \E p \in Peers : PeerConnected(p) \/ PeerDisconnected(p)
           \/ \E c \in Range(CidOf) : DeleteBlock(c)
           \/ UNCHANGED vars
    PROVE  Served(o)'
<1> USE DEF ledgerVars, taskVars, stopVars, history
<1>1. UNCHANGED <<pending, handler, receiver, worker, sender>> /\ o \in owed
  BY DEF PeerConnected, PeerDisconnected, DeleteBlock, StillOwed, vars
<1>2. Served(o) /\ OwedType(o) /\ Wanted(o)
  BY <1>1 DEF SInv, Served
<1>3. ASSUME Wanted(o)' PROVE Served(o)'
  BY <1>1, <1>2, <1>3, ServedStays DEF Served, OwedType
<1>4. ASSUME NEW p \in Peers, PeerConnected(p) PROVE Wanted(o)'
  <2>1. UNCHANGED <<store, wantList, cids>>
    BY <1>4 DEF PeerConnected
  <2>2. PICK l \in Ledgers : findOrCreate(p, l)
    BY <1>4 DEF PeerConnected
  <2>3. \A q \in Peers : ledgerMap[q] # None => ledgerMap'[q] = ledgerMap[q]
    BY <2>2, FindFacts DEF SInv, TInv, TypeOK
  <2>. QED  BY <1>2, <2>1, <2>3, WantedStays
<1>5. ASSUME NEW p \in Peers, PeerDisconnected(p) PROVE Wanted(o)'
  <2>1. /\ ledgerMap' = [ledgerMap EXCEPT ![p] = None] /\ wantList' = Collect(wantList) /\ UNCHANGED store
        /\ cids' = [w \in Wants |-> IF Contains(p, w) THEN cids[w] \ {p} ELSE cids[w]]
        /\ o \in StillOwed
    BY <1>5 DEF PeerDisconnected
  <2>2. Contains(o.p, o.w)' /\ CidOf[o.w] \in store'
    BY <2>1 DEF StillOwed
  <2>3. ledgerMap' \in [Peers -> Ledgers \cup {None}] /\ ledgerMap'[p] = None
        /\ \A q \in Peers \ {p} : ledgerMap'[q] = ledgerMap[q]
    BY <2>1 DEF SInv, TInv, TypeOK
  <2>4. o.p \in Peers /\ o.w \in Wants /\ o.p # p /\ ledgerMap'[o.p] # None
    BY <1>2, <2>2, <2>3 DEF OwedType, Contains
  <2>5. ledgerMap'[o.p] = ledgerMap[o.p]
    BY <2>3, <2>4
  <2>6. wantList'[ledgerMap'[o.p]] = wantList[ledgerMap[o.p]]
    BY <2>1, <2>3, <2>4, <2>5, CollectKeeps
  <2>7. o.p \in cids'[o.w]
    BY <1>2, <2>1, <2>4 DEF Wanted
  <2>. QED  BY <1>2, <2>2, <2>6, <2>7 DEF Wanted
<1>6. ASSUME NEW c, DeleteBlock(c) PROVE Wanted(o)'
  BY <1>2, <1>6 DEF DeleteBlock, StillOwed, Wanted, Contains
<1>7. CASE UNCHANGED vars
  <2>1. UNCHANGED <<store, ledgerMap, wantList, cids>>
    BY <1>7 DEF vars
  <2>. QED  BY <1>2, <1>3, <2>1, ServedStays
<1>. QED  BY <1>3, <1>4, <1>5, <1>6, <1>7

\* Every step of the engine and of its callers keeps the invariant.
LEMMA NextSInv == SInv /\ [Next]_vars => SInv'
<1> SUFFICES ASSUME SInv, [Next]_vars PROVE SInv'
  OBVIOUS
<1> USE DEF ledgerVars, taskVars, stopVars, history
<1>1. EInv /\ TInv /\ Owns
  BY DEF SInv
<1>2. EInv'
  BY <1>1, NextEInv
<1>3. TInv'
  BY <1>1, <1>2, NextTInv
<1>4. Owns'
  BY <1>1, NextOwns
<1>5. ASSUME phase' = "running", NEW o \in owed' PROVE Served(o)'
  <2>1. CASE UNCHANGED vars \/ (\E p \in Peers : PeerConnected(p) \/ PeerDisconnected(p))
             \/ \E c \in Range(CidOf) : DeleteBlock(c)
    <3>1. phase = "running"
      BY <1>5, <2>1 DEF vars, PeerConnected, PeerDisconnected, Happens, DeleteBlock
    <3>. QED  BY <2>1, <3>1, EventServed
  <2>2. ASSUME NEW h \in Handlers, Handle(h) \/ \E p \in Peers, w \in Wants : MessageReceived(h, p, w)
        PROVE  Served(o)'
    <3>1. phase = "running"
      BY <1>5, <2>2 DEF MessageReceived, Happens, Handle, updateIndex, findLedger, updateLedger, messageDone
    <3>. QED  BY <2>2, <3>1, HandleServed
  <2>3. ASSUME NEW r \in Receivers, Receive(r) \/ \E w \in Wants : receiveBlock(r, w)
        PROVE  Served(o)'
    <3>1. phase = "running"
      BY <1>5, <2>3 DEF receiveBlock, Happens, Receive, recordReceived, lookUp, pushTask, recheckMissing,
         receiveDone, lookAtPeer
    <3>. QED  BY <2>3, <3>1, ReceiveServed
  <2>4. ASSUME NEW u \in Workers, Work(u) PROVE Served(o)'
    <3>1. phase = "running"
      BY <1>5, <2>4 DEF Work, nextEnvelope, tick, makeEnvelope, emptyDone, offer
    <3>. QED  BY <2>4, <3>1, WorkServed
  <2>5. ASSUME NEW s \in Senders, Send(s) \/ senderStops(s) PROVE Served(o)'
    <3>1. phase = "running"
      BY <1>5, <2>5 DEF Send, MessageSent, removeSent, sendBlocks, outboxEnds, senderStops
    <3>. QED  BY <2>5, <3>1, SendServed
  <2>6. ~closeProcess /\ \A u \in Workers : ~workerStops(u)
    BY <1>5 DEF closeProcess, workerStops
  <2>. QED  BY <2>1, <2>2, <2>3, <2>4, <2>5, <2>6 DEF Next
<1>. QED  BY <1>2, <1>3, <1>4, <1>5 DEF SInv

LEMMA InitSInv == Init => SInv
<1> SUFFICES ASSUME Init PROVE SInv
  OBVIOUS
<1>1. TypeOK
  <2>1. engineTaskWorkerCount \in 0..engineTaskWorkerCount
    BY EngineAssumption, SMT DEF EngineAssumption
  <2>2. [connects |-> 0, messages |-> 0, arrivals |-> 0]
           \in [connects : 0..MaxConnects, messages : 0..MaxMessages, arrivals : 0..MaxArrivals]
    BY EngineAssumption, SMT DEF EngineAssumption
  <2>. QED  BY <2>1, <2>2 DEF Init, TypeOK, EmptyList
<1>2. HandlerTypes /\ ReceiverTypes
  BY DEF Init, HandlerTypes, ReceiverTypes
<1>3. Owns
  BY DEF Init, Owns
<1>. QED  BY <1>1, <1>2, <1>3, InitEInv DEF SInv, TInv, Init

\* The invariant holds in every reachable state.
THEOREM ServedInvariant == Spec => []SInv
BY InitSInv, NextSInv, PTL DEF Spec

\* The variables stay in their ranges, and a connected peer has a ledger,
\* however connections, messages and answers meet.
THEOREM TypeCorrect == Spec => []TypeOK
<1>1. SInv => TypeOK
  BY DEF SInv, TInv
<1>. QED  BY <1>1, ServedInvariant, PTL

\* What a peer wanted when the block arrived is in somebody's hand until it is
\* sent, cancelled or void, for any number of peers, goroutines and arrivals;
\* wants with a request or an answer under way at the arrival are not claimed,
\* and a want-have for the same want ends the claim to a block.
THEOREM ArrivalIsServedCorrect == Spec => []ArrivalIsServed
<1>1. ASSUME SInv PROVE ArrivalIsServed
  <2> SUFFICES ASSUME phase = "running", NEW o \in owed
               PROVE  \/ pending[o.p][o.w] # None /\ Answers(pending[o.p][o.w], o)
                      \/ \E r \in Receivers :
                            LET x == receiver[r]
                            IN  \/ x.pc \in {"stored", "look"} /\ x.w = o.w
                                \/ x.pc \in {"loop", "push"} /\ x.w = o.w /\ o.p \in x.todo
                                \/ x.pc = "push" /\ x.w = o.w /\ o.p = x.p
                      \/ \E x \in ActiveOf(o.p) :
                            /\ o.w \in DOMAIN x.tasks /\ Answers(x.tasks[o.w], o)
                            /\ x.pc \in {"find", "record"} => o.w \in x.blocks \cup Haves(x.tasks)
                            /\ x.pc \in {"fetch", "find", "record"}
    BY DEF ArrivalIsServed
  <2>1. Served(o)
    BY <1>1 DEF SInv
  <2>2. CASE InQueue(o)
    BY <2>1, <2>2 DEF Served, RightQueue, InQueue, Answers
  <2>3. CASE \E r \in Receivers : Coming(receiver[r], o)
    BY <2>3 DEF Coming
  <2>4. ASSUME NEW x \in Holders, Has(x, o), RightTask(x, o)
        PROVE  \E y \in ActiveOf(o.p) :
                  /\ o.w \in DOMAIN y.tasks /\ Answers(y.tasks[o.w], o)
                  /\ y.pc \in {"find", "record"} => o.w \in y.blocks \cup Haves(y.tasks)
                  /\ y.pc \in {"fetch", "find", "record"}
    <3>1. x \in ActiveOf(o.p) /\ o.w \in DOMAIN x.tasks
      BY <2>4 DEF ActiveOf, Has
    <3>2. Answers(x.tasks[o.w], o)
      BY <2>4 DEF Answers, Has, RightTask
    <3>. QED  BY <2>4, <3>1, <3>2 DEF RightTask
  <2>5. ASSUME NEW u \in Workers, Has(worker[u], o) PROVE worker[u] \in Holders /\ RightTask(worker[u], o)
    BY <2>1 DEF Holders, Served, RightHeld
  <2>6. ASSUME NEW s \in Senders, Has(sender[s], o) PROVE sender[s] \in Holders /\ RightTask(sender[s], o)
    BY <2>1 DEF Holders, Served, RightHeld
  <2>7. CASE \E x \in Holders : Has(x, o) /\ RightTask(x, o)
    BY <2>4, <2>7
  <2>. QED  BY <2>1, <2>2, <2>3, <2>5, <2>6, <2>7 DEF Served, InHand
<1>. QED  BY <1>1, ServedInvariant, PTL
=============================================================================

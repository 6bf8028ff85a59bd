--------------------------- MODULE Session_proofs ---------------------------
(***************************************************************************)
(* TrackedIsWanted for any number of calls, wants, handlers, operations in *)
(* the channel and goroutines waiting to add one, for wants with CIDs of   *)
(* their own.  toFetch is a queue with a set of CIDs beside it, and a want *)
(* that left the set may still be in the queue: the invariant speaks of    *)
(* the set, and with it of wants that are not in the queue at all.         *)
(***************************************************************************)
EXTENDS Session, WellFoundedInduction, TLAPS

\* The prover of a step that names none.
USE Zenon

\* Every want has a CID of its own.
CidsDiffer == \A v, w \in Wants : CidOf[v] = CidOf[w] => v = w

Kind == {"want", "receive", "unwanted", "cancel", "wantsSent", "broadcast"}

Operation == [op : Kind, ws : SUBSET Wants, cids : SUBSET CidsOf(Wants)]

GetCall ==
    [pc : {"idle"}] \cup [pc : {"subscribed", "waiting", "ending", "done"}, w : Wants, got : BOOLEAN]

Bringer ==
    [pc : {"idle"}] \cup [pc : {"split"}, w : Wants, local : BOOLEAN, wanted : BOOLEAN]
        \cup [pc : {"telling", "cancel"}, w : Wants, wanted : BOOLEAN] \cup [pc : {"publish"}, w : Wants]

\* The ranges the argument needs.
Ranges ==
    /\ sim \in [Wants -> {"none", "interested", "wanted"}]
    /\ elems \in Seq(Wants) /\ live \subseteq Wants
    /\ incoming \in Seq(Operation) /\ spilled \subseteq Operation
    /\ call \in [Calls -> GetCall] /\ handler \in [Handlers -> Bringer]

\* What the session tracks, live or by a CID in the set of toFetch, is
\* recorded as wanted.
Recorded ==
    /\ \A w \in live : sim[w] = "wanted"
    /\ \A w \in Wants : CidOf[w] \in eset => sim[w] = "wanted"

IInv == Ranges /\ Recorded

\* A set of natural numbers up to n that is not empty has a greatest element.
LEMMA Greatest ==
    ASSUME NEW n \in Nat, NEW S \in SUBSET (0..n), S # {}
    PROVE  Max(S) \in S
<1> DEFINE T == {n - i : i \in S}
<1>1. \A i \in S : i \in Nat /\ n - i \in Nat
  BY SMT
<1>2. T \subseteq Nat /\ T # {}
  BY <1>1
<1>3. PICK x \in T : \A y \in T : ~(<<y, x>> \in OpToRel(<, Nat))
  BY <1>2, NatLessThanWellFounded, WFMin
<1>4. \A y \in T : y \in Nat /\ x \in Nat /\ ~(y < x)
  BY <1>2, <1>3 DEF OpToRel
<1>5. PICK i \in S : x = n - i
  BY <1>3
<1>6. \A j \in S : n - j \in T
  OBVIOUS
<1>7. \A j \in S : ~(n - j < n - i)
  BY <1>4, <1>5, <1>6
<1> HIDE DEF T
<1>8. \A j \in S : i >= j
  BY <1>1, <1>7, SMT
<1>. QED  BY <1>8 DEF Max

\* An operation enters the channel.
LEMMA Enqueued ==
    ASSUME IInv, NEW o \in Operation, UNCHANGED incoming \/ Enqueue(o)
    PROVE  incoming' \in Seq(Operation)
<1>1. incoming \in Seq(Operation) /\ (incoming' = incoming \/ incoming' = Append(incoming, o))
  BY DEF IInv, Ranges, Enqueue
<1>. QED  BY <1>1, SMT

\* Operations are made of wants and CIDs.
LEMMA OpTypes ==
    ASSUME NEW kind \in Kind, NEW ws \in SUBSET Wants, NEW cids \in SUBSET CidsOf(Wants)
    PROVE  Op(kind, ws, cids) \in Operation
BY SMT DEF Op, Operation

\* What the loop receives.
LEMMA Received ==
    ASSUME IInv, NEW kind, Receives(kind), Consume
    PROVE  /\ Head(incoming).ws \in SUBSET Wants /\ incoming' \in Seq(Operation) /\ UNCHANGED spilled
<1>1. incoming \in Seq(Operation) /\ incoming # <<>> /\ incoming' = Tail(incoming) /\ UNCHANGED spilled
  BY DEF IInv, Ranges, Receives, Consume
<1>2. Head(incoming) \in Operation /\ Tail(incoming) \in Seq(Operation)
  BY <1>1, SMT
<1>. QED  BY <1>1, <1>2, SMT DEF Operation

\* Steps that leave alone what is tracked and recorded.
LEMMA Quiet ==
    ASSUME IInv, UNCHANGED <<sim, elems, eset, live>>,
           incoming' \in Seq(Operation), spilled' \subseteq Operation,
           call' \in [Calls -> GetCall], handler' \in [Handlers -> Bringer]
    PROVE  IInv'
BY DEF IInv, Ranges, Recorded

\* The steps of the loop that take an operation from the channel.
LEMMA LoopKeeps ==
    ASSUME CidsDiffer, IInv, Loop
    PROVE  IInv'
<1> USE DEF swVars, loopVars, opVars, swsVars
<1>1. CASE wantBlocks
  <2>1. /\ incoming' \in Seq(Operation) /\ UNCHANGED spilled
        /\ Head(incoming).ws \in SUBSET Wants
    BY <1>1, Received DEF wantBlocks
  <2>2. PICK w \in Head(incoming).ws : RecordSessionInterest(w) /\ BlocksRequested(w)
    BY <1>1 DEF wantBlocks
  <2>3. w \in Wants
    BY <2>1, <2>2
  <2>4. /\ sim' \in [Wants -> {"none", "interested", "wanted"}] /\ sim'[w] = "wanted"
        /\ \A v \in Wants \ {w} : sim'[v] = sim[v]
    BY <2>2, <2>3 DEF RecordSessionInterest, IInv, Ranges
  <2>5. elems' \in Seq(Wants)
    BY <2>2, <2>3, SMT DEF BlocksRequested, IInv, Ranges
  <2>6. UNCHANGED <<live, call, handler>> /\ eset' = eset \cup {CidOf[w]}
    BY <1>1, <2>2 DEF wantBlocks, BlocksRequested
  <2>7. Recorded'
    BY <2>3, <2>4, <2>6 DEF IInv, Ranges, Recorded, CidsDiffer
  <2>. QED  BY <2>1, <2>4, <2>5, <2>6, <2>7 DEF IInv, Ranges
<1>2. CASE wantBlocksBroadcast
  <2>1. UNCHANGED <<sim, incoming, spilled, call, handler>>
    BY <1>2 DEF wantBlocksBroadcast
  <2>2. CASE UNCHANGED <<elems, eset, live>>
    BY <2>1, <2>2, Quiet DEF IInv, Ranges
  <2>3. CASE GetNextWants
    <3> DEFINE newly == {elems[i] : i \in nextWants}
               last == Max(nextWants \cup {0})
    <3>1. /\ live' = live \cup newly /\ eset' = eset \ CidsOf(newly)
          /\ elems' = SubSeq(elems, last + 1, Len(elems))
      BY <2>3 DEF GetNextWants
    <3>2. nextWants \subseteq poppable
      BY DEF nextWants, FirstOf
    <3>3. elems \in Seq(Wants) /\ Len(elems) \in Nat /\ DOMAIN elems = 1..Len(elems)
      BY SMT DEF IInv, Ranges
    <3>4. nextWants \cup {0} \in SUBSET (0..Len(elems))
      <4>1. nextWants \subseteq 1..Len(elems)
        BY <3>2, <3>3 DEF poppable
      <4>. QED  BY <3>3, <4>1, SMT
    <3>5. last \in 0..Len(elems)
      BY <3>3, <3>4, Greatest
    <3>6. \A w \in newly : w \in Wants /\ CidOf[w] \in eset
      <4>1. \A i \in nextWants : i \in 1..Len(elems) /\ CidOf[elems[i]] \in eset
        BY <3>2, <3>3 DEF poppable
      <4>. QED  BY <3>3, <4>1, SMT
    <3> HIDE DEF newly, last
    <3>7. elems' \in Seq(Wants)
      BY <3>1, <3>3, <3>5, SMT
    <3>8. live' \subseteq Wants
      BY <3>1, <3>6 DEF IInv, Ranges
    <3>9. Recorded'
      BY <2>1, <3>1, <3>6 DEF IInv, Recorded
    <3>. QED  BY <2>1, <3>7, <3>8, <3>9 DEF IInv, Ranges
  <2>. QED  BY <1>2, <2>2, <2>3 DEF wantBlocksBroadcast
<1>3. CASE handleReceive
  <2>1. /\ incoming' \in Seq(Operation) /\ UNCHANGED spilled
        /\ Head(incoming).ws \in SUBSET Wants
    BY <1>3, Received DEF handleReceive
  <2>2. PICK w \in Head(incoming).ws :
           /\ BlocksReceived(w)
           /\ IF isWanted(w) THEN RemoveSessionWants(w) ELSE UNCHANGED sim
    BY <1>3 DEF handleReceive
  <2>3. w \in Wants
    BY <2>1, <2>2
  <2>4. /\ sim' \in [Wants -> {"none", "interested", "wanted"}]
        /\ \A v \in Wants \ {w} : sim'[v] = sim[v]
    BY <2>2, <2>3 DEF RemoveSessionWants, IInv, Ranges
  <2>5. UNCHANGED <<elems, call, handler>> /\ live' = live \ {w} /\ eset' = eset \ {CidOf[w]}
    BY <1>3, <2>2 DEF handleReceive, BlocksReceived
  <2>6. Recorded'
    BY <2>3, <2>4, <2>5 DEF IInv, Ranges, Recorded
  <2>. QED  BY <2>1, <2>4, <2>5, <2>6 DEF IInv, Ranges
<1>4. CASE handleCancel
  <2>1. /\ incoming' \in Seq(Operation) /\ UNCHANGED spilled
    BY <1>4, Received DEF handleCancel
  <2>2. UNCHANGED <<sim, elems, live, call, handler>> /\ eset' \subseteq eset
    BY <1>4 DEF handleCancel
  <2>. QED  BY <2>1, <2>2 DEF IInv, Ranges, Recorded
<1>5. CASE handleWantsSent
  <2>1. /\ incoming' \in Seq(Operation) /\ UNCHANGED spilled
        /\ Head(incoming).ws \in SUBSET Wants
    BY <1>5, Received DEF handleWantsSent
  <2>2. PICK w \in Head(incoming).ws : WantsSent(w)
    BY <1>5 DEF handleWantsSent
  <2>3. w \in Wants
    BY <2>1, <2>2
  <2>4. UNCHANGED <<sim, elems, call, handler>>
    BY <1>5, <2>2 DEF handleWantsSent, WantsSent
  <2>5. eset' \subseteq eset /\ (UNCHANGED live \/ (CidOf[w] \in eset /\ live' = live \cup {w}))
    BY <2>2 DEF WantsSent
  <2>6. Recorded' /\ live' \subseteq Wants
    BY <2>3, <2>4, <2>5 DEF IInv, Ranges, Recorded
  <2>. QED  BY <2>1, <2>4, <2>6 DEF IInv, Ranges
<1>6. CASE handleBroadcast
  <2>1. /\ incoming' \in Seq(Operation) /\ UNCHANGED spilled
    BY <1>6, Received DEF handleBroadcast
  <2>. QED  BY <1>6, <2>1, Quiet DEF handleBroadcast, IInv, Ranges
<1>. QED  BY <1>1, <1>2, <1>3, <1>4, <1>5, <1>6 DEF Loop

\* The sessionWantSender reports of wants.
LEMMA SenderKeeps ==
    ASSUME IInv, Sender
    PROVE  IInv'
<1> USE DEF swVars, loopVars, opVars, swsVars
<1>1. ASSUME NEW o \in Operation, nonBlockingEnqueue(o)
      PROVE  incoming' \in Seq(Operation) /\ spilled' \subseteq Operation
  BY <1>1, Enqueued DEF nonBlockingEnqueue, IInv, Ranges
<1>2. \A ws \in SUBSET Wants : /\ Op("broadcast", ws, {}) \in Operation
                               /\ Op("wantsSent", ws, {}) \in Operation
  <2>1. {} \in SUBSET CidsOf(Wants) /\ "broadcast" \in Kind /\ "wantsSent" \in Kind
    BY DEF Kind
  <2>. QED  BY <2>1, OpTypes
<1>3. Tracked \subseteq Wants
  BY DEF Tracked
<1>4. CASE swsPeerFound \/ \E w \in Wants : swsForget(w)
  BY <1>4, Quiet DEF swsPeerFound, swsForget, IInv, Ranges
<1>5. CASE swsPeersGone
  <2>1. PICK ws \in SUBSET Tracked :
           IF ws = {} THEN UNCHANGED opVars ELSE nonBlockingEnqueue(Op("broadcast", ws, {}))
    BY <1>5 DEF swsPeersGone
  <2>2. incoming' \in Seq(Operation) /\ spilled' \subseteq Operation
    BY <1>1, <1>2, <1>3, <2>1 DEF IInv, Ranges
  <2>. QED  BY <1>5, <2>2, Quiet DEF swsPeersGone, IInv, Ranges
<1>6. ASSUME NEW w \in Wants, swsExhausted(w) \/ swsSend(w) PROVE IInv'
  <2>1. incoming' \in Seq(Operation) /\ spilled' \subseteq Operation
    BY <1>1, <1>2, <1>6 DEF swsExhausted, swsSend
  <2>. QED  BY <1>6, <2>1, Quiet DEF swsExhausted, swsSend, IInv, Ranges
<1>. QED  BY <1>4, <1>5, <1>6 DEF Sender

\* Calls and the goroutines that bring blocks, one changed.
LEMMA CallTypes ==
    ASSUME IInv, NEW c \in Calls
    PROVE  /\ call[c].pc # "idle" => call[c].w \in Wants /\ call[c].got \in BOOLEAN
           /\ \A r \in GetCall : [call EXCEPT ![c] = r] \in [Calls -> GetCall]
           /\ \A pc \in {"waiting", "ending", "done"}, got \in BOOLEAN : call[c].pc # "idle" =>
                 /\ [call[c] EXCEPT !.pc = pc] \in GetCall
                 /\ [call[c] EXCEPT !.pc = pc, !.got = got] \in GetCall
                 /\ [call[c] EXCEPT !.got = got] \in GetCall
<1>1. call \in [Calls -> GetCall] /\ call[c] \in GetCall
  BY DEF IInv, Ranges
<1>2. \A r \in GetCall : [call EXCEPT ![c] = r] \in [Calls -> GetCall]
  BY <1>1
<1>3. CASE call[c].pc = "idle"
  BY <1>2, <1>3
<1>4. CASE call[c].pc # "idle"
  <2> DEFINE r == call[c]
             Made == [pc : {"subscribed", "waiting", "ending", "done"}, w : Wants, got : BOOLEAN]
  <2>1. r \in Made
    BY <1>1, <1>4 DEF GetCall
  <2> HIDE DEF r
  <2>2. r.w \in Wants /\ r.got \in BOOLEAN
    BY <2>1
  <2>3. ASSUME NEW pc \in {"waiting", "ending", "done"}, NEW got \in BOOLEAN
        PROVE  /\ [r EXCEPT !.pc = pc] \in Made /\ [r EXCEPT !.pc = pc, !.got = got] \in Made
               /\ [r EXCEPT !.got = got] \in Made
    BY <2>1
  <2>. QED  BY <1>2, <2>2, <2>3 DEF GetCall, r
<1>. QED  BY <1>3, <1>4

\* The calls of GetBlocks.
LEMMA CallKeeps ==
    ASSUME IInv, NEW c \in Calls, Call(c)
    PROVE  IInv'
<1> USE DEF swVars, loopVars, opVars, swsVars
<1>1. ASSUME NEW w \in Wants, GetBlocks(c, w) PROVE IInv'
  <2>1. [pc |-> "subscribed", w |-> w, got |-> FALSE] \in GetCall
    BY SMT DEF GetCall
  <2>2. call' \in [Calls -> GetCall]
    BY <1>1, <2>1, CallTypes DEF GetBlocks
  <2>. QED  BY <1>1, <2>2, Quiet DEF GetBlocks, IInv, Ranges
<1>2. ASSUME NEW pc \in {"waiting", "ending", "done"}, call[c].pc # "idle", SetCall(c, pc)
      PROVE  call' \in [Calls -> GetCall]
  <2>1. [call[c] EXCEPT !.pc = pc] \in GetCall
    BY <1>2, CallTypes
  <2>2. call' = [call EXCEPT ![c] = [call[c] EXCEPT !.pc = pc]]
    BY <1>2 DEF SetCall
  <2>. QED  BY <2>1, <2>2, CallTypes
<1>3. CASE want(c)
  <2>1. call[c].pc # "idle" /\ call[c].w \in Wants
    BY <1>3, CallTypes DEF want
  <2>2. {call[c].w} \in SUBSET Wants /\ {} \in SUBSET CidsOf(Wants) /\ "want" \in Kind
    BY <2>1 DEF Kind
  <2>3. Op("want", {call[c].w}, {}) \in Operation
    BY <2>2, OpTypes
  <2>4. incoming' \in Seq(Operation)
    BY <1>3, <2>3, Enqueued DEF want
  <2>5. call' \in [Calls -> GetCall]
    BY <1>2, <1>3, <2>1 DEF want
  <2>. QED  BY <1>3, <2>4, <2>5, Quiet DEF want, IInv, Ranges
<1>4. CASE handleIncoming(c)
  <2>1. PICK got \in {call[c].got, FALSE} : call' = [call EXCEPT ![c].pc = "ending", ![c].got = got]
    BY <1>4 DEF handleIncoming
  <2>2. call[c].pc # "idle" /\ got \in BOOLEAN
    BY <1>4, <2>1, CallTypes DEF handleIncoming
  <2>3. [call[c] EXCEPT !.pc = "ending", !.got = got] \in GetCall
    BY <2>2, CallTypes
  <2>4. call' = [call EXCEPT ![c] = [call[c] EXCEPT !.pc = "ending", !.got = got]]
    BY <2>1
  <2>5. call' \in [Calls -> GetCall]
    BY <2>3, <2>4, CallTypes
  <2>. QED  BY <1>4, <2>5, Quiet DEF handleIncoming, IInv, Ranges
<1>5. CASE cancelRemaining(c)
  <2> DEFINE remaining == IF call[c].got THEN {} ELSE {CidOf[call[c].w]}
  <2>1. call[c].pc # "idle" /\ call[c].w \in Wants
    BY <1>5, CallTypes DEF cancelRemaining
  <2>2. remaining \in SUBSET CidsOf(Wants) /\ {} \in SUBSET Wants /\ "cancel" \in Kind
    BY <2>1 DEF CidsOf, Kind
  <2>3. UNCHANGED incoming \/ Enqueue(Op("cancel", {}, remaining))
    BY <1>5 DEF cancelRemaining
  <2> HIDE DEF remaining
  <2>4. Op("cancel", {}, remaining) \in Operation
    BY <2>2, OpTypes
  <2>5. incoming' \in Seq(Operation)
    BY <2>3, <2>4, Enqueued
  <2>6. call' \in [Calls -> GetCall]
    BY <1>2, <1>5, <2>1 DEF cancelRemaining
  <2>. QED  BY <1>5, <2>5, <2>6, Quiet DEF cancelRemaining, IInv, Ranges
<1>. QED  BY <1>1, <1>3, <1>4, <1>5 DEF Call

\* The goroutines that bring blocks.
LEMMA BringerKeeps ==
    ASSUME IInv, NEW h \in Handlers,
           Receive(h) \/ \E w \in Wants : receiveBlock(h, w) \/ HasBlock(h, w)
    PROVE  IInv'
<1> USE DEF swVars, loopVars, opVars, swsVars
<1>1. handler \in [Handlers -> Bringer] /\ handler[h] \in Bringer
  BY DEF IInv, Ranges
<1>2. \A r \in Bringer : [handler EXCEPT ![h] = r] \in [Handlers -> Bringer]
  BY <1>1
<1>3. /\ handler[h].pc # "idle" => handler[h].w \in Wants
      /\ handler[h].pc \in {"split", "telling", "cancel"} => handler[h].wanted \in BOOLEAN
  BY <1>1, SMT DEF Bringer
<1>4. ASSUME NEW w \in Wants, receiveBlock(h, w) \/ HasBlock(h, w) PROVE IInv'
  <2>1. \A local, wanted \in BOOLEAN :
           [pc |-> "split", w |-> w, local |-> local, wanted |-> wanted] \in Bringer
    BY SMT DEF Bringer
  <2>2. \E local, wanted \in BOOLEAN :
           handler' = [handler EXCEPT ![h] = [pc |-> "split", w |-> w, local |-> local, wanted |-> wanted]]
    BY <1>4 DEF receiveBlock, HasBlock
  <2>3. handler' \in [Handlers -> Bringer]
    BY <1>2, <2>1, <2>2
  <2>. QED  BY <1>4, <2>3, Quiet DEF receiveBlock, HasBlock, IInv, Ranges
<1>5. CASE ReceiveFrom(h)
  <2> DEFINE next(pc) == [pc |-> pc, w |-> handler[h].w, wanted |-> handler[h].wanted]
  <2>1. handler[h].w \in Wants /\ handler[h].wanted \in BOOLEAN
    BY <1>3, <1>5 DEF ReceiveFrom
  <2>2. next("cancel") \in Bringer /\ next("telling") \in Bringer
    BY <2>1, SMT DEF Bringer
  <2>3. \E pc \in {"cancel", "telling"} : handler' = [handler EXCEPT ![h] = next(pc)]
    BY <1>1, <1>5 DEF ReceiveFrom
  <2> HIDE DEF next
  <2>4. handler' \in [Handlers -> Bringer]
    BY <1>2, <2>2, <2>3
  <2>. QED  BY <1>5, <2>4, Quiet DEF ReceiveFrom, IInv, Ranges
<1>6. CASE tellSession(h)
  <2>1. handler[h].w \in Wants
    BY <1>3, <1>6 DEF tellSession
  <2> DEFINE kind == IF handler[h].wanted THEN "receive" ELSE "unwanted"
  <2>2. {handler[h].w} \in SUBSET Wants /\ {} \in SUBSET CidsOf(Wants) /\ kind \in Kind
    BY <2>1 DEF Kind
  <2>3. Op(kind, {handler[h].w}, {}) \in Operation
    BY <2>2, OpTypes
  <2>4. incoming' \in Seq(Operation)
    BY <1>6, <2>3, Enqueued DEF tellSession
  <2>5. [handler[h] EXCEPT !.pc = "cancel"] \in Bringer
    <3>1. handler[h] \in [pc : {"telling", "cancel"}, w : Wants, wanted : BOOLEAN]
      BY <1>1, <1>6 DEF tellSession, Bringer
    <3>2. [handler[h] EXCEPT !.pc = "cancel"] \in [pc : {"telling", "cancel"}, w : Wants, wanted : BOOLEAN]
      BY <3>1
    <3>. QED  BY <3>2 DEF Bringer
  <2>6. handler' = [handler EXCEPT ![h] = [handler[h] EXCEPT !.pc = "cancel"]]
    BY <1>6 DEF tellSession
  <2>7. handler' \in [Handlers -> Bringer]
    BY <1>2, <2>5, <2>6
  <2>. QED  BY <1>6, <2>4, <2>7, Quiet DEF tellSession, IInv, Ranges
<1>7. [pc |-> "idle"] \in Bringer
  BY SMT DEF Bringer
<1>8. CASE cancelReceived(h)
  <2>1. [pc |-> "publish", w |-> handler[h].w] \in Bringer
    BY <1>3, <1>8, SMT DEF cancelReceived, Bringer
  <2>2. handler' \in {[handler EXCEPT ![h] = [pc |-> "publish", w |-> handler[h].w]],
                      [handler EXCEPT ![h] = [pc |-> "idle"]]}
    BY <1>1, <1>8 DEF cancelReceived
  <2>3. handler' \in [Handlers -> Bringer]
    BY <1>2, <1>7, <2>1, <2>2
  <2>. QED  BY <1>8, <2>3, Quiet DEF cancelReceived, IInv, Ranges
<1>9. CASE Publish(h)
  <2>1. handler' \in [Handlers -> Bringer]
    BY <1>2, <1>7, <1>9 DEF Publish
  <2>2. call' \in [Calls -> GetCall]
    <3>1. ASSUME NEW c \in Calls PROVE call'[c] \in GetCall
      <4>1. call'[c] = IF /\ call[c].pc \in {"subscribed", "waiting"}
                          /\ CidOf[call[c].w] = CidOf[handler[h].w]
                       THEN [call[c] EXCEPT !.got = TRUE] ELSE call[c]
        BY <1>9 DEF Publish
      <4>2. call[c].pc # "idle" => [call[c] EXCEPT !.got = TRUE] \in GetCall
        BY CallTypes
      <4>. QED  BY <4>1, <4>2 DEF IInv, Ranges
    <3>2. call' = [c \in Calls |-> call'[c]]
      BY <1>9 DEF Publish
    <3>. QED  BY <3>1, <3>2
  <2>. QED  BY <1>9, <2>1, <2>2, Quiet DEF Publish, IInv, Ranges
<1>. QED  BY <1>4, <1>5, <1>6, <1>8, <1>9 DEF Receive

\* The other steps.
LEMMA OthersKeep ==
    ASSUME IInv,
           \/ idleTick \/ handlePeriodicSearch \/ sessionDone \/ handleShutdown
           \/ enqueueSpilled \/ (\E w \in Wants : othersCancel(w)) \/ UNCHANGED vars
    PROVE  IInv'
<1> USE DEF swVars, loopVars, opVars, swsVars
<1>1. CASE \/ idleTick \/ handlePeriodicSearch \/ sessionDone
           \/ (\E w \in Wants : othersCancel(w)) \/ UNCHANGED vars
  <2>1. UNCHANGED <<sim, elems, eset, live, incoming, spilled, call, handler>>
    BY <1>1 DEF idleTick, handlePeriodicSearch, sessionDone, othersCancel, vars
  <2>. QED  BY <2>1, Quiet DEF IInv, Ranges
<1>2. CASE enqueueSpilled
  <2>1. PICK o \in spilled : spilled' = spilled \ {o} /\ (UNCHANGED incoming \/ Enqueue(o))
    BY <1>2 DEF enqueueSpilled
  <2>2. incoming' \in Seq(Operation) /\ spilled' \subseteq Operation
    BY <2>1, Enqueued DEF IInv, Ranges
  <2>. QED  BY <1>2, <2>2, Quiet DEF enqueueSpilled, IInv, Ranges
<1>3. CASE handleShutdown
  <2>1. /\ sim' = [w \in Wants |-> "none"] /\ spilled' = {} /\ elems' = <<>> /\ eset' = {}
        /\ live' = {} /\ UNCHANGED <<incoming, call, handler>>
    BY <1>3 DEF handleShutdown
  <2>2. elems' \in Seq(Wants)
    BY <2>1, SMT
  <2>. QED  BY <2>1, <2>2 DEF IInv, Ranges, Recorded
<1>. QED  BY <1>1, <1>2, <1>3

\* A want that the session waits for, live or in toFetch, is recorded as wanted
\* (SplitWantedUnwanted keeps its block), for any calls, handlers, wants with
\* CIDs of their own, and capacities.
THEOREM TrackedIsWantedCorrect ==
    ASSUME CidsDiffer PROVE Spec => []TrackedIsWanted
<1>1. Init => IInv
  <2> SUFFICES ASSUME Init PROVE IInv
    OBVIOUS
  <2>1. [pc |-> "idle"] \in GetCall /\ [pc |-> "idle"] \in Bringer
    BY SMT DEF GetCall, Bringer
  <2>2. elems \in Seq(Wants) /\ incoming \in Seq(Operation)
    BY SMT DEF Init
  <2>. QED  BY <2>1, <2>2 DEF Init, IInv, Ranges, Recorded
<1>2. IInv /\ [Next]_vars => IInv'
  BY LoopKeeps, SenderKeeps, CallKeeps, BringerKeeps, OthersKeep DEF Next
<1>3. IInv => TrackedIsWanted
  <2> SUFFICES ASSUME IInv, NEW w \in live \cup {elems[i] : i \in poppable}
               PROVE  sim[w] = "wanted"
    BY DEF TrackedIsWanted
  <2>1. CASE w \in live
    BY <2>1 DEF IInv, Recorded
  <2>2. CASE w \in {elems[i] : i \in poppable}
    <3>1. PICK i \in poppable : w = elems[i]
      BY <2>2
    <3>2. i \in DOMAIN elems /\ CidOf[w] \in eset
      BY <3>1 DEF poppable
    <3>3. elems \in Seq(Wants)
      BY DEF IInv, Ranges
    <3>4. w \in Wants
      BY <3>1, <3>2, <3>3, SMT
    <3>. QED  BY <3>2, <3>4 DEF IInv, Recorded
  <2>. QED  BY <2>1, <2>2
<1>. QED  BY <1>1, <1>2, <1>3, PTL DEF Spec
=============================================================================

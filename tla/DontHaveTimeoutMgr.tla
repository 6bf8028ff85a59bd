------------------------- MODULE DontHaveTimeoutMgr -------------------------
(***************************************************************************)
(* dontHaveTimeoutMgr of internal/messagequeue: simulates a DONT_HAVE for  *)
(* a want-block that a peer leaves unanswered for too long.                *)
(*                                                                         *)
(* The processes are the run loop of the queue (Start, AddPending,         *)
(* UpdateMessageLatency, Shutdown), the PeerManager (CancelPending), the   *)
(* ping goroutine, consumeTimeouts and the fireTimeout goroutines; each    *)
(* operation holds lk.  Time is counted in ticks: an entry carries its age *)
(* (since pw.sent) up to MaxTimeout, above which no timeout can be, and    *)
(* the timer the ticks left until it fires.  AddPending reads the clock    *)
(* before it waits for lk.  How a latency becomes a timeout is abstracted  *)
(* to any timeout that the formula can give.                               *)
(***************************************************************************)
EXTENDS Functions, Integers, Sequences

CONSTANTS
    Wants,           \* auth.Want values
    DefaultTimeout,  \* dontHaveTimeout, in ticks
    MaxTimeout,      \* maxTimeout, in ticks
    MaxQueue,        \* bound: entries in wantQueue, cancelled ones included
    MaxFiring        \* bound: fireTimeout goroutines

ASSUME TimeoutAssumption ==
    /\ MaxTimeout \in Nat
    /\ DefaultTimeout \in 1..MaxTimeout
    /\ MaxQueue \in Nat /\ MaxFiring \in Nat

VARIABLES
    activeWants,  \* keys of dhtm.activeWants
    wantQueue,    \* pendingWants, oldest first
    timeout,      \* dhtm.timeout
    samples,      \* messageLatency.samples > 0
    started,
    ping,         \* the measurePingLatency goroutine: "none", "pinging", "done"
    timer,        \* checkForTimeoutsTimer: ticks left, 0 if nil or not running
    tick,         \* a tick is in the channel of the timer
    consumer,     \* consumeTimeouts (idle until a timer exists): "waiting", "checking", "done"
    shut,         \* Shutdown: "no", "stopping" (ctx is cancelled), "done"
    adding,       \* keys of an AddPending that waits for lk, {} if none does
    start,        \* age of the time it has read
    firing        \* how many fireTimeout goroutines have a given set of wants

vars == <<activeWants, wantQueue, timeout, samples, started, ping, timer, tick, consumer, shut, adding, start, firing>>
call == <<adding, start>>

ctxOpen == shut = "no"
NewEntry(w) == [c |-> w, age |-> start, active |-> TRUE]
older(age) == IF age < MaxTimeout THEN age + 1 ELSE MaxTimeout

-----------------------------------------------------------------------------
\* The queue is emptied up to the first active entry that is not over the
\* timeout; the timer is set for that entry, and created if there is none.
checkForTimeouts(queue, active, limit) ==
    \E gone \in 0..Len(queue) :
        LET waits(e) == e.active /\ e.age < limit
            expired == {queue[i].c : i \in {j \in 1..gone : queue[j].active}}
        IN  /\ \A i \in 1..gone : ~waits(queue[i])
            /\ gone < Len(queue) => waits(queue[gone + 1])
            /\ wantQueue' = SubSeq(queue, gone + 1, Len(queue))
            /\ activeWants' = active \ expired
            /\ firing' = IF expired = {} THEN firing ELSE [firing EXCEPT ![expired] = @ + 1]
            /\ timer' = IF gone < Len(queue) /\ ctxOpen THEN limit - queue[gone + 1].age ELSE timer

\* Start: the latency is known, or the peer is pinged.
Start ==
    /\ ctxOpen /\ ~started
    /\ started' = TRUE
    /\ \/ timeout' \in 1..MaxTimeout /\ UNCHANGED ping
       \/ ping' = "pinging" /\ UNCHANGED timeout
    /\ UNCHANGED <<activeWants, wantQueue, samples, timer, tick, consumer, shut, call, firing>>

\* Variant that does not look for wants that are now over the timeout.
UpdateMessageLatency_NoCheck ==
    /\ ctxOpen /\ started /\ adding = {}
    /\ samples' = TRUE
    /\ timeout' \in 0..MaxTimeout
    /\ UNCHANGED <<activeWants, wantQueue, timer, firing, started, ping, tick, consumer, shut, call>>

UpdateMessageLatency ==
    /\ ctxOpen /\ started /\ adding = {}
    /\ samples' = TRUE
    /\ timeout' \in 0..MaxTimeout
    /\ IF timeout' < timeout
       THEN checkForTimeouts(wantQueue, activeWants, timeout')
       ELSE UNCHANGED <<activeWants, wantQueue, timer, firing>>
    /\ UNCHANGED <<started, ping, tick, consumer, shut, call>>

\* The ping failed, or came too late, or gives the timeout.
measurePingLatency ==
    /\ ping = "pinging"
    /\ ping' = "done"
    /\ \/ UNCHANGED <<timeout, activeWants, wantQueue, timer, firing>>
       \/ /\ ~samples
          /\ timeout' \in 1..MaxTimeout
          /\ checkForTimeouts(wantQueue, activeWants, timeout')
    /\ UNCHANGED <<samples, started, tick, consumer, shut, call>>

\* consumeTimeouts takes a tick, or sees that the context is cancelled ...
consumeTimeouts ==
    /\ consumer = "waiting"
    /\ \/ tick /\ tick' = FALSE /\ consumer' = "checking"
       \/ ~ctxOpen /\ consumer' = "done" /\ UNCHANGED tick
    /\ UNCHANGED <<activeWants, wantQueue, timeout, samples, started, ping, timer, shut, call, firing>>

\* Variant that returns after one check.
consumeCheck_Once ==
    /\ consumer = "checking" /\ consumer' = "done"
    /\ checkForTimeouts(wantQueue, activeWants, timeout)
    /\ UNCHANGED <<timeout, samples, started, ping, tick, shut, call>>

\* ... and checks once it has the lock.
consumeCheck ==
    /\ consumer = "checking" /\ consumer' = "waiting"
    /\ checkForTimeouts(wantQueue, activeWants, timeout)
    /\ UNCHANGED <<timeout, samples, started, ping, tick, shut, call>>

\* The keys that are not active yet, in the order of the caller's list.
newKeys(ks) == UNION {Bijection(1..n, ks \ activeWants) : n \in 0..MaxQueue}

newPending(keys) == [i \in 1..Len(keys) |-> NewEntry(keys[i])]

\* Bounds on what is pending and under way.
Within(keys) ==
    Len(wantQueue) + Len(keys) <= MaxQueue /\ FoldFunction(+, 0, firing) < MaxFiring

\* AddPending reads the clock ...
readStart(ks) ==
    /\ ctxOpen /\ started /\ adding = {} /\ ks # {}
    /\ adding' = ks /\ start' = 0
    /\ UNCHANGED <<activeWants, wantQueue, timeout, samples, started, ping, timer, tick, consumer, shut, firing>>

\* Variant that puts new wants in front.
AddPending_Front ==
    /\ adding # {}
    /\ \E keys \in newKeys(adding) :
          /\ Within(keys)
          /\ IF activeWants = {}
             THEN checkForTimeouts(newPending(keys) \o wantQueue, adding, timeout)
             ELSE /\ wantQueue' = newPending(keys) \o wantQueue
                  /\ activeWants' = activeWants \cup adding
                  /\ UNCHANGED <<timer, firing>>
    /\ adding' = {} /\ start' = 0
    /\ UNCHANGED <<timeout, samples, started, ping, tick, consumer, shut>>

\* ... and goes on once it has the lock.  A want that is active keeps its
\* entry; a check is scheduled only if no want was active.
AddPending ==
    /\ adding # {}
    /\ \E keys \in newKeys(adding) :
          /\ Within(keys)
          /\ IF activeWants = {}
             THEN checkForTimeouts(wantQueue \o newPending(keys), adding, timeout)
             ELSE /\ wantQueue' = wantQueue \o newPending(keys)
                  /\ activeWants' = activeWants \cup adding
                  /\ UNCHANGED <<timer, firing>>
    /\ adding' = {} /\ start' = 0
    /\ UNCHANGED <<timeout, samples, started, ping, tick, consumer, shut>>

\* Variant that leaves the entries active.
CancelPending_KeepActive(ks) ==
    /\ ks # {}
    /\ activeWants' = activeWants \ ks
    /\ UNCHANGED <<wantQueue, timeout, samples, started, ping, timer, tick, consumer, shut, call, firing>>

\* The entries stay in the queue, inactive.
CancelPending(ks) ==
    /\ ks # {}
    /\ wantQueue' = [i \in 1..Len(wantQueue) |->
                        IF wantQueue[i].c \in ks
                        THEN [c |-> wantQueue[i].c, age |-> wantQueue[i].age, active |-> FALSE]
                        ELSE wantQueue[i]]
    /\ activeWants' = activeWants \ ks
    /\ UNCHANGED <<timeout, samples, started, ping, timer, tick, consumer, shut, call, firing>>

\* A fireTimeout goroutine reports its wants, or returns after a shutdown.
fireTimeout(ks) ==
    /\ firing[ks] > 0
    /\ firing' = [firing EXCEPT ![ks] = @ - 1]
    /\ UNCHANGED <<activeWants, wantQueue, timeout, samples, started, ping, timer, tick, consumer, shut, call>>

\* Shutdown cancels the context, then takes the lock.
Shutdown ==
    /\ \/ shut = "no" /\ adding = {} /\ shut' = "stopping" /\ UNCHANGED timer
       \/ shut = "stopping" /\ shut' = "done" /\ timer' = 0
    /\ UNCHANGED <<activeWants, wantQueue, timeout, samples, started, ping, tick, consumer, call, firing>>

\* One tick of the clock; a timer that runs out sends a tick.
timePasses ==
    /\ wantQueue' = [i \in 1..Len(wantQueue) |->
                        [c |-> wantQueue[i].c, active |-> wantQueue[i].active,
                         age |-> older(wantQueue[i].age)]]
    /\ start' = IF adding = {} THEN start ELSE older(start)
    /\ timer' = IF timer > 0 THEN timer - 1 ELSE 0
    /\ tick' = (tick \/ timer = 1)
    /\ UNCHANGED <<activeWants, timeout, samples, started, ping, consumer, shut, adding, firing>>

-----------------------------------------------------------------------------
newDontHaveTimeoutMgr ==
    /\ activeWants = {} /\ wantQueue = <<>>
    /\ timeout = DefaultTimeout
    /\ samples = FALSE /\ started = FALSE /\ ping = "none"
    /\ timer = 0 /\ tick = FALSE /\ consumer = "waiting"
    /\ shut = "no" /\ adding = {} /\ start = 0 /\ firing = [ks \in SUBSET Wants |-> 0]

Next ==
    \/ Start \/ UpdateMessageLatency \/ measurePingLatency \/ consumeTimeouts \/ consumeCheck
    \/ Shutdown \/ AddPending \/ timePasses
    \/ \E ks \in SUBSET Wants : readStart(ks) \/ CancelPending(ks) \/ fireTimeout(ks)

Spec == newDontHaveTimeoutMgr /\ [][Next]_vars

\* Time passes and the consumer goroutine runs.
FairSpec == Spec /\ WF_vars(timePasses) /\ WF_vars(consumeTimeouts) /\ WF_vars(consumeCheck)

-----------------------------------------------------------------------------
\* The map and the queue agree: a want is in activeWants exactly when the
\* queue holds an active entry for it, and then one only, so that no want is
\* timed twice and a cancelled want is never reported.
OneActiveEntry ==
    \A w \in Wants :
        LET entries == {i \in 1..Len(wantQueue) : wantQueue[i].c = w /\ wantQueue[i].active}
        IN  IF w \in activeWants THEN \E i \in 1..Len(wantQueue) : entries = {i} ELSE entries = {}

\* "The queue is in order from earliest to latest" (donthavetimeoutmgr.go:239),
\* on which the early exit of checkForTimeouts rests.
QueueInOrder ==
    \A i, j \in 1..Len(wantQueue) : i < j => wantQueue[i].age >= wantQueue[j].age

\* "there must already be a timeout check scheduled" (donthavetimeoutmgr.go:321),
\* and it is not late: while wants are active and no check is under way, the
\* timer runs out by the time the oldest of them reaches the timeout, however
\* timeouts shrink and grow and wants are cancelled and added again.
CheckIsInTime ==
    ctxOpen /\ activeWants # {} /\ ~tick /\ consumer = "waiting" =>
        /\ timer > 0
        /\ \A i \in 1..Len(wantQueue) :
              wantQueue[i].active => wantQueue[i].age + timer <= timeout

\* A want that waits for a response does not wait forever: it is cancelled or
\* times out, although the timeout may be raised again and again meanwhile.
WaitingEnds == \A w \in Wants : w \in activeWants ~> w \notin activeWants \/ ~ctxOpen
=============================================================================

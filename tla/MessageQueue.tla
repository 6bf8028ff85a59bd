---------------------------- MODULE MessageQueue ----------------------------
(***************************************************************************)
(* The MessageQueue of internal/messagequeue: the wants and cancels that   *)
(* are to be sent to one peer, and the run loop that debounces them,       *)
(* builds messages and sends them.                                         *)
(*                                                                         *)
(* Two processes.  The client is the PeerManager, which calls the queue    *)
(* under pqLk, one call at a time; AddBroadcastWantHaves and AddWants are  *)
(* atomic (the signal is sent under wllock), AddCancels is three steps.    *)
(* The run loop is cut where it releases wllock or does I/O, so that the   *)
(* client may call between the snapshot of the wantlists, the marking of   *)
(* the sent entries, the sending and the bookkeeping after it.  What the   *)
(* client may ask is in QueueClient, to which the PeerManager keeps.       *)
(*                                                                         *)
(* Sizes are abstract: if CanSplit, any prefix allowed by the order of     *)
(* cancels, targeted wants and broadcast wants may be all that fits.       *)
(* Times are ages: a signal is "young" until sendMessageMaxDelay passed.   *)
(***************************************************************************)
EXTENDS Integers, FiniteSets, Sequences, QueueClient

CONSTANTS
    CanSplit,           \* whether a message can exceed maxMessageSize
    sendMessageCutoff,  \* pending entries above which debouncing ends
    ResponsesCap        \* capacity of the responses channel

ASSUME QueueAssumption ==
    /\ IsFiniteSet(Wants)
    /\ CanSplit \in BOOLEAN
    /\ sendMessageCutoff \in Nat
    /\ ResponsesCap \in Nat

VARIABLES
    client,        \* client: "idle", or inside AddCancels
    cancelKs,      \* client: argument of the AddCancels it is inside
    peerPending,   \* peerWants.pending: want -> level
    peerSent,      \* peerWants.sent
    peerSentAt,    \* keys of peerWants.sentAt
    bcstPending,   \* bcstWants.pending (all want-haves)
    bcstSent,      \* bcstWants.sent
    bcstSentAt,    \* keys of bcstWants.sentAt
    cancels,       \* keys to cancel
    outgoingWork,  \* the signal in the channel: "none" or its age
    responses,     \* the responses channel
    pc,            \* where the run loop is
    workScheduled, \* when the scheduled work was signalled: "none" or its age
    timer,         \* scheduleWork: "stopped", "armed" or "fired"
    snap,          \* entries extractOutgoingMessage put into the message
    msg,           \* the message: want -> entry
    toTime,        \* want-blocks simulateDontHaveWithTimeout is to add
    dhActive,      \* wants with a running DONT_HAVE timer
    sender,        \* a message sender was created
    supportsHave,  \* the peer's protocol has HAVE and DONT_HAVE
    told           \* the level the peer was last told for each want

clientVars == <<asked, askedBcst, client, cancelKs>>
listVars == <<peerPending, peerSent, peerSentAt, bcstPending, bcstSent, bcstSentAt, cancels>>
loopVars == <<pc, workScheduled, timer, snap, msg, toTime, sender>>
envVars == <<responses, ctxOpen, dhActive, supportsHave, told>>
vars == <<clientVars, listVars, loopVars, envVars, outgoingWork>>

noEntries == [cancels |-> {}, bcst |-> {}, peer |-> noWants]

-----------------------------------------------------------------------------
(* Wantlists.                                                              *)

\* Variant of Removable that ignores the type.
Removable_AnyType(have, level) == have # "none"

\* Whether RemoveType with this level removes an entry: a want-have does not
\* remove a want-block.
Removable(have, level) == have # "none" /\ ~(have = "block" /\ level = "have")

\* Wantlist.Absorb
Absorb(list, other) ==
    [w \in Wants |-> IF list[w] = "none" \/ (list[w] = "have" /\ other[w] = "block")
                     THEN other[w] ELSE list[w]]

pendingWorkCount ==
    Cardinality(bcstPending) + Cardinality(In(peerPending)) + Cardinality(cancels)
hasPendingWork == pendingWorkCount > 0

\* A send into a channel with room for one signal.
signalWorkReady == outgoingWork' = IF outgoingWork = "none" THEN "young" ELSE outgoingWork

-----------------------------------------------------------------------------
(* The client.                                                             *)

\* Variant that leaves a pending cancel in place.
AddBroadcastWantHaves_KeepCancel(ws) ==
    /\ client = "idle" /\ AskBroadcast(ws)
    /\ bcstPending' = bcstPending \cup ws
    /\ signalWorkReady
    /\ UNCHANGED <<client, cancelKs, peerPending, peerSent, peerSentAt, bcstSent, bcstSentAt,
                   cancels, loopVars, envVars>>

AddBroadcastWantHaves(ws) ==
    /\ client = "idle" /\ AskBroadcast(ws)
    /\ bcstPending' = bcstPending \cup ws
    /\ cancels' = cancels \ ws
    /\ signalWorkReady
    /\ UNCHANGED <<client, cancelKs, peerPending, peerSent, peerSentAt, bcstSent, bcstSentAt,
                   loopVars, envVars>>

AddWants(blocks, haves) ==
    /\ client = "idle" /\ AskWants(blocks, haves)
    /\ peerPending' = Add(Add(peerPending, haves, "have"), blocks, "block")
    /\ cancels' = cancels \ (blocks \cup haves)
    /\ signalWorkReady
    /\ UNCHANGED <<client, cancelKs, peerSent, peerSentAt, bcstPending, bcstSent,
                   bcstSentAt, loopVars, envVars>>

\* AddCancels, first step: the DONT_HAVE timers, before the lock is taken.
AddCancelsTimers(ks) ==
    /\ client = "idle" /\ MayCancel(ks) /\ ks # {}
    /\ dhActive' = dhActive \ ks
    /\ client' = "cancel" /\ cancelKs' = ks
    /\ UNCHANGED <<asked, askedBcst, listVars, loopVars, responses, ctxOpen, supportsHave, told,
                   outgoingWork>>

\* Second step, under the lock: only a key that was sent is to be cancelled.
AddCancelsLocked ==
    LET wasSent == cancelKs \cap (bcstSent \cup In(peerSent))
    IN  /\ client = "cancel"
        /\ TakeBack(cancelKs)
        /\ peerPending' = Remove(peerPending, cancelKs)
        /\ peerSent' = Remove(peerSent, cancelKs) /\ peerSentAt' = peerSentAt \ cancelKs
        /\ bcstPending' = bcstPending \ cancelKs
        /\ bcstSent' = bcstSent \ cancelKs /\ bcstSentAt' = bcstSentAt \ cancelKs
        /\ cancels' = cancels \cup wasSent
        /\ client' = IF wasSent # {} THEN "signal" ELSE "idle"
        /\ cancelKs' = {}
        /\ UNCHANGED <<loopVars, envVars, outgoingWork>>

\* Variant without the signal.
AddCancelsSignal_None ==
    /\ client = "signal"
    /\ client' = "idle"
    /\ UNCHANGED <<asked, askedBcst, cancelKs, listVars, loopVars, envVars, outgoingWork>>

\* Third step, after the lock was released.
AddCancelsSignal ==
    /\ client = "signal"
    /\ signalWorkReady
    /\ client' = "idle"
    /\ UNCHANGED <<asked, askedBcst, cancelKs, listVars, loopVars, envVars>>

\* PeerManager.ResponseReceived; a full channel drops the response.
ResponseReceived(ks) ==
    /\ ctxOpen /\ ks # {}
    /\ Len(responses) < ResponsesCap
    /\ responses' = Append(responses, ks)
    /\ UNCHANGED <<clientVars, listVars, loopVars, ctxOpen, dhActive, supportsHave, told,
                   outgoingWork>>

\* PeerManager.Disconnected; it holds pqLk, so no call is under way.
Shutdown ==
    /\ ctxOpen /\ client = "idle"
    /\ ctxOpen' = FALSE
    /\ UNCHANGED <<clientVars, listVars, loopVars, responses, dhActive, supportsHave, told,
                   outgoingWork>>

-----------------------------------------------------------------------------
(* The run loop.                                                           *)

\* Back to the loop condition.
LoopTop == pc' = IF ctxOpen THEN "select" ELSE "exited"

\* transferRebroadcastWants; sendMessage follows if there was anything.
rebroadcastWantlist ==
    /\ pc = "select"
    /\ bcstSent # {} \/ In(peerSent) # {}
    /\ bcstPending' = bcstPending \cup bcstSent
    /\ peerPending' = Absorb(peerPending, peerSent)
    /\ pc' = "send"
    /\ UNCHANGED <<clientVars, peerSent, peerSentAt, bcstSent, bcstSentAt, cancels, workScheduled,
                   timer, snap, msg, toTime, envVars, outgoingWork, sender>>

\* Variant that forgets to stop the timer before it sends.
takeWork_NoStop ==
    LET scheduled == IF workScheduled = "none" THEN outgoingWork ELSE workScheduled
        now == scheduled = "old" \/ pendingWorkCount > sendMessageCutoff
    IN  /\ pc = "select" /\ outgoingWork # "none"
        /\ outgoingWork' = "none"
        /\ workScheduled' = IF now THEN "none" ELSE scheduled
        /\ timer' = IF now THEN timer ELSE "armed"
        /\ pc' = IF now THEN "ready" ELSE "select"
        /\ UNCHANGED <<clientVars, listVars, snap, msg, toTime, envVars, sender>>

\* A signal: stop the timer if work was scheduled already (a fired timer is
\* drained; a stopped one would block the loop), then send or debounce.
takeWork ==
    LET scheduled == IF workScheduled = "none" THEN outgoingWork ELSE workScheduled
        now == scheduled = "old" \/ pendingWorkCount > sendMessageCutoff
    IN  /\ pc = "select" /\ outgoingWork # "none"
        /\ outgoingWork' = "none"
        /\ IF workScheduled # "none" /\ timer = "stopped"
           THEN pc' = "blocked" /\ UNCHANGED <<workScheduled, timer>>
           ELSE /\ workScheduled' = IF now THEN "none" ELSE scheduled
                /\ timer' = IF now THEN IF workScheduled = "none" THEN timer ELSE "stopped"
                            ELSE "armed"
                /\ IF now THEN pc' = "ready" ELSE LoopTop
        /\ UNCHANGED <<clientVars, listVars, snap, msg, toTime, envVars, sender>>

scheduledWork ==
    /\ pc = "select" /\ timer = "fired"
    /\ timer' = "stopped" /\ workScheduled' = "none"
    /\ pc' = "ready"
    /\ UNCHANGED <<clientVars, listVars, snap, msg, toTime, envVars, outgoingWork, sender>>

handleResponse ==
    /\ pc = "select" /\ responses # <<>>
    /\ bcstSentAt' = bcstSentAt \ Head(responses)
    /\ peerSentAt' = peerSentAt \ Head(responses)
    /\ responses' = Tail(responses)
    /\ LoopTop
    /\ UNCHANGED <<clientVars, peerPending, peerSent, bcstPending, bcstSent, cancels, workScheduled,
                   timer, snap, msg, toTime, ctxOpen, dhActive, supportsHave, told, outgoingWork, sender>>

exitLoop ==
    /\ pc = "select" /\ ~ctxOpen
    /\ pc' = "exited"
    /\ UNCHANGED <<clientVars, listVars, workScheduled, timer, snap, msg, toTime, envVars,
                   outgoingWork, sender>>

sendIfReady ==
    /\ pc = "ready"
    /\ IF hasPendingWork THEN pc' = "send" ELSE LoopTop
    /\ UNCHANGED <<clientVars, listVars, workScheduled, timer, snap, msg, toTime, envVars,
                   outgoingWork, sender>>

\* sendMessage: the sender cannot be created, or SendMsg fails.  The network
\* has already made the PeerManager drop the queue (it needs pqLk for that).
sendFails ==
    /\ pc = "sending" \/ (pc = "send" /\ ~sender)
    /\ client = "idle"
    /\ ctxOpen' = FALSE
    /\ pc' = "exited"
    /\ UNCHANGED <<clientVars, listVars, workScheduled, timer, snap, msg, toTime, responses,
                   dhActive, supportsHave, told, outgoingWork, sender>>

\* What fits into a message: cancels come first, then targeted wants, then
\* broadcast wants, and at least one entry always fits.
Fits(c, p, b, allCancels, allPeer, allBcst) ==
    IF CanSplit
    THEN /\ p \cup b # {} => c = allCancels
         /\ b # {} => p = allPeer
         /\ c \cup p \cup b = {} => allCancels \cup allPeer \cup allBcst = {}
    ELSE c = allCancels /\ p = allPeer /\ b = allBcst

\* extractOutgoingMessage up to FINISH: the entries are read under the lock;
\* want-haves for a peer that cannot answer them are dropped on the way.
extractOutgoingMessage ==
    LET dropped == IF supportsHave THEN {} ELSE {w \in Wants : peerPending[w] = "have"}
        peerEntries == Remove(peerPending, dropped)
    IN  /\ pc = "send"
        /\ sender' = TRUE
        /\ peerPending' = peerEntries
        /\ peerSent' = [w \in Wants |-> IF w \in dropped /\ Removable(peerSent[w], "have")
                                        THEN "none" ELSE peerSent[w]]
        /\ peerSentAt' = peerSentAt \ {w \in dropped : peerSent'[w] = "none"}
        /\ \E c \in SUBSET cancels, p \in SUBSET In(peerEntries), b \in SUBSET bcstPending :
              /\ Fits(c, p, b, cancels, In(peerEntries), bcstPending)
              /\ snap' = [cancels |-> c, bcst |-> b,
                          peer |-> [w \in Wants |-> IF w \in p THEN peerEntries[w] ELSE "none"]]
        /\ pc' = "finish"
        /\ UNCHANGED <<clientVars, bcstPending, bcstSent, bcstSentAt, cancels, workScheduled, timer,
                       msg, toTime, envVars, outgoingWork>>

\* Variant that does not turn a broadcast want into a want-block for a peer
\* without HAVE support.
entryOf_NoBlock(w) ==
    IF w \in snap.cancels THEN "cancel"
    ELSE IF snap.peer[w] # "none" THEN snap.peer[w]
    ELSE IF w \in snap.bcst /\ supportsHave THEN "have"
    ELSE "none"

\* The entry that Cancel and AddEntry left in the message for a want.
entryOf(w) ==
    IF w \in snap.cancels THEN "cancel"
    ELSE IF snap.peer[w] # "none" THEN snap.peer[w]
    ELSE IF w \in snap.bcst THEN IF supportsHave THEN "have" ELSE "bcstBlock"
    ELSE "none"

\* FINISH: entries that are still pending are marked sent; an entry that
\* changed since the snapshot takes its key out of the message.
finish ==
    LET changedPeer == {w \in In(snap.peer) : ~Removable(peerPending[w], snap.peer[w])}
        changedBcst == snap.bcst \ bcstPending
        changed == changedPeer \cup changedBcst \cup (snap.cancels \ cancels)
        sentPeer == Remove(snap.peer, changedPeer)
    IN  /\ pc = "finish"
        /\ peerPending' = Remove(peerPending, In(sentPeer))
        /\ peerSent' = Absorb(peerSent, sentPeer)
        /\ bcstPending' = bcstPending \ snap.bcst
        /\ bcstSent' = bcstSent \cup (snap.bcst \ changedBcst)
        /\ cancels' = cancels \ snap.cancels
        /\ msg' = [w \in Wants |-> IF w \in changed THEN "none" ELSE entryOf(w)]
        /\ \/ /\ msg' = noWants
              /\ snap' = noEntries
              /\ LoopTop
           \/ /\ msg' # noWants
              /\ snap' = [cancels |-> {}, bcst |-> snap.bcst \ changedBcst, peer |-> sentPeer]
              /\ pc' = "sending"
        /\ UNCHANGED <<clientVars, peerSentAt, bcstSentAt, workScheduled, timer, toTime, envVars,
                       outgoingWork, sender>>

\* SendMsg succeeds; the peer applies the entries.
sendSucceeds ==
    /\ pc = "sending"
    /\ told' = [w \in Wants |-> CASE msg[w] = "none" -> told[w]
                                  [] msg[w] = "cancel" -> "none"
                                  [] msg[w] = "have" -> IF told[w] = "block" THEN "block" ELSE "have"
                                  [] OTHER -> "block"]
    /\ pc' = "sent"
    /\ UNCHANGED <<clientVars, listVars, workScheduled, timer, snap, msg, toTime, responses,
                   ctxOpen, dhActive, supportsHave, outgoingWork, sender>>

\* Variant that records the time of every entry of the message.
recordSent_All ==
    /\ pc = "sent"
    /\ peerSentAt' = peerSentAt \cup In(snap.peer)
    /\ bcstSentAt' = bcstSentAt \cup snap.bcst
    /\ toTime' = {w \in Wants : msg[w] = "block" /\ peerSent[w] # "none"}
    /\ pc' = "timers"
    /\ UNCHANGED <<clientVars, peerPending, peerSent, bcstPending, bcstSent, cancels, workScheduled,
                   timer, snap, msg, envVars, outgoingWork, sender>>

\* onSent and the locked part of simulateDontHaveWithTimeout.
recordSent ==
    /\ pc = "sent"
    /\ peerSentAt' = peerSentAt \cup (In(snap.peer) \cap In(peerSent))
    /\ bcstSentAt' = bcstSentAt \cup (snap.bcst \cap bcstSent)
    /\ toTime' = {w \in Wants : msg[w] = "block" /\ peerSent[w] # "none"}
    /\ pc' = "timers"
    /\ UNCHANGED <<clientVars, peerPending, peerSent, bcstPending, bcstSent, cancels, workScheduled,
                   timer, snap, msg, envVars, outgoingWork, sender>>

\* AddPending, then the signal for what did not fit; the message is reset.
addPending ==
    /\ pc = "timers"
    /\ dhActive' = dhActive \cup toTime
    /\ IF hasPendingWork THEN signalWorkReady ELSE UNCHANGED outgoingWork
    /\ toTime' = {} /\ snap' = noEntries /\ msg' = noWants
    /\ LoopTop
    /\ UNCHANGED <<clientVars, listVars, workScheduled, timer, responses, ctxOpen, supportsHave,
                   told, sender>>

onShutdown ==
    /\ pc = "exited"
    /\ dhActive' = {}
    /\ pc' = "done"
    /\ UNCHANGED <<clientVars, listVars, workScheduled, timer, snap, msg, toTime, responses,
                   ctxOpen, supportsHave, told, outgoingWork, sender>>

-----------------------------------------------------------------------------
(* Time.                                                                   *)

timerFires ==
    /\ timer = "armed"
    /\ timer' = "fired"
    /\ UNCHANGED <<clientVars, listVars, pc, workScheduled, snap, msg, toTime, envVars, outgoingWork, sender>>

Older(age) == IF age = "young" THEN "old" ELSE age

\* sendMessageMaxDelay passes.
timePasses ==
    /\ "young" \in {outgoingWork, workScheduled}
    /\ outgoingWork' = Older(outgoingWork) /\ workScheduled' = Older(workScheduled)
    /\ UNCHANGED <<clientVars, listVars, pc, timer, snap, msg, toTime, envVars, sender>>

\* The DONT_HAVE timer of a want expires.
dontHaveTimeout(w) ==
    /\ w \in dhActive
    /\ dhActive' = dhActive \ {w}
    /\ UNCHANGED <<clientVars, listVars, loopVars, responses, ctxOpen, supportsHave, told,
                   outgoingWork>>

-----------------------------------------------------------------------------
Init ==
    /\ asked = noWants /\ askedBcst = {} /\ client = "idle" /\ cancelKs = {}
    /\ peerPending = noWants /\ peerSent = noWants /\ peerSentAt = {}
    /\ bcstPending = {} /\ bcstSent = {} /\ bcstSentAt = {}
    /\ cancels = {}
    /\ outgoingWork = "none" /\ responses = <<>>
    /\ pc = "select" /\ workScheduled = "none" /\ timer = "stopped"
    /\ snap = noEntries /\ msg = noWants /\ toTime = {}
    /\ ctxOpen = TRUE /\ dhActive = {} /\ told = noWants
    /\ sender = FALSE /\ supportsHave \in BOOLEAN

Client ==
    \/ \E ws \in SUBSET Wants : AddBroadcastWantHaves(ws)
    \/ \E blocks \in SUBSET Wants, haves \in SUBSET Wants : AddWants(blocks, haves)
    \/ \E ks \in SUBSET Wants : AddCancelsTimers(ks)

\* The steps between two select statements.
Loop ==
    \/ sendIfReady \/ sendFails \/ extractOutgoingMessage \/ finish \/ sendSucceeds
    \/ recordSent \/ addPending \/ exitLoop \/ onShutdown

Next ==
    \/ Client \/ AddCancelsLocked \/ AddCancelsSignal \/ Shutdown
    \/ \E ks \in SUBSET Wants : ResponseReceived(ks)
    \/ rebroadcastWantlist \/ takeWork \/ scheduledWork \/ handleResponse
    \/ Loop
    \/ timerFires \/ timePasses
    \/ \E w \in Wants : dontHaveTimeout(w)

Spec == Init /\ [][Next]_vars

\* A call of the client ends, the loop goes on (SendMsg has a timeout), timers
\* run, and select, which picks at random among the ready cases, does not pass
\* over a case that is ready again and again.
Fairness ==
    /\ WF_vars(AddCancelsLocked) /\ WF_vars(AddCancelsSignal)
    /\ WF_vars(Loop) /\ WF_vars(timerFires) /\ WF_vars(timePasses)
    /\ SF_vars(takeWork) /\ SF_vars(scheduledWork) /\ SF_vars(rebroadcastWantlist)

FairSpec == Spec /\ Fairness

-----------------------------------------------------------------------------
\* A key is never both to be cancelled and wanted (pending or sent): the next
\* message cannot ask for a key and cancel it, in either order.
CancelsNotWanted ==
    cancels \cap (bcstPending \cup bcstSent \cup In(peerPending) \cup In(peerSent)) = {}

\* Between calls of the client the queue tracks the keys asked of it and no
\* others, at the level asked at least: nothing is lost when an entry changes
\* while a message is being built, nothing survives a cancel.  A want-have is
\* tracked as a want-block if it replaced a cancelled want-block while a
\* message was being built, and the code drops want-haves on purpose for a
\* peer without HAVE support.
TracksWhatWasAsked ==
    client = "idle" =>
        /\ bcstPending \cup bcstSent = askedBcst
        /\ \A w \in Wants :
              LET kept == {peerPending[w], peerSent[w]} \ {"none"}
              IN  CASE asked[w] = "none" -> kept = {}
                    [] asked[w] = "have" -> kept # {} \/ ~supportsHave
                    [] asked[w] = "block" -> "block" \in kept

\* The loop waits with work to do and nothing that will wake it, but for the
\* rebroadcast of what was sent.
Stranded ==
    /\ ctxOpen /\ pc = "select" /\ client # "signal" /\ hasPendingWork
    /\ outgoingWork = "none" /\ timer = "stopped"

\* Whatever the client does between the steps of the loop, pending work keeps
\* a wakeup: a signal in the channel, the debounce timer, or a client about to
\* signal.  One step loses it, the early return of sendMessage for an empty
\* message (messagequeue.go:533): if every entry of a message that did not
\* hold all the work is cancelled while it is built, the rest is not
\* scheduled and waits for the next call or rebroadcast.
NoLostWakeup ==
    [][Stranded' => Stranded \/ (CanSplit /\ finish /\ msg' = noWants)]_vars

\* The loop stops the debounce timer only while it is armed or has fired and
\* was not read: "Need to drain the timer if Stop() returns false"
\* (messagequeue.go:437) never blocks the loop.
TimerMatchesSchedule ==
    pc \in {"select", "send", "finish", "sending", "sent", "timers"} =>
        ((workScheduled = "none") <=> (timer = "stopped"))

\* A send time is kept only for a want that counts as sent, so that a late
\* response to a cancelled want gives no latency sample.
SendTimesOfSentWants ==
    peerSentAt \subseteq In(peerSent) /\ bcstSentAt \subseteq bcstSent

\* A want that stays asked for is eventually sent to the peer, at the level
\* asked, unless the queue is shut down or its work is stranded.
AskedIsTold ==
    \A w \in Wants :
        /\ asked[w] = "block" ~>
               told[w] = "block" \/ asked[w] # "block" \/ ~ctxOpen \/ Stranded
        /\ w \in askedBcst ~>
               told[w] # "none" \/ w \notin askedBcst \/ ~ctxOpen \/ Stranded

-----------------------------------------------------------------------------
(* What a comment of the code says and the code does not do.               *)

\* "SendCancels sends cancels for the given keys to all peers who had
\* previously received a want for those keys" (peermanager.go:155): a peer
\* that was told to want a key nobody asks for any more is about to be sent a
\* cancel.
ToldIsCancelled ==
    client = "idle" /\ ctxOpen =>
        \A w \in Wants \ AskedAny : told[w] # "none" => w \in cancels \/ msg[w] = "cancel"
=============================================================================

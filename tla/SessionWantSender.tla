-------------------------- MODULE SessionWantSender --------------------------
(***************************************************************************)
(* The sessionWantSender of one session: which peer each want was sent to, *)
(* what is known of the peers' blocks, and when the session is told that   *)
(* its peers are exhausted.  Modelled with it are what it shares with      *)
(* others: the SessionPeerManager, the BlockPresenceManager and the        *)
(* PeerManager's registry of sessions, and the goroutines that give it     *)
(* changes: the session's loop, a message handler, the search for          *)
(* providers, the PeerManager and the goroutines that send for those that  *)
(* must not block.                                                         *)
(*                                                                         *)
(* A change has one want.  Connected and Disconnected keep the locks of    *)
(* the PeerManager while they signal the session; the loop needs them to   *)
(* process a batch.  Cancel is left out: the session only calls it with an *)
(* empty list.                                                             *)
(***************************************************************************)
EXTENDS FiniteSets, FiniteSetsExt, Functions, Integers, Sequences

CONSTANTS
    Peers, Wants, CidOf,
    changesBufferSize, peerDontHaveLimit,
    MaxMessages, MaxEvents, \* bounds on messages and on other events
    None

ASSUME SenderAssumption ==
    /\ DOMAIN CidOf = Wants
    /\ {changesBufferSize, peerDontHaveLimit} \subseteq Nat \ {0}
    /\ {MaxMessages, MaxEvents} \subseteq Nat
    /\ None \notin Peers \cup Wants
    /\ \A p \in Peers, w \in Wants, kind \in {"block", "have", "dontHave"} :
          None # [kind |-> kind, p |-> p, w |-> w]

VARIABLES
    wants,          \* the wantInfo of each tracked want, or None
    peers,          \* the peers of the session
    sentWantBlocks, \* pairs of a peer and a want
    dontHaveCount,  \* peerConsecutiveDontHaves
    changes,        \* the channel
    loop,           \* "select" or "process", with a batch, or "closed"
    ctxDone,
    presence,       \* the BlockPresenceManager
    connected, registered, signalling,  \* the PeerManager
    interested, adding,     \* the session's interest, and the want it is adding
    message,        \* what the message handler has yet to tell the session
    spilled,        \* how many goroutines wait to send an availability change
    pruning,        \* peers that a goroutine is about to remove
    messages, events

pmVars == <<connected, registered, signalling>>
swsVars == <<wants, peers, sentWantBlocks, dontHaveCount>>
envVars == <<interested, adding, message, messages, events>>
vars == <<swsVars, changes, loop, ctxDone, presence, pmVars, envVars, spilled, pruning>>

\* Bounds: messages, and other events (connections, removed keys, wants that are
\* wanted again, Shutdown).  What they start goes on after Shutdown.
NewMessage == ~ctxDone /\ messages < MaxMessages /\ messages' = messages + 1 /\ UNCHANGED events
NewEvent == ~ctxDone /\ events < MaxEvents /\ events' = events + 1 /\ UNCHANGED messages

add(w) == [kind |-> "add", w |-> w]
update(p, kind, w) == [kind |-> kind, p |-> p, w |-> w]
availability(p, up) == [kind |-> IF up THEN "up" ELSE "down", p |-> p]

Signals == {availability(p, up) : p \in Peers, up \in BOOLEAN}

-----------------------------------------------------------------------------
(* The channel of changes.                                                 *)

Room == Len(changes) < changesBufferSize

\* addChange waits for room, or for the end.
addChange(c) ==
    \/ Room /\ changes' = Append(changes, c)
    \/ ctxDone /\ UNCHANGED changes

\* Variant that waits for room.
addChangeNonBlocking_Wait(c) == addChange(c) /\ UNCHANGED spilled

\* addChangeNonBlocking leaves the waiting to a goroutine.
addChangeNonBlocking(c) ==
    IF Room THEN changes' = Append(changes, c) /\ UNCHANGED spilled
    ELSE UNCHANGED changes /\ spilled' = [spilled EXCEPT ![c] = @ + 1]

sendSpilled(c) ==
    /\ spilled[c] > 0 /\ addChange(c) /\ spilled' = [spilled EXCEPT ![c] = @ - 1]
    /\ UNCHANGED <<swsVars, loop, ctxDone, presence, pmVars, envVars, pruning>>

-----------------------------------------------------------------------------
(* BlockPresenceManager.                                                   *)

\* A HAVE does not become a DONT_HAVE.
updateBlockPresence(p, w, kind) ==
    presence' = [presence EXCEPT ![CidOf[w]][p] = IF @ = "have" THEN @ ELSE kind]

allDontHave(ps, w) ==
    /\ \E p \in Peers : presence[CidOf[w]][p] # "unknown"
    /\ \A p \in ps : presence[CidOf[w]][p] = "dontHave"

\* cancelWants of another session's end forgets the CIDs of wants that no session
\* has any more.  This may be at any time: the interest is looked up before and
\* under another lock, and it is per want, where the presence is per CID.
RemoveKeys(c) ==
    /\ NewEvent
    /\ presence' = [presence EXCEPT ![c] = [p \in Peers |-> "unknown"]]
    /\ UNCHANGED <<swsVars, changes, loop, ctxDone, pmVars, interested, adding, message, spilled, pruning>>

-----------------------------------------------------------------------------
(* The session, its search for providers, and the message handler.        *)

\* wantBlocks records the interest, ...  The want may have been wanted before.
wantBlocks(w) ==
    /\ ~ctxDone /\ adding = None
    /\ IF w \in interested THEN NewEvent ELSE UNCHANGED <<messages, events>>
    /\ interested' = interested \cup {w} /\ adding' = w
    /\ UNCHANGED <<swsVars, changes, loop, ctxDone, presence, pmVars, message, spilled, pruning>>

\* ... then calls Add.
Add ==
    /\ adding # None /\ addChange(add(adding)) /\ adding' = None
    /\ UNCHANGED <<swsVars, loop, ctxDone, presence, pmVars, interested, message, messages, events, spilled, pruning>>

\* findMorePeers: a provider counts as a peer that sent a HAVE.
findMorePeers(p, w) ==
    /\ NewMessage
    /\ w \in interested /\ addChange(update(p, "have", w))
    /\ UNCHANGED <<swsVars, loop, ctxDone, presence, pmVars, interested, adding, message, spilled, pruning>>

\* A message of a peer, or a DONT_HAVE that a timeout stands for.  The block
\* presence is recorded first; ...
ReceiveFrom(p, w) ==
    /\ NewMessage
    /\ message = None /\ p \in connected
    /\ \E kind \in {"block", "have", "dontHave"} :
          /\ message' = update(p, kind, w)
          /\ IF kind = "block" THEN UNCHANGED presence ELSE updateBlockPresence(p, w, kind)
    /\ UNCHANGED <<swsVars, changes, loop, ctxDone, pmVars, interested, adding, spilled, pruning>>

\* ... then the session, if it is interested by now, hears of it, which may be
\* after the peer has gone.
Update ==
    /\ message # None /\ message' = None
    /\ IF message.w \in interested THEN addChange(message) ELSE UNCHANGED changes
    /\ UNCHANGED <<swsVars, loop, ctxDone, presence, pmVars, interested, adding, messages, events, spilled, pruning>>

-----------------------------------------------------------------------------
(* The PeerManager.                                                        *)

\* Connected and Disconnected signal a registered session under the locks.
Flap(p, up) ==
    /\ NewEvent
    /\ signalling = None /\ (p \in connected) = ~up
    /\ connected' = IF up THEN connected \cup {p} ELSE connected \ {p}
    /\ signalling' = IF p \in registered THEN availability(p, up) ELSE None
    /\ UNCHANGED <<swsVars, changes, loop, ctxDone, presence, registered, interested, adding, message, spilled, pruning>>

Connected(p) == Flap(p, TRUE)
Disconnected(p) == Flap(p, FALSE)

signalAvailability ==
    /\ signalling # None /\ addChangeNonBlocking(signalling) /\ signalling' = None
    /\ UNCHANGED <<swsVars, loop, ctxDone, presence, connected, registered, envVars, pruning>>

\* The goroutine that processUpdates starts for peers with too many DONT_HAVEs.
prune(p) ==
    /\ p \in pruning /\ pruning' = pruning \ {p} /\ addChangeNonBlocking(availability(p, FALSE))
    /\ UNCHANGED <<swsVars, loop, ctxDone, presence, pmVars, envVars>>

-----------------------------------------------------------------------------
(* wantInfo.                                                               *)

newWantInfo == [blockPresence |-> [p \in Peers |-> "none"], sentTo |-> None, exhausted |-> FALSE]

\* updateWantBlockPresence for some peers: what the BlockPresenceManager says
\* now.  A HAVE ends the exhaustion.
updateWantBlockPresence(wi, w, ps) ==
    [wi EXCEPT !.blockPresence = [p \in Peers |-> IF p \in ps THEN presence[CidOf[w]][p] ELSE @[p]],
               !.exhausted = @ /\ \A p \in ps : presence[CidOf[w]][p] # "have"]

\* removePeer for some peers.
removePeers(wi, ps) ==
    [wi EXCEPT !.blockPresence = [p \in Peers |-> IF p \in ps THEN "none" ELSE @[p]],
               !.sentTo = IF @ \in ps THEN None ELSE @]

\* Variant that takes every DONT_HAVE for the answer to a want-have.
clearSentTo_Never(wi, w, ps) == wi

\* A DONT_HAVE of one of ps answers the want-block that was sent to it.
clearSentTo(wi, w, ps) ==
    [wi EXCEPT !.sentTo = IF @ \in ps /\ <<@, w>> \in sentWantBlocks THEN None ELSE @]

\* Variant that waits for a HAVE.
BestPeers_Have(wi) == {p \in Peers : wi.blockPresence[p] = "have"}

\* calculateBestPeer chooses any of the peers with the best presence.
BestPeers(wi) ==
    LET with(bp) == {p \in Peers : wi.blockPresence[p] = bp}
    IN  IF with("have") # {} THEN with("have") ELSE with("unknown")

-----------------------------------------------------------------------------
(* The loop.                                                               *)

collectChanges ==
    /\ loop = [pc |-> "select"] /\ changes # << >>
    /\ loop' = [pc |-> "process", batch |-> changes] /\ changes' = << >>
    /\ UNCHANGED <<swsVars, ctxDone, presence, pmVars, envVars, spilled, pruning>>

\* Updates of a kind in the batch, as pairs of a peer and a want.
Updates(batch, kind) == {<<c.p, c.w>> : c \in {d \in Range(batch) : d.kind = kind}}

Senders(us) == {u[1] : u \in us}
WantsOf(us) == {u[2] : u \in us}
From(us, w) == {u[1] : u \in {v \in us : v[2] = w}}

\* What the last change in the batch that tells says of p's availability:
\* blocks and HAVEs count as being available.
Available(batch, p) ==
    LET tells == {i \in DOMAIN batch : batch[i].kind \in {"up", "down", "block", "have"} /\ batch[i].p = p}
    IN  IF tells = {} THEN None ELSE IF batch[Max(tells)].kind = "down" THEN "no" ELSE "yes"

\* trackWant: peers of the session are looked up.
trackWant(w, added) ==
    IF wants[w] = None /\ w \in added THEN updateWantBlockPresence(newWantInfo, w, peers) ELSE wants[w]

\* DONT_HAVEs in a row, per peer: how many before the batch's own.
CountBefore(p, changed, blocks) == IF p \in changed \cup Senders(blocks) THEN 0 ELSE dontHaveCount[p]

NumDontHaves(batch, p) == Cardinality({i \in DOMAIN batch : batch[i].kind = "dontHave" /\ batch[i].p = p})

\* Variant of the sentWantBlocksTracker that does not record.
addSentWantBlocksTo_None(sent) == sentWantBlocks' = sentWantBlocks

addSentWantBlocksTo(sent) == sentWantBlocks' = sentWantBlocks \cup sent

\* Variant that asks for the new DONT_HAVEs only.
CheckedForExhaustion_Dont(tracked, dontHaves, newlyUnavailable) == tracked \cap dontHaves

\* checkForExhaustedWants: which of the tracked wants are looked at.
CheckedForExhaustion(tracked, dontHaves, newlyUnavailable) ==
    IF newlyUnavailable # {} THEN tracked ELSE tracked \cap dontHaves

\* processAvailability and processUpdates for one want.
processAvailability(wi, w, up, down) == removePeers(updateWantBlockPresence(wi, w, up), down)

processUpdates(wi, w, haves, dontHaves) ==
    clearSentTo(updateWantBlockPresence(wi, w, From(dontHaves, w) \cup From(haves, w)),
                w, From(dontHaves, w))

\* The last peer has left, or those that are there do not have the block.
Exhausted(w, now, down) == (down # {} /\ now = {}) \/ allDontHave(now, w)

\* sendNextWants: there is a peer to send to, and no answer is awaited.
Unsent(wi) == wi.sentTo = None /\ BestPeers(wi) # {}

\* prunePeers: more DONT_HAVEs in a row than the limit, and no known HAVE.
TooManyDontHaves(p, count, tracked) ==
    count > peerDontHaveLimit /\ \A w \in tracked : presence[CidOf[w]][p] # "have"

\* One batch: new wants, availability, then the updates, the wants that are
\* exhausted, and what is sent next.
onChange ==
    /\ loop.pc = "process" /\ signalling = None
    /\ LET batch == loop.batch
           blocks == Updates(batch, "block")
           haves == Updates(batch, "have")
           dontHaves == {u \in Updates(batch, "dontHave") : u[2] \notin WantsOf(blocks)}
           up == {p \in Peers \ peers : Available(batch, p) = "yes"}
           down == {p \in peers : Available(batch, p) = "no"}
           now == (peers \cup up) \ down
           added == {c.w : c \in {d \in Range(batch) : d.kind = "add"}}
           tracked == {w \in Wants : trackWant(w, added) # None /\ w \notin WantsOf(blocks)}
           exhausted == {w \in CheckedForExhaustion(tracked, WantsOf(dontHaves), down) :
                            Exhausted(w, now, down)}
           info(w) == LET wi == processAvailability(trackWant(w, added), w, up, down)
                      IN  [processUpdates(wi, w, haves, dontHaves) EXCEPT !.exhausted = @ \/ w \in exhausted]
           toSend == {w \in tracked : now # {} /\ Unsent(info(w))}
           count(p) == CountBefore(p, up \cup down, blocks) + NumDontHaves(batch, p)
       IN  /\ \E best \in [toSend -> Peers] :
                 /\ \A w \in toSend : best[w] \in BestPeers(info(w))
                 /\ wants' = [w \in Wants |->
                       IF w \notin tracked THEN None
                       ELSE IF w \in toSend THEN [info(w) EXCEPT !.sentTo = best[w]]
                       ELSE info(w)]
                 /\ addSentWantBlocksTo({<<best[w], w>> : w \in toSend})
           /\ peers' = now
           /\ registered' = registered \cup Senders(blocks \cup haves)
           /\ dontHaveCount' = [p \in Peers |->
                 IF p \in Senders(haves) THEN 0 ELSE Min({count(p), peerDontHaveLimit})]
           /\ pruning' = pruning \cup
                 {p \in Peers \ Senders(haves) : TooManyDontHaves(p, count(p), tracked)}
    /\ loop' = [pc |-> "select"]
    /\ UNCHANGED <<changes, ctxDone, presence, connected, signalling, envVars, spilled>>

\* Run ends: the session is no longer registered.
unregister ==
    /\ loop = [pc |-> "select"] /\ ctxDone /\ signalling = None
    /\ loop' = [pc |-> "closed"] /\ registered' = {}
    /\ UNCHANGED <<swsVars, changes, ctxDone, presence, connected, signalling, envVars, spilled, pruning>>

Shutdown ==
    /\ NewEvent /\ ctxDone' = TRUE
    /\ UNCHANGED <<swsVars, changes, loop, presence, pmVars, interested, adding, message, spilled, pruning>>

-----------------------------------------------------------------------------
\* The session is new, or has got its peers by earlier wants.
Init ==
    /\ wants = [w \in Wants |-> None] /\ peers \in {{}, Peers} /\ sentWantBlocks = {}
    /\ dontHaveCount = [p \in Peers |-> 0]
    /\ changes = << >> /\ loop = [pc |-> "select"] /\ ctxDone = FALSE
    /\ presence = [c \in Range(CidOf) |-> [p \in Peers |-> "unknown"]]
    /\ connected = Peers /\ registered = peers /\ signalling = None
    /\ interested = {} /\ adding = None /\ message = None
    /\ spilled = [c \in Signals |-> 0] /\ pruning = {}
    /\ messages = 0 /\ events = 0

Run == collectChanges \/ onChange \/ unregister

Next ==
    \/ Run \/ Shutdown \/ Add \/ Update \/ signalAvailability
    \/ \E w \in Wants : wantBlocks(w)
    \/ \E c \in Range(CidOf) : RemoveKeys(c)
    \/ \E p \in Peers, w \in Wants : findMorePeers(p, w) \/ ReceiveFrom(p, w)
    \/ \E p \in Peers : Connected(p) \/ Disconnected(p) \/ prune(p)
    \/ \E c \in Signals : sendSpilled(c)

Spec == Init /\ [][Next]_vars

\* The PeerManager goes on when it may; nothing is assumed of the loop.
FairSpec == Spec /\ WF_vars(signalAvailability)

-----------------------------------------------------------------------------
(* Properties.                                                             *)

\* The variables are in their ranges, and a want is only sent to a peer that
\* is recorded in the sentWantBlocksTracker.
TypeOK ==
    /\ \A w \in Wants : wants[w] # None =>
          /\ wants[w].blockPresence \in [Peers -> {"none", "unknown", "have", "dontHave"}]
          /\ wants[w].sentTo \in Peers \cup {None} /\ wants[w].exhausted \in BOOLEAN
          /\ wants[w].sentTo # None => <<wants[w].sentTo, w>> \in sentWantBlocks
    /\ peers \subseteq Peers /\ registered \subseteq Peers /\ connected \subseteq Peers
    /\ dontHaveCount \in [Peers -> 0..peerDontHaveLimit]
    /\ Len(changes) <= changesBufferSize
    /\ presence \in [Range(CidOf) -> [Peers -> {"unknown", "have", "dontHave"}]]

\* A want is not kept back while some peer of the session may have the block:
\* after every batch, a want for which no answer is awaited has noted a DONT_HAVE
\* of every peer of the session.
CandidatesAreAsked ==
    loop.pc = "select" =>
        \A w \in Wants, p \in peers :
            wants[w] # None /\ wants[w].sentTo = None => wants[w].blockPresence[p] = "dontHave"

\* A HAVE or DONT_HAVE of p about w that has not been processed.
OnItsWay(p, kind, w) ==
    LET c == update(p, kind, w)
    IN  c = message \/ c \in Range(changes) \/ (loop.pc = "process" /\ c \in Range(loop.batch))

\* Nobody waits for the block of a peer that is known not to have it.
NotWaitingForDontHave ==
    ~ctxDone => \A w \in Wants :
        LET wi == wants[w]
        IN  wi # None /\ wi.sentTo # None /\ wi.blockPresence[wi.sentTo] = "dontHave"
            => OnItsWay(wi.sentTo, "dontHave", w)

\* The want has noted a DONT_HAVE of p that RemoveKeys has made the
\* BlockPresenceManager forget.
Forgotten(p, w) == wants[w].blockPresence[p] = "dontHave" /\ presence[CidOf[w]][p] = "unknown"

\* When a want loses the peer it was sent to and cannot be sent to another, the
\* session knows that its peers are exhausted, so that it broadcasts the want,
\* or a HAVE of one of its peers is on the way, so that the want will be sent.
\* (A session without peers knew when it lost the last one.)
\* The one exception: checkForExhaustedWants asks the BlockPresenceManager, not
\* the want, and does not report a want if the answer of one of the session's
\* peers was forgotten because another session ended.
LostHopeIsReported ==
    [][~ctxDone => \A w \in Wants :
          /\ wants[w] # None /\ wants[w].sentTo # None
          /\ wants'[w] # None /\ wants'[w].sentTo = None /\ peers \cup peers' # {}
          => wants'[w].exhausted \/ \E p \in peers' : (OnItsWay(p, "have", w) \/ Forgotten(p, w))']_vars

\* The PeerManager, which keeps its locks meanwhile, is not held up by the full
\* channel of a session whose loop may itself wait for these locks.
SignalsReturn == signalling # None ~> signalling = None
=============================================================================

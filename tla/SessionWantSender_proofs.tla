---------------------- MODULE SessionWantSender_proofs -----------------------
(***************************************************************************)
(* For any peers and wants, and any numbers of connection events and       *)
(* messages: wants go to peers that may have the block, do not wait for    *)
(* one that has not, and are reported when no peer is left.                *)
(***************************************************************************)
EXTENDS SessionWantSender, FiniteSetTheorems, TLAPS

\* The prover of a step that names none.
USE Zenon

Presence == {"unknown", "have", "dontHave"}

WantInfo == [blockPresence : [Peers -> Presence \cup {"none"}],
             sentTo : Peers \cup {None}, exhausted : BOOLEAN]

Change ==
    [kind : {"add"}, w : Wants] \cup [kind : {"up", "down"}, p : Peers]
        \cup [kind : {"block", "have", "dontHave"}, p : Peers, w : Wants]

\* The ranges of the variables.
Types ==
    /\ peers \subseteq Peers /\ interested \subseteq Wants
    /\ presence \in [Range(CidOf) -> [Peers -> Presence]]
    /\ \A w \in Wants : wants[w] # None => wants[w] \in WantInfo
    /\ changes \in Seq(Change)
    /\ loop.pc = "process" => loop.batch \in Seq(Change)
    /\ adding \in Wants \cup {None}
    /\ message = None \/ (message \in Change /\ message.kind \in {"block", "have", "dontHave"})
    /\ signalling = None \/ (signalling \in Change /\ signalling.kind \in {"up", "down"})
    /\ pruning \subseteq Peers

\* The interest in a want is recorded before the want is sent to the loop.
Recorded(c) == c.kind = "add" => c.w \in interested

AllRecorded ==
    /\ \A i \in 1..Len(changes) : Recorded(changes[i])
    /\ loop.pc = "process" => \A i \in 1..Len(loop.batch) : Recorded(loop.batch[i])
    /\ adding # None => adding \in interested

\* A tracked want is wanted, and knows something of each peer of the session.
Known ==
    \A w \in Wants : wants[w] # None =>
        w \in interested /\ \A p \in peers : wants[w].blockPresence[p] # "none"

\* The tracker knows whom a want was sent to, and the want knows of that peer.
Tracker ==
    \A w \in Wants : wants[w] # None /\ wants[w].sentTo # None =>
        /\ <<wants[w].sentTo, w>> \in sentWantBlocks
        /\ wants[w].blockPresence[wants[w].sentTo] # "none"

\* A want that waits for nobody has no peer to ask.
Asked ==
    \A w \in Wants, p \in peers :
        wants[w] # None /\ wants[w].sentTo = None => wants[w].blockPresence[p] = "dontHave"

SInv == Types /\ AllRecorded /\ Known /\ Tracker /\ Asked

\* The channel and the counters within their limits; the PeerManager knows peers.
Limits ==
    /\ registered \subseteq Peers /\ connected \subseteq Peers
    /\ dontHaveCount \in [Peers -> 0..peerDontHaveLimit]
    /\ Len(changes) <= changesBufferSize

\* What the BlockPresenceManager has learned since, and has not forgotten, is on
\* its way to the want.
UpToDate ==
    ~ctxDone => \A w \in Wants, p \in Peers :
        /\ wants[w] # None /\ wants[w].blockPresence[p] # "none"
        /\ presence[CidOf[w]][p] \notin {"unknown", wants[w].blockPresence[p]}
        => OnItsWay(p, presence[CidOf[w]][p], w)

\* Every want has a CID of its own.
CidsDiffer == \A v, w \in Wants : CidOf[v] = CidOf[w] => v = w

FInv == UpToDate /\ NotWaitingForDontHave

-----------------------------------------------------------------------------
\* CIDs of wants are in the range.
LEMMA CidOfWant ==
    ASSUME NEW w \in Wants PROVE CidOf[w] \in Range(CidOf)
BY SenderAssumption DEF SenderAssumption, Range

\* The elements of a sequence to which one was added.
LEMMA Appended ==
    ASSUME NEW S, NEW s \in Seq(S), NEW c \in S
    PROVE  /\ Append(s, c) \in Seq(S) /\ Range(Append(s, c)) = Range(s) \cup {c}
           /\ \A i \in 1..Len(Append(s, c)) :
                 Append(s, c)[i] = c \/ \E j \in 1..Len(s) : Append(s, c)[i] = s[j]
<1>1. /\ Append(s, c) \in Seq(S) /\ Len(Append(s, c)) = Len(s) + 1 /\ Len(s) \in Nat
      /\ Append(s, c)[Len(s) + 1] = c
      /\ \A i \in 1..Len(s) : Append(s, c)[i] = s[i]
  BY SMT
<1>2. DOMAIN s = 1..Len(s) /\ DOMAIN Append(s, c) = 1..(Len(s) + 1)
  BY <1>1, SMT
<1>3. 1..(Len(s) + 1) = 1..Len(s) \cup {Len(s) + 1}
  BY <1>1, SMT
<1>. QED  BY <1>1, <1>2, <1>3, SMT DEF Range

\* Changes are changes.
LEMMA ChangeTypes ==
    /\ \A w \in Wants : add(w) \in Change /\ add(w).kind = "add" /\ add(w).w = w
    /\ \A p \in Peers, w \in Wants, kind \in {"block", "have", "dontHave"} :
          /\ update(p, kind, w) \in Change /\ update(p, kind, w).kind = kind
          /\ update(p, kind, w).p = p /\ update(p, kind, w).w = w
    /\ \A p \in Peers, up \in BOOLEAN :
          availability(p, up) \in Change /\ availability(p, up).kind \in {"up", "down"}
BY SMT DEF Change, add, update, availability

LEMMA SignalTypes ==
    ASSUME NEW c \in Signals
    PROVE  c \in Change /\ c.kind \in {"up", "down"}
<1>1. PICK p \in Peers, up \in BOOLEAN : c = availability(p, up)
  BY SMT DEF Signals
<1>. QED  BY <1>1, ChangeTypes

\* The initial state.
LEMMA InitSInv == Init => SInv
<1> SUFFICES ASSUME Init PROVE SInv
  OBVIOUS
<1>1. Types
  BY SMT DEF Init, Types, Presence
<1>2. AllRecorded
  BY SMT DEF Init, AllRecorded
<1>3. Known /\ Tracker /\ Asked
  BY DEF Init, Known, Tracker, Asked
<1>. QED  BY <1>1, <1>2, <1>3 DEF SInv

-----------------------------------------------------------------------------
\* A change that may enter the channel.
LEMMA Posts ==
    ASSUME SInv, NEW c \in Change, Recorded(c), UNCHANGED interested,
           UNCHANGED changes \/ changes' = Append(changes, c)
    PROVE  changes' \in Seq(Change) /\ \A i \in 1..Len(changes') : Recorded(changes[i])'
<1>1. changes \in Seq(Change) /\ \A i \in 1..Len(changes) : Recorded(changes[i])
  BY DEF SInv, Types, AllRecorded
<1>2. CASE UNCHANGED changes
  BY <1>1, <1>2 DEF Recorded
<1>3. CASE changes' = Append(changes, c)
  <2>1. changes' \in Seq(Change)
    BY <1>1, <1>3, SMT
  <2>2. ASSUME NEW i \in 1..Len(changes') PROVE Recorded(changes[i])'
    <3>1. changes'[i] = c \/ \E j \in 1..Len(changes) : changes'[i] = changes[j]
      BY <1>1, <1>3, <2>2, Appended, SMT
    <3>2. Recorded(changes'[i])
      BY <1>1, <3>1
    <3>. QED  BY <3>2 DEF Recorded
  <2>. QED  BY <2>1, <2>2
<1>. QED  BY <1>2, <1>3

\* Steps outside the loop do not touch the wants.
LEMMA QuietSInv ==
    ASSUME SInv, UNCHANGED <<wants, peers, sentWantBlocks>>, Types', AllRecorded',
           interested \subseteq interested'
    PROVE  SInv'
<1>1. Known'
  BY DEF SInv, Known
<1>2. Tracker'
  BY DEF SInv, Tracker
<1>3. Asked'
  BY DEF SInv, Asked
<1>. QED  BY <1>1, <1>2, <1>3 DEF SInv

\* A step that sends a change.
LEMMA SendingSInv ==
    ASSUME SInv, NEW c \in Change, Recorded(c),
           UNCHANGED changes \/ changes' = Append(changes, c),
           UNCHANGED <<wants, peers, sentWantBlocks, loop, presence, interested>>,
           adding' \in {adding, None}, message' \in {message, None}, signalling' \in {signalling, None},
           pruning' \subseteq pruning
    PROVE  SInv'
<1>1. changes' \in Seq(Change) /\ \A i \in 1..Len(changes') : Recorded(changes[i])'
  BY Posts
<1>2. Types'
  BY <1>1 DEF SInv, Types
<1>3. AllRecorded'
  <2>1. loop.pc = "process" => \A i \in 1..Len(loop.batch) : Recorded(loop.batch[i])
    BY DEF SInv, AllRecorded
  <2>2. (loop.pc = "process" => \A i \in 1..Len(loop.batch) : Recorded(loop.batch[i]))'
    BY <2>1 DEF Recorded
  <2>. QED  BY <1>1, <2>2 DEF SInv, AllRecorded
<1>. QED  BY <1>2, <1>3, QuietSInv

\* The steps that send a change.
LEMMA SendersSInv ==
    ASSUME SInv,
           \/ Add \/ Update \/ signalAvailability
           \/ \E p \in Peers, w \in Wants : findMorePeers(p, w)
           \/ \E p \in Peers : prune(p)
           \/ \E c \in Signals : sendSpilled(c)
    PROVE  SInv'
<1> USE DEF swsVars, pmVars, envVars
<1>1. CASE Add
  <2>1. /\ add(adding) \in Change /\ Recorded(add(adding))
    BY <1>1, ChangeTypes DEF Add, SInv, Types, AllRecorded, Recorded
  <2>. QED  BY <1>1, <2>1, SendingSInv DEF Add, addChange
<1>2. CASE Update
  <2>1. message \in Change /\ Recorded(message)
    BY <1>2 DEF Update, SInv, Types, Recorded
  <2>. QED  BY <1>2, <2>1, SendingSInv DEF Update, addChange
<1>3. ASSUME NEW p \in Peers, NEW w \in Wants, findMorePeers(p, w) PROVE SInv'
  <2>1. update(p, "have", w) \in Change /\ Recorded(update(p, "have", w))
    BY ChangeTypes DEF Recorded
  <2>. QED  BY <1>3, <2>1, SendingSInv DEF findMorePeers, addChange
<1>4. ASSUME NEW c \in Signals, sendSpilled(c) PROVE SInv'
  <2>1. c \in Change /\ Recorded(c)
    BY SignalTypes DEF Recorded
  <2>. QED  BY <1>4, <2>1, SendingSInv DEF sendSpilled, addChange
<1>5. CASE signalAvailability
  <2>1. signalling \in Change /\ signalling.kind \in {"up", "down"} /\ Recorded(signalling)
    BY <1>5 DEF signalAvailability, SInv, Types, Recorded
  <2>. QED  BY <1>5, <2>1, SendingSInv DEF signalAvailability, addChangeNonBlocking
<1>6. ASSUME NEW p \in Peers, prune(p) PROVE SInv'
  <2> DEFINE c == availability(p, FALSE)
  <2>1. c \in Change /\ c.kind \in {"up", "down"} /\ Recorded(c)
    BY ChangeTypes DEF Recorded
  <2> HIDE DEF c
  <2>2. UNCHANGED changes \/ changes' = Append(changes, c)
    BY <1>6, ZenonT(30) DEF prune, addChangeNonBlocking, c
  <2>. QED  BY <1>6, <2>1, <2>2, SendingSInv DEF prune
<1>. QED  BY <1>1, <1>2, <1>3, <1>4, <1>5, <1>6

\* The other steps outside onChange.
LEMMA OthersSInv ==
    ASSUME SInv,
           \/ collectChanges \/ unregister \/ Shutdown \/ UNCHANGED vars
           \/ \E w \in Wants : wantBlocks(w)
           \/ \E p \in Peers : Connected(p) \/ Disconnected(p)
    PROVE  SInv'
<1> USE DEF swsVars, pmVars, envVars
<1>1. UNCHANGED <<wants, peers, sentWantBlocks, presence, message, spilled, pruning>>
      /\ interested \subseteq interested'
  BY DEF collectChanges, unregister, Shutdown, vars, wantBlocks, Connected, Disconnected, Flap
<1>2. Types'
  <2>1. CASE collectChanges
    BY <1>1, <2>1, SMT DEF collectChanges, SInv, Types
  <2>2. CASE unregister \/ Shutdown \/ UNCHANGED vars
    BY <1>1, <2>2, SMT DEF unregister, Shutdown, vars, SInv, Types
  <2>3. ASSUME NEW w \in Wants, wantBlocks(w) PROVE Types'
    BY <1>1, <2>3 DEF wantBlocks, SInv, Types
  <2>4. ASSUME NEW p \in Peers, NEW up \in BOOLEAN, Flap(p, up) PROVE Types'
    <3>1. signalling' = None \/ (signalling' \in Change /\ signalling'.kind \in {"up", "down"})
      BY <2>4, ChangeTypes DEF Flap
    <3>. QED  BY <1>1, <2>4, <3>1 DEF Flap, SInv, Types
  <2>. QED  BY <2>1, <2>2, <2>3, <2>4, ZenonT(30) DEF Connected, Disconnected
<1>3. AllRecorded'
  <2>1. \A c \in Change : Recorded(c) => (c.kind = "add" => c.w \in interested')
    BY <1>1 DEF Recorded
  <2>2. /\ changes \in Seq(Change) /\ \A i \in 1..Len(changes) : Recorded(changes[i])
        /\ loop.pc = "process" => loop.batch \in Seq(Change) /\ \A i \in 1..Len(loop.batch) : Recorded(loop.batch[i])
    BY DEF SInv, Types, AllRecorded
  <2>3. (adding # None => adding \in interested)'
    BY <1>1, ZenonT(30) DEF collectChanges, unregister, Shutdown, vars, wantBlocks, Connected, Disconnected, Flap,
                SInv, AllRecorded
  <2>4. CASE collectChanges
    <3>1. changes' = << >> /\ loop'.batch = changes
      BY <2>4 DEF collectChanges
    <3>2. (\A i \in 1..Len(changes) : Recorded(changes[i]))'
      BY <3>1, SMT
    <3>3. \A i \in 1..Len(changes) : Recorded(changes[i]) /\ changes[i] \in Change
      BY <2>2, SMT
    <3>4. (\A i \in 1..Len(loop.batch) : Recorded(loop.batch[i]))'
      BY <2>1, <3>1, <3>3 DEF Recorded
    <3>. QED  BY <2>3, <3>2, <3>4 DEF AllRecorded
  <2>5. CASE UNCHANGED changes /\ (UNCHANGED loop \/ loop'.pc # "process")
    <3>1. \A i \in 1..Len(changes) : Recorded(changes[i]) /\ changes[i] \in Change
      BY <2>2, SMT
    <3>2. (\A i \in 1..Len(changes) : Recorded(changes[i]))'
      BY <2>1, <2>5, <3>1 DEF Recorded
    <3>3. loop.pc = "process" => \A i \in 1..Len(loop.batch) : Recorded(loop.batch[i]) /\ loop.batch[i] \in Change
      BY <2>2, SMT
    <3>4. (loop.pc = "process" => \A i \in 1..Len(loop.batch) : Recorded(loop.batch[i]))'
      BY <2>1, <2>5, <3>3 DEF Recorded
    <3>. QED  BY <2>3, <3>2, <3>4 DEF AllRecorded
  <2>6. CASE unregister
    <3>1. UNCHANGED changes /\ loop'.pc # "process"
      BY <2>6 DEF unregister
    <3>. QED  BY <2>5, <3>1
  <2>7. CASE ~collectChanges /\ ~unregister
    <3>1. UNCHANGED changes /\ UNCHANGED loop
      BY <2>7 DEF Shutdown, vars, wantBlocks, Connected, Disconnected, Flap
    <3>. QED  BY <2>5, <3>1
  <2>. QED  BY <2>4, <2>6, <2>7
<1>. QED  BY <1>1, <1>2, <1>3, QuietSInv

\* The steps that change the BlockPresenceManager.
LEMMA PresenceSInv ==
    ASSUME SInv,
           \/ \E c \in Range(CidOf) : RemoveKeys(c)
           \/ \E p \in Peers, w \in Wants : ReceiveFrom(p, w)
    PROVE  SInv'
<1> USE DEF swsVars, pmVars, envVars
<1> DEFINE Effect ==
      /\ UNCHANGED <<wants, peers, sentWantBlocks, changes, loop, interested, adding, signalling, spilled, pruning>>
      /\ presence' \in [Range(CidOf) -> [Peers -> Presence]]
      /\ message' = None \/ (message' \in Change /\ message'.kind \in {"block", "have", "dontHave"})
<1>1. Effect
  <2>0. /\ presence \in [Range(CidOf) -> [Peers -> Presence]]
        /\ message = None \/ (message \in Change /\ message.kind \in {"block", "have", "dontHave"})
    BY DEF SInv, Types
  <2>1. CASE \E c \in Range(CidOf) : RemoveKeys(c)
    BY <2>0, <2>1 DEF RemoveKeys, Presence
  <2>2. ASSUME NEW p \in Peers, NEW w \in Wants, ReceiveFrom(p, w) PROVE Effect
    <3>1. PICK kind \in {"block", "have", "dontHave"} :
             /\ message' = update(p, kind, w)
             /\ IF kind = "block" THEN UNCHANGED presence ELSE updateBlockPresence(p, w, kind)
      BY <2>2 DEF ReceiveFrom
    <3>2. presence' \in [Range(CidOf) -> [Peers -> Presence]]
      BY <2>0, <3>1, SMT DEF updateBlockPresence, Presence
    <3>3. message' \in Change /\ message'.kind = kind
      BY <3>1, ChangeTypes, SMT
    <3>. QED  BY <2>2, <3>2, <3>3 DEF ReceiveFrom
  <2>. QED  BY <2>1, <2>2
<1>2. Types'
  BY <1>1 DEF SInv, Types
<1>3. AllRecorded'
  BY <1>1 DEF SInv, AllRecorded, Recorded
<1>. QED  BY <1>1, <1>2, <1>3, QuietSInv

-----------------------------------------------------------------------------
(* What onChange computes from its batch.                                  *)

Blocks == Updates(loop.batch, "block")
Haves == Updates(loop.batch, "have")
DontHaves == {u \in Updates(loop.batch, "dontHave") : u[2] \notin WantsOf(Blocks)}
Up == {p \in Peers \ peers : Available(loop.batch, p) = "yes"}
Down == {p \in peers : Available(loop.batch, p) = "no"}
Now == (peers \cup Up) \ Down
Added == {c.w : c \in {d \in Range(loop.batch) : d.kind = "add"}}
Tracked == {w \in Wants : trackWant(w, Added) # None /\ w \notin WantsOf(Blocks)}
ExhaustedNow == {w \in CheckedForExhaustion(Tracked, WantsOf(DontHaves), Down) : Exhausted(w, Now, Down)}
Processed(w) == processUpdates(processAvailability(trackWant(w, Added), w, Up, Down), w, Haves, DontHaves)
Info(w) == [Processed(w) EXCEPT !.exhausted = @ \/ w \in ExhaustedNow]
ToSend == {w \in Tracked : Now # {} /\ Unsent(Info(w))}

\* The step in these terms.
LEMMA OnChange ==
    ASSUME onChange
    PROVE  /\ loop.pc = "process" /\ loop' = [pc |-> "select"] /\ peers' = Now
           /\ \E best \in [ToSend -> Peers] :
                 /\ \A w \in ToSend : best[w] \in BestPeers(Info(w))
                 /\ wants' = [w \in Wants |->
                       IF w \notin Tracked THEN None
                       ELSE IF w \in ToSend THEN [Info(w) EXCEPT !.sentTo = best[w]]
                       ELSE Info(w)]
                 /\ sentWantBlocks' = sentWantBlocks \cup {<<best[w], w>> : w \in ToSend}
           /\ \E pruned \in SUBSET Peers : pruning' = pruning \cup pruned
           /\ UNCHANGED <<changes, ctxDone, presence, connected, signalling, envVars, spilled>>
<1>1. loop.pc = "process" /\ loop' = [pc |-> "select"] /\ peers' = Now
      /\ UNCHANGED <<changes, ctxDone, presence, connected, signalling, envVars, spilled>>
  BY DEF onChange, Now, Up, Down
<1>2. \E best \in [ToSend -> Peers] :
         /\ \A w \in ToSend : best[w] \in BestPeers(Info(w))
         /\ wants' = [w \in Wants |->
               IF w \notin Tracked THEN None
               ELSE IF w \in ToSend THEN [Info(w) EXCEPT !.sentTo = best[w]]
               ELSE Info(w)]
         /\ sentWantBlocks' = sentWantBlocks \cup {<<best[w], w>> : w \in ToSend}
  BY ZenonT(30) DEF onChange, Now, Up, Down, ToSend, Info, Processed, ExhaustedNow, Tracked, Added, DontHaves,
         Haves, Blocks, addSentWantBlocksTo
<1>3. \E pruned \in SUBSET Peers : pruning' = pruning \cup pruned
  BY DEF onChange
<1>. QED  BY <1>1, <1>2, <1>3

\* An update in the batch.
LEMMA BatchUpdates ==
    ASSUME SInv, loop.pc = "process"
    PROVE  /\ \A kind \in {"block", "have", "dontHave"} : \A p, w :
                 <<p, w>> \in Updates(loop.batch, kind) <=>
                     p \in Peers /\ w \in Wants /\ update(p, kind, w) \in Range(loop.batch)
           /\ \A kind \in {"block", "have", "dontHave"} : \A u \in Updates(loop.batch, kind) :
                 u = <<u[1], u[2]>>
           /\ Added \subseteq interested
<1>1. /\ loop.batch \in Seq(Change) /\ Range(loop.batch) \subseteq Change
      /\ \A c \in Range(loop.batch) : Recorded(c)
  <2>1. loop.batch \in Seq(Change) /\ \A i \in 1..Len(loop.batch) : Recorded(loop.batch[i])
    BY DEF SInv, Types, AllRecorded
  <2>2. DOMAIN loop.batch = 1..Len(loop.batch)
    BY <2>1, SMT
  <2>. QED  BY <2>1, <2>2, SMT DEF Range
<1>2. \A c \in Change, kind \in {"block", "have", "dontHave"} : c.kind = kind =>
         c.p \in Peers /\ c.w \in Wants /\ c = update(c.p, kind, c.w)
  BY SMT DEF Change, update
<1>3. ASSUME NEW kind \in {"block", "have", "dontHave"}, NEW p, NEW w
      PROVE  <<p, w>> \in Updates(loop.batch, kind) <=>
                 p \in Peers /\ w \in Wants /\ update(p, kind, w) \in Range(loop.batch)
  <2>1. CASE <<p, w>> \in Updates(loop.batch, kind)
    <3>1. PICK c \in Range(loop.batch) : c.kind = kind /\ <<p, w>> = <<c.p, c.w>>
      BY <2>1 DEF Updates
    <3>2. p = c.p /\ w = c.w
      BY <3>1
    <3>. QED  BY <1>1, <1>2, <2>1, <3>1, <3>2
  <2>2. CASE p \in Peers /\ w \in Wants /\ update(p, kind, w) \in Range(loop.batch)
    BY <2>2, ChangeTypes, SMT DEF Updates
  <2>. QED  BY <2>1, <2>2
<1>4. \A kind \in {"block", "have", "dontHave"} : \A u \in Updates(loop.batch, kind) : u = <<u[1], u[2]>>
  BY SMT DEF Updates
<1>5. Added \subseteq interested
  BY <1>1 DEF Added, Recorded
<1>. QED  BY <1>3, <1>4, <1>5

\* A look at the BlockPresenceManager for some peers.
LEMMA LookedUp ==
    ASSUME Types, NEW w \in Wants, NEW wi \in WantInfo, NEW ps \in SUBSET Peers
    PROVE  /\ updateWantBlockPresence(wi, w, ps) \in WantInfo
           /\ updateWantBlockPresence(wi, w, ps).sentTo = wi.sentTo
           /\ \A p \in Peers : updateWantBlockPresence(wi, w, ps).blockPresence[p] =
                 IF p \in ps THEN presence[CidOf[w]][p] ELSE wi.blockPresence[p]
<1>1. \A p \in Peers : presence[CidOf[w]][p] \in Presence
  BY CidOfWant DEF Types
<1>2. [p \in Peers |-> IF p \in ps THEN presence[CidOf[w]][p] ELSE wi.blockPresence[p]]
         \in [Peers -> Presence \cup {"none"}]
  BY <1>1 DEF WantInfo
<1>. QED  BY <1>2 DEF updateWantBlockPresence, WantInfo

\* Peers that leave.
LEMMA Removed ==
    ASSUME NEW wi \in WantInfo, NEW ps \in SUBSET Peers
    PROVE  /\ removePeers(wi, ps) \in WantInfo
           /\ removePeers(wi, ps).sentTo = IF wi.sentTo \in ps THEN None ELSE wi.sentTo
           /\ \A p \in Peers : removePeers(wi, ps).blockPresence[p] =
                 IF p \in ps THEN "none" ELSE wi.blockPresence[p]
<1>1. [p \in Peers |-> IF p \in ps THEN "none" ELSE wi.blockPresence[p]] \in [Peers -> Presence \cup {"none"}]
  BY DEF WantInfo
<1>. QED  BY <1>1 DEF removePeers, WantInfo

\* Answers to want-blocks.
LEMMA Cleared ==
    ASSUME NEW w \in Wants, NEW wi \in WantInfo, NEW ps \in SUBSET Peers
    PROVE  /\ clearSentTo(wi, w, ps) \in WantInfo
           /\ clearSentTo(wi, w, ps).blockPresence = wi.blockPresence
           /\ clearSentTo(wi, w, ps).sentTo =
                 IF wi.sentTo \in ps /\ <<wi.sentTo, w>> \in sentWantBlocks THEN None ELSE wi.sentTo
BY DEF clearSentTo, WantInfo

\* What the batch says of a want: HAVEs and DONT_HAVEs about it, by peer.
HavesOf(w) == From(Haves, w)
DontHavesOf(w) == From(DontHaves, w)

\* They are the updates in the batch, unless the block is there too.
LEMMA AboutWant ==
    ASSUME SInv, loop.pc = "process", NEW w \in Wants
    PROVE  /\ HavesOf(w) = {p \in Peers : update(p, "have", w) \in Range(loop.batch)}
           /\ DontHavesOf(w) \subseteq Peers
           /\ w \notin WantsOf(Blocks) =>
                 DontHavesOf(w) = {p \in Peers : update(p, "dontHave", w) \in Range(loop.batch)}
           /\ DontHavesOf(w) # {} => w \in WantsOf(DontHaves)
<1>1. \A p : p \in HavesOf(w) <=> <<p, w>> \in Haves
  BY BatchUpdates, SMT DEF HavesOf, From, Haves
<1>2. \A u \in DontHaves : u = <<u[1], u[2]>>
  BY BatchUpdates DEF DontHaves
<1>3. \A p : p \in DontHavesOf(w) <=> <<p, w>> \in DontHaves
  BY <1>2 DEF DontHavesOf, From
<1>4. \A p : <<p, w>> \in DontHaves <=> <<p, w>> \in Updates(loop.batch, "dontHave") /\ w \notin WantsOf(Blocks)
  BY DEF DontHaves
<1>5. HavesOf(w) = {p \in Peers : update(p, "have", w) \in Range(loop.batch)}
  BY <1>1, BatchUpdates DEF Haves
<1>6. \A p : <<p, w>> \in Updates(loop.batch, "dontHave") <=>
                p \in Peers /\ update(p, "dontHave", w) \in Range(loop.batch)
  BY BatchUpdates
<1>7. ASSUME NEW p \in DontHavesOf(w) PROVE w \in WantsOf(DontHaves)
  <2>1. <<p, w>> \in DontHaves /\ <<p, w>>[2] = w
    BY <1>3, <1>7
  <2>. QED  BY <2>1 DEF WantsOf
<1>. QED  BY <1>3, <1>4, <1>5, <1>6, <1>7

\* The information on a tracked want after the batch.
LEMMA InfoFacts ==
    ASSUME SInv, loop.pc = "process", NEW w \in Tracked
    PROVE  /\ w \in Wants /\ w \notin WantsOf(Blocks) /\ w \in interested
           /\ trackWant(w, Added) \in WantInfo
           /\ Info(w) \in WantInfo
           /\ \A p \in Peers : Info(w).blockPresence[p] =
                 IF p \in HavesOf(w) \cup DontHavesOf(w) THEN presence[CidOf[w]][p]
                 ELSE IF p \in Down THEN "none"
                 ELSE IF p \in Up THEN presence[CidOf[w]][p]
                 ELSE trackWant(w, Added).blockPresence[p]
           /\ trackWant(w, Added) = wants[w] \/
                 /\ wants[w] = None /\ trackWant(w, Added).sentTo = None
                 /\ \A p \in Peers : trackWant(w, Added).blockPresence[p] =
                       IF p \in peers THEN presence[CidOf[w]][p] ELSE "none"
           /\ Info(w).sentTo =
                 LET s == trackWant(w, Added).sentTo
                 IN  IF s \in Down \/ (s \in DontHavesOf(w) /\ <<s, w>> \in sentWantBlocks) THEN None ELSE s
           /\ w \in ExhaustedNow => Info(w).exhausted
<1> DEFINE wi == trackWant(w, Added)
           y1 == updateWantBlockPresence(wi, w, Up)
           y2 == removePeers(y1, Down)
           y3 == updateWantBlockPresence(y2, w, DontHavesOf(w) \cup HavesOf(w))
           y4 == clearSentTo(y3, w, DontHavesOf(w))
<1>1. w \in Wants /\ w \notin WantsOf(Blocks) /\ wi # None /\ Types /\ peers \subseteq Peers
  BY DEF Tracked, SInv, Types
<1>2. newWantInfo \in WantInfo /\ newWantInfo.sentTo = None /\ \A p \in Peers : newWantInfo.blockPresence[p] = "none"
  BY DEF newWantInfo, WantInfo
<1>3. /\ wi \in WantInfo /\ w \in interested
      /\ wi = wants[w] \/
            /\ wants[w] = None /\ wi.sentTo = None
            /\ \A p \in Peers : wi.blockPresence[p] = IF p \in peers THEN presence[CidOf[w]][p] ELSE "none"
  <2>1. CASE wants[w] # None
    BY <1>1, <2>1 DEF trackWant, SInv, Types, Known
  <2>2. CASE wants[w] = None
    <3>1. w \in Added /\ wi = updateWantBlockPresence(newWantInfo, w, peers)
      BY <1>1, <2>2 DEF trackWant
    <3> HIDE DEF wi
    <3>2. w \in interested
      BY <3>1, BatchUpdates
    <3>. QED  BY <1>1, <1>2, <2>2, <3>1, <3>2, LookedUp, SMT
  <2>. QED  BY <2>1, <2>2
<1>4. Up \subseteq Peers /\ Down \subseteq Peers /\ DontHavesOf(w) \subseteq Peers /\ HavesOf(w) \subseteq Peers
  BY <1>1, AboutWant DEF Up, Down
<1>5. Processed(w) = y4
  BY DEF Processed, processUpdates, processAvailability, DontHavesOf, HavesOf
<1> HIDE DEF wi
<1>6. /\ y1 \in WantInfo /\ y1.sentTo = wi.sentTo
      /\ \A p \in Peers : y1.blockPresence[p] = IF p \in Up THEN presence[CidOf[w]][p] ELSE wi.blockPresence[p]
  BY <1>1, <1>3, <1>4, LookedUp, SMT
<1> HIDE DEF y1
<1>7. /\ y2 \in WantInfo /\ y2.sentTo = IF y1.sentTo \in Down THEN None ELSE y1.sentTo
      /\ \A p \in Peers : y2.blockPresence[p] = IF p \in Down THEN "none" ELSE y1.blockPresence[p]
  BY <1>4, <1>6, Removed, SMT
<1> HIDE DEF y2
<1>8. /\ y3 \in WantInfo /\ y3.sentTo = y2.sentTo
      /\ \A p \in Peers : y3.blockPresence[p] =
            IF p \in DontHavesOf(w) \cup HavesOf(w) THEN presence[CidOf[w]][p] ELSE y2.blockPresence[p]
  BY <1>1, <1>4, <1>7, LookedUp, SMT
<1> HIDE DEF y3
<1>9. /\ y4 \in WantInfo /\ y4.blockPresence = y3.blockPresence
      /\ y4.sentTo = IF y3.sentTo \in DontHavesOf(w) /\ <<y3.sentTo, w>> \in sentWantBlocks
                     THEN None ELSE y3.sentTo
  BY <1>1, <1>4, <1>8, Cleared, SMT
<1> HIDE DEF y4
<1>10. /\ Info(w) \in WantInfo /\ Info(w).blockPresence = y4.blockPresence /\ Info(w).sentTo = y4.sentTo
       /\ w \in ExhaustedNow => Info(w).exhausted
  BY <1>5, <1>9 DEF Info, WantInfo
<1>11. \A p \in Peers : Info(w).blockPresence[p] =
          IF p \in HavesOf(w) \cup DontHavesOf(w) THEN presence[CidOf[w]][p]
          ELSE IF p \in Down THEN "none"
          ELSE IF p \in Up THEN presence[CidOf[w]][p]
          ELSE wi.blockPresence[p]
  BY <1>6, <1>7, <1>8, <1>9, <1>10, SMT
<1>12. Info(w).sentTo =
          IF wi.sentTo \in Down \/ (wi.sentTo \in DontHavesOf(w) /\ <<wi.sentTo, w>> \in sentWantBlocks)
          THEN None ELSE wi.sentTo
  <2>1. None \notin DontHavesOf(w)
    BY <1>4, SenderAssumption DEF SenderAssumption
  <2>. QED  BY <1>6, <1>7, <1>8, <1>9, <1>10, <2>1
<1>. QED  BY <1>1, <1>3, <1>10, <1>11, <1>12 DEF wi

\* A want that is tracked after the batch.
LEMMA AfterBatch ==
    ASSUME SInv, onChange, NEW w \in Wants, wants'[w] # None
    PROVE  /\ w \in Tracked /\ wants'[w] \in WantInfo
           /\ wants'[w].blockPresence = Info(w).blockPresence /\ wants'[w].exhausted = Info(w).exhausted
           /\ w \in ToSend => /\ wants'[w].sentTo \in BestPeers(Info(w))
                              /\ <<wants'[w].sentTo, w>> \in sentWantBlocks'
           /\ w \notin ToSend => wants'[w].sentTo = Info(w).sentTo
<1>1. PICK best \in [ToSend -> Peers] :
         /\ \A v \in ToSend : best[v] \in BestPeers(Info(v))
         /\ wants' = [v \in Wants |->
               IF v \notin Tracked THEN None
               ELSE IF v \in ToSend THEN [Info(v) EXCEPT !.sentTo = best[v]]
               ELSE Info(v)]
         /\ sentWantBlocks' = sentWantBlocks \cup {<<best[v], v>> : v \in ToSend}
  BY OnChange
<1>2. w \in Tracked
  BY <1>1
<1>3. Info(w) \in WantInfo
  BY <1>2, OnChange, InfoFacts
<1>4. CASE w \in ToSend
  <2>1. wants'[w] = [Info(w) EXCEPT !.sentTo = best[w]] /\ best[w] \in Peers
    BY <1>1, <1>2, <1>4
  <2>2. /\ wants'[w] \in WantInfo /\ wants'[w].sentTo = best[w]
        /\ wants'[w].blockPresence = Info(w).blockPresence /\ wants'[w].exhausted = Info(w).exhausted
    BY <1>3, <2>1 DEF WantInfo
  <2>. QED  BY <1>1, <1>2, <1>4, <2>2, SMT
<1>5. CASE w \notin ToSend
  BY <1>1, <1>2, <1>3, <1>5
<1>. QED  BY <1>4, <1>5

\* Some peer is best if some peer has, or may have, the block.
LEMMA Best ==
    ASSUME NEW wi \in WantInfo
    PROVE  /\ BestPeers(wi) \subseteq {p \in Peers : wi.blockPresence[p] \in {"have", "unknown"}}
           /\ \A p \in Peers : wi.blockPresence[p] \in {"have", "unknown"} => BestPeers(wi) # {}
BY DEF BestPeers

\* What a want knows of the peers of the session after the batch.
LEMMA KnownAfter ==
    ASSUME SInv, onChange, NEW w \in Tracked
    PROVE  Now \subseteq Peers /\ \A p \in Now : Info(w).blockPresence[p] # "none"
<1>1. loop.pc = "process"
  BY OnChange
<1>2. w \in Wants /\ \A p \in Peers : presence[CidOf[w]][p] \in Presence
  <2>1. w \in Wants
    BY DEF Tracked
  <2>2. CidOf[w] \in Range(CidOf) /\ presence \in [Range(CidOf) -> [Peers -> Presence]]
    BY <2>1, CidOfWant DEF SInv, Types
  <2>. QED  BY <2>1, <2>2
<1>3. \A p \in peers : trackWant(w, Added).blockPresence[p] # "none"
  <2>1. CASE trackWant(w, Added) = wants[w]
    BY <1>2, <2>1 DEF SInv, Known, Tracked
  <2>2. CASE \A p \in Peers : trackWant(w, Added).blockPresence[p] =
                 IF p \in peers THEN presence[CidOf[w]][p] ELSE "none"
    BY <1>2, <2>2 DEF SInv, Types, Presence
  <2>. QED  BY <1>1, <2>1, <2>2, InfoFacts
<1>4. Now \subseteq Peers /\ \A p \in Now : p \notin Down /\ (p \in Up \/ p \in peers)
  <2>1. peers \subseteq Peers /\ Up \subseteq Peers
    BY DEF SInv, Types, Up
  <2>. QED  BY <2>1 DEF Now
<1>5. \A p \in Peers : Info(w).blockPresence[p] =
         IF p \in HavesOf(w) \cup DontHavesOf(w) THEN presence[CidOf[w]][p]
         ELSE IF p \in Down THEN "none"
         ELSE IF p \in Up THEN presence[CidOf[w]][p]
         ELSE trackWant(w, Added).blockPresence[p]
  BY <1>1, InfoFacts
<1>. QED  BY <1>2, <1>3, <1>4, <1>5 DEF Presence

\* Whom a want waits for after the batch, if it was not sent again.
LEMMA WaitsAfter ==
    ASSUME SInv, onChange, NEW w \in Tracked, Info(w).sentTo # None
    PROVE  LET q == Info(w).sentTo
           IN  /\ wants[w] # None /\ wants[w].sentTo = q /\ q \in Peers
               /\ <<q, w>> \in sentWantBlocks /\ wants[w].blockPresence[q] # "none"
               /\ q \notin Down /\ q \notin DontHavesOf(w)
               /\ Info(w).blockPresence[q] \in {wants[w].blockPresence[q], presence[CidOf[w]][q]}
<1> DEFINE q == Info(w).sentTo
<1>1. loop.pc = "process"
  BY OnChange
<1>2. w \in Wants /\ Info(w) \in WantInfo /\ trackWant(w, Added) # None
  BY <1>1, InfoFacts DEF Tracked
<1>3. /\ trackWant(w, Added).sentTo = q /\ q \notin Down
      /\ ~(q \in DontHavesOf(w) /\ <<q, w>> \in sentWantBlocks)
  BY <1>1, InfoFacts, ZenonT(30)
<1>4. trackWant(w, Added) = wants[w]
  BY <1>1, <1>3, InfoFacts
<1>5. q \in Peers /\ <<q, w>> \in sentWantBlocks /\ wants[w].blockPresence[q] # "none"
  BY <1>2, <1>3, <1>4 DEF SInv, Tracker, WantInfo
<1>6. Info(w).blockPresence[q] \in {wants[w].blockPresence[q], presence[CidOf[w]][q]}
  BY <1>1, <1>3, <1>4, <1>5, InfoFacts, SMT
<1>. QED  BY <1>2, <1>3, <1>4, <1>5, <1>6

\* onChange keeps the invariant.
LEMMA OnChangeSInv ==
    ASSUME SInv, onChange
    PROVE  SInv'
<1> USE DEF envVars
<1>1. /\ peers' = Now /\ loop' = [pc |-> "select"] /\ \E pruned \in SUBSET Peers : pruning' = pruning \cup pruned
      /\ UNCHANGED <<changes, presence, signalling, interested, adding, message, spilled>>
  BY OnChange
<1>2. Now \subseteq Peers
  <2>1. peers \subseteq Peers /\ Up \subseteq Peers
    BY DEF SInv, Types, Up
  <2>. QED  BY <2>1 DEF Now
<1>3. Types'
  <2>1. \A w \in Wants : wants'[w] # None => wants'[w] \in WantInfo
    BY AfterBatch, ZenonT(30)
  <2>2. loop'.pc # "process"
    BY <1>1
  <2>3. pruning' \subseteq Peers
    BY <1>1 DEF SInv, Types
  <2>. QED  BY <1>1, <1>2, <2>1, <2>2, <2>3 DEF SInv, Types
<1>4. AllRecorded'
  <2>1. /\ \A i \in 1..Len(changes) : Recorded(changes[i])
        /\ adding # None => adding \in interested
    BY DEF SInv, AllRecorded
  <2>2. loop'.pc # "process"
    BY <1>1
  <2>3. (\A i \in 1..Len(changes) : Recorded(changes[i]))'
    BY <1>1, <2>1 DEF Recorded
  <2>. QED  BY <1>1, <2>1, <2>2, <2>3 DEF AllRecorded
<1>5. Known'
  <2> SUFFICES ASSUME NEW w \in Wants, wants'[w] # None
               PROVE  w \in interested' /\ \A p \in peers' : wants'[w].blockPresence[p] # "none"
    BY DEF Known
  <2>1. w \in Tracked /\ wants'[w].blockPresence = Info(w).blockPresence
    BY AfterBatch
  <2>2. w \in interested
    BY <2>1, OnChange, InfoFacts
  <2>. QED  BY <1>1, <2>1, <2>2, KnownAfter
<1>6. Tracker'
  <2> SUFFICES ASSUME NEW w \in Wants, wants'[w] # None, wants'[w].sentTo # None
               PROVE  /\ <<wants'[w].sentTo, w>> \in sentWantBlocks'
                      /\ wants'[w].blockPresence[wants'[w].sentTo] # "none"
    BY DEF Tracker
  <2>1. w \in Tracked /\ wants'[w].blockPresence = Info(w).blockPresence /\ Info(w) \in WantInfo
    BY AfterBatch, InfoFacts, OnChange, ZenonT(30)
  <2>2. CASE w \in ToSend
    <3>1. wants'[w].sentTo \in BestPeers(Info(w)) /\ <<wants'[w].sentTo, w>> \in sentWantBlocks'
      BY <2>2, AfterBatch
    <3>. QED  BY <2>1, <3>1, Best
  <2>3. CASE w \notin ToSend
    <3>1. wants'[w].sentTo = Info(w).sentTo
      BY <2>3, AfterBatch
    <3>2. /\ <<Info(w).sentTo, w>> \in sentWantBlocks /\ Info(w).sentTo \in Peers
          /\ wants[w].blockPresence[Info(w).sentTo] # "none"
          /\ Info(w).blockPresence[Info(w).sentTo] \in
                {wants[w].blockPresence[Info(w).sentTo], presence[CidOf[w]][Info(w).sentTo]}
      BY <2>1, <3>1, WaitsAfter
    <3>3. presence[CidOf[w]][Info(w).sentTo] # "none"
      BY <3>2, CidOfWant DEF SInv, Types, Presence
    <3>4. sentWantBlocks \subseteq sentWantBlocks'
      BY OnChange
    <3>. QED  BY <2>1, <3>1, <3>2, <3>3, <3>4
  <2>. QED  BY <2>2, <2>3
<1>7. Asked'
  <2> SUFFICES ASSUME NEW w \in Wants, NEW p \in peers', wants'[w] # None, wants'[w].sentTo = None,
                      wants'[w].blockPresence[p] # "dontHave"
               PROVE  FALSE
    BY DEF Asked
  <2>1. w \in Tracked /\ wants'[w].blockPresence = Info(w).blockPresence /\ Info(w) \in WantInfo
    BY AfterBatch, InfoFacts, OnChange
  <2>2. p \in Now /\ p \in Peers /\ Info(w).blockPresence[p] \in {"have", "unknown"}
    BY <1>1, <1>2, <2>1, KnownAfter DEF WantInfo, Presence
  <2>3. BestPeers(Info(w)) # {} /\ BestPeers(Info(w)) \subseteq Peers /\ None \notin Peers
    BY <2>1, <2>2, Best, SenderAssumption DEF SenderAssumption
  <2>4. w \notin ToSend
    BY <2>3, AfterBatch
  <2>5. Info(w).sentTo = None
    BY <2>4, AfterBatch
  <2>. QED  BY <2>1, <2>2, <2>3, <2>4, <2>5 DEF ToSend, Unsent
<1>. QED  BY <1>3, <1>4, <1>5, <1>6, <1>7 DEF SInv

\* Every step keeps the invariant.
LEMMA NextSInv == SInv /\ [Next]_vars => SInv'
BY SendersSInv, OthersSInv, PresenceSInv, OnChangeSInv DEF Next, Run

\* The invariant holds in every reachable state.
THEOREM SenderInvariant == Spec => []SInv
BY InitSInv, NextSInv, PTL DEF Spec

\* A want is sent whenever a peer of the session may have the block.
THEOREM CandidatesAreAskedCorrect == Spec => []CandidatesAreAsked
<1>1. SInv => CandidatesAreAsked
  BY DEF SInv, Asked, CandidatesAreAsked
<1>. QED  BY <1>1, SenderInvariant, PTL

-----------------------------------------------------------------------------
(* The limits.                                                             *)

\* A counter that is cut off.
LEMMA MinOfTwo ==
    ASSUME NEW m \in Nat, NEW n \in Nat
    PROVE  Min({m, n}) \in 0..n
<1>1. \E x \in {m, n} : \A y \in {m, n} : x <= y
  BY SMT
<1>2. Min({m, n}) \in {m, n} /\ \A y \in {m, n} : Min({m, n}) <= y
  BY <1>1 DEF Min
<1>. QED  BY <1>2, SMT

\* A batch has some number of DONT_HAVEs.
LEMMA NumDontHavesType ==
    ASSUME SInv, loop.pc = "process", NEW p
    PROVE  NumDontHaves(loop.batch, p) \in Nat
<1> DEFINE D == {i \in DOMAIN loop.batch : loop.batch[i].kind = "dontHave" /\ loop.batch[i].p = p}
<1>1. loop.batch \in Seq(Change)
  BY DEF SInv, Types
<1>2. DOMAIN loop.batch = 1..Len(loop.batch) /\ Len(loop.batch) \in Nat
  BY <1>1, SMT
<1>3. IsFiniteSet(1..Len(loop.batch))
  BY <1>2, FS_Interval, SMT
<1>4. D \subseteq 1..Len(loop.batch)
  BY <1>2
<1>5. IsFiniteSet(D)
  BY <1>3, <1>4, FS_Subset
<1>. QED  BY <1>5, FS_CardinalityType DEF NumDontHaves

\* A change enters the channel where there is room.
LEMMA RoomForOne ==
    ASSUME SInv, Limits, NEW c \in Change,
           UNCHANGED changes \/ (Room /\ changes' = Append(changes, c))
    PROVE  Len(changes') <= changesBufferSize
<1>1. changes \in Seq(Change) /\ Len(changes) <= changesBufferSize /\ changesBufferSize \in Nat
  BY SenderAssumption DEF SInv, Types, Limits, SenderAssumption
<1>. QED  BY <1>1, SMT DEF Room

\* The steps that send a change keep the limits.
LEMMA SendersLimits ==
    ASSUME SInv, Limits,
           \/ Add \/ Update \/ signalAvailability
           \/ \E p \in Peers, w \in Wants : findMorePeers(p, w)
           \/ \E p \in Peers : prune(p)
           \/ \E c \in Signals : sendSpilled(c)
    PROVE  Limits'
<1> USE DEF swsVars, pmVars, envVars
<1>1. UNCHANGED <<registered, connected, dontHaveCount>>
  BY DEF Add, Update, signalAvailability, findMorePeers, prune, sendSpilled
<1>2. \E c \in Change : UNCHANGED changes \/ (Room /\ changes' = Append(changes, c))
  <2>1. CASE Add
    <3>1. add(adding) \in Change
      BY <2>1, ChangeTypes DEF Add, SInv, Types
    <3>. QED  BY <2>1, <3>1 DEF Add, addChange
  <2>2. CASE Update
    BY <2>2 DEF Update, addChange, SInv, Types
  <2>3. ASSUME NEW p \in Peers, NEW w \in Wants, findMorePeers(p, w)
        PROVE  \E c \in Change : UNCHANGED changes \/ (Room /\ changes' = Append(changes, c))
    <3>1. update(p, "have", w) \in Change
      BY ChangeTypes
    <3>. QED  BY <2>3, <3>1 DEF findMorePeers, addChange
  <2>4. ASSUME NEW c \in Signals, sendSpilled(c)
        PROVE  \E d \in Change : UNCHANGED changes \/ (Room /\ changes' = Append(changes, d))
    BY <2>4, SignalTypes DEF sendSpilled, addChange
  <2>5. CASE signalAvailability
    BY <2>5 DEF signalAvailability, addChangeNonBlocking, SInv, Types
  <2>6. ASSUME NEW p \in Peers, prune(p)
        PROVE  \E c \in Change : UNCHANGED changes \/ (Room /\ changes' = Append(changes, c))
    <3> DEFINE c == availability(p, FALSE)
    <3>1. c \in Change
      BY ChangeTypes
    <3>2. addChangeNonBlocking(c)
      BY <2>6 DEF prune
    <3> HIDE DEF c
    <3>. QED  BY <3>1, <3>2 DEF addChangeNonBlocking
  <2>. QED  BY <2>1, <2>2, <2>3, <2>4, <2>5, <2>6
<1>3. Len(changes') <= changesBufferSize
  BY <1>2, RoomForOne
<1>. QED  BY <1>1, <1>3 DEF Limits

\* onChange keeps the limits.
LEMMA OnChangeLimits ==
    ASSUME SInv, Limits, onChange
    PROVE  Limits'
<1>1. loop.pc = "process" /\ UNCHANGED <<changes, connected>>
  BY DEF onChange
<1>2. registered' \subseteq Peers
  <2>1. registered' = registered \cup Senders(Blocks \cup Haves)
    BY DEF onChange, Blocks, Haves
  <2>2. ASSUME NEW u \in Blocks \cup Haves PROVE u[1] \in Peers
    <3>1. u = <<u[1], u[2]>>
      BY <1>1, <2>2, BatchUpdates DEF Blocks, Haves
    <3>2. \A p, w : <<p, w>> \in Blocks \cup Haves => p \in Peers
      BY <1>1, BatchUpdates DEF Blocks, Haves
    <3>3. <<u[1], u[2]>> \in Blocks \cup Haves
      BY <2>2, <3>1
    <3>. QED  BY <3>2, <3>3
  <2>. QED  BY <2>1, <2>2 DEF Senders, Limits
<1>3. dontHaveCount' \in [Peers -> 0..peerDontHaveLimit]
  <2> DEFINE count(p) == CountBefore(p, Up \cup Down, Blocks) + NumDontHaves(loop.batch, p)
  <2>1. dontHaveCount' = [p \in Peers |->
           IF p \in Senders(Haves) THEN 0 ELSE Min({count(p), peerDontHaveLimit})]
    BY DEF onChange, Blocks, Haves, Up, Down
  <2>2. ASSUME NEW p \in Peers
        PROVE  Min({count(p), peerDontHaveLimit}) \in 0..peerDontHaveLimit
    <3>1. dontHaveCount[p] \in 0..peerDontHaveLimit
      BY DEF Limits
    <3>2. CountBefore(p, Up \cup Down, Blocks) \in Nat
      BY <3>1, SMT DEF CountBefore
    <3>3. NumDontHaves(loop.batch, p) \in Nat
      BY <1>1, NumDontHavesType
    <3>4. count(p) \in Nat
      BY <3>2, <3>3, SMT
    <3> HIDE DEF count
    <3>5. peerDontHaveLimit \in Nat
      BY SenderAssumption DEF SenderAssumption
    <3>. QED  BY <3>4, <3>5, MinOfTwo
  <2>3. 0 \in 0..peerDontHaveLimit
    BY SenderAssumption, SMT DEF SenderAssumption
  <2> HIDE DEF count
  <2>. QED  BY <2>1, <2>2, <2>3
<1>. QED  BY <1>1, <1>2, <1>3 DEF Limits

\* Every step keeps the limits.
LEMMA NextLimits == SInv /\ Limits /\ [Next]_vars => Limits'
<1> SUFFICES ASSUME SInv, Limits, [Next]_vars PROVE Limits'
  OBVIOUS
<1> USE DEF swsVars, pmVars, envVars
<1>1. CASE collectChanges
  <2>1. Len(changes') <= changesBufferSize
    BY <1>1, SenderAssumption, SMT DEF collectChanges, SenderAssumption
  <2>. QED  BY <1>1, <2>1 DEF collectChanges, Limits
<1>2. ASSUME NEW p \in Peers, Connected(p) \/ Disconnected(p) PROVE Limits'
  BY <1>2 DEF Connected, Disconnected, Flap, Limits
<1>3. CASE unregister
  BY <1>3 DEF unregister, Limits
<1>4. CASE Shutdown \/ UNCHANGED vars
  BY <1>4 DEF Shutdown, vars, Limits
<1>5. CASE (\E w \in Wants : wantBlocks(w)) \/ (\E c \in Range(CidOf) : RemoveKeys(c))
  BY <1>5 DEF wantBlocks, RemoveKeys, Limits
<1>6. ASSUME NEW p \in Peers, NEW w \in Wants, ReceiveFrom(p, w) PROVE Limits'
  BY <1>6 DEF ReceiveFrom, Limits
<1>. QED  BY <1>1, <1>2, <1>3, <1>4, <1>5, <1>6, SendersLimits, OnChangeLimits DEF Next, Run

\* The channel and the counters of consecutive DONT_HAVEs stay within their
\* limits, and a want waits only for a peer that the tracker knows of.
THEOREM TypeCorrect == Spec => []TypeOK
<1>1. Init => Limits
  BY SenderAssumption, SMT DEF Init, Limits, SenderAssumption
<1>2. SInv /\ Limits => TypeOK
  <2> SUFFICES ASSUME SInv, Limits PROVE TypeOK
    OBVIOUS
  <2>1. ASSUME NEW w \in Wants, wants[w] # None
        PROVE  /\ wants[w].blockPresence \in [Peers -> {"none", "unknown", "have", "dontHave"}]
               /\ wants[w].sentTo \in Peers \cup {None} /\ wants[w].exhausted \in BOOLEAN
               /\ wants[w].sentTo # None => <<wants[w].sentTo, w>> \in sentWantBlocks
    <3>1. wants[w] \in WantInfo
      BY <2>1 DEF SInv, Types
    <3>2. Presence \cup {"none"} = {"none", "unknown", "have", "dontHave"}
      BY DEF Presence
    <3>. QED  BY <2>1, <3>1, <3>2 DEF WantInfo, SInv, Tracker
  <2>. QED  BY <2>1 DEF SInv, Types, Limits, TypeOK, Presence
<1>. QED  BY <1>1, <1>2, SenderInvariant, NextLimits, PTL DEF Spec

-----------------------------------------------------------------------------
(* Wants with CIDs of their own: what changes is on its way.               *)

\* Updates stay on their way until they are processed.
LEMMA StaysUnderway ==
    ASSUME SInv, ~ctxDone', [Next]_vars, ~onChange, NEW p \in Peers, NEW kind \in {"have", "dontHave"},
           NEW w \in interested, OnItsWay(p, kind, w)
    PROVE  OnItsWay(p, kind, w)'
<1> USE DEF swsVars, pmVars, envVars
<1> DEFINE c == update(p, kind, w)
<1>1. c \in Change /\ c # None /\ c.w = w
  <2>0. w \in Wants
    BY DEF SInv, Types
  <2>1. c \in Change /\ c.w = w
    BY <2>0, ChangeTypes, SMT
  <2>2. c # None
    BY <2>0, SenderAssumption DEF SenderAssumption, update
  <2>. QED  BY <2>1, <2>2
<1> HIDE DEF c
<1>2. changes \in Seq(Change) /\ (message = None \/ message \in Change)
  BY DEF SInv, Types
<1>3. ASSUME NEW d \in Change, changes' = Append(changes, d) PROVE Range(changes') = Range(changes) \cup {d}
  BY <1>2, <1>3, Appended, SMT
<1>4. CASE collectChanges
  <2>1. loop.pc = "select" /\ loop'.pc = "process" /\ loop'.batch = changes /\ UNCHANGED message
    BY <1>4 DEF collectChanges
  <2>. QED  BY <2>1 DEF OnItsWay, c
<1>5. CASE Update
  <2>1. message \in Change /\ UNCHANGED loop
    BY <1>2, <1>5 DEF Update
  <2>2. CASE message.w \in interested
    <3>1. changes' = Append(changes, message)
      BY <1>5, <2>2 DEF Update, addChange
    <3>2. Range(changes') = Range(changes) \cup {message}
      BY <1>3, <2>1, <3>1
    <3>. QED  BY <2>1, <3>2 DEF OnItsWay, c
  <2>3. CASE message.w \notin interested
    <3>1. message # c /\ UNCHANGED changes
      BY <1>1, <1>5, <2>3 DEF Update
    <3>. QED  BY <2>1, <3>1 DEF OnItsWay, c
  <2>. QED  BY <2>2, <2>3
<1>6. CASE \E q \in Peers, v \in Wants : ReceiveFrom(q, v)
  <2>1. message = None /\ UNCHANGED <<changes, loop>>
    BY <1>6 DEF ReceiveFrom
  <2>. QED  BY <1>1, <2>1 DEF OnItsWay, c
<1>7. CASE unregister
  <2>1. loop.pc = "select" /\ UNCHANGED <<message, changes>>
    BY <1>7 DEF unregister
  <2>. QED  BY <2>1 DEF OnItsWay, c
<1>8. CASE \/ Shutdown \/ UNCHANGED vars
           \/ \E v \in Wants : wantBlocks(v)
           \/ \E d \in Range(CidOf) : RemoveKeys(d)
           \/ \E q \in Peers : Connected(q) \/ Disconnected(q)
  <2>1. UNCHANGED <<message, changes, loop>>
    BY <1>8 DEF Shutdown, vars, wantBlocks, RemoveKeys, Connected, Disconnected, Flap
  <2>. QED  BY <2>1 DEF OnItsWay, c
<1>9. CASE \/ Add \/ signalAvailability
           \/ \E q \in Peers, v \in Wants : findMorePeers(q, v)
           \/ \E q \in Peers : prune(q)
           \/ \E d \in Signals : sendSpilled(d)
  <2>1. UNCHANGED <<message, loop>>
    BY <1>9, ZenonT(30) DEF Add, signalAvailability, findMorePeers, prune, sendSpilled
  <2>2. Range(changes) \subseteq Range(changes')
    <3>1. UNCHANGED changes \/ \E d \in Change : changes' = Append(changes, d)
      <4>1. CASE Add
        <5>1. add(adding) \in Change
          BY <4>1, ChangeTypes DEF Add, SInv, Types
        <5>. QED  BY <4>1, <5>1 DEF Add, addChange
      <4>2. CASE signalAvailability
        BY <4>2 DEF signalAvailability, addChangeNonBlocking, SInv, Types
      <4>3. CASE \E q \in Peers, v \in Wants : findMorePeers(q, v)
        BY <4>3, ChangeTypes DEF findMorePeers, addChange
      <4>4. CASE \E q \in Peers : prune(q)
        <5>1. PICK q \in Peers : prune(q)
          BY <4>4
        <5>2. availability(q, FALSE) \in Change
          BY ChangeTypes
        <5>. QED  BY <5>1, <5>2 DEF prune, addChangeNonBlocking
      <4>5. CASE \E d \in Signals : sendSpilled(d)
        BY <4>5, SignalTypes DEF sendSpilled, addChange
      <4>. QED  BY <1>9, <4>1, <4>2, <4>3, <4>4, <4>5
    <3>. QED  BY <1>3, <3>1
  <2>. QED  BY <2>1, <2>2 DEF OnItsWay, c
<1>. QED  BY <1>4, <1>5, <1>6, <1>7, <1>8, <1>9 DEF Next, Run

\* Only a message of the peer tells something of a tracked want, and it tells
\* the session.
LEMMA LearnedIsTold ==
    ASSUME CidsDiffer, SInv, [Next]_vars, ~onChange, NEW w \in Wants, wants[w] # None, NEW p \in Peers,
           presence'[CidOf[w]][p] \notin {"unknown", presence[CidOf[w]][p]}
    PROVE  OnItsWay(p, presence[CidOf[w]][p], w)'
<1> USE DEF swsVars, pmVars, envVars
<1>1. w \in interested /\ presence \in [Range(CidOf) -> [Peers -> Presence]] /\ CidOf[w] \in Range(CidOf)
  BY CidOfWant DEF SInv, Known, Types
<1>2. ASSUME NEW c \in Range(CidOf), RemoveKeys(c) PROVE FALSE
  <2>1. presence' = [presence EXCEPT ![c] = [q \in Peers |-> "unknown"]]
    BY <1>2 DEF RemoveKeys
  <2>. QED  BY <1>1, <2>1
<1>3. CASE \E q \in Peers, v \in Wants : ReceiveFrom(q, v)
  <2>1. PICK q \in Peers, v \in Wants : ReceiveFrom(q, v)
    BY <1>3
  <2>2. PICK kind \in {"block", "have", "dontHave"} :
           /\ message' = update(q, kind, v)
           /\ IF kind = "block" THEN UNCHANGED presence ELSE updateBlockPresence(q, v, kind)
    BY <2>1 DEF ReceiveFrom
  <2>3. presence' = [presence EXCEPT ![CidOf[v]][q] = IF @ = "have" THEN @ ELSE kind]
    BY <2>2 DEF updateBlockPresence
  <2>4. CidOf[v] = CidOf[w] /\ q = p
    BY <1>1, <2>3
  <2>5. v = w
    BY <2>4 DEF CidsDiffer
  <2>6. presence'[CidOf[w]][p] = kind
    BY <1>1, <2>3, <2>4
  <2>. QED  BY <1>1, <2>2, <2>4, <2>5, <2>6 DEF OnItsWay
<1>4. CASE UNCHANGED presence
  BY <1>4
<1>. QED  BY <1>2, <1>3, <1>4, ZenonT(30) DEF Next, Run, Add, Update, signalAvailability, findMorePeers, prune, sendSpilled,
            Shutdown, vars, wantBlocks, Connected, Disconnected, Flap, collectChanges, unregister

\* The steps outside onChange.
LEMMA QuietFInv ==
    ASSUME CidsDiffer, SInv, FInv, [Next]_vars, ~onChange
    PROVE  FInv'
<1> USE DEF swsVars, pmVars, envVars
<1>1. /\ UNCHANGED wants
      /\ ctxDone => ctxDone'
  <2>1. CASE Shutdown
    BY <2>1 DEF Shutdown
  <2>2. CASE UNCHANGED vars \/ collectChanges \/ unregister \/ \E w \in Wants : wantBlocks(w)
    BY <2>2, SMT DEF vars, collectChanges, unregister, wantBlocks
  <2>3. CASE \/ \E c \in Range(CidOf) : RemoveKeys(c)
             \/ \E p \in Peers, w \in Wants : ReceiveFrom(p, w)
             \/ \E p \in Peers : Connected(p) \/ Disconnected(p)
    <3>1. UNCHANGED <<wants, ctxDone>>
      BY <2>3 DEF RemoveKeys, ReceiveFrom, Connected, Disconnected, Flap
    <3>. QED  BY <3>1
  <2>4. CASE \/ Add \/ Update \/ signalAvailability
             \/ \E p \in Peers, w \in Wants : findMorePeers(p, w)
             \/ \E p \in Peers : prune(p)
             \/ \E c \in Signals : sendSpilled(c)
    <3>1. UNCHANGED <<wants, ctxDone>>
      BY <2>4 DEF Add, Update, signalAvailability, findMorePeers, prune, sendSpilled
    <3>. QED  BY <3>1
  <2>. QED  BY <2>1, <2>2, <2>3, <2>4 DEF Next, Run
<1>2. UpToDate'
  <2> SUFFICES ASSUME ~ctxDone', NEW w \in Wants, NEW p \in Peers, wants[w] # None,
                      wants[w].blockPresence[p] # "none",
                      presence'[CidOf[w]][p] \notin {"unknown", wants[w].blockPresence[p]}
               PROVE  OnItsWay(p, presence[CidOf[w]][p], w)'
    BY <1>1 DEF UpToDate
  <2>1. CASE presence'[CidOf[w]][p] # presence[CidOf[w]][p]
    BY <2>1, LearnedIsTold
  <2>2. CASE presence'[CidOf[w]][p] = presence[CidOf[w]][p]
    <3>1. presence[CidOf[w]][p] \in Presence
      BY CidOfWant DEF SInv, Types
    <3>2. presence[CidOf[w]][p] # "unknown" /\ w \in interested
      BY <2>2 DEF SInv, Known
    <3>3. presence[CidOf[w]][p] \in {"have", "dontHave"}
      BY <3>1, <3>2 DEF Presence
    <3>4. OnItsWay(p, presence[CidOf[w]][p], w)
      BY <1>1, <2>2 DEF FInv, UpToDate
    <3>5. PICK kind \in {"have", "dontHave"} : kind = presence[CidOf[w]][p]
      BY <3>3
    <3>6. OnItsWay(p, kind, w)'
      BY <3>2, <3>4, <3>5, StaysUnderway
    <3>. QED  BY <2>2, <3>5, <3>6 DEF OnItsWay
  <2>. QED  BY <2>1, <2>2
<1>3. NotWaitingForDontHave'
  <2> SUFFICES ASSUME ~ctxDone', NEW w \in Wants, wants[w] # None, wants[w].sentTo # None,
                      wants[w].blockPresence[wants[w].sentTo] = "dontHave"
               PROVE  OnItsWay(wants[w].sentTo, "dontHave", w)'
    BY <1>1 DEF NotWaitingForDontHave
  <2>1. PICK q \in Peers : q = wants[w].sentTo
    BY DEF SInv, Types, WantInfo
  <2>2. OnItsWay(q, "dontHave", w) /\ w \in interested
    BY <1>1, <2>1 DEF FInv, NotWaitingForDontHave, SInv, Known
  <2>3. OnItsWay(q, "dontHave", w)'
    BY <2>2, StaysUnderway
  <2>. QED  BY <1>1, <2>1, <2>3 DEF OnItsWay
<1>. QED  BY <1>2, <1>3 DEF FInv

\* What the batch does not hold stays on its way.
LEMMA NotInBatch ==
    ASSUME SInv, onChange, NEW w \in Tracked, NEW p \in Peers, NEW kind \in {"have", "dontHave"},
           OnItsWay(p, kind, w), p \notin HavesOf(w) \/ kind # "have", p \notin DontHavesOf(w) \/ kind # "dontHave"
    PROVE  OnItsWay(p, kind, w)'
<1>1. loop.pc = "process" /\ UNCHANGED <<changes, message>>
  BY OnChange DEF envVars
<1>2. w \in Wants /\ w \notin WantsOf(Blocks)
  BY DEF Tracked
<1>3. update(p, kind, w) \notin Range(loop.batch)
  BY <1>1, <1>2, AboutWant
<1>. QED  BY <1>1, <1>3 DEF OnItsWay

\* After the batch, what the BlockPresenceManager knows better is on its way.
LEMMA UpToDateAfter ==
    ASSUME SInv, UpToDate, ~ctxDone, onChange, NEW w \in Tracked, NEW p \in Peers,
           Info(w).blockPresence[p] # "none",
           presence[CidOf[w]][p] \notin {"unknown", Info(w).blockPresence[p]}
    PROVE  OnItsWay(p, presence[CidOf[w]][p], w)'
<1>1. loop.pc = "process" /\ UNCHANGED presence
  BY OnChange
<1>2. w \in Wants /\ trackWant(w, Added) # None
  BY DEF Tracked
<1>3. /\ p \notin HavesOf(w) /\ p \notin DontHavesOf(w)
      /\ Info(w).blockPresence[p] = trackWant(w, Added).blockPresence[p]
  BY <1>1, InfoFacts, ZenonT(30)
<1>4. trackWant(w, Added) = wants[w]
  BY <1>1, <1>3, InfoFacts, ZenonT(30)
<1>5. presence[CidOf[w]][p] \in Presence
  BY <1>2, CidOfWant DEF SInv, Types
<1>6. PICK kind \in {"have", "dontHave"} : kind = presence[CidOf[w]][p]
  BY <1>5 DEF Presence
<1>7. OnItsWay(p, kind, w)
  BY <1>2, <1>3, <1>4, <1>6 DEF UpToDate
<1>8. OnItsWay(p, kind, w)'
  BY <1>3, <1>7, NotInBatch
<1>. QED  BY <1>1, <1>6, <1>8 DEF OnItsWay

\* onChange.
LEMMA OnChangeFInv ==
    ASSUME SInv, FInv, onChange
    PROVE  FInv'
<1>1. UNCHANGED <<presence, ctxDone>>
  BY OnChange
<1>2. UpToDate'
  <2> SUFFICES ASSUME ~ctxDone', NEW w \in Wants, NEW p \in Peers, wants'[w] # None,
                      wants'[w].blockPresence[p] # "none",
                      presence'[CidOf[w]][p] \notin {"unknown", wants'[w].blockPresence[p]}
               PROVE  OnItsWay(p, presence[CidOf[w]][p], w)'
    BY DEF UpToDate
  <2>1. w \in Tracked /\ wants'[w].blockPresence = Info(w).blockPresence
    BY AfterBatch
  <2>. QED  BY <1>1, <2>1, UpToDateAfter DEF FInv
<1>3. NotWaitingForDontHave'
  <2> SUFFICES ASSUME ~ctxDone', NEW w \in Wants, wants'[w] # None, wants'[w].sentTo # None,
                      wants'[w].blockPresence[wants'[w].sentTo] = "dontHave"
               PROVE  OnItsWay(wants[w].sentTo, "dontHave", w)'
    BY DEF NotWaitingForDontHave
  <2>1. w \in Tracked /\ wants'[w].blockPresence = Info(w).blockPresence /\ Info(w) \in WantInfo
    BY AfterBatch, InfoFacts, OnChange
  <2>2. w \notin ToSend
    BY <2>1, AfterBatch, Best
  <2>3. wants'[w].sentTo = Info(w).sentTo
    BY <2>2, AfterBatch
  <2>4. PICK q \in Peers : q = Info(w).sentTo
    BY <2>1, <2>3 DEF WantInfo
  <2>5. /\ wants[w] # None /\ wants[w].sentTo = q /\ wants[w].blockPresence[q] # "none"
        /\ q \notin DontHavesOf(w)
        /\ Info(w).blockPresence[q] \in {wants[w].blockPresence[q], presence[CidOf[w]][q]}
    BY <2>1, <2>3, <2>4, WaitsAfter
  <2>6. OnItsWay(q, "dontHave", w)
    <3>1. CASE wants[w].blockPresence[q] = "dontHave"
      BY <1>1, <2>3, <2>4, <2>5, <3>1 DEF FInv, NotWaitingForDontHave
    <3>2. CASE wants[w].blockPresence[q] # "dontHave"
      <4>1. presence[CidOf[w]][q] = "dontHave"
        BY <2>1, <2>3, <2>4, <2>5, <3>2
      <4>2. OnItsWay(q, presence[CidOf[w]][q], w)
        BY <1>1, <2>5, <3>2, <4>1 DEF FInv, UpToDate
      <4>. QED  BY <4>1, <4>2
    <3>. QED  BY <3>1, <3>2
  <2>7. OnItsWay(q, "dontHave", w)'
    BY <2>1, <2>5, <2>6, NotInBatch
  <2>. QED  BY <2>3, <2>4, <2>7 DEF OnItsWay
<1>. QED  BY <1>2, <1>3 DEF FInv

\* A want that loses the peer it was sent to.
LEMMA LostHope ==
    ASSUME SInv, UpToDate, ~ctxDone, onChange, NEW w \in Wants,
           wants[w] # None, wants[w].sentTo # None, wants'[w] # None, wants'[w].sentTo = None,
           peers \cup peers' # {}
    PROVE  wants'[w].exhausted \/ \E p \in peers' : (OnItsWay(p, "have", w) \/ Forgotten(p, w))'
<1>1. loop.pc = "process" /\ peers' = Now /\ UNCHANGED presence /\ peers \subseteq Peers
  BY OnChange DEF SInv, Types
<1>2. /\ w \in Tracked /\ Info(w) \in WantInfo /\ wants'[w].blockPresence = Info(w).blockPresence
      /\ wants'[w].exhausted = Info(w).exhausted
  BY AfterBatch, InfoFacts, OnChange
<1>3. w \notin ToSend /\ Info(w).sentTo = None
  <2>1. w \notin ToSend
    BY <1>2, AfterBatch, Best, SenderAssumption DEF SenderAssumption
  <2>. QED  BY <2>1, AfterBatch
<1>4. Down # {} \/ DontHavesOf(w) # {}
  <2>1. trackWant(w, Added) = wants[w]
    BY DEF trackWant
  <2>. QED  BY <1>1, <1>2, <1>3, <2>1, InfoFacts, ZenonT(30)
<1>5. w \in CheckedForExhaustion(Tracked, WantsOf(DontHaves), Down)
  BY <1>1, <1>2, <1>4, AboutWant DEF CheckedForExhaustion
<1>6. CASE Exhausted(w, Now, Down)
  BY <1>1, <1>2, <1>5, <1>6, InfoFacts DEF ExhaustedNow
<1>7. CASE ~Exhausted(w, Now, Down)
  <2>1. Now # {}
    BY <1>1, <1>7 DEF Exhausted, Now
  <2>2. \A p \in Now : p \in Peers /\ Info(w).blockPresence[p] = "dontHave"
    <3>1. BestPeers(Info(w)) = {}
      BY <1>2, <1>3, <2>1 DEF ToSend, Unsent
    <3>. QED  BY <1>2, <3>1, Best, KnownAfter DEF WantInfo, Presence
  <2>3. PICK p \in Now : presence[CidOf[w]][p] # "dontHave"
    BY <1>7, <2>1, <2>2 DEF Exhausted, allDontHave
  <2>4. presence[CidOf[w]][p] \in {"have", "unknown"} /\ p \in Peers
    <3>1. CidOf[w] \in Range(CidOf) /\ presence \in [Range(CidOf) -> [Peers -> Presence]]
      BY CidOfWant DEF SInv, Types
    <3>. QED  BY <2>2, <2>3, <3>1 DEF Presence
  <2>5. CASE presence[CidOf[w]][p] = "have"
    <3>1. OnItsWay(p, presence[CidOf[w]][p], w)'
      BY <1>2, <2>2, <2>5, UpToDateAfter
    <3>. QED  BY <1>1, <2>5, <3>1 DEF OnItsWay
  <2>6. CASE presence[CidOf[w]][p] = "unknown"
    <3>1. Forgotten(p, w)'
      BY <1>1, <1>2, <2>2, <2>6 DEF Forgotten
    <3>. QED  BY <1>1, <3>1
  <2>. QED  BY <2>4, <2>5, <2>6
<1>. QED  BY <1>6, <1>7

-----------------------------------------------------------------------------
\* With a CID for every want, nothing that was learned is lost.
THEOREM FreshInvariant ==
    ASSUME CidsDiffer PROVE Spec => [](SInv /\ FInv)
<1>1. Init => FInv
  BY DEF Init, FInv, UpToDate, NotWaitingForDontHave
<1>2. SInv /\ FInv /\ [Next]_vars => SInv' /\ FInv'
  BY NextSInv, QuietFInv, OnChangeFInv
<1>. QED  BY <1>1, <1>2, InitSInv, PTL DEF Spec

\* A want does not stay with a peer that is known not to have the block.
THEOREM NotWaitingForDontHaveCorrect ==
    ASSUME CidsDiffer PROVE Spec => []NotWaitingForDontHave
<1>1. FInv => NotWaitingForDontHave
  BY DEF FInv
<1>. QED  BY <1>1, FreshInvariant, PTL

\* A want that loses its peer and gets no other is reported, or is about to
\* get one.
THEOREM LostHopeIsReportedCorrect ==
    ASSUME CidsDiffer PROVE Spec => LostHopeIsReported
<1> DEFINE Reported ==
      ~ctxDone => \A w \in Wants :
          /\ wants[w] # None /\ wants[w].sentTo # None
          /\ wants'[w] # None /\ wants'[w].sentTo = None /\ peers \cup peers' # {}
          => wants'[w].exhausted \/ \E p \in peers' : (OnItsWay(p, "have", w) \/ Forgotten(p, w))'
<1>1. SInv /\ FInv /\ [Next]_vars => [Reported]_vars
  <2> SUFFICES ASSUME SInv, FInv, [Next]_vars PROVE Reported
    OBVIOUS
  <2>1. CASE onChange
    BY <2>1, LostHope DEF FInv
  <2>2. CASE UNCHANGED wants
    BY <2>2
  <2>. QED  BY <2>1, <2>2 DEF Next, Run, Add, Update, signalAvailability, findMorePeers, prune, sendSpilled,
              RemoveKeys, ReceiveFrom, Shutdown, vars, wantBlocks, Connected, Disconnected, Flap,
              collectChanges, unregister, swsVars
<1>. QED  BY <1>1, FreshInvariant, PTL DEF Spec, LostHopeIsReported
=============================================================================

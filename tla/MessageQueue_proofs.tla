------------------------- MODULE MessageQueue_proofs -------------------------
(***************************************************************************)
(* The invariants of a MessageQueue, for any finite set of wants and any   *)
(* cutoff.  That no wakeup is lost is proved for messages that hold all    *)
(* the pending work; for others it is not so.                              *)
(***************************************************************************)
EXTENDS MessageQueue, FiniteSetTheorems, TLAPS

\* The prover of a step that names none.
USE Zenon

Level == {"none", "have", "block"}
Age == {"none", "young", "old"}

\* The ranges of the variables.
Types ==
    /\ asked \in [Wants -> Level] /\ snap.peer \in [Wants -> Level]
    /\ peerPending \in [Wants -> Level] /\ peerSent \in [Wants -> Level]
    /\ cancelKs \subseteq Wants
    /\ bcstPending \subseteq Wants /\ bcstSent \subseteq Wants /\ cancels \subseteq Wants
    /\ outgoingWork \in Age /\ workScheduled \in Age
    /\ timer \in {"stopped", "armed", "fired"}

\* The debounce timer runs exactly while work is scheduled, wherever the loop is,
\* which never waits for a timer that will not fire.
TimerInv ==
    /\ pc # "blocked"
    /\ workScheduled = "none" <=> timer = "stopped"

\* TracksWhatWasAsked, also while the client is inside AddCancels.
Tracks ==
    /\ bcstPending \cup bcstSent = askedBcst
    /\ \A w \in Wants :
          /\ asked[w] = "none" => peerPending[w] = "none" /\ peerSent[w] = "none"
          /\ asked[w] = "have" => peerPending[w] # "none" \/ peerSent[w] # "none" \/ ~supportsHave
          /\ asked[w] = "block" => peerPending[w] = "block" \/ peerSent[w] = "block"

\* Something will wake the loop.
Woken == outgoingWork # "none" \/ timer # "stopped" \/ client = "signal"

SomePending == cancels # {} \/ bcstPending # {} \/ In(peerPending) # {}

\* Work that came after the snapshot of the message being built.
SomeLater ==
    \/ ~(cancels \subseteq snap.cancels)
    \/ ~(bcstPending \subseteq snap.bcst)
    \/ \E w \in Wants : peerPending[w] # "none"
                       /\ (snap.peer[w] = "none" \/ ~Removable(peerPending[w], snap.peer[w]))

\* What waits, or came after the snapshot, is signalled.
Wakeup ==
    ctxOpen => /\ pc = "select" /\ SomePending => Woken
               /\ pc = "finish" /\ SomeLater => Woken

-----------------------------------------------------------------------------
\* hasPendingWork does not count wrong.
LEMMA PendingWork ==
    ASSUME Types
    PROVE  hasPendingWork <=> SomePending
<1>1. IsFiniteSet(bcstPending) /\ IsFiniteSet(In(peerPending)) /\ IsFiniteSet(cancels)
  BY QueueAssumption, FS_Subset DEF Types, In
<1>2. /\ Cardinality(bcstPending) \in Nat /\ Cardinality(In(peerPending)) \in Nat
      /\ Cardinality(cancels) \in Nat
  BY <1>1, FS_CardinalityType
<1>3. /\ Cardinality(bcstPending) = 0 <=> bcstPending = {}
      /\ Cardinality(In(peerPending)) = 0 <=> In(peerPending) = {}
      /\ Cardinality(cancels) = 0 <=> cancels = {}
  BY <1>1, FS_EmptySet
<1>. QED  BY <1>2, <1>3, SMT DEF hasPendingWork, pendingWorkCount, SomePending

\* Every wantlist keeps its type.
LEMMA ListTypes ==
    ASSUME NEW l \in [Wants -> Level], NEW m \in [Wants -> Level], NEW ws, NEW v \in Level
    PROVE  /\ Add(l, ws, v) \in [Wants -> Level]
           /\ Remove(l, ws) \in [Wants -> Level]
           /\ Absorb(l, m) \in [Wants -> Level]
           /\ noWants \in [Wants -> Level]
BY DEF Add, Remove, Absorb, noWants, Level

\* The variables keep their ranges.
LEMMA TypesStep == Types /\ [Next]_vars => Types'
<1> SUFFICES ASSUME Types, [Next]_vars PROVE Types'
  OBVIOUS
<1> USE DEF Types
<1>1. ASSUME UNCHANGED <<asked, cancelKs, peerPending, peerSent, bcstPending, bcstSent, cancels, snap>>,
             outgoingWork' \in Age, workScheduled' \in Age, timer' \in {"stopped", "armed", "fired"}
      PROVE  Types'
  BY <1>1
<1>2. CASE UNCHANGED vars
  BY <1>1, <1>2 DEF vars, clientVars, listVars, loopVars
<1>3. ASSUME NEW ws \in SUBSET Wants, AddBroadcastWantHaves(ws) PROVE Types'
  BY <1>3 DEF AddBroadcastWantHaves, AskBroadcast, signalWorkReady, loopVars, Age
<1>4. ASSUME NEW blocks \in SUBSET Wants, NEW haves \in SUBSET Wants, AddWants(blocks, haves) PROVE Types'
  <2>1. \A l \in [Wants -> Level] : Add(Add(l, haves, "have"), blocks, "block") \in [Wants -> Level]
    BY DEF Add, Level
  <2>2. asked' \in [Wants -> Level] /\ peerPending' \in [Wants -> Level]
    BY <1>4, <2>1 DEF AddWants, AskWants
  <2>. QED  BY <1>4, <2>2 DEF AddWants, AskWants, signalWorkReady, loopVars, Age
<1>5. ASSUME NEW ks \in SUBSET Wants, AddCancelsTimers(ks) PROVE Types'
  BY <1>5 DEF AddCancelsTimers, listVars, loopVars
<1>6. CASE AddCancelsLocked
  <2>1. asked' \in [Wants -> Level]
    BY <1>6, ListTypes DEF AddCancelsLocked, TakeBack, Level
  <2>2. peerPending' \in [Wants -> Level]
    BY <1>6, ListTypes DEF AddCancelsLocked, Level
  <2>3. peerSent' \in [Wants -> Level]
    BY <1>6, ListTypes DEF AddCancelsLocked, Level
  <2>. QED  BY <1>6, <2>1, <2>2, <2>3 DEF AddCancelsLocked, loopVars, envVars
<1>7. CASE AddCancelsSignal
  BY <1>1, <1>7 DEF AddCancelsSignal, signalWorkReady, listVars, loopVars, Age
<1>8. CASE Shutdown \/ \E ks \in SUBSET Wants : ResponseReceived(ks)
  BY <1>1, <1>8 DEF Shutdown, ResponseReceived, clientVars, listVars, loopVars
<1>9. CASE rebroadcastWantlist
  <2>1. peerPending' \in [Wants -> Level]
    BY <1>9, ListTypes DEF rebroadcastWantlist, Level
  <2>. QED  BY <1>9, <2>1 DEF rebroadcastWantlist, clientVars
<1>10. CASE takeWork
  BY <1>1, <1>10 DEF takeWork, clientVars, listVars, Age
<1>11. CASE scheduledWork \/ handleResponse \/ timerFires
  BY <1>1, <1>11 DEF scheduledWork, handleResponse, timerFires, clientVars, listVars, Age
<1>12. CASE timePasses
  BY <1>1, <1>12 DEF timePasses, Older, clientVars, listVars, Age
<1>13. ASSUME NEW w \in Wants, dontHaveTimeout(w) PROVE Types'
  BY <1>1, <1>13 DEF dontHaveTimeout, clientVars, listVars, loopVars
<1>14. CASE sendIfReady \/ sendFails \/ sendSucceeds \/ recordSent \/ exitLoop \/ onShutdown
  BY <1>1, <1>14 DEF sendIfReady, sendFails, sendSucceeds, recordSent, exitLoop, onShutdown, clientVars, listVars
<1>15. CASE addPending
  <2>1. snap'.peer \in [Wants -> Level]
    BY <1>15 DEF addPending, noEntries, noWants, Level
  <2>. QED  BY <1>15, <2>1 DEF addPending, signalWorkReady, clientVars, listVars, Age
<1>16. CASE extractOutgoingMessage
  <2>1. peerPending' \in [Wants -> Level] /\ peerSent' \in [Wants -> Level]
    BY <1>16 DEF extractOutgoingMessage, Remove, Level
  <2>2. snap'.peer \in [Wants -> Level]
    <3>1. PICK c, p, b :
             snap' = [cancels |-> c, bcst |-> b,
                      peer |-> [w \in Wants |-> IF w \in p THEN peerPending'[w] ELSE "none"]]
      BY <1>16, ZenonT(30) DEF extractOutgoingMessage
    <3>2. [w \in Wants |-> IF w \in p THEN peerPending'[w] ELSE "none"] \in [Wants -> Level]
      BY <2>1 DEF Level
    <3>. QED  BY <3>1, <3>2
  <2>. QED  BY <1>16, <2>1, <2>2 DEF extractOutgoingMessage, clientVars
<1>17. CASE finish
  <2> DEFINE changedPeer == {w \in In(snap.peer) : ~Removable(peerPending[w], snap.peer[w])}
             sentPeer == Remove(snap.peer, changedPeer)
  <2>1. sentPeer \in [Wants -> Level]
    BY DEF Remove, Level
  <2>2. /\ peerPending' \in [Wants -> Level] /\ peerSent' \in [Wants -> Level]
        /\ snap'.peer \in [Wants -> Level]
    <3>1. peerPending' = Remove(peerPending, In(sentPeer)) /\ peerSent' = Absorb(peerSent, sentPeer)
      BY <1>17 DEF finish
    <3>2. snap'.peer = noWants \/ snap'.peer = sentPeer
      BY <1>17, SMT DEF finish, noEntries
    <3> HIDE DEF sentPeer
    <3>. QED  BY <2>1, <3>1, <3>2 DEF Remove, Absorb, noWants, Level
  <2>3. bcstPending' \subseteq Wants /\ bcstSent' \subseteq Wants /\ cancels' \subseteq Wants
    BY <1>17 DEF finish
  <2>. QED  BY <1>17, <2>2, <2>3 DEF finish, clientVars
<1>. QED  BY <1>2, <1>3, <1>4, <1>5, <1>6, <1>7, <1>8, <1>9, <1>10, <1>11, <1>12, <1>13, <1>14,
             <1>15, <1>16, <1>17 DEF Next, Client, Loop

-----------------------------------------------------------------------------
\* The timer is armed, stopped and read together with the schedule.
LEMMA TimerStep == Types /\ TimerInv /\ [Next]_vars => TimerInv'
<1> SUFFICES ASSUME Types, TimerInv, [Next]_vars PROVE TimerInv'
  OBVIOUS
<1> USE DEF TimerInv
<1>1. ASSUME UNCHANGED <<workScheduled, timer>>, pc' # "blocked" PROVE TimerInv'
  BY <1>1
<1>2. CASE UNCHANGED vars
  BY <1>2 DEF vars, loopVars
<1>3. CASE \/ \E ws \in SUBSET Wants : AddBroadcastWantHaves(ws) \/ AddCancelsTimers(ws) \/ ResponseReceived(ws)
           \/ \E blocks \in SUBSET Wants, haves \in SUBSET Wants : AddWants(blocks, haves)
           \/ AddCancelsLocked \/ AddCancelsSignal \/ Shutdown
           \/ \E w \in Wants : dontHaveTimeout(w)
  BY <1>3 DEF AddBroadcastWantHaves, AddCancelsTimers, ResponseReceived, AddWants, AddCancelsLocked,
              AddCancelsSignal, Shutdown, dontHaveTimeout, loopVars
<1>4. CASE rebroadcastWantlist \/ handleResponse \/ sendIfReady \/ sendFails \/ sendSucceeds
           \/ recordSent \/ exitLoop \/ onShutdown \/ addPending
  BY <1>1, <1>4 DEF rebroadcastWantlist, handleResponse, sendIfReady, sendFails, sendSucceeds,
                    recordSent, exitLoop, onShutdown, addPending, LoopTop
<1>5. CASE extractOutgoingMessage
  BY <1>1, <1>5 DEF extractOutgoingMessage
<1>6. CASE finish
  BY <1>1, <1>6 DEF finish, LoopTop
<1>7. CASE takeWork
  BY <1>7 DEF takeWork, LoopTop
<1>8. CASE scheduledWork \/ timerFires
  BY <1>8 DEF scheduledWork, timerFires
<1>9. CASE timePasses
  BY <1>9 DEF timePasses, Older
<1>. QED  BY <1>2, <1>3, <1>4, <1>5, <1>6, <1>7, <1>8, <1>9 DEF Next, Client, Loop

-----------------------------------------------------------------------------
\* What finish does to one targeted want: an entry leaves the pending list for
\* the list of what was sent, or stays.
LEMMA FinishFacts ==
    ASSUME Types, finish
    PROVE  \A w \in Wants :
              \/ peerPending'[w] = peerPending[w] /\ peerSent'[w] = peerSent[w]
              \/ /\ peerPending[w] # "none" /\ peerPending'[w] = "none"
                 /\ peerSent'[w] # "none"
                 /\ peerPending[w] = "block" \/ peerSent[w] = "block" => peerSent'[w] = "block"
<1> DEFINE changedPeer == {w \in In(snap.peer) : ~Removable(peerPending[w], snap.peer[w])}
           sentPeer == Remove(snap.peer, changedPeer)
<1>1. peerPending' = Remove(peerPending, In(sentPeer)) /\ peerSent' = Absorb(peerSent, sentPeer)
  BY DEF finish
<1>2. \A w \in Wants : sentPeer[w] =
         IF snap.peer[w] # "none" /\ Removable(peerPending[w], snap.peer[w]) THEN snap.peer[w] ELSE "none"
  BY DEF Remove, In
<1> HIDE DEF sentPeer
<1>3. \A w \in Wants :
         /\ peerPending'[w] = IF sentPeer[w] # "none" THEN "none" ELSE peerPending[w]
         /\ peerSent'[w] = IF peerSent[w] = "none" \/ (peerSent[w] = "have" /\ sentPeer[w] = "block")
                           THEN sentPeer[w] ELSE peerSent[w]
  BY <1>1 DEF Remove, Absorb, In
<1>. QED  BY <1>2, <1>3, SMT DEF Removable, Types, Level

\* What extractOutgoingMessage does to one targeted want.
LEMMA ExtractFacts ==
    ASSUME Types, extractOutgoingMessage
    PROVE  \A w \in Wants :
              \/ peerPending'[w] = peerPending[w] /\ peerSent'[w] = peerSent[w]
              \/ /\ ~supportsHave /\ peerPending[w] = "have" /\ peerPending'[w] = "none"
                 /\ IF peerSent[w] = "block" THEN peerSent'[w] = "block" ELSE peerSent'[w] = "none"
<1>1. \A w \in Wants :
         LET d == ~supportsHave /\ peerPending[w] = "have"
         IN  /\ peerPending'[w] = IF d THEN "none" ELSE peerPending[w]
             /\ peerSent'[w] = IF d /\ Removable(peerSent[w], "have") THEN "none" ELSE peerSent[w]
  BY DEF extractOutgoingMessage, Remove
<1>. QED  BY <1>1 DEF Removable, Types, Level

\* Wants are taken out of the cancels when they are asked for, and what becomes
\* a cancel is no longer wanted.
LEMMA CancelsStep == Types /\ CancelsNotWanted /\ [Next]_vars => CancelsNotWanted'
<1> SUFFICES ASSUME Types, CancelsNotWanted, [Next]_vars PROVE CancelsNotWanted'
  OBVIOUS
<1> USE DEF CancelsNotWanted, In
<1>1. CASE UNCHANGED <<peerPending, peerSent, bcstPending, bcstSent, cancels>>
  BY <1>1
<1>2. ASSUME NEW ws \in SUBSET Wants, AddBroadcastWantHaves(ws) PROVE CancelsNotWanted'
  BY <1>2 DEF AddBroadcastWantHaves
<1>3. ASSUME NEW blocks \in SUBSET Wants, NEW haves \in SUBSET Wants, AddWants(blocks, haves)
      PROVE  CancelsNotWanted'
  <2>1. \A w \in Wants : w \in blocks \cup haves \/ peerPending'[w] = peerPending[w]
    BY <1>3 DEF AddWants, Add
  <2>. QED  BY <1>3, <2>1 DEF AddWants
<1>4. CASE AddCancelsLocked
  BY <1>4 DEF AddCancelsLocked, Remove, Types
<1>5. CASE rebroadcastWantlist
  <2>1. \A w \in Wants : peerPending'[w] # "none" => peerPending[w] # "none" \/ peerSent[w] # "none"
    BY <1>5 DEF rebroadcastWantlist, Absorb
  <2>. QED  BY <1>5, <2>1 DEF rebroadcastWantlist
<1>6. CASE extractOutgoingMessage
  <2>1. UNCHANGED <<bcstPending, bcstSent, cancels>>
    BY <1>6 DEF extractOutgoingMessage
  <2>2. \A w \in Wants : (peerPending'[w] # "none" => peerPending[w] # "none")
                         /\ (peerSent'[w] # "none" => peerSent[w] # "none")
    BY <1>6, ExtractFacts
  <2>. QED  BY <2>1, <2>2
<1>7. CASE finish
  <2>1. /\ bcstPending' \subseteq bcstPending /\ bcstSent' \subseteq bcstSent \cup bcstPending
        /\ cancels' \subseteq cancels
    BY <1>7 DEF finish
  <2>2. \A w \in Wants : peerPending'[w] # "none" \/ peerSent'[w] # "none"
                         => peerPending[w] # "none" \/ peerSent[w] # "none"
    BY <1>7, FinishFacts
  <2>. QED  BY <2>1, <2>2
<1>8. ASSUME NEW ks, AddCancelsTimers(ks) \/ ResponseReceived(ks) \/ dontHaveTimeout(ks)
      PROVE  CancelsNotWanted'
  BY <1>1, <1>8 DEF AddCancelsTimers, ResponseReceived, dontHaveTimeout, listVars
<1>9. CASE AddCancelsSignal \/ Shutdown \/ takeWork \/ scheduledWork \/ timerFires \/ timePasses
           \/ UNCHANGED vars
  BY <1>1, <1>9 DEF AddCancelsSignal, Shutdown, takeWork, scheduledWork, timerFires, timePasses, vars, listVars
<1>10. CASE handleResponse \/ sendIfReady \/ sendFails \/ sendSucceeds \/ recordSent \/ exitLoop
            \/ onShutdown \/ addPending
  BY <1>1, <1>10 DEF handleResponse, sendIfReady, sendFails, sendSucceeds, recordSent, exitLoop,
                     onShutdown, addPending, listVars
<1>. QED  BY <1>2, <1>3, <1>4, <1>5, <1>6, <1>7, <1>8, <1>9, <1>10 DEF Next, Client, Loop

-----------------------------------------------------------------------------
\* Times are recorded for sent wants, and go with them.
LEMMA SendTimesStep == Types /\ SendTimesOfSentWants /\ [Next]_vars => SendTimesOfSentWants'
<1> SUFFICES ASSUME Types, SendTimesOfSentWants, [Next]_vars PROVE SendTimesOfSentWants'
  OBVIOUS
<1> USE DEF SendTimesOfSentWants, In
<1>1. CASE UNCHANGED <<peerSent, peerSentAt, bcstSent, bcstSentAt>>
  BY <1>1
<1>2. CASE AddCancelsLocked
  BY <1>2 DEF AddCancelsLocked, Remove
<1>3. CASE handleResponse
  BY <1>3 DEF handleResponse
<1>4. CASE extractOutgoingMessage
  <2>1. /\ UNCHANGED <<bcstSent, bcstSentAt>>
        /\ peerSentAt' = peerSentAt \ {w \in IF supportsHave THEN {} ELSE {v \in Wants : peerPending[v] = "have"} :
                                          peerSent'[w] = "none"}
    BY <1>4 DEF extractOutgoingMessage
  <2>. QED  BY <1>4, <2>1, ExtractFacts
<1>5. CASE finish
  <2>1. bcstSent \subseteq bcstSent' /\ UNCHANGED <<bcstSentAt, peerSentAt>>
    BY <1>5 DEF finish
  <2>. QED  BY <1>5, <2>1, FinishFacts
<1>6. CASE recordSent
  BY <1>6 DEF recordSent
<1>7. ASSUME NEW ks, NEW bs, \/ AddBroadcastWantHaves(ks) \/ AddWants(bs, ks) \/ AddCancelsTimers(ks)
                             \/ ResponseReceived(ks) \/ dontHaveTimeout(ks)
      PROVE  SendTimesOfSentWants'
  BY <1>1, <1>7 DEF AddBroadcastWantHaves, AddWants, AddCancelsTimers, ResponseReceived,
                    dontHaveTimeout, listVars
<1>8. CASE AddCancelsSignal \/ Shutdown \/ takeWork \/ scheduledWork \/ timerFires \/ timePasses
           \/ UNCHANGED vars
  BY <1>1, <1>8 DEF AddCancelsSignal, Shutdown, takeWork, scheduledWork, timerFires, timePasses, vars, listVars
<1>9. CASE rebroadcastWantlist \/ sendIfReady \/ sendFails \/ sendSucceeds \/ exitLoop \/ onShutdown
           \/ addPending
  BY <1>1, <1>9 DEF rebroadcastWantlist, sendIfReady, sendFails, sendSucceeds, exitLoop, onShutdown,
                    addPending, listVars
<1>. QED  BY <1>2, <1>3, <1>4, <1>5, <1>6, <1>7, <1>8, <1>9 DEF Next, Client, Loop

-----------------------------------------------------------------------------
\* What is asked for stays in one of the lists.
LEMMA TracksStep == Types /\ Tracks /\ [Next]_vars => Tracks'
<1> SUFFICES ASSUME Types, Tracks, [Next]_vars PROVE Tracks'
  OBVIOUS
<1> USE DEF Tracks
<1>1. CASE UNCHANGED <<asked, askedBcst, peerPending, peerSent, bcstPending, bcstSent, supportsHave>>
  BY <1>1
<1>2. ASSUME NEW ws \in SUBSET Wants, AddBroadcastWantHaves(ws) PROVE Tracks'
  BY <1>2 DEF AddBroadcastWantHaves, AskBroadcast, envVars
<1>3. ASSUME NEW blocks \in SUBSET Wants, NEW haves \in SUBSET Wants, AddWants(blocks, haves)
      PROVE  Tracks'
  <2>1. \A w \in haves : asked[w] = "none" /\ w \notin blocks
    BY <1>3 DEF AddWants, AskWants, MayAsk, AskedAny, In
  <2>2. \A l \in [Wants -> Level] : \A w \in Wants :
           Add(Add(l, haves, "have"), blocks, "block")[w] =
              IF w \in blocks THEN "block" ELSE IF w \in haves /\ l[w] = "none" THEN "have" ELSE l[w]
    BY <2>1 DEF Add, Level
  <2>3. \A w \in Wants :
           /\ asked'[w] = IF w \in blocks THEN "block" ELSE IF w \in haves THEN "have" ELSE asked[w]
           /\ peerPending'[w] = IF w \in blocks THEN "block" ELSE IF w \in haves THEN "have" ELSE peerPending[w]
    BY <1>3, <2>1, <2>2, SMT DEF AddWants, AskWants, Types
  <2>. QED  BY <1>3, <2>3 DEF AddWants, AskWants, envVars
<1>4. CASE AddCancelsLocked
  BY <1>4 DEF AddCancelsLocked, TakeBack, Remove, envVars
<1>5. CASE rebroadcastWantlist
  <2>1. \A w \in Wants : peerPending'[w] =
           IF peerPending[w] = "none" \/ (peerPending[w] = "have" /\ peerSent[w] = "block")
           THEN peerSent[w] ELSE peerPending[w]
    BY <1>5 DEF rebroadcastWantlist, Absorb
  <2>. QED  BY <1>5, <2>1 DEF rebroadcastWantlist, clientVars, envVars
<1>6. CASE extractOutgoingMessage
  <2>1. UNCHANGED <<asked, askedBcst, bcstPending, bcstSent, supportsHave>>
    BY <1>6 DEF extractOutgoingMessage, clientVars, envVars
  <2>. QED  BY <1>6, <2>1, ExtractFacts
<1>7. CASE finish
  <2>1. UNCHANGED <<asked, askedBcst, supportsHave>> /\ bcstPending' \cup bcstSent' = bcstPending \cup bcstSent
    BY <1>7 DEF finish, clientVars, envVars
  <2>. QED  BY <1>7, <2>1, FinishFacts
<1>8. ASSUME NEW ks, AddCancelsTimers(ks) \/ ResponseReceived(ks) \/ dontHaveTimeout(ks)
      PROVE  Tracks'
  BY <1>1, <1>8 DEF AddCancelsTimers, ResponseReceived, dontHaveTimeout, listVars, clientVars
<1>9. CASE AddCancelsSignal \/ Shutdown \/ takeWork \/ scheduledWork \/ timerFires \/ timePasses
           \/ UNCHANGED vars
  BY <1>1, <1>9 DEF AddCancelsSignal, Shutdown, takeWork, scheduledWork, timerFires, timePasses, vars,
                    listVars, clientVars, envVars
<1>10. CASE handleResponse \/ sendIfReady \/ sendFails \/ sendSucceeds \/ recordSent \/ exitLoop
            \/ onShutdown \/ addPending
  BY <1>1, <1>10 DEF handleResponse, sendIfReady, sendFails, sendSucceeds, recordSent, exitLoop,
                     onShutdown, addPending, listVars, clientVars, envVars
<1>. QED  BY <1>2, <1>3, <1>4, <1>5, <1>6, <1>7, <1>8, <1>9, <1>10 DEF Next, Client, Loop

-----------------------------------------------------------------------------
\* If messages hold all the pending work, every step leaves a wakeup for what it
\* leaves to be done.
LEMMA WakeupStep ==
    ASSUME ~CanSplit, Types, Types', TimerInv, Wakeup, [Next]_vars
    PROVE  Wakeup'
<1> USE DEF Wakeup
<1>1. ASSUME UNCHANGED <<listVars, snap, pc, outgoingWork, timer, ctxOpen>>, client # "signal"
                  \/ UNCHANGED client
      PROVE  Wakeup'
  BY <1>1 DEF Woken, SomePending, SomeLater, In, listVars, Removable
<1>2. CASE Woken'
  BY <1>2
<1>3. CASE ctxOpen' = FALSE \/ pc' \notin {"select", "finish"}
  BY <1>3
<1>4. ASSUME NEW ks, NEW bs, AddBroadcastWantHaves(ks) \/ AddWants(bs, ks) PROVE Wakeup'
  BY <1>2, <1>4 DEF AddBroadcastWantHaves, AddWants, signalWorkReady, Woken
<1>5. ASSUME NEW ks, AddCancelsTimers(ks) \/ ResponseReceived(ks) \/ dontHaveTimeout(ks) PROVE Wakeup'
  BY <1>1, <1>5 DEF AddCancelsTimers, ResponseReceived, dontHaveTimeout, clientVars, listVars, loopVars
<1>6. CASE AddCancelsLocked
  <2>1. CASE client' = "signal"
    BY <1>2, <2>1 DEF Woken
  <2>2. CASE client' # "signal"
    <3>1. /\ UNCHANGED <<cancels, snap, pc, outgoingWork, timer, ctxOpen>> /\ client = "cancel"
          /\ bcstPending' \subseteq bcstPending
          /\ \A w \in Wants : peerPending'[w] = peerPending[w] \/ peerPending'[w] = "none"
      BY <1>6, <2>2 DEF AddCancelsLocked, Remove, loopVars, envVars
    <3>2. (SomePending' => SomePending) /\ (SomeLater' => SomeLater)
      BY <3>1 DEF SomePending, SomeLater, In, Removable
    <3>. QED  BY <3>1, <3>2 DEF Woken
  <2>. QED  BY <2>1, <2>2
<1>7. CASE AddCancelsSignal
  BY <1>2, <1>7 DEF AddCancelsSignal, signalWorkReady, Woken
<1>8. CASE Shutdown \/ sendFails \/ rebroadcastWantlist \/ scheduledWork \/ onShutdown \/ exitLoop
           \/ sendSucceeds \/ recordSent
  BY <1>3, <1>8 DEF Shutdown, sendFails, rebroadcastWantlist, scheduledWork, onShutdown, exitLoop,
                    sendSucceeds, recordSent
<1>9. CASE takeWork
  BY <1>2, <1>3, <1>9 DEF takeWork, Woken, LoopTop
<1>10. CASE handleResponse
  <2>1. /\ UNCHANGED <<peerPending, bcstPending, cancels, outgoingWork, timer, client, ctxOpen>>
        /\ pc = "select" /\ pc' # "finish"
    BY <1>10 DEF handleResponse, clientVars, LoopTop
  <2>. QED  BY <2>1 DEF Woken, SomePending, In
<1>11. CASE sendIfReady
  <2>1. UNCHANGED <<peerPending, bcstPending, cancels>> /\ pc' # "finish"
    BY <1>11 DEF sendIfReady, listVars, LoopTop
  <2>2. pc' = "select" => ~SomePending
    BY <1>11, PendingWork DEF sendIfReady
  <2>. QED  BY <2>1, <2>2 DEF SomePending, In
<1>12. CASE extractOutgoingMessage
  <2>1. /\ pc' = "finish" /\ UNCHANGED <<cancels, bcstPending>>
        /\ peerPending' = Remove(peerPending, IF supportsHave THEN {} ELSE {w \in Wants : peerPending[w] = "have"})
    BY <1>12 DEF extractOutgoingMessage
  <2>2. snap' = [cancels |-> cancels, bcst |-> bcstPending,
                 peer |-> [w \in Wants |-> IF w \in In(peerPending') THEN peerPending'[w] ELSE "none"]]
    BY <1>12, <2>1 DEF extractOutgoingMessage, Fits
  <2>3. /\ snap'.cancels = cancels /\ snap'.bcst = bcstPending
        /\ \A w \in Wants : snap'.peer[w] = IF w \in In(peerPending') THEN peerPending'[w] ELSE "none"
    BY <2>2
  <2>4. \A w \in Wants : peerPending'[w] # "none" =>
           snap'.peer[w] = peerPending'[w] /\ Removable(peerPending'[w], snap'.peer[w])
    BY <2>3 DEF Removable, In
  <2>5. ~SomeLater'
    BY <2>1, <2>3, <2>4 DEF SomeLater, Removable
  <2>. QED  BY <2>1, <2>5
<1>13. CASE finish
  <2>1. CASE pc' = "select"
    <3>1. /\ cancels' = cancels \ snap.cancels /\ bcstPending' = bcstPending \ snap.bcst
          /\ UNCHANGED <<outgoingWork, timer, client, ctxOpen>> /\ pc = "finish"
      BY <1>13 DEF finish, clientVars, envVars
    <3>2. peerPending' = Remove(peerPending, In(Remove(snap.peer,
             {w \in In(snap.peer) : ~Removable(peerPending[w], snap.peer[w])})))
      BY <1>13 DEF finish
    <3>3. \A w \in Wants : peerPending'[w] # "none" =>
             /\ peerPending[w] # "none"
             /\ snap.peer[w] = "none" \/ ~Removable(peerPending[w], snap.peer[w])
      BY <3>2 DEF Remove, In
    <3>4. SomePending' => SomeLater
      BY <3>1, <3>3 DEF SomePending, SomeLater, In
    <3>. QED  BY <2>1, <3>1, <3>4 DEF Woken
  <2>2. CASE pc' # "select"
    BY <1>13, <2>2 DEF finish, LoopTop
  <2>. QED  BY <2>1, <2>2
<1>14. CASE addPending
  <2>1. UNCHANGED <<peerPending, bcstPending, cancels>> /\ pc' # "finish"
    BY <1>14 DEF addPending, listVars, LoopTop
  <2>2. SomePending => Woken'
    BY <1>14, PendingWork DEF addPending, signalWorkReady, Woken
  <2>. QED  BY <2>1, <2>2 DEF SomePending, In
<1>15. CASE timerFires
  BY <1>2, <1>15 DEF timerFires, Woken
<1>16. CASE timePasses
  <2>1. /\ UNCHANGED <<listVars, snap, pc, client, timer, ctxOpen>>
        /\ outgoingWork' = "none" <=> outgoingWork = "none"
    BY <1>16 DEF timePasses, Older, clientVars, envVars
  <2>. QED  BY <2>1 DEF Woken, SomePending, SomeLater, In, listVars, Removable
<1>17. CASE UNCHANGED vars
  BY <1>1, <1>17 DEF vars, clientVars, listVars, loopVars, envVars
<1>. QED  BY <1>4, <1>5, <1>6, <1>7, <1>8, <1>9, <1>10, <1>11, <1>12, <1>13, <1>14, <1>15, <1>16,
             <1>17 DEF Next, Client, Loop

\* Whatever the size of messages, a step that leaves work without a wakeup is
\* the early return for an empty message.
LEMMA StrandStep ==
    ASSUME Types, Types', [Next]_vars, Stranded'
    PROVE  Stranded \/ (finish /\ msg' = noWants)
<1>1. /\ ctxOpen' /\ pc' = "select" /\ client' # "signal" /\ SomePending'
      /\ outgoingWork' = "none" /\ timer' = "stopped"
  <2>1. hasPendingWork' => SomePending'
    BY PendingWork, PTL
  <2>. QED  BY <2>1 DEF Stranded
<1>2. ASSUME pc = "select", ctxOpen, client # "signal", SomePending,
             UNCHANGED <<outgoingWork, timer>>
      PROVE  Stranded
  BY <1>1, <1>2, PendingWork DEF Stranded
<1>3. ASSUME UNCHANGED <<peerPending, bcstPending, cancels, pc, outgoingWork, timer, ctxOpen>>,
             client # "signal"
      PROVE  Stranded
  BY <1>1, <1>2, <1>3 DEF SomePending, In
<1>4. ASSUME NEW ks, NEW bs, AddBroadcastWantHaves(ks) \/ AddWants(bs, ks) PROVE FALSE
  BY <1>1, <1>4 DEF AddBroadcastWantHaves, AddWants, signalWorkReady
<1>5. ASSUME NEW ks, AddCancelsTimers(ks) \/ ResponseReceived(ks) \/ dontHaveTimeout(ks)
      PROVE  Stranded
  BY <1>1, <1>3, <1>5 DEF AddCancelsTimers, ResponseReceived, dontHaveTimeout, clientVars, listVars,
                          loopVars
<1>6. CASE AddCancelsLocked
  <2>1. /\ UNCHANGED <<cancels, pc, outgoingWork, timer, ctxOpen>> /\ client = "cancel"
        /\ bcstPending' \subseteq bcstPending
        /\ \A w \in Wants : peerPending'[w] = peerPending[w] \/ peerPending'[w] = "none"
    BY <1>1, <1>6 DEF AddCancelsLocked, Remove, loopVars, envVars
  <2>2. SomePending
    BY <1>1, <2>1 DEF SomePending, In
  <2>. QED  BY <1>1, <1>2, <2>1, <2>2
<1>7. CASE AddCancelsSignal
  BY <1>1, <1>7 DEF AddCancelsSignal, signalWorkReady
<1>8. CASE sendFails \/ rebroadcastWantlist \/ scheduledWork \/ onShutdown \/ exitLoop
           \/ sendSucceeds \/ recordSent \/ extractOutgoingMessage \/ Shutdown
  BY <1>1, <1>8 DEF sendFails, rebroadcastWantlist, scheduledWork, onShutdown, exitLoop,
                    sendSucceeds, recordSent, extractOutgoingMessage, Shutdown
<1>9. CASE takeWork
  BY <1>1, <1>9 DEF takeWork, LoopTop
<1>10. CASE handleResponse
  <2>1. /\ UNCHANGED <<peerPending, bcstPending, cancels, outgoingWork, timer, client, ctxOpen>>
        /\ pc = "select"
    BY <1>10 DEF handleResponse, clientVars
  <2>. QED  BY <1>1, <1>3, <2>1
<1>11. CASE sendIfReady
  <2>1. ~SomePending /\ UNCHANGED <<peerPending, bcstPending, cancels>>
    BY <1>1, <1>11, PendingWork DEF sendIfReady, listVars
  <2>. QED  BY <1>1, <2>1 DEF SomePending, In
<1>12. CASE finish
  BY <1>1, <1>12 DEF finish
<1>13. CASE addPending
  <2>1. SomePending
    BY <1>1, <1>13 DEF addPending, listVars, SomePending, In
  <2>. QED  BY <1>1, <1>13, <2>1, PendingWork DEF addPending, signalWorkReady
<1>14. CASE timerFires
  BY <1>1, <1>14 DEF timerFires
<1>15. CASE timePasses
  <2>1. /\ UNCHANGED <<listVars, pc, client, timer, ctxOpen>>
        /\ outgoingWork' = "none" <=> outgoingWork = "none"
    BY <1>15 DEF timePasses, Older, clientVars, envVars
  <2>. QED  BY <1>1, <1>3, <2>1 DEF listVars
<1>16. CASE UNCHANGED vars
  BY <1>1, <1>3, <1>16 DEF vars, clientVars, listVars, loopVars, envVars
<1>. QED  BY <1>4, <1>5, <1>6, <1>7, <1>8, <1>9, <1>10, <1>11, <1>12, <1>13, <1>14, <1>15, <1>16
          DEF Next, Client, Loop

-----------------------------------------------------------------------------
MQInv ==
    /\ Types /\ TimerInv /\ CancelsNotWanted /\ SendTimesOfSentWants /\ Tracks
    /\ ~CanSplit => Wakeup

\* A new queue is empty.
LEMMA InitMQInv == Init => MQInv
<1> SUFFICES ASSUME Init PROVE MQInv
  OBVIOUS
<1>1. Types
  BY DEF Init, Types, noWants, noEntries, Level, Age
<1>2. In(peerPending) = {} /\ In(peerSent) = {}
  BY DEF Init, In, noWants
<1>3. TimerInv /\ CancelsNotWanted /\ SendTimesOfSentWants
  BY <1>2 DEF Init, TimerInv, CancelsNotWanted, SendTimesOfSentWants
<1>4. Tracks
  BY DEF Init, Tracks, noWants
<1>5. Wakeup
  BY <1>2 DEF Init, Wakeup, SomePending
<1>. QED  BY <1>1, <1>3, <1>4, <1>5 DEF MQInv

\* The invariant holds in every reachable state.
THEOREM QueueInvariant == Spec => []MQInv
<1>1. MQInv /\ [Next]_vars => MQInv'
  BY TypesStep, TimerStep, CancelsStep, SendTimesStep, TracksStep, WakeupStep DEF MQInv
<1>. QED  BY <1>1, InitMQInv, PTL DEF Spec

\* No key is both wanted and to be cancelled, in whatever order the client calls
\* and the loop sends.
THEOREM CancelsNotWantedCorrect == Spec => []CancelsNotWanted
<1>1. MQInv => CancelsNotWanted
  BY DEF MQInv
<1>. QED  BY <1>1, QueueInvariant, PTL

\* The queue tracks what was asked of it, for any wants and sizes of messages.
THEOREM TracksWhatWasAskedCorrect == Spec => []TracksWhatWasAsked
<1>1. ASSUME MQInv PROVE TracksWhatWasAsked
  <2>1. \A w \in Wants : asked[w] \in {"none", "have", "block"}
    BY <1>1 DEF MQInv, Types, Level
  <2>. QED  BY <1>1, <2>1 DEF MQInv, Tracks, TracksWhatWasAsked
<1>. QED  BY <1>1, QueueInvariant, PTL

\* Draining the debounce timer never blocks the loop.
THEOREM TimerMatchesScheduleCorrect == Spec => []TimerMatchesSchedule
<1>1. MQInv => TimerMatchesSchedule
  BY DEF MQInv, TimerInv, TimerMatchesSchedule
<1>. QED  BY <1>1, QueueInvariant, PTL

\* Send times are kept for sent wants only.
THEOREM SendTimesCorrect == Spec => []SendTimesOfSentWants
<1>1. MQInv => SendTimesOfSentWants
  BY DEF MQInv
<1>. QED  BY <1>1, QueueInvariant, PTL

\* For any wants and sizes of messages, and whatever is asked for and cancelled
\* while a message is built, work loses its wakeup only where a message that did
\* not hold all of it is found empty.
THEOREM NoLostWakeupCorrect == Spec => NoLostWakeup
<1>1. ASSUME MQInv, MQInv', [Next]_vars, Stranded'
      PROVE  Stranded \/ (CanSplit /\ finish /\ msg' = noWants)
  <2>1. Stranded \/ (finish /\ msg' = noWants)
    BY <1>1, StrandStep DEF MQInv
  <2>2. ASSUME ~CanSplit PROVE FALSE
    <3>1. hasPendingWork' => SomePending'
      BY <1>1, PendingWork, PTL DEF MQInv
    <3>. QED  BY <1>1, <2>2, <3>1 DEF MQInv, Wakeup, Woken, Stranded
  <2>. QED  BY <2>1, <2>2, QueueAssumption
<1>2. ASSUME MQInv, MQInv', [Next]_vars
      PROVE  [Stranded' => Stranded \/ (CanSplit /\ finish /\ msg' = noWants)]_vars
  BY <1>1, <1>2
<1>. QED  BY <1>2, QueueInvariant, PTL DEF Spec, NoLostWakeup
=============================================================================

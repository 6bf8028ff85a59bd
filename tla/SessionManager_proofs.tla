------------------------ MODULE SessionManager_proofs -----------------------
(***************************************************************************)
(* AskedForSomeone and BlocksAreKept for every number of sessions, wants   *)
(* and handlers.  The first is inductive together with the ranges of sim,  *)
(* run and ks.  The second is about steps; it follows from an invariant    *)
(* that ties what a session tracks, here a set, to what is recorded as     *)
(* wanted; Session_proofs has the same tie for a session in detail.        *)
(***************************************************************************)
EXTENDS SessionManager, TLAPS

\* The prover of a step that names none.
USE Zenon

\* The ranges the argument needs.
Shape ==
    /\ sim \in [SessionIDs -> [Wants -> {"none", "interested", "wanted"}]]
    /\ run \in [SessionIDs -> {"none", "running", "removed", "cancelled", "exited"}]
    /\ ks \in [SessionIDs -> SUBSET Wants]
    /\ asked \subseteq Wants

\* Session s answers for want w at the peers: it is interested in it, or the
\* cancel is still to come.
Answers(s, w) == sim[s][w] # "none" \/ (run[s] = "removed" /\ w \in ks[s])

IInv == Shape /\ \A w \in asked : \E s \in SessionIDs : Answers(s, w)

\* A step after which nothing more is asked for, and in which nobody stops
\* answering for a want, keeps the invariant.
LEMMA Kept ==
    ASSUME IInv, Shape', asked' \subseteq asked,
           \A s \in SessionIDs, w \in Wants : Answers(s, w) => Answers(s, w)'
    PROVE  IInv'
BY DEF IInv, Shape

\* Steps that touch neither the interests, the ending of sessions nor the
\* peers keep it.
LEMMA Untouched ==
    ASSUME IInv, UNCHANGED <<sim, run, ks, asked>>
    PROVE  IInv'
BY DEF IInv, Shape, Answers

\* Every step keeps the invariant: a session that ends takes over, in ks,
\* exactly the wants that only it answered for, and cancels those.
LEMMA Inductive == IInv /\ [Next]_vars => IInv'
<1> SUFFICES ASSUME IInv, [Next]_vars PROVE IInv'
    OBVIOUS
<1>1. CASE UNCHANGED vars
    BY <1>1, Untouched DEF vars, sessionVars, pmVars
<1>2. CASE Shutdown
    BY <1>2, Untouched DEF Shutdown, pmVars
<1>3. ASSUME NEW s \in SessionIDs, NewSession(s) PROVE IInv'
    <2>1. Shape'
        BY <1>3 DEF IInv, Shape, NewSession, pmVars
    <2>2. \A t \in SessionIDs, w \in Wants : Answers(t, w) => Answers(t, w)'
        BY <1>3 DEF IInv, Shape, Answers, NewSession
    <2> QED BY <2>1, <2>2, <1>3, Kept DEF NewSession, pmVars
<1>4. ASSUME NEW s \in SessionIDs, registerSession(s) \/ sessionDone(s) PROVE IInv'
    BY <1>4, Untouched DEF registerSession, sessionDone, sessionVars, pmVars
<1>5. ASSUME NEW s \in SessionIDs, RemoveSession(s) PROVE IInv'
    <2>1. Shape'
        BY <1>5 DEF IInv, Shape, RemoveSession, deletedKs, pmVars
    <2>2. asked' = asked
        BY <1>5 DEF RemoveSession, pmVars
    <2>3. ASSUME NEW w \in asked PROVE \E t \in SessionIDs : Answers(t, w)'
        <3>1. w \in Wants
            BY DEF IInv, Shape
        <3>2. CASE \E t \in SessionIDs \ {s} : Answers(t, w)
            <4>1. PICK t \in SessionIDs \ {s} : Answers(t, w)
                BY <3>2
            <4>2. sim'[t] = sim[t] /\ run'[t] = run[t] /\ ks'[t] = ks[t]
                BY <1>5 DEF IInv, Shape, RemoveSession
            <4> QED BY <4>1, <4>2 DEF Answers
        <3>3. CASE \A t \in SessionIDs \ {s} : ~Answers(t, w)
            <4>1. Answers(s, w)
                BY <3>3 DEF IInv
            <4>2. InterestedSessions(w) = {s}
                BY <4>1, <3>3, <1>5 DEF Answers, InterestedSessions, RemoveSession
            <4>3. w \in ks'[s] /\ run'[s] = "removed"
                BY <4>2, <3>1, <1>5 DEF IInv, Shape, RemoveSession, deletedKs
            <4> QED BY <4>3 DEF Answers
        <3> QED BY <3>2, <3>3
    <2> QED BY <2>1, <2>2, <2>3 DEF IInv
<1>6. ASSUME NEW s \in SessionIDs, cancelWants(s) PROVE IInv'
    <2>1. Shape' /\ asked' = asked \ ks[s]
        BY <1>6 DEF IInv, Shape, cancelWants, SendCancels
    <2>2. ASSUME NEW w \in asked \ ks[s] PROVE \E t \in SessionIDs : Answers(t, w)'
        <3>1. PICK t \in SessionIDs : Answers(t, w)
            BY DEF IInv
        <3>2. sim' = sim
            BY <1>6 DEF cancelWants
        <3>3. CASE t = s
            BY <3>1, <3>2, <3>3 DEF Answers
        <3>4. CASE t # s
            <4>1. run'[t] = run[t] /\ ks'[t] = ks[t]
                BY <3>4, <1>6 DEF IInv, Shape, cancelWants
            <4> QED BY <3>1, <3>2, <4>1 DEF Answers
        <3> QED BY <3>3, <3>4
    <2> QED BY <2>1, <2>2 DEF IInv
<1>7. ASSUME NEW s \in SessionIDs, deleteSession(s) PROVE IInv'
    <2>1. Shape'
        BY <1>7 DEF IInv, Shape, deleteSession, pmVars
    <2>2. \A t \in SessionIDs, w \in Wants : Answers(t, w) => Answers(t, w)'
        BY <1>7 DEF IInv, Shape, Answers, deleteSession
    <2> QED BY <2>1, <2>2, <1>7, Kept DEF deleteSession, pmVars
<1>8. ASSUME NEW s \in SessionIDs, NEW w \in Wants, wantBlocks(s, w) PROVE IInv'
    <2>1. Shape'
        BY <1>8 DEF IInv, Shape, wantBlocks, RecordSessionInterest, pmVars
    <2>2. \A t \in SessionIDs, v \in Wants : Answers(t, v) => Answers(t, v)'
        BY <1>8 DEF IInv, Shape, Answers, wantBlocks, RecordSessionInterest
    <2> QED BY <2>1, <2>2, <1>8, Kept DEF wantBlocks, pmVars
<1>9. ASSUME NEW s \in SessionIDs, NEW w \in Wants, request(s, w) PROVE IInv'
    <2>1. Shape'
        BY <1>9 DEF IInv, Shape, request, Ask, sessionVars
    <2>2. sim[s][w] # "none" /\ asked' = asked \cup {w} /\ UNCHANGED <<sim, run, ks>>
        BY <1>9 DEF request, Ask, sessionVars
    <2> QED BY <2>1, <2>2 DEF IInv, Answers
<1>10. ASSUME NEW s \in SessionIDs, NEW w \in Wants, goLive(s, w) PROVE IInv'
    BY <1>10, Untouched DEF goLive, pmVars
<1>11. ASSUME NEW s \in SessionIDs, NEW w \in Wants, handleReceive(s, w) PROVE IInv'
    <2>1. UNCHANGED <<run, ks, asked>> /\ (RemoveSessionWants(s, w) \/ UNCHANGED sim)
        BY <1>11 DEF handleReceive, pmVars
    <2>2. CASE UNCHANGED sim
        BY <2>1, <2>2, Untouched
    <2>3. CASE RemoveSessionWants(s, w)
        <3>1. Shape'
            BY <2>1, <2>3 DEF IInv, Shape, RemoveSessionWants
        <3>2. \A t \in SessionIDs, v \in Wants : Answers(t, v) => Answers(t, v)'
            BY <2>1, <2>3 DEF IInv, Shape, Answers, RemoveSessionWants
        <3> QED BY <2>1, <3>1, <3>2, Kept
    <2> QED BY <2>1, <2>2, <2>3
<1>12. ASSUME NEW h \in Handlers, NEW w \in Wants, receiveBlock(h, w) \/ HasBlock(h, w)
       PROVE  IInv'
    BY <1>12, Untouched DEF receiveBlock, HasBlock, sessionVars, pmVars
<1>14. ASSUME NEW w \in Wants, deleteBlock(w) PROVE IInv'
    BY <1>14, Untouched DEF deleteBlock, sessionVars, pmVars
<1>13. ASSUME NEW h \in Handlers, Receive(h) PROVE IInv'
    <2>1. CASE ReceiveFrom(h) \/ (\E s \in SessionIDs : callSession(h, s)) \/ tellSession(h)
        BY <2>1, Untouched DEF ReceiveFrom, callSession, tellSession, sessionVars, pmVars
    <2>2. CASE cancelReceived(h)
        <3>1. UNCHANGED <<sim, run, ks>> /\ asked' \subseteq asked
            BY <2>2 DEF cancelReceived, SendCancels, sessionVars, pmVars
        <3> QED BY <3>1 DEF IInv, Shape, Answers
    <2> QED BY <1>13, <2>1, <2>2 DEF Receive
<1> QED
    BY <1>1, <1>2, <1>3, <1>4, <1>5, <1>6, <1>7, <1>8, <1>9, <1>10, <1>11, <1>12, <1>13, <1>14
    DEF Next, Ending

\* However sessions start, share wants, receive blocks and end, the peers are
\* never left with a want that no session answers for (RemoveSession of the
\* SessionManager and of the SessionInterestManager, SendCancels).
THEOREM AskedForSomeoneCorrect == Spec => []AskedForSomeone
<1>1. Init => IInv
    BY SMT DEF Init, IInv, Shape
<1>2. IInv => AskedForSomeone
    BY DEF IInv, Answers, AskedForSomeone
<1> QED
    BY <1>1, <1>2, Inductive, PTL DEF Spec

-----------------------------------------------------------------------------
\* What a session tracks, the SessionInterestManager records as wanted.
TInv ==
    /\ sim \in [SessionIDs -> [Wants -> {"none", "interested", "wanted"}]]
    /\ tracked \in [SessionIDs -> SUBSET Wants]
    /\ handler = [h \in Handlers |-> handler[h]]
    /\ \A s \in SessionIDs : \A w \in tracked[s] : sim[s][w] = "wanted"

\* Every step keeps TInv: a want is recorded before it is tracked, and what
\* is no longer tracked is the only thing that stops being wanted.
LEMMA TInductive == TInv /\ [Next]_vars => TInv'
<1> SUFFICES ASSUME TInv, [Next]_vars PROVE TInv'
    OBVIOUS
<1>1. CASE UNCHANGED <<sim, tracked, handler>>
    BY <1>1 DEF TInv
<1>2. CASE UNCHANGED vars \/ Shutdown \/ \E w \in Wants : deleteBlock(w)
    BY <1>1, <1>2 DEF vars, Shutdown, deleteBlock, sessionVars
<1>3. CASE \E s \in SessionIDs :
              NewSession(s) \/ registerSession(s) \/ sessionDone(s) \/ cancelWants(s) \/ deleteSession(s)
    BY <1>1, <1>3
    DEF NewSession, registerSession, sessionDone, cancelWants, deleteSession, sessionVars
<1>4. ASSUME NEW s \in SessionIDs, RemoveSession(s) PROVE TInv'
    BY <1>4 DEF TInv, RemoveSession
<1>5. ASSUME NEW s \in SessionIDs, NEW w \in Wants, wantBlocks(s, w) PROVE TInv'
    BY <1>5, SMT DEF TInv, wantBlocks, RecordSessionInterest
<1>6. ASSUME NEW s \in SessionIDs, NEW w \in Wants, request(s, w) \/ goLive(s, w) PROVE TInv'
    BY <1>1, <1>6 DEF request, goLive, sessionVars
<1>7. ASSUME NEW s \in SessionIDs, NEW w \in Wants, handleReceive(s, w) PROVE TInv'
    <2>1. /\ tracked' = [tracked EXCEPT ![s] = @ \ {w}] /\ UNCHANGED handler
          /\ RemoveSessionWants(s, w) \/ UNCHANGED sim
        BY <1>7 DEF handleReceive
    <2>2. CASE UNCHANGED sim
        BY <2>1, <2>2 DEF TInv
    <2>3. CASE RemoveSessionWants(s, w)
        BY <2>1, <2>3, SMT DEF TInv, RemoveSessionWants
    <2> QED BY <2>1, <2>2, <2>3
<1>8. ASSUME NEW h \in Handlers,
             Receive(h) \/ \E w \in Wants : receiveBlock(h, w) \/ HasBlock(h, w)
      PROVE  TInv'
    <2>1. UNCHANGED <<sim, tracked>>
        BY <1>8 DEF Receive, ReceiveFrom, callSession, tellSession, cancelReceived, receiveBlock,
                    HasBlock, sessionVars
    <2>2. handler' = [k \in Handlers |-> handler'[k]]
        BY <1>8 DEF TInv, Receive, ReceiveFrom, callSession, tellSession, cancelReceived,
                    receiveBlock, HasBlock
    <2> QED BY <2>1, <2>2 DEF TInv
<1> QED
    BY <1>2, <1>3, <1>4, <1>5, <1>6, <1>7, <1>8 DEF Next, Ending

\* The steps in which a block arrives.
LEMMA Arrivals ==
    ASSUME TInv, Next, NEW w \in Wants, Arrives(w)
    PROVE  \E h \in Handlers : receiveBlock(h, w) \/ HasBlock(h, w)
<1>1. PICK h \in Handlers :
        handler[h].pc = "idle" /\ handler'[h].pc = "split" /\ handler'[h].w = w
    BY DEF Arrives
<1>2. handler' # handler
    BY <1>1
<1>3. ~Shutdown /\ (\A v \in Wants : ~deleteBlock(v))
    BY <1>2 DEF Shutdown, deleteBlock
<1>4. ASSUME NEW s \in SessionIDs
      PROVE  ~(NewSession(s) \/ registerSession(s) \/ sessionDone(s) \/ Ending(s))
    BY <1>2 DEF NewSession, registerSession, sessionDone, Ending, RemoveSession, cancelWants,
                deleteSession
<1>5. ASSUME NEW s \in SessionIDs, NEW v \in Wants
      PROVE  ~(wantBlocks(s, v) \/ request(s, v) \/ goLive(s, v) \/ handleReceive(s, v))
    BY <1>2 DEF wantBlocks, request, goLive, handleReceive
<1>6. ASSUME NEW k \in Handlers PROVE ~Receive(k)
    <2>1. ~ReceiveFrom(k)
        BY <1>1 DEF TInv, ReceiveFrom
    <2>2. \A s \in SessionIDs : ~callSession(k, s)
        BY <1>1 DEF TInv, callSession
    <2>3. ~tellSession(k)
        BY <1>1 DEF TInv, tellSession
    <2>4. ~cancelReceived(k)
        BY <1>1 DEF TInv, cancelReceived
    <2> QED BY <2>1, <2>2, <2>3, <2>4 DEF Receive
<1>7. PICK k \in Handlers, v \in Wants : receiveBlock(k, v) \/ HasBlock(k, v)
    BY <1>3, <1>4, <1>5, <1>6 DEF Next
<1>8. k = h /\ v = w
    BY <1>1, <1>7, SMT DEF TInv, receiveBlock, HasBlock
<1> QED BY <1>7, <1>8

\* No block that a session waits for is thrown away on its arrival
\* (SplitWantedUnwanted, PutMany), for any sessions, wants and handlers.
THEOREM BlocksAreKeptCorrect == Spec => BlocksAreKept
<1>1. Init => TInv
    BY DEF Init, TInv
<1>2. TInv /\ [Next]_vars
        => [\A s \in SessionIDs : \A w \in tracked[s] : Arrives(w) => w \in store']_vars
    <2> SUFFICES ASSUME TInv, Next,
                        NEW s \in SessionIDs, NEW w \in tracked[s], Arrives(w)
                 PROVE  w \in store'
        OBVIOUS
    <2>1. w \in Wants /\ SplitWanted(w)
        BY DEF TInv, SplitWanted
    <2>2. PICK h \in Handlers : receiveBlock(h, w) \/ HasBlock(h, w)
        BY <2>1, Arrivals
    <2> QED BY <2>1, <2>2 DEF receiveBlock, HasBlock
<1> QED
    BY <1>1, <1>2, TInductive, PTL DEF Spec, BlocksAreKept
=============================================================================

--------------------- MODULE ProviderQueryManager_proofs ---------------------
(***************************************************************************)
(* For any numbers of requests, keys, providers and workers, and any size  *)
(* of the message channel: while the manager runs, its listeners listen,   *)
(* its queries are wanted and no listener misses a provider.               *)
(***************************************************************************)
EXTENDS ProviderQueryManager, TLAPS

\* The prover of a step that names none.
USE Zenon

ReqState == {"idle", "posted", "receiving", "flushing", "cancelling", "draining", "done"}
Msg == [kind : {"new", "received", "finished", "cancel"}, r : Requests, p : Providers \cup {None}]

\* The ranges of the requests' variables and of the run loop's.
LoopTypes ==
    /\ key \in [Requests -> Keys] /\ req \in [Requests -> ReqState]
    /\ query \in [Keys -> Requests \cup {None}] /\ live \subseteq Requests
    /\ listeners \in [Keys -> SUBSET Requests]
    /\ soFar \in [Keys -> SUBSET Providers] /\ got \in [Requests -> SUBSET Providers]
    /\ deliver \in Providers \cup {None} /\ deliverTo \subseteq Requests

\* The ranges of the workers' variables: what is dialled belongs to a job.
WorkTypes ==
    /\ buffer \in Seq(Requests) /\ job \in [Workers -> Requests \cup {None}]
    /\ dials \in [Workers -> SUBSET Providers] /\ searching \subseteq Workers
    /\ \A w \in Workers : w \in searching \/ dials[w] # {} => job[w] # None

\* A request is announced once, and waits for the run loop until then.
Mail ==
    /\ messages \in Seq(Msg)
    /\ \A i \in 1..Len(messages) :
          /\ messages[i].kind = "received" => messages[i].p # None
          /\ messages[i].kind = "new" =>
                /\ req[messages[i].r] = "posted"
                /\ \A j \in 1..Len(messages) :
                      messages[j].kind = "new" /\ messages[j].r = messages[i].r => j = i

\* A request without an answer has neither a channel that is closed nor one in
\* the map.
Fresh ==
    \A r \in Requests : req[r] \in {"idle", "posted"} =>
        r \notin closed /\ \A k \in Keys : r \notin listeners[k]

\* A query is named by a request for its key; a delivery is for somebody.
Named ==
    /\ \A k \in Keys : query[k] # None => key[query[k]] = k
    /\ deliver = None <=> deliverTo = {}

PInv ==
    running => /\ LoopTypes /\ WorkTypes /\ Mail /\ Fresh /\ Named
               /\ ListenersListen /\ LiveQueriesAreWanted /\ NoProviderMissed

\* At first there are no requests.
LEMMA InitPInv == New => PInv
<1> SUFFICES ASSUME New PROVE PInv
  OBVIOUS
<1>1. LoopTypes /\ WorkTypes
  BY SMT DEF New, LoopTypes, WorkTypes, ReqState
<1>2. Mail /\ Fresh /\ Named
  BY SMT DEF New, Mail, Fresh, Named
<1>3. ListenersListen /\ LiveQueriesAreWanted /\ NoProviderMissed
  BY DEF New, ListenersListen, LiveQueriesAreWanted, NoProviderMissed
<1>. QED  BY <1>1, <1>2, <1>3 DEF PInv

\* Perhaps one more message, which is not an announcement; requests that wait for
\* the run loop go on waiting.
LEMMA PostMail ==
    ASSUME Mail, \A s \in Requests : req[s] = "posted" => req'[s] = "posted",
           \/ UNCHANGED messages
           \/ \E m \in Msg : Post(m) /\ m.kind # "new" /\ (m.kind = "received" => m.p # None)
    PROVE  Mail'
<1>1. messages \in Seq(Msg)
  BY DEF Mail
<1>2. \A i \in 1..Len(messages) : messages[i].r \in Requests
  <2>1. \A i \in 1..Len(messages) : messages[i] \in Msg
    BY <1>1, SMT
  <2>. QED  BY <2>1 DEF Msg
<1>3. CASE UNCHANGED messages
  BY <1>2, <1>3, SMT DEF Mail
<1>4. ASSUME NEW m \in Msg, Post(m), m.kind # "new", m.kind = "received" => m.p # None
      PROVE  Mail'
  <2>1. /\ messages' \in Seq(Msg) /\ Len(messages') = Len(messages) + 1
        /\ messages'[Len(messages) + 1] = m
        /\ \A i \in 1..Len(messages) : messages'[i] = messages[i]
    BY <1>1, <1>4, SMT DEF Post
  <2>2. \A i \in 1..Len(messages') : i = Len(messages) + 1 \/ i \in 1..Len(messages)
    BY <1>1, <2>1, SMT
  <2>. QED  BY <1>2, <1>4, <2>1, <2>2, SMT DEF Mail
<1>. QED  BY <1>3, <1>4

\* The message that the run loop handles.
LEMMA HandlesFacts ==
    ASSUME Mail, NEW kind, Handles(kind)
    PROVE  /\ Head(messages) \in Msg /\ Head(messages) = messages[1] /\ 1 \in 1..Len(messages)
           /\ Head(messages).kind = kind /\ deliver = None
           /\ messages' \in Seq(Msg) /\ Len(messages') = Len(messages) - 1
           /\ \A i \in 1..Len(messages') : i + 1 \in 1..Len(messages) /\ messages'[i] = messages[i + 1]
BY SMT DEF Mail, Handles

\* The run loop takes a message, and no announcement or only that of r.
LEMMA HandledMail ==
    ASSUME Mail, NEW kind, Handles(kind),
           \A s \in Requests : (kind = "new" /\ s = Head(messages).r) \/ req'[s] = req[s]
    PROVE  Mail'
<1>1. /\ Head(messages) = messages[1] /\ 1 \in 1..Len(messages) /\ Head(messages).kind = kind
      /\ messages \in Seq(Msg) /\ messages' \in Seq(Msg) /\ Len(messages') = Len(messages) - 1
      /\ \A i \in 1..Len(messages') : i + 1 \in 1..Len(messages) /\ messages'[i] = messages[i + 1]
  BY HandlesFacts DEF Mail
<1>2. ASSUME NEW i \in 1..Len(messages'), messages'[i].kind = "new"
      PROVE  /\ req'[messages'[i].r] = "posted"
             /\ \A j \in 1..Len(messages') :
                   messages'[j].kind = "new" /\ messages'[j].r = messages'[i].r => j = i
  <2>1. /\ i + 1 \in 1..Len(messages) /\ messages'[i] = messages[i + 1] /\ i + 1 # 1
        /\ messages'[i].r \in Requests
    <3>1. i + 1 \in 1..Len(messages) /\ messages'[i] = messages[i + 1] /\ i + 1 # 1
      BY <1>1, SMT
    <3>2. messages[i + 1] \in Msg
      BY <1>1, <3>1, SMT
    <3>. QED  BY <3>1, <3>2 DEF Msg
  <2>2. req[messages'[i].r] = "posted"
    BY <1>2, <2>1, SMT DEF Mail
  <2>3. ~(kind = "new" /\ messages'[i].r = Head(messages).r)
    BY <1>1, <1>2, <2>1, SMT DEF Mail
  <2>4. \A j \in 1..Len(messages') :
           messages'[j].kind = "new" /\ messages'[j].r = messages'[i].r => j + 1 = i + 1
    BY <1>1, <1>2, <2>1, SMT DEF Mail
  <2>. QED  BY <2>1, <2>2, <2>3, <2>4, SMT
<1>. QED  BY <1>1, <1>2, SMT DEF Mail

-----------------------------------------------------------------------------
\* The run loop's maps and the requests' answers, which only the run loop changes.
tables == <<key, query, listeners, soFar, live, closed, got, deliver, deliverTo>>

\* Steps of a request that do not touch the tables: a listener goes on listening
\* unless its channel was closed.
LEMMA RequestPInv ==
    ASSUME PInv, running, NEW r \in Requests, NEW s \in ReqState,
           req' = [req EXCEPT ![r] = s], UNCHANGED <<tables, phase>>,
           WorkTypes', Mail', s # "idle",
           req[r] # "idle" => s # "posted",
           req[r] \in {"receiving", "cancelling", "draining"} =>
                s \in {"receiving", "cancelling", "draining"} \/ r \in closed
    PROVE  PInv'
<1> USE DEF tables, running
<1>1. LoopTypes'
  BY DEF PInv, LoopTypes
<1>2. Fresh'
  BY DEF PInv, Fresh, LoopTypes
<1>3. Named'
  BY DEF PInv, Named
<1>4. ListenersListen'
  BY SMT DEF PInv, ListenersListen, LoopTypes
<1>5. LiveQueriesAreWanted' /\ NoProviderMissed'
  BY DEF PInv, LiveQueriesAreWanted, NoProviderMissed
<1>. QED  BY <1>1, <1>2, <1>3, <1>4, <1>5 DEF PInv

\* Steps of the workers, which touch neither requests nor tables.
LEMMA WorkPInv ==
    ASSUME PInv, running, UNCHANGED <<tables, req, phase>>, WorkTypes', Mail'
    PROVE  PInv'
BY DEF tables, running, PInv, LoopTypes, Fresh, Named, ListenersListen, LiveQueriesAreWanted,
       NoProviderMissed

\* A request that announces itself.
LEMMA FindProvidersPInv ==
    ASSUME PInv, running, NEW r \in Requests, FindProvidersAsync(r)
    PROVE  PInv'
<1> USE DEF running
<1>1. /\ req[r] = "idle" /\ messages' = Append(messages, Message("new", r, None))
      /\ req' = [req EXCEPT ![r] = "posted"]
      /\ UNCHANGED <<tables, workVars, buffer, phase>>
  BY DEF FindProvidersAsync, Post, tables, loopVars
<1>2. Message("new", r, None) \in Msg /\ Message("new", r, None).kind = "new" /\ Message("new", r, None).r = r
  BY DEF Message, Msg
<1>3. messages \in Seq(Msg) /\ req \in [Requests -> ReqState]
  BY DEF PInv, Mail, LoopTypes
<1>4. /\ messages' \in Seq(Msg) /\ Len(messages') = Len(messages) + 1
      /\ messages'[Len(messages) + 1] = Message("new", r, None)
      /\ \A i \in 1..Len(messages) : messages'[i] = messages[i] /\ messages[i] \in Msg
  BY <1>1, <1>2, <1>3, SMT
<1>5. \A i \in 1..Len(messages') : i = Len(messages) + 1 \/ i \in 1..Len(messages)
  BY <1>3, <1>4, SMT
<1>6. \A i \in 1..Len(messages) : messages[i].kind = "new" => messages[i].r # r /\ messages[i].r \in Requests
  BY <1>1, <1>4 DEF PInv, Mail, Msg
<1>7. Mail'
  <2>1. ASSUME NEW i \in 1..Len(messages'), messages'[i].kind = "new"
        PROVE  /\ req'[messages'[i].r] = "posted"
               /\ \A j \in 1..Len(messages') :
                     messages'[j].kind = "new" /\ messages'[j].r = messages'[i].r => j = i
    BY <1>1, <1>2, <1>3, <1>4, <1>5, <1>6, <2>1, SMT DEF PInv, Mail
  <2>2. \A i \in 1..Len(messages') : messages'[i].kind = "received" => messages'[i].p # None
    BY <1>2, <1>4, <1>5 DEF PInv, Mail
  <2>. QED  BY <1>4, <2>1, <2>2 DEF Mail
<1>8. WorkTypes'
  BY <1>1 DEF PInv, WorkTypes, workVars
<1>. QED  BY <1>1, <1>7, <1>8, RequestPInv DEF ReqState

\* The other steps of a request.
LEMMA RequestStepPInv ==
    ASSUME PInv, running, NEW r \in Requests, sessionDone(r) \/ Request(r)
    PROVE  PInv'
<1> USE DEF running
<1>1. UNCHANGED <<tables, workVars, buffer, phase>>
  BY DEF sessionDone, Request, incomingClosed, handOut, allHandedOut, cancelProviderRequest,
         requestStops, tables, loopVars
<1>2. WorkTypes'
  BY <1>1 DEF PInv, WorkTypes, workVars
<1>3. CASE handOut(r)
  <2>1. Mail' /\ UNCHANGED req
    BY <1>3, SMT DEF handOut, PInv, Mail
  <2>. QED  BY <1>1, <1>2, <2>1, WorkPInv
<1>4. ASSUME NEW s \in ReqState, req' = [req EXCEPT ![r] = s], req[r] # "posted",
             UNCHANGED messages \/ Post(Message("cancel", r, None)),
             s \notin {"idle", "posted"},
             req[r] \in {"receiving", "cancelling", "draining"} =>
                s \in {"receiving", "cancelling", "draining"} \/ r \in closed
      PROVE  PInv'
  <2>1. req \in [Requests -> ReqState] /\ Mail
    BY DEF PInv, LoopTypes
  <2>2. Message("cancel", r, None) \in Msg /\ Message("cancel", r, None).kind = "cancel"
    BY DEF Message, Msg
  <2>3. \A t \in Requests : req[t] = "posted" => req'[t] = "posted"
    BY <1>4, <2>1
  <2>4. Mail'
    BY <1>4, <2>1, <2>2, <2>3, PostMail
  <2>. QED  BY <1>1, <1>2, <1>4, <2>4, RequestPInv
<1>5. CASE incomingClosed(r) \/ allHandedOut(r) \/ sessionDone(r)
  BY <1>4, <1>5 DEF incomingClosed, allHandedOut, sessionDone, ReqState
<1>6. CASE cancelProviderRequest(r)
  BY <1>4, <1>6 DEF cancelProviderRequest, ReqState
<1>7. ~requestStops(r)
  BY DEF requestStops
<1>. QED  BY <1>3, <1>5, <1>6, <1>7 DEF Request

\* The steps of a worker.
LEMMA WorkerPInv ==
    ASSUME PInv, running, NEW w \in Workers, Work(w) \/ \E p \in Providers : foundProvider(w, p)
    PROVE  PInv'
<1> USE DEF running
<1>1. UNCHANGED <<tables, req, phase>> /\ Mail /\ WorkTypes
  BY DEF Work, startJob, searchEnds, finishJob, dialEnds, foundProvider, tables, loopVars, reqVars, PInv
<1>2. CASE startJob(w)
  <2>1. Head(buffer) \in Requests /\ Tail(buffer) \in Seq(Requests)
    BY <1>1, <1>2, SMT DEF startJob, WorkTypes
  <2>2. WorkTypes'
    BY <1>1, <1>2, <2>1, PQMAssumption DEF startJob, WorkTypes
  <2>. QED  BY <1>1, <1>2, <2>2, PostMail, WorkPInv DEF startJob
<1>3. CASE searchEnds(w)
  <2>1. WorkTypes'
    BY <1>1, <1>3 DEF searchEnds, WorkTypes
  <2>. QED  BY <1>1, <1>3, <2>1, PostMail, WorkPInv DEF searchEnds
<1>4. ASSUME NEW p \in Providers, foundProvider(w, p) PROVE PInv'
  <2>1. WorkTypes'
    BY <1>1, <1>4, SMT DEF foundProvider, WorkTypes
  <2>. QED  BY <1>1, <1>4, <2>1, PostMail, WorkPInv DEF foundProvider
<1>5. ASSUME NEW p \in Providers, dialEnds(w, p) PROVE PInv'
  <2>1. job[w] \in Requests
    BY <1>1, <1>5 DEF dialEnds, WorkTypes
  <2>2. LET m == Message("received", job[w], p) IN m \in Msg /\ m.kind = "received" /\ m.p # None
    BY <2>1, PQMAssumption DEF Message, Msg
  <2>3. WorkTypes'
    BY <1>1, <1>5 DEF dialEnds, WorkTypes
  <2>4. Mail'
    BY <1>1, <1>5, <2>2, PostMail DEF dialEnds
  <2>. QED  BY <1>1, <2>3, <2>4, WorkPInv
<1>6. CASE finishJob(w)
  <2>1. job[w] \in Requests
    BY <1>1, <1>6 DEF finishJob, WorkTypes
  <2>2. LET m == Message("finished", job[w], None) IN m \in Msg /\ m.kind = "finished"
    BY <2>1 DEF Message, Msg
  <2>3. WorkTypes'
    BY <1>1, <1>6 DEF finishJob, WorkTypes
  <2>4. Mail'
    BY <1>1, <1>6, <2>2, PostMail DEF finishJob
  <2>. QED  BY <1>1, <2>3, <2>4, WorkPInv
<1>. QED  BY <1>2, <1>3, <1>4, <1>5, <1>6 DEF Work

-----------------------------------------------------------------------------
\* A request becomes a listener, and perhaps the name of a query.
LEMMA NewQueryPInv ==
    ASSUME PInv, running, newProvideQuery
    PROVE  PInv'
<1> USE DEF running
<1> DEFINE r == Head(messages).r
           k == key[r]
<1>1. LoopTypes /\ WorkTypes /\ Mail /\ Handles("new")
  BY DEF PInv, newProvideQuery
<1>2. r \in Requests /\ req[r] = "posted" /\ deliver = None /\ k \in Keys /\ deliverTo = {}
  <2>1. Head(messages) \in Msg /\ Head(messages) = messages[1] /\ 1 \in 1..Len(messages)
        /\ Head(messages).kind = "new" /\ deliver = None
    BY <1>1, HandlesFacts
  <2>. QED  BY <1>1, <2>1 DEF Mail, Msg, LoopTypes, PInv, Named
<1>3. r \notin closed /\ \A j \in Keys : r \notin listeners[j]
  BY <1>2 DEF PInv, Fresh
<1>4. \/ /\ query[k] = None /\ query' = [query EXCEPT ![k] = r]
         /\ live' = live \cup {r} /\ buffer' = Append(buffer, r)
      \/ query[k] # None /\ UNCHANGED <<query, live, buffer>>
  BY DEF newProvideQuery
<1>5. /\ listeners' = [listeners EXCEPT ![k] = @ \cup {r}]
      /\ req' = [req EXCEPT ![r] = "receiving"]
      /\ got' = [got EXCEPT ![r] = soFar[k]]
      /\ UNCHANGED <<key, soFar, closed, workVars, deliver, deliverTo, phase>>
  BY <1>2 DEF newProvideQuery
<1> HIDE DEF r, k
<1>6. k = key[r]
  BY DEF k
<1>7. LoopTypes'
  BY <1>1, <1>2, <1>4, <1>5, SMT DEF LoopTypes, ReqState
<1>8. WorkTypes'
  <2>1. buffer \in Seq(Requests)
    BY <1>1 DEF WorkTypes
  <2>2. buffer' \in Seq(Requests)
    BY <1>2, <1>4, <2>1, SMT
  <2>. QED  BY <1>1, <1>5, <2>2 DEF WorkTypes, workVars
<1>9. Mail'
  <2>1. \A s \in Requests : s = Head(messages).r \/ req'[s] = req[s]
    BY <1>1, <1>5 DEF LoopTypes, r
  <2>. QED  BY <1>1, <2>1, HandledMail
<1>10. Fresh'
  BY <1>1, <1>2, <1>5 DEF PInv, Fresh, LoopTypes
<1>11. Named'
  BY <1>1, <1>2, <1>4, <1>5, <1>6, SMT DEF PInv, Named, LoopTypes
<1>12. ListenersListen'
  BY <1>1, <1>2, <1>3, <1>5, <1>6, SMT DEF PInv, ListenersListen, LoopTypes
<1>13. LiveQueriesAreWanted'
  <2>1. \A j \in Keys : listeners'[j] = IF j = k THEN listeners[k] \cup {r} ELSE listeners[j]
    BY <1>1, <1>5 DEF LoopTypes
  <2>2. CASE query[k] = None
    <3>1. \A j \in Keys : query'[j] = IF j = k THEN r ELSE query[j]
      BY <1>1, <1>4, <2>2 DEF LoopTypes
    <3>2. \A q \in live : key[q] \in Keys /\ key[q] # k /\ query[key[q]] = q
      BY <1>1, <2>2, PQMAssumption, SMT DEF PInv, LiveQueriesAreWanted, LoopTypes
    <3>3. live' = live \cup {r} /\ UNCHANGED key /\ r # None
      BY <1>2, <1>4, <1>5, <2>2, PQMAssumption
    <3>4. \A q \in live' : query'[key'[q]] = q
      BY <1>2, <1>6, <3>1, <3>2, <3>3
    <3>5. \A j \in Keys :
             /\ query'[j] # None => query'[j] \in live' /\ listeners'[j] # {}
             /\ query'[j] = None => listeners'[j] = {}
      BY <2>1, <3>1, <3>3 DEF PInv, LiveQueriesAreWanted
    <3>. QED  BY <3>4, <3>5 DEF LiveQueriesAreWanted
  <2>3. CASE query[k] # None
    BY <1>2, <1>4, <1>5, <2>1, <2>3, SMT DEF PInv, LiveQueriesAreWanted
  <2>. QED  BY <2>2, <2>3
<1>14. NoProviderMissed'
  <2>1. \A s \in Requests : got'[s] = IF s = r THEN soFar[k] ELSE got[s]
    BY <1>1, <1>5 DEF LoopTypes
  <2>2. \A j \in Keys : \A s \in listeners'[j] : s \in Requests /\ (s = r => j = k) /\ (s # r => s \in listeners[j])
    BY <1>1, <1>2, <1>3, <1>5 DEF LoopTypes
  <2>. QED  BY <1>2, <1>5, <2>1, <2>2, SMT DEF PInv, NoProviderMissed
<1>. QED  BY <1>7, <1>8, <1>9, <1>10, <1>11, <1>12, <1>13, <1>14 DEF PInv

\* A provider of the current query is recorded, and on its way to all listeners.
LEMMA ReceivedPInv ==
    ASSUME PInv, running, receivedProvider
    PROVE  PInv'
<1> USE DEF running
<1> DEFINE k == key[Head(messages).r]
           p == Head(messages).p
<1>1. LoopTypes /\ WorkTypes /\ Mail /\ Handles("received")
  BY DEF PInv, receivedProvider
<1>2. k \in Keys /\ p \in Providers /\ deliver = None /\ deliverTo = {}
  <2>1. Head(messages) \in Msg /\ Head(messages) = messages[1] /\ 1 \in 1..Len(messages)
        /\ Head(messages).kind = "received" /\ deliver = None
    BY <1>1, HandlesFacts
  <2>. QED  BY <1>1, <2>1 DEF Mail, Msg, LoopTypes, PInv, Named
<1>3. UNCHANGED <<key, req, got, query, listeners, live, closed, workVars, buffer, phase>>
  BY DEF receivedProvider, reqVars
<1>4. Mail' /\ WorkTypes'
  <2>1. Mail'
    BY <1>1, <1>3, HandledMail
  <2>. QED  BY <1>1, <1>3, <2>1 DEF WorkTypes, workVars
<1>5. CASE query[k] = None
  <2>1. UNCHANGED <<soFar, deliver, deliverTo>>
    BY <1>5 DEF receivedProvider
  <2>. QED  BY <1>3, <1>4, <2>1, WorkPInv DEF tables
<1>6. CASE query[k] # None
  <2>1. soFar' = [soFar EXCEPT ![k] = @ \cup {p}] /\ deliverTo' = listeners[k] /\ deliver' = p
    BY <1>6 DEF receivedProvider
  <2> HIDE DEF k, p
  <2>2. LoopTypes'
    BY <1>1, <1>2, <1>3, <2>1 DEF LoopTypes
  <2>3. listeners[k] # {} /\ p # None
    BY <1>2, <1>6, PQMAssumption DEF PInv, LiveQueriesAreWanted
  <2>4. Named'
    BY <1>3, <2>1, <2>3 DEF PInv, Named
  <2>5. Fresh' /\ ListenersListen' /\ LiveQueriesAreWanted'
    BY <1>3 DEF PInv, Fresh, ListenersListen, LiveQueriesAreWanted
  <2>6. NoProviderMissed'
    <3>1. \A j \in Keys : soFar'[j] = IF j = k THEN soFar[k] \cup {p} ELSE soFar[j]
      BY <1>1, <2>1 DEF LoopTypes
    <3>2. \A j \in Keys : \A s \in listeners[j] : soFar[j] \subseteq got[s]
      BY <1>2 DEF PInv, NoProviderMissed
    <3>3. \A j \in Keys : \A s \in listeners[j] :
             soFar'[j] \subseteq got[s] \cup (IF s \in deliverTo' THEN {p} ELSE {})
      BY <2>1, <3>1, <3>2, SMT
    <3>. QED  BY <1>3, <2>1, <3>3 DEF NoProviderMissed
  <2>. QED  BY <1>4, <2>2, <2>4, <2>5, <2>6 DEF PInv
<1>. QED  BY <1>5, <1>6

\* One listener takes the provider.
LEMMA DeliverPInv ==
    ASSUME PInv, running, NEW r \in Requests, deliverProvider(r)
    PROVE  PInv'
<1> USE DEF running
<1>1. LoopTypes /\ WorkTypes /\ Mail
  BY DEF PInv
<1>2. /\ deliver # None /\ r \in deliverTo /\ got' = [got EXCEPT ![r] = @ \cup {deliver}]
      /\ deliverTo' = deliverTo \ {r} /\ deliver' = IF deliverTo = {r} THEN None ELSE deliver
      /\ UNCHANGED <<key, req, query, listeners, soFar, live, closed, workVars, messages, buffer, phase>>
  BY DEF deliverProvider, loopVars
<1>3. LoopTypes'
  BY <1>1, <1>2 DEF LoopTypes
<1>4. WorkTypes' /\ Mail'
  BY <1>1, <1>2, PostMail DEF WorkTypes, workVars
<1>5. Named'
  BY <1>2 DEF PInv, Named
<1>6. Fresh' /\ ListenersListen' /\ LiveQueriesAreWanted'
  BY <1>2 DEF PInv, Fresh, ListenersListen, LiveQueriesAreWanted
<1>7. NoProviderMissed'
  <2>1. \A s \in Requests : got'[s] = IF s = r THEN got[r] \cup {deliver} ELSE got[s]
    BY <1>1, <1>2 DEF LoopTypes
  <2>2. \A j \in Keys : listeners[j] \subseteq Requests
    BY <1>1 DEF LoopTypes
  <2>. QED  BY <1>2, <2>1, <2>2, SMT DEF PInv, NoProviderMissed
<1>. QED  BY <1>3, <1>4, <1>5, <1>6, <1>7 DEF PInv

\* The query of a key ends, and its listeners are closed.
LEMMA DropPInv ==
    ASSUME PInv, running, NEW k \in Keys, DropQuery(k), closed' = closed \cup listeners[k],
           UNCHANGED <<key, reqVars, workVars, deliver, deliverTo, buffer, phase>>, Mail'
    PROVE  PInv'
<1> USE DEF running, reqVars
<1>1. LoopTypes /\ WorkTypes
  BY DEF PInv
<1>2. /\ \A j \in Keys : /\ query'[j] = IF j = k THEN None ELSE query[j]
                         /\ listeners'[j] = IF j = k THEN {} ELSE listeners[j]
                         /\ soFar'[j] = IF j = k THEN {} ELSE soFar[j]
      /\ live' = live \ {query[k]}
  BY <1>1 DEF DropQuery, LoopTypes
<1>3. LoopTypes'
  BY <1>1 DEF DropQuery, LoopTypes
<1>4. WorkTypes'
  BY <1>1 DEF WorkTypes, workVars
<1>5. \A r \in listeners[k] : key[r] = k /\ req[r] \in {"receiving", "cancelling", "draining"}
  BY DEF PInv, ListenersListen
<1>6. Fresh'
  BY <1>2, <1>5 DEF PInv, Fresh
<1>7. Named'
  BY <1>2 DEF PInv, Named
<1>8. ListenersListen'
  BY <1>2, <1>5, SMT DEF PInv, ListenersListen
<1>9. LiveQueriesAreWanted'
  <2>1. \A q \in live' : key[q] \in Keys /\ key[q] # k /\ query[key[q]] = q
    BY <1>1, <1>2 DEF PInv, LiveQueriesAreWanted, LoopTypes
  <2>2. \A j \in Keys \ {k} : query[j] # None => query[j] # query[k]
    BY DEF PInv, Named
  <2>. QED  BY <1>2, <2>1, <2>2 DEF PInv, LiveQueriesAreWanted
<1>10. NoProviderMissed'
  BY <1>2 DEF PInv, NoProviderMissed
<1>. QED  BY <1>3, <1>4, <1>6, <1>7, <1>8, <1>9, <1>10 DEF PInv

\* A message that names a key.
LEMMA NamedKey ==
    ASSUME PInv, running, NEW kind, Handles(kind)
    PROVE  Head(messages).r \in Requests /\ key[Head(messages).r] \in Keys
<1>1. Mail /\ LoopTypes
  BY DEF PInv
<1>2. Head(messages) \in Msg
  BY <1>1, HandlesFacts
<1>. QED  BY <1>1, <1>2 DEF Msg, LoopTypes

\* The end of a query.
LEMMA FinishedPInv ==
    ASSUME PInv, running, finishedProviderQuery
    PROVE  PInv'
<1>1. Mail' /\ Handles("finished")
  <2>1. UNCHANGED req /\ Mail /\ Handles("finished")
    BY DEF finishedProviderQuery, reqVars, PInv
  <2>. QED  BY <2>1, HandledMail
<1>2. key[Head(messages).r] \in Keys
  BY <1>1, NamedKey
<1>. QED  BY <1>1, <1>2, DropPInv DEF finishedProviderQuery

\* A listener leaves.
LEMMA CancelPInv ==
    ASSUME PInv, running, cancelRequest
    PROVE  PInv'
<1> USE DEF running
<1> DEFINE r == Head(messages).r
           k == key[r]
<1>1. LoopTypes /\ WorkTypes /\ Handles("cancel")
      /\ UNCHANGED <<key, reqVars, workVars, deliver, deliverTo, buffer, phase>>
  BY DEF cancelRequest, PInv
<1>2. Mail'
  <2>1. UNCHANGED req /\ Mail
    BY <1>1 DEF reqVars, PInv
  <2>. QED  BY <1>1, <2>1, HandledMail
<1>3. r \in Requests /\ k \in Keys
  BY <1>1, NamedKey
<1>4. WorkTypes'
  BY <1>1 DEF WorkTypes, workVars
<1>5. CASE r \notin listeners[k]
  <2>1. UNCHANGED <<tables, req, phase>>
    BY <1>1, <1>5 DEF cancelRequest, tables, loopVars, reqVars
  <2>. QED  BY <1>2, <1>4, <2>1, WorkPInv
<1>6. CASE listeners[k] = {r}
  <2>1. DropQuery(k) /\ closed' = closed \cup listeners[k]
    BY <1>6 DEF cancelRequest
  <2>. QED  BY <1>1, <1>2, <1>3, <2>1, DropPInv
<1>7. CASE r \in listeners[k] /\ listeners[k] # {r}
  <2>1. /\ closed' = closed \cup {r} /\ listeners' = [listeners EXCEPT ![k] = @ \ {r}]
        /\ UNCHANGED <<query, soFar, live, req, got>>
    BY <1>1, <1>7 DEF cancelRequest, reqVars
  <2> HIDE DEF r, k
  <2>2. \A j \in Keys : listeners'[j] = IF j = k THEN listeners[k] \ {r} ELSE listeners[j]
    BY <1>1, <2>1 DEF LoopTypes
  <2>3. LoopTypes'
    BY <1>1, <1>3, <2>1 DEF LoopTypes
  <2>4. key[r] = k /\ req[r] \in {"receiving", "cancelling", "draining"}
    BY <1>3, <1>7 DEF PInv, ListenersListen
  <2>5. Fresh' /\ Named'
    BY <1>1, <2>1, <2>2, <2>4, SMT DEF PInv, Fresh, Named
  <2>6. ListenersListen'
    BY <1>1, <2>1, <2>2, <2>4, SMT DEF PInv, ListenersListen
  <2>7. LiveQueriesAreWanted' /\ NoProviderMissed'
    <3>1. \A j \in Keys : listeners'[j] \subseteq listeners[j] /\ (listeners'[j] = {} => listeners[j] = {})
      BY <1>7, <2>2
    <3>. QED  BY <1>1, <2>1, <3>1 DEF PInv, LiveQueriesAreWanted, NoProviderMissed
  <2>. QED  BY <1>2, <1>4, <2>3, <2>5, <2>6, <2>7 DEF PInv
<1>. QED  BY <1>5, <1>6, <1>7

-----------------------------------------------------------------------------
\* Every step keeps the invariant.
LEMMA NextPInv == PInv /\ [Next]_vars => PInv'
<1> SUFFICES ASSUME PInv, [Next]_vars PROVE PInv'
  OBVIOUS
<1>1. CASE phase' # "running"
  BY <1>1 DEF PInv, running
<1>2. CASE UNCHANGED vars /\ running
  <2>1. UNCHANGED <<tables, req, phase>> /\ WorkTypes' /\ Mail'
    BY <1>2 DEF vars, tables, loopVars, reqVars, workVars, PInv, WorkTypes, Mail
  <2>. QED  BY <1>2, <2>1, WorkPInv
<1>3. CASE phase' = "running"
  <2>1. running
    BY <1>3 DEF running, Next, Run, Stop, FindProvidersAsync, sessionDone, Request, incomingClosed,
                handOut, allHandedOut, cancelProviderRequest, requestStops, newProvideQuery,
                receivedProvider, finishedProviderQuery, cancelRequest, deliverProvider, deliveryStops,
                cleanupInProcessRequests, Work, startJob, searchEnds, finishJob, dialEnds,
                foundProvider, vars
  <2>2. CASE Run
    <3>1. ~deliveryStops /\ ~cleanupInProcessRequests
      BY <2>1 DEF running, deliveryStops, cleanupInProcessRequests
    <3>. QED  BY <2>1, <2>2, <3>1, NewQueryPInv, ReceivedPInv, FinishedPInv, CancelPInv, DeliverPInv DEF Run
  <2>3. ~Stop
    BY <1>3 DEF Stop
  <2>. QED  BY <1>2, <2>1, <2>2, <2>3, FindProvidersPInv, RequestStepPInv, WorkerPInv DEF Next
<1>. QED  BY <1>1, <1>3

\* The invariant holds in every reachable state.
THEOREM ManagerInvariant == Spec => []PInv
BY InitPInv, NextPInv, PTL DEF Spec

\* While the manager runs, a listener in the map has an open channel that its
\* goroutine reads: nothing is sent into, and nobody closes, a closed channel.
THEOREM ListenersListenCorrect == Spec => []ListenersListen
<1>1. PInv => ListenersListen
  BY DEF PInv, ListenersListen
<1>. QED  BY <1>1, ManagerInvariant, PTL

\* A query is live exactly while it is current and somebody listens.
THEOREM LiveQueriesAreWantedCorrect == Spec => []LiveQueriesAreWanted
<1>1. PInv => LiveQueriesAreWanted
  BY DEF PInv, LiveQueriesAreWanted
<1>. QED  BY <1>1, ManagerInvariant, PTL

\* A listener is sent every provider of its query, whenever it joined.
THEOREM NoProviderMissedCorrect == Spec => []NoProviderMissed
<1>1. PInv => NoProviderMissed
  BY DEF PInv, NoProviderMissed
<1>. QED  BY <1>1, ManagerInvariant, PTL
=============================================================================

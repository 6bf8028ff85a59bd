------------------------ MODULE ProviderQueryManager ------------------------
(***************************************************************************)
(* internal/providerquerymanager: sessions ask for the providers of a key; *)
(* requests for the same key share one query, queries are run by a fixed   *)
(* number of workers, and every found provider is sent to all the sessions *)
(* that listen.                                                            *)
(*                                                                         *)
(* Processes: one goroutine per request (FindProvidersAsync, then the one  *)
(* receiveProviders starts), the run loop that owns the statuses, the      *)
(* workers with one goroutine per dialled provider.  A request makes one   *)
(* call; a query is named by the request that created it, and so is its    *)
(* context.  The buffer worker and the reply to a new request never make   *)
(* the run loop wait (their readers are always ready), so they are part of *)
(* the handler.  Order and repetition of providers are left out.           *)
(***************************************************************************)
EXTENDS Integers, FiniteSets, Sequences

CONSTANTS
    Requests,   \* calls of FindProvidersAsync
    Keys,
    Providers,
    Workers,    \* maxInProcessRequests of them
    None,       \* no query, no provider
    MsgCap      \* capacity of providerQueryMessages

ASSUME PQMAssumption ==
    /\ None \notin Requests /\ None \notin Providers
    /\ MsgCap \in Nat \ {0}

VARIABLES
    key,        \* the key of each request
    req,        \* where the goroutine of each request is
    received,   \* receivedProviders: found and not handed out yet
    got,        \* providers the request was sent so far
    closed,     \* requests whose incoming channel was closed
    messages,   \* providerQueryMessages
    query,      \* inProgressRequestStatuses: the query of each key, or None
    listeners,  \* its listeners
    soFar,      \* its providersSoFar
    live,       \* queries whose context is not cancelled
    deliver,    \* the run loop is sending this provider ...
    deliverTo,  \* ... to these listeners
    buffer,     \* providerQueryRequestBuffer
    job,        \* the query of each worker, or None
    searching,  \* workers whose network search has not ended
    dials,      \* providers that each worker is connecting to
    found,      \* providers that the search of each worker returned
    phase       \* "running", "stopping" (pqm.ctx is cancelled), "stopped" (run returned)

reqVars == <<req, received, got>>
loopVars == <<query, listeners, soFar, live, closed>>
workVars == <<job, searching, dials, found>>
vars == <<key, reqVars, loopVars, workVars, messages, deliver, deliverTo, buffer, phase>>

running == phase = "running"

\* A message; the handlers of "received" and "finished" know only the key.
Message(kind, r, p) == [kind |-> kind, r |-> r, p |-> p]

\* A send into providerQueryMessages.
Post(m) == Len(messages) < MsgCap /\ messages' = Append(messages, m)

-----------------------------------------------------------------------------
(* A request.                                                              *)

FindProvidersAsync(r) ==
    /\ req[r] = "idle"
    /\ \/ Post(Message("new", r, None)) /\ req' = [req EXCEPT ![r] = "posted"]
       \/ ~running /\ req' = [req EXCEPT ![r] = "done"] /\ UNCHANGED messages
    /\ UNCHANGED <<key, received, got, loopVars, workVars, deliver, deliverTo, buffer, phase>>

\* receiveProviders: the incoming channel is closed; what was received is
\* still handed out.
incomingClosed(r) ==
    /\ req[r] = "receiving" /\ r \in closed
    /\ req' = [req EXCEPT ![r] = "flushing"]
    /\ UNCHANGED <<key, received, got, loopVars, workVars, messages, deliver, deliverTo, buffer, phase>>

\* The session takes a provider.
handOut(r) ==
    /\ req[r] \in {"receiving", "flushing"}
    /\ \E p \in received[r] : received' = [received EXCEPT ![r] = @ \ {p}]
    /\ UNCHANGED <<key, req, got, loopVars, workVars, messages, deliver, deliverTo, buffer, phase>>

\* The loop of receiveProviders ends.
allHandedOut(r) ==
    /\ req[r] = "flushing" /\ received[r] = {}
    /\ req' = [req EXCEPT ![r] = "done"]
    /\ UNCHANGED <<key, received, got, loopVars, workVars, messages, deliver, deliverTo, buffer, phase>>

\* The session's context is cancelled: what was not handed out is dropped.
sessionDone(r) ==
    /\ \/ req[r] = "receiving" /\ req' = [req EXCEPT ![r] = "cancelling"]
       \/ req[r] \in {"idle", "flushing"} /\ req' = [req EXCEPT ![r] = "done"]
    /\ received' = [received EXCEPT ![r] = {}]
    /\ UNCHANGED <<key, got, loopVars, workVars, messages, deliver, deliverTo, buffer, phase>>

\* cancelProviderRequest: post the cancel, drain until the channel is closed.
cancelProviderRequest(r) ==
    /\ \/ /\ req[r] = "cancelling"
          /\ Post(Message("cancel", r, None))
          /\ req' = [req EXCEPT ![r] = "draining"]
       \/ /\ req[r] \in {"cancelling", "draining"} /\ r \in closed
          /\ req' = [req EXCEPT ![r] = "done"]
          /\ UNCHANGED messages
    /\ UNCHANGED <<key, received, got, loopVars, workVars, deliver, deliverTo, buffer, phase>>

\* Every wait of a request also ends with the manager's context.
requestStops(r) ==
    /\ ~running /\ req[r] \notin {"idle", "done"}
    /\ req' = [req EXCEPT ![r] = "done"]
    /\ received' = [received EXCEPT ![r] = {}]
    /\ UNCHANGED <<key, got, loopVars, workVars, messages, deliver, deliverTo, buffer, phase>>

-----------------------------------------------------------------------------
(* The run loop.                                                           *)

\* The next message is of this kind and the loop is not inside a delivery.
Handles(kind) ==
    /\ phase # "stopped" /\ deliver = None
    /\ messages # <<>> /\ Head(messages).kind = kind
    /\ messages' = Tail(messages)

\* The status of k goes away with its context.
DropQuery(k) ==
    /\ query' = [query EXCEPT ![k] = None]
    /\ listeners' = [listeners EXCEPT ![k] = {}]
    /\ soFar' = [soFar EXCEPT ![k] = {}]
    /\ live' = live \ {query[k]}

\* Variant whose reply leaves out what was found before.
newProvideQuery_NoSoFar ==
    LET r == Head(messages).r
        k == key[r]
    IN  /\ Handles("new")
        /\ IF query[k] = None
           THEN /\ query' = [query EXCEPT ![k] = r]
                /\ live' = live \cup {r}
                /\ buffer' = Append(buffer, r)
           ELSE UNCHANGED <<query, live, buffer>>
        /\ listeners' = [listeners EXCEPT ![k] = @ \cup {r}]
        /\ req' = [req EXCEPT ![r] = IF @ = "posted" THEN "receiving" ELSE @]
        /\ UNCHANGED <<key, received, got, soFar, closed, workVars, deliver, deliverTo, phase>>

\* A query is created for a key without one; the reply has what was found.
newProvideQuery ==
    LET r == Head(messages).r
        k == key[r]
    IN  /\ Handles("new")
        /\ IF query[k] = None
           THEN /\ query' = [query EXCEPT ![k] = r]
                /\ live' = live \cup {r}
                /\ buffer' = Append(buffer, r)
           ELSE UNCHANGED <<query, live, buffer>>
        /\ listeners' = [listeners EXCEPT ![k] = @ \cup {r}]
        /\ req' = [req EXCEPT ![r] = IF @ = "posted" THEN "receiving" ELSE @]
        /\ received' = [received EXCEPT ![r] = soFar[k]]
        /\ got' = [got EXCEPT ![r] = soFar[k]]
        /\ UNCHANGED <<key, soFar, closed, workVars, deliver, deliverTo, phase>>

receivedProvider ==
    LET k == key[Head(messages).r]
        p == Head(messages).p
    IN  /\ Handles("received")
        /\ IF query[k] = None
           THEN UNCHANGED <<soFar, deliver, deliverTo>>
           ELSE /\ soFar' = [soFar EXCEPT ![k] = @ \cup {p}]
                /\ deliverTo' = listeners[k]
                /\ deliver' = p
        /\ UNCHANGED <<key, reqVars, query, listeners, live, closed, workVars, buffer, phase>>

\* An unbuffered send: the goroutine of the listener takes the provider, to
\* hand it out or, when it is cancelling, to drop it.
deliverProvider(r) ==
    /\ deliver # None /\ r \in deliverTo
    /\ req[r] \in {"receiving", "cancelling", "draining"}
    /\ IF req[r] = "receiving"
       THEN received' = [received EXCEPT ![r] = @ \cup {deliver}]
       ELSE UNCHANGED received
    /\ got' = [got EXCEPT ![r] = @ \cup {deliver}]
    /\ deliverTo' = deliverTo \ {r}
    /\ deliver' = IF deliverTo = {r} THEN None ELSE deliver
    /\ UNCHANGED <<key, req, loopVars, workVars, messages, buffer, phase>>

\* Variant that forgets to close the channels.
finishedProviderQuery_NoClose ==
    LET k == key[Head(messages).r]
    IN  /\ Handles("finished")
        /\ DropQuery(k)
        /\ UNCHANGED <<key, reqVars, closed, workVars, deliver, deliverTo, buffer, phase>>

\* The message names only the key: whatever query the key has now ends.
finishedProviderQuery ==
    LET k == key[Head(messages).r]
    IN  /\ Handles("finished")
        /\ closed' = closed \cup listeners[k]
        /\ DropQuery(k)
        /\ UNCHANGED <<key, reqVars, workVars, deliver, deliverTo, buffer, phase>>

\* Variant that leaves the context of a query without listeners open.
cancelRequest_NoCancel ==
    LET r == Head(messages).r
        k == key[r]
    IN  /\ Handles("cancel")
        /\ IF r \in listeners[k]
           THEN /\ closed' = closed \cup {r}
                /\ listeners' = [listeners EXCEPT ![k] = @ \ {r}]
                /\ IF listeners[k] = {r}
                   THEN query' = [query EXCEPT ![k] = None] /\ soFar' = [soFar EXCEPT ![k] = {}]
                   ELSE UNCHANGED <<query, soFar>>
                /\ UNCHANGED live
           ELSE UNCHANGED loopVars
        /\ UNCHANGED <<key, reqVars, workVars, deliver, deliverTo, buffer, phase>>

\* Variant that keeps the listener of a query that goes on.
cancelRequest_KeepListener ==
    LET r == Head(messages).r
        k == key[r]
    IN  /\ Handles("cancel")
        /\ IF r \in listeners[k]
           THEN /\ closed' = closed \cup {r}
                /\ IF listeners[k] = {r}
                   THEN DropQuery(k)
                   ELSE UNCHANGED <<query, listeners, soFar, live>>
           ELSE UNCHANGED loopVars
        /\ UNCHANGED <<key, reqVars, workVars, deliver, deliverTo, buffer, phase>>

\* A listener of the current query leaves; the last one ends the query.
cancelRequest ==
    LET r == Head(messages).r
        k == key[r]
    IN  /\ Handles("cancel")
        /\ IF r \in listeners[k]
           THEN /\ closed' = closed \cup {r}
                /\ IF listeners[k] = {r}
                   THEN DropQuery(k)
                   ELSE /\ listeners' = [listeners EXCEPT ![k] = @ \ {r}]
                        /\ UNCHANGED <<query, soFar, live>>
           ELSE UNCHANGED loopVars
        /\ UNCHANGED <<key, reqVars, workVars, deliver, deliverTo, buffer, phase>>

\* The manager's context is cancelled.
Stop ==
    /\ running
    /\ phase' = "stopping"
    /\ UNCHANGED <<key, reqVars, loopVars, workVars, messages, deliver, deliverTo, buffer>>

\* A delivery, too, ends with the context.
deliveryStops ==
    /\ phase = "stopping" /\ deliver # None
    /\ deliver' = None /\ deliverTo' = {}
    /\ UNCHANGED <<key, reqVars, loopVars, workVars, messages, buffer, phase>>

\* The run loop may handle more messages before it sees that the context is
\* cancelled; then it closes what is left.
cleanupInProcessRequests ==
    /\ phase = "stopping" /\ deliver = None
    /\ phase' = "stopped"
    /\ closed' = closed \cup UNION {listeners[k] : k \in Keys}
    /\ live' = {}
    /\ UNCHANGED <<key, reqVars, query, listeners, soFar, workVars, messages, deliver, deliverTo, buffer>>

-----------------------------------------------------------------------------
(* The workers.                                                            *)

\* providerRequestBufferWorker hands the oldest query to a free worker.
startJob(w) ==
    /\ job[w] = None /\ buffer # <<>>
    /\ job' = [job EXCEPT ![w] = Head(buffer)]
    /\ buffer' = Tail(buffer)
    /\ searching' = searching \cup {w}
    /\ UNCHANGED <<key, reqVars, loopVars, dials, found, messages, deliver, deliverTo, phase>>

\* The network returns a provider; a goroutine dials it.
foundProvider(w, p) ==
    /\ w \in searching /\ p \notin found[w]
    /\ found' = [found EXCEPT ![w] = @ \cup {p}]
    /\ dials' = [dials EXCEPT ![w] = @ \cup {p}]
    /\ UNCHANGED <<key, reqVars, loopVars, job, searching, messages, deliver, deliverTo, buffer, phase>>

\* The search ends: exhausted, timed out or cancelled.
searchEnds(w) ==
    /\ w \in searching
    /\ searching' = searching \ {w}
    /\ UNCHANGED <<key, reqVars, loopVars, job, dials, found, messages, deliver, deliverTo, buffer, phase>>

dialEnds(w, p) ==
    /\ p \in dials[w]
    /\ dials' = [dials EXCEPT ![w] = @ \ {p}]
    /\ \/ UNCHANGED messages
       \/ Post(Message("received", job[w], p))
    /\ UNCHANGED <<key, reqVars, loopVars, job, searching, found, deliver, deliverTo, buffer, phase>>

\* After all dials ended, the worker reports and takes the next query.
finishJob(w) ==
    /\ job[w] # None /\ w \notin searching /\ dials[w] = {}
    /\ \/ Post(Message("finished", job[w], None))
       \/ ~running /\ UNCHANGED messages
    /\ job' = [job EXCEPT ![w] = None]
    /\ found' = [found EXCEPT ![w] = {}]
    /\ UNCHANGED <<key, reqVars, loopVars, searching, dials, deliver, deliverTo, buffer, phase>>

-----------------------------------------------------------------------------
New ==
    /\ key \in [Requests -> Keys]
    /\ req = [r \in Requests |-> "idle"]
    /\ received = [r \in Requests |-> {}] /\ got = [r \in Requests |-> {}]
    /\ closed = {} /\ messages = <<>>
    /\ query = [k \in Keys |-> None] /\ listeners = [k \in Keys |-> {}] /\ soFar = [k \in Keys |-> {}]
    /\ live = {}
    /\ deliver = None /\ deliverTo = {} /\ buffer = <<>>
    /\ job = [w \in Workers |-> None] /\ searching = {}
    /\ dials = [w \in Workers |-> {}] /\ found = [w \in Workers |-> {}]
    /\ phase = "running"

Request(r) ==
    \/ incomingClosed(r) \/ handOut(r) \/ allHandedOut(r)
    \/ cancelProviderRequest(r) \/ requestStops(r)

Run ==
    \/ newProvideQuery \/ receivedProvider \/ finishedProviderQuery \/ cancelRequest
    \/ \E r \in Requests : deliverProvider(r)
    \/ deliveryStops \/ cleanupInProcessRequests

Work(w) ==
    \/ startJob(w) \/ searchEnds(w) \/ finishJob(w)
    \/ \E p \in Providers : dialEnds(w, p)

Next ==
    \/ \E r \in Requests : FindProvidersAsync(r) \/ sessionDone(r) \/ Request(r)
    \/ Run \/ Stop
    \/ \E w \in Workers : Work(w) \/ (\E p \in Providers : foundProvider(w, p))

Spec == New /\ [][Next]_vars

\* Sessions read until the channel is closed (session.go:390), a search and a
\* dial have a timeout, goroutines run, and a goroutine that waits to send into
\* the message channel gets its turn (Go serves waiting senders in order).
FairSpec ==
    /\ Spec
    /\ WF_vars(Run)
    /\ \A r \in Requests : SF_vars(Request(r))
    /\ \A w \in Workers : SF_vars(Work(w))

-----------------------------------------------------------------------------
\* A listener in the map has an open channel and a goroutine that reads it,
\* so the run loop neither closes or sends into a closed channel (a panic)
\* nor waits for a reader that has gone.
ListenersListen ==
    running => \A k \in Keys : \A r \in listeners[k] :
        r \notin closed /\ key[r] = k /\ req[r] \in {"receiving", "cancelling", "draining"}

\* A query keeps its context exactly while it is the current query of its key
\* and has listeners: no search goes on for nobody, and no listener waits for
\* a search that was cancelled.
LiveQueriesAreWanted ==
    running => /\ \A q \in live : query[key[q]] = q
               /\ \A k \in Keys : /\ query[k] # None => query[k] \in live /\ listeners[k] # {}
                                  /\ query[k] = None => listeners[k] = {}

\* Whenever a listener joined, it was sent every provider of the query found
\* so far, but for the one being delivered.
NoProviderMissed ==
    running => \A k \in Keys : \A r \in listeners[k] :
        soFar[k] \subseteq got[r] \cup (IF r \in deliverTo THEN {deliver} ELSE {})

\* Every accepted request ends: its channel is closed after the search, the
\* session's cancellation or the manager's, and no cancellation waits forever
\* for a channel that another query's end has closed or will not close.
RequestsEnd == \A r \in Requests : req[r] \notin {"idle", "done"} ~> req[r] = "done"

-----------------------------------------------------------------------------
(* What comments of the code say and the code does not do.                 *)

\* "we canceled the request as it finished" (providerquerymanager.go:358): a
\* finished query either is the current query of its key or the key has none.
FinishedQueryIsCurrent ==
    [][\A k \in Keys : finishedProviderQuery /\ key[Head(messages).r] = k =>
          query[k] \in {None, Head(messages).r}]_vars
=============================================================================

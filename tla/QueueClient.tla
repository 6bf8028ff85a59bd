---------------------------- MODULE QueueClient -----------------------------
(***************************************************************************)
(* How the PeerManager calls the message queue of a peer: what it asks of  *)
(* a queue and may ask next.  MessageQueue relies on it, and PeerManager   *)
(* is shown to keep to it with every queue.                                *)
(*                                                                         *)
(* The client broadcasts only wants that it has not asked of the queue in  *)
(* any way, raises a want to a want-block once, sends a want-have only for *)
(* a want that it has not asked for, cancels only what it has asked for,   *)
(* and calls no queue that it has shut down.                               *)
(***************************************************************************)
CONSTANT Wants  \* auth.Want values

VARIABLES
    asked,      \* level of each targeted want
    askedBcst,  \* broadcast wants
    ctxOpen     \* the context of the queue is not cancelled

noWants == [w \in Wants |-> "none"]
In(list) == {w \in Wants : list[w] # "none"}

\* Wantlist.Add of each want of ws: a want-have does not override.
Add(list, ws, level) ==
    [w \in Wants |-> IF w \in ws /\ (list[w] = "none" \/ (list[w] = "have" /\ level = "block"))
                     THEN level ELSE list[w]]

Remove(list, ws) == [w \in Wants |-> IF w \in ws THEN "none" ELSE list[w]]

AskedAny == askedBcst \cup In(asked)

MayBroadcast(ws) == ctxOpen /\ ws \cap AskedAny = {}

MayAsk(blocks, haves) ==
    /\ ctxOpen
    /\ \A w \in blocks : asked[w] # "block"
    /\ haves \cap (AskedAny \cup blocks) = {}

MayCancel(ks) == ctxOpen /\ ks \subseteq AskedAny

\* The queue ignores a call without wants.
AskBroadcast(ws) ==
    /\ MayBroadcast(ws) /\ ws # {}
    /\ askedBcst' = askedBcst \cup ws
    /\ UNCHANGED <<asked, ctxOpen>>

AskWants(blocks, haves) ==
    /\ MayAsk(blocks, haves) /\ blocks \cup haves # {}
    /\ asked' = Add(Add(asked, haves, "have"), blocks, "block")
    /\ UNCHANGED <<askedBcst, ctxOpen>>

TakeBack(ks) == asked' = Remove(asked, ks) /\ askedBcst' = askedBcst \ ks

AskCancels(ks) == MayCancel(ks) /\ ks # {} /\ TakeBack(ks) /\ UNCHANGED ctxOpen

\* A queue is created and, in the same call, asked for the broadcast wants.
Create(ws) ==
    /\ ~ctxOpen /\ ctxOpen' = TRUE
    /\ asked' = noWants /\ askedBcst' = ws

\* The client shuts the queue down and forgets it.
Forget ==
    /\ ctxOpen /\ ctxOpen' = FALSE
    /\ asked' = noWants /\ askedBcst' = {}

ClientInit == asked = noWants /\ askedBcst = {} /\ ctxOpen = FALSE

ClientNext ==
    \/ \E ws \in SUBSET Wants : Create(ws) \/ AskBroadcast(ws) \/ AskCancels(ws)
    \/ \E blocks \in SUBSET Wants, haves \in SUBSET Wants : AskWants(blocks, haves)
    \/ Forget

ClientStep == UNCHANGED <<asked, askedBcst, ctxOpen>> \/ ClientNext

ClientSpec == ClientInit /\ [][ClientNext]_<<asked, askedBcst, ctxOpen>>
=============================================================================

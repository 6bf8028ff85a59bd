---------------------- MODULE DontHaveTimeoutMgr_proofs ----------------------
(***************************************************************************)
(* The queue of pending wants agrees with the map of active wants, is in   *)
(* order, and is looked at in time.  The three need each other: the early  *)
(* exit of the check and the time it sets are right because the queue is   *)
(* in order, and AddPending may rely on a check being scheduled because an *)
(* active want has an entry that the check was scheduled for.              *)
(***************************************************************************)
EXTENDS DontHaveTimeoutMgr, TLAPS

\* The prover of a step that names none.
USE Zenon

Entry == [c : Wants, age : 0..MaxTimeout, active : BOOLEAN]

Types ==
    /\ activeWants \subseteq Wants /\ wantQueue \in Seq(Entry)
    /\ timeout \in 0..MaxTimeout /\ timer \in Nat
    /\ adding \subseteq Wants /\ start \in 0..MaxTimeout

\* The active entries of the queue q are those of the wants in active, one for
\* each.
Agree(q, active) ==
    /\ \A i \in 1..Len(q) : q[i].active => q[i].c \in active
    /\ \A w \in active : \E i \in 1..Len(q) : q[i].active /\ q[i].c = w
    /\ \A i, j \in 1..Len(q) : q[i].active /\ q[j].active /\ q[i].c = q[j].c => i = j

InOrder(q) == \A i, j \in 1..Len(q) : i < j => q[i].age >= q[j].age

\* A check is due after t ticks, before an entry is over the limit.
Due(q, t, limit) ==
    /\ t > 0
    /\ \A i \in 1..Len(q) : q[i].active => q[i].age + t <= limit

\* No entry is younger than a time t ago.
NoneSince(q, t) == \A i \in 1..Len(q) : q[i].age >= t

\* The time that AddPending has read is no earlier than that of any entry: the
\* run loop makes one call after the other.
DInv ==
    /\ Types
    /\ Agree(wantQueue, activeWants) /\ InOrder(wantQueue)
    /\ CheckIsInTime
    /\ adding # {} => started /\ NoneSince(wantQueue, start)
    /\ started \/ activeWants = {}

-----------------------------------------------------------------------------
\* The entries of a queue have their fields.
LEMMA Entries ==
    ASSUME NEW q \in Seq(Entry)
    PROVE  /\ Len(q) \in Nat /\ DOMAIN q = 1..Len(q)
           /\ \A i \in 1..Len(q) : q[i].c \in Wants /\ q[i].age \in 0..MaxTimeout /\ q[i].active \in BOOLEAN
<1>1. Len(q) \in Nat /\ DOMAIN q = 1..Len(q)
  BY SMT
<1>2. \A i \in 1..Len(q) : q[i] \in Entry
  BY SMT
<1>. QED  BY <1>1, <1>2, SMT DEF Entry

\* A queue without its first entries.
LEMMA Dropped ==
    ASSUME NEW q \in Seq(Entry), NEW g \in 0..Len(q), NEW r, r = SubSeq(q, g + 1, Len(q))
    PROVE  /\ r \in Seq(Entry) /\ Len(r) = Len(q) - g
           /\ \A i \in 1..Len(r) : i + g \in 1..Len(q) /\ r[i] = q[i + g]
           /\ \A k \in 1..Len(q) : k > g => k - g \in 1..Len(r) /\ r[k - g] = q[k]
BY SMT

\* A check leaves a queue that agrees with the map and is in order, and if a
\* want stays active the timer is set for the oldest.
LEMMA Check ==
    ASSUME TimeoutAssumption, NEW q \in Seq(Entry), NEW active \in SUBSET Wants, NEW limit \in 0..MaxTimeout,
           Agree(q, active), InOrder(q), timer \in Nat, checkForTimeouts(q, active, limit)
    PROVE  /\ activeWants' \subseteq Wants /\ wantQueue' \in Seq(Entry) /\ timer' \in Nat
           /\ Agree(wantQueue', activeWants') /\ InOrder(wantQueue')
           /\ ctxOpen /\ activeWants' # {} => Due(wantQueue', timer', limit)
           /\ activeWants' \subseteq active
           /\ \A t : NoneSince(q, t) => NoneSince(wantQueue', t)
<1>1. PICK g \in 0..Len(q) :
         LET waits(e) == e.active /\ e.age < limit
             expired == {q[i].c : i \in {j \in 1..g : q[j].active}}
         IN  /\ \A i \in 1..g : ~waits(q[i])
             /\ g < Len(q) => waits(q[g + 1])
             /\ wantQueue' = SubSeq(q, g + 1, Len(q))
             /\ activeWants' = active \ expired
             /\ timer' = IF g < Len(q) /\ ctxOpen THEN limit - q[g + 1].age ELSE timer
  BY DEF checkForTimeouts
<1> DEFINE r == wantQueue'
<1>2. /\ r \in Seq(Entry) /\ Len(r) = Len(q) - g
      /\ \A i \in 1..Len(r) : i + g \in 1..Len(q) /\ r[i] = q[i + g]
      /\ \A k \in 1..Len(q) : k > g => k - g \in 1..Len(r) /\ r[k - g] = q[k]
  <2>1. r = SubSeq(q, g + 1, Len(q))
    BY <1>1
  <2> HIDE DEF r
  <2>. QED  BY <2>1, Dropped, SMT
<1> HIDE DEF r
<1>3. /\ Len(q) \in Nat /\ \A i \in 1..Len(q) : q[i].age \in 0..MaxTimeout
      /\ Len(r) \in Nat /\ \A i \in 1..Len(r) : r[i].age \in 0..MaxTimeout
  BY <1>2, Entries
<1>4. MaxTimeout \in Nat /\ limit \in Nat /\ g \in Nat
  BY <1>3, SMT DEF TimeoutAssumption
<1>5. InOrder(r)
  <2>1. ASSUME NEW i \in 1..Len(r), NEW j \in 1..Len(r), i < j PROVE r[i].age >= r[j].age
    <3>1. i + g < j + g
      BY <1>3, <1>4, <2>1, SMT
    <3>. QED  BY <1>2, <2>1, <3>1 DEF InOrder
  <2>. QED  BY <2>1 DEF InOrder
<1>6. Agree(r, activeWants')
  <2>1. ASSUME NEW i \in 1..Len(r), r[i].active PROVE r[i].c \in activeWants'
    <3>1. \A j \in 1..g : q[j].active => q[j].c # r[i].c
      BY <1>2, <2>1, SMT DEF Agree
    <3>2. r[i].c \in active
      BY <1>2, <2>1 DEF Agree
    <3>. QED  BY <1>1, <3>1, <3>2
  <2>2. ASSUME NEW w \in activeWants' PROVE \E i \in 1..Len(r) : r[i].active /\ r[i].c = w
    <3>1. PICK k \in 1..Len(q) : q[k].active /\ q[k].c = w
      BY <1>1, <2>2 DEF Agree
    <3>2. k > g
      <4>1. k \notin 1..g
        BY <1>1, <2>2, <3>1
      <4>. QED  BY <4>1, SMT
    <3>. QED  BY <1>2, <3>1, <3>2
  <2>3. ASSUME NEW i \in 1..Len(r), NEW j \in 1..Len(r), r[i].active, r[j].active, r[i].c = r[j].c PROVE i = j
    <3>1. i + g = j + g
      BY <1>2, <2>3, SMT DEF Agree
    <3>. QED  BY <1>2, <1>3, <1>4, <3>1, SMT
  <2>. QED  BY <2>1, <2>2, <2>3 DEF Agree
<1>7. timer' \in Nat
  <2>1. g < Len(q) => g + 1 \in 1..Len(q) /\ q[g + 1].age \in Int /\ q[g + 1].age < limit
    BY <1>1, <1>3, <1>4, SMT
  <2>. QED  BY <1>1, <1>4, <2>1, SMT
<1>8. ASSUME ctxOpen, activeWants' # {} PROVE Due(r, timer', limit)
  <2>1. PICK i \in 1..Len(r) : r[i].active
    BY <1>6, <1>8 DEF Agree
  <2>2. g < Len(q)
    BY <1>2, <1>3, <1>4, <2>1, SMT
  <2>3. timer' = limit - r[1].age /\ r[1].age < limit /\ 1 \in 1..Len(r)
    <3>1. 1 \in 1..Len(r) /\ r[1] = q[g + 1]
      BY <1>2, <1>3, <1>4, <2>2, SMT
    <3>. QED  BY <1>1, <1>8, <2>2, <3>1
  <2>4. ASSUME NEW k \in 1..Len(r) PROVE r[k].age + timer' <= limit
    <3>1. r[k].age \in Int /\ r[1].age \in Int /\ limit \in Int
      BY <1>3, <1>4, <2>3, SMT
    <3>2. r[k].age <= r[1].age
      BY <1>5, <2>3, <3>1, SMT DEF InOrder
    <3>. QED  BY <2>3, <3>1, <3>2, SMT
  <2>5. timer' > 0
    BY <1>3, <1>4, <2>3, SMT
  <2>. QED  BY <2>4, <2>5 DEF Due
<1>9. \A t : NoneSince(q, t) => NoneSince(r, t)
  BY <1>2 DEF NoneSince
<1>. QED  BY <1>1, <1>2, <1>5, <1>6, <1>7, <1>8, <1>9 DEF r

-----------------------------------------------------------------------------
\* A queue with entries added at its end.
LEMMA Appended ==
    ASSUME NEW q \in Seq(Entry), NEW p \in Seq(Entry), NEW r, r = q \o p
    PROVE  /\ r \in Seq(Entry) /\ Len(r) = Len(q) + Len(p) /\ Len(q) \in Nat /\ Len(p) \in Nat
           /\ \A i \in 1..Len(q) : r[i] = q[i]
           /\ \A i \in Len(q) + 1..Len(r) : r[i] = p[i - Len(q)]
BY SMT

\* One new entry for each key in ks that is not active.
Fresh(p, ks) ==
    /\ p \in Seq(Entry)
    /\ \A i \in 1..Len(p) : p[i].active /\ p[i].age = start /\ p[i].c \in ks \ activeWants
    /\ \A w \in ks \ activeWants : \E i \in 1..Len(p) : p[i].c = w
    /\ \A i, j \in 1..Len(p) : p[i].c = p[j].c => i = j

\* This is what AddPending adds.
LEMMA NewEntries ==
    ASSUME TimeoutAssumption, start \in 0..MaxTimeout, NEW ks \in SUBSET Wants, NEW keys \in newKeys(ks)
    PROVE  Fresh(newPending(keys), ks)
<1> DEFINE p == newPending(keys)
<1>1. PICK n \in 0..MaxQueue : keys \in Bijection(1..n, ks \ activeWants)
  BY DEF newKeys
<1>2. /\ keys \in [1..n -> ks \ activeWants]
      /\ \A i, j \in 1..n : keys[i] = keys[j] => i = j
      /\ \A w \in ks \ activeWants : \E i \in 1..n : keys[i] = w
  BY <1>1 DEF Bijection, Injection, Surjection, IsInjective
<1>3. n \in Nat
  BY SMT DEF TimeoutAssumption
<1>4. Len(keys) = n
  BY <1>2, <1>3, SMT
<1>5. p = [i \in 1..n |-> NewEntry(keys[i])]
  BY <1>4 DEF newPending
<1> HIDE DEF p
<1>6. \A i \in 1..n : p[i] = NewEntry(keys[i])
  BY <1>5
<1>7. \A i \in 1..n : NewEntry(keys[i]) \in Entry
  BY <1>2, <1>3, SMT DEF NewEntry, Entry
<1>8. p \in Seq(Entry) /\ Len(p) = n
  BY <1>3, <1>5, <1>7, SMT
<1>9. \A w : NewEntry(w).active /\ NewEntry(w).age = start /\ NewEntry(w).c = w
  BY DEF NewEntry
<1>10. \A i \in 1..Len(p) : p[i].active /\ p[i].age = start /\ p[i].c = keys[i]
  BY <1>6, <1>8, <1>9
<1>11. \A i \in 1..Len(p) : keys[i] \in ks \ activeWants
  BY <1>2, <1>8
<1>12. \A w \in ks \ activeWants : \E i \in 1..Len(p) : keys[i] = w
  BY <1>2, <1>8
<1>13. \A i, j \in 1..Len(p) : keys[i] = keys[j] => i = j
  BY <1>2, <1>8
<1>14. Fresh(p, ks)
  BY <1>8, <1>10, <1>11, <1>12, <1>13, SMT DEF Fresh
<1>. QED  BY <1>14 DEF p

\* The queue with these entries agrees with the map, and is in order.
LEMMA Longer ==
    ASSUME TimeoutAssumption, Types, Agree(wantQueue, activeWants), InOrder(wantQueue), NoneSince(wantQueue, start),
           NEW ks \in SUBSET Wants, NEW keys \in newKeys(ks), NEW r, r = wantQueue \o newPending(keys)
    PROVE  /\ r \in Seq(Entry)
           /\ Agree(r, activeWants \cup ks) /\ InOrder(r)
           /\ \A i \in 1..Len(r) : r[i].age = start \/ (i \in 1..Len(wantQueue) /\ r[i] = wantQueue[i])
<1> DEFINE q == wantQueue
           p == newPending(keys)
<1>1. Fresh(p, ks) /\ q \in Seq(Entry) /\ r = q \o p
  BY NewEntries DEF Types
<1>2. \A i \in 1..Len(q) : q[i].active => q[i].c \in activeWants
  BY DEF Agree
<1> HIDE DEF q, p
<1>3. /\ p \in Seq(Entry)
      /\ \A i \in 1..Len(p) : p[i].active /\ p[i].age = start /\ p[i].c \in ks \ activeWants
  BY <1>1 DEF Fresh
<1>4. \A w \in ks \ activeWants : \E i \in 1..Len(p) : p[i].c = w
  BY <1>1 DEF Fresh
<1>5. \A i, j \in 1..Len(p) : p[i].c = p[j].c => i = j
  BY <1>1 DEF Fresh
<1>6. r \in Seq(Entry) /\ Len(r) = Len(q) + Len(p) /\ Len(q) \in Nat /\ Len(p) \in Nat
  BY <1>3, <1>1, Appended, SMT
<1>7. \A i \in 1..Len(q) : i \in 1..Len(r) /\ r[i] = q[i]
  BY <1>3, <1>1, Appended, SMT
<1>8. \A i \in 1..Len(p) : i + Len(q) \in 1..Len(r) /\ r[i + Len(q)] = p[i]
  BY <1>3, <1>1, Appended, SMT
<1>9. ASSUME NEW i \in 1..Len(r), i \notin 1..Len(q)
      PROVE  i - Len(q) \in 1..Len(p) /\ r[i] = p[i - Len(q)]
  BY <1>3, <1>1, <1>9, Appended, SMT
<1>10. ASSUME NEW i \in 1..Len(r), i \notin 1..Len(q)
       PROVE  r[i].active /\ r[i].age = start /\ r[i].c \in ks \ activeWants
  BY <1>3, <1>9, <1>10
<1>11. Agree(r, activeWants \cup ks)
  <2>1. ASSUME NEW i \in 1..Len(r), r[i].active PROVE r[i].c \in activeWants \cup ks
    BY <1>2, <1>7, <1>10, <2>1
  <2>2. ASSUME NEW w \in activeWants \cup ks PROVE \E i \in 1..Len(r) : r[i].active /\ r[i].c = w
    <3>1. CASE w \in activeWants
      <4>1. PICK i \in 1..Len(q) : q[i].active /\ q[i].c = w
        BY <3>1 DEF Agree, q
      <4>. QED  BY <1>7, <4>1
    <3>2. CASE w \in ks \ activeWants
      <4>1. PICK i \in 1..Len(p) : p[i].c = w
        BY <1>4, <3>2
      <4>. QED  BY <1>3, <1>8, <4>1
    <3>. QED  BY <2>2, <3>1, <3>2
  <2>3. ASSUME NEW i \in 1..Len(r), NEW j \in 1..Len(r), r[i].active, r[j].active, r[i].c = r[j].c PROVE i = j
    <3>1. CASE i \in 1..Len(q) /\ j \in 1..Len(q)
      BY <1>7, <2>3, <3>1 DEF Agree, q
    <3>2. CASE i \notin 1..Len(q) /\ j \notin 1..Len(q)
      <4>1. i - Len(q) = j - Len(q)
        <5>1. i - Len(q) \in 1..Len(p) /\ p[i - Len(q)].c = r[i].c
          BY <1>9, <3>2
        <5>2. j - Len(q) \in 1..Len(p) /\ p[j - Len(q)].c = r[j].c
          BY <1>9, <3>2
        <5>. QED  BY <1>5, <2>3, <5>1, <5>2
      <4>. QED  BY <1>6, <4>1, SMT
    <3>3. CASE i \in 1..Len(q) /\ j \notin 1..Len(q)
      BY <1>2, <1>7, <1>10, <2>3, <3>3
    <3>4. CASE i \notin 1..Len(q) /\ j \in 1..Len(q)
      BY <1>2, <1>7, <1>10, <2>3, <3>4
    <3>. QED  BY <3>1, <3>2, <3>3, <3>4
  <2>. QED  BY <2>1, <2>2, <2>3 DEF Agree
<1>12. InOrder(r)
  <2>1. ASSUME NEW i \in 1..Len(r), NEW j \in 1..Len(r), i < j PROVE r[i].age >= r[j].age
    <3>1. CASE j \in 1..Len(q)
      <4>1. i \in 1..Len(q)
        BY <1>6, <2>1, <3>1, SMT
      <4>. QED  BY <1>7, <2>1, <3>1, <4>1 DEF InOrder, q
    <3>2. CASE j \notin 1..Len(q)
      <4>1. r[j].age = start /\ start >= start
        BY <1>10, <3>2, SMT DEF Types
      <4>2. r[i].age >= start
        BY <1>7, <1>10, <4>1 DEF NoneSince, q
      <4>. QED  BY <4>1, <4>2
    <3>. QED  BY <3>1, <3>2
  <2>. QED  BY <2>1 DEF InOrder
<1>13. \A i \in 1..Len(r) : r[i].age = start \/ (i \in 1..Len(q) /\ r[i] = q[i])
  BY <1>7, <1>10
<1>. QED  BY <1>6, <1>11, <1>12, <1>13 DEF q

-----------------------------------------------------------------------------
\* One lemma per action that touches what DInv is about.

LEMMA ChecksDInv ==
    ASSUME TimeoutAssumption, DInv, NEW active \in SUBSET Wants, NEW q \in Seq(Entry),
           Agree(q, active), InOrder(q), timeout' \in 0..MaxTimeout,
           checkForTimeouts(q, active, timeout'), shut' = shut, started' = started, started \/ active = {},
           adding' \subseteq Wants, start' \in 0..MaxTimeout, adding' # {} => started /\ NoneSince(q, start')
    PROVE  DInv'
<1>1. /\ activeWants' \subseteq Wants /\ wantQueue' \in Seq(Entry) /\ timer' \in Nat
      /\ Agree(wantQueue', activeWants') /\ InOrder(wantQueue')
      /\ ctxOpen /\ activeWants' # {} => Due(wantQueue', timer', timeout')
      /\ activeWants' \subseteq active
      /\ \A t : NoneSince(q, t) => NoneSince(wantQueue', t)
  BY Check DEF DInv, Types
<1>2. CheckIsInTime'
  BY <1>1 DEF CheckIsInTime, ctxOpen, Due
<1>3. Types'
  BY <1>1 DEF Types
<1>4. adding' # {} => started' /\ NoneSince(wantQueue', start')
  BY <1>1
<1>5. started' \/ activeWants' = {}
  BY <1>1
<1>. QED  BY <1>1, <1>2, <1>3, <1>4, <1>5 DEF DInv, Agree, InOrder, NoneSince

LEMMA InitDInv == TimeoutAssumption /\ newDontHaveTimeoutMgr => DInv
<1> SUFFICES ASSUME TimeoutAssumption, newDontHaveTimeoutMgr PROVE DInv
  OBVIOUS
<1>1. Types
  BY SMT DEF newDontHaveTimeoutMgr, Types, TimeoutAssumption
<1>2. Len(wantQueue) = 0 /\ 1..0 = {}
  BY SMT DEF newDontHaveTimeoutMgr
<1>3. Agree(wantQueue, activeWants) /\ InOrder(wantQueue)
  BY <1>2 DEF newDontHaveTimeoutMgr, Agree, InOrder
<1>. QED  BY <1>1, <1>3 DEF newDontHaveTimeoutMgr, DInv, CheckIsInTime

LEMMA StartDInv == TimeoutAssumption /\ DInv /\ Start => DInv'
<1> SUFFICES ASSUME TimeoutAssumption, DInv, Start PROVE DInv'
  OBVIOUS
<1>1. activeWants' = {} /\ started'
  BY DEF DInv, Start
<1>2. timeout' \in 0..MaxTimeout
  BY SMT DEF DInv, Types, Start, TimeoutAssumption
<1>. QED  BY <1>1, <1>2 DEF DInv, Types, Start, call, Agree, InOrder, NoneSince, CheckIsInTime

\* A longer timeout needs no other check.
LEMMA UpdateMessageLatencyDInv == TimeoutAssumption /\ DInv /\ UpdateMessageLatency => DInv'
<1> SUFFICES ASSUME TimeoutAssumption, DInv, UpdateMessageLatency PROVE DInv'
  OBVIOUS
<1>1. timeout' \in 0..MaxTimeout /\ started /\ UNCHANGED <<shut, started, adding, start>>
  BY DEF UpdateMessageLatency, call
<1>2. CASE timeout' < timeout
  BY <1>1, <1>2, ChecksDInv DEF UpdateMessageLatency, DInv, Types
<1>3. CASE ~(timeout' < timeout)
  <2>1. UNCHANGED <<activeWants, wantQueue, timer, tick, consumer>>
    BY <1>3 DEF UpdateMessageLatency
  <2>2. timeout <= timeout' /\ timeout \in Int /\ timeout' \in Int /\ timer \in Int
    BY <1>1, <1>3, SMT DEF DInv, Types, TimeoutAssumption
  <2>3. CheckIsInTime'
    <3> SUFFICES ASSUME ctxOpen', activeWants' # {}, ~tick', consumer' = "waiting"
                 PROVE  /\ timer' > 0
                        /\ \A i \in 1..Len(wantQueue') : wantQueue'[i].active => wantQueue'[i].age + timer' <= timeout'
      BY DEF CheckIsInTime
    <3>1. timer > 0 /\ \A i \in 1..Len(wantQueue) : wantQueue[i].active => wantQueue[i].age + timer <= timeout
      BY <1>1, <2>1 DEF DInv, CheckIsInTime, ctxOpen
    <3>2. \A i \in 1..Len(wantQueue) : wantQueue[i].age \in 0..MaxTimeout
      BY Entries DEF DInv, Types
    <3>3. \A i \in 1..Len(wantQueue) : wantQueue[i].active => wantQueue[i].age + timer <= timeout'
      BY <2>2, <3>1, <3>2, SMT DEF TimeoutAssumption
    <3>. QED  BY <2>1, <3>1, <3>3
  <2>. QED  BY <1>1, <2>1, <2>3 DEF DInv, Types, Agree, InOrder, NoneSince
<1>. QED  BY <1>2, <1>3

LEMMA measurePingLatencyDInv == TimeoutAssumption /\ DInv /\ measurePingLatency => DInv'
<1> SUFFICES ASSUME TimeoutAssumption, DInv, measurePingLatency PROVE DInv'
  OBVIOUS
<1>1. UNCHANGED <<started, tick, consumer, shut, adding, start>>
  BY DEF measurePingLatency, call
<1>2. CASE UNCHANGED <<timeout, activeWants, wantQueue, timer, firing>>
  BY <1>1, <1>2 DEF DInv, Types, Agree, InOrder, NoneSince, CheckIsInTime, ctxOpen
<1>3. CASE timeout' \in 1..MaxTimeout /\ checkForTimeouts(wantQueue, activeWants, timeout')
  <2>1. timeout' \in 0..MaxTimeout
    BY <1>3, SMT DEF TimeoutAssumption
  <2>. QED  BY <1>1, <1>3, <2>1, ChecksDInv DEF DInv, Types
<1>. QED  BY <1>2, <1>3 DEF measurePingLatency

LEMMA consumeCheckDInv == TimeoutAssumption /\ DInv /\ consumeCheck => DInv'
<1> SUFFICES ASSUME TimeoutAssumption, DInv, consumeCheck PROVE DInv'
  OBVIOUS
<1>1. UNCHANGED <<timeout, started, shut, adding, start>> /\ checkForTimeouts(wantQueue, activeWants, timeout')
  BY DEF consumeCheck, call
<1>. QED  BY <1>1, ChecksDInv DEF DInv, Types

LEMMA readStartDInv ==
    ASSUME TimeoutAssumption, DInv, NEW ks \in SUBSET Wants, readStart(ks)
    PROVE  DInv'
<1>1. /\ started /\ adding' = ks /\ start' = 0
      /\ UNCHANGED <<activeWants, wantQueue, timeout, started, timer, tick, consumer, shut>>
  BY DEF readStart
<1>2. \A i \in 1..Len(wantQueue) : wantQueue[i].age \in 0..MaxTimeout
  BY Entries DEF DInv, Types
<1>3. 0 \in 0..MaxTimeout /\ \A a \in 0..MaxTimeout : a >= 0
  BY SMT DEF TimeoutAssumption
<1>. QED  BY <1>1, <1>2, <1>3 DEF DInv, Types, Agree, InOrder, NoneSince, CheckIsInTime, ctxOpen

\* If a want is active, its entry shows that the timer runs out before one
\* that is as young as the new entries is over the timeout.
LEMMA AddPendingDInv == TimeoutAssumption /\ DInv /\ AddPending => DInv'
<1> SUFFICES ASSUME TimeoutAssumption, DInv, AddPending PROVE DInv'
  OBVIOUS
<1>1. started /\ adding' = {} /\ start' = 0 /\ UNCHANGED <<timeout, started, tick, consumer, shut>>
  BY DEF AddPending, DInv
<1>2. PICK keys \in newKeys(adding) :
         IF activeWants = {}
         THEN checkForTimeouts(wantQueue \o newPending(keys), adding, timeout)
         ELSE /\ wantQueue' = wantQueue \o newPending(keys)
              /\ activeWants' = activeWants \cup adding
              /\ UNCHANGED <<timer, firing>>
  BY DEF AddPending
<1>3. NoneSince(wantQueue, start)
  BY DEF AddPending, DInv
<1> DEFINE r == wantQueue \o newPending(keys)
<1>4. r \in Seq(Entry) /\ Agree(r, activeWants \cup adding) /\ InOrder(r)
  BY <1>3, Longer DEF DInv, Types
<1>5. \A i \in 1..Len(r) : r[i].age = start \/ (i \in 1..Len(wantQueue) /\ r[i] = wantQueue[i])
  BY <1>3, Longer DEF DInv, Types
<1>6. start \in 0..MaxTimeout /\ adding \subseteq Wants /\ timeout \in 0..MaxTimeout /\ timer \in Nat /\ wantQueue \in Seq(Entry) /\ activeWants \subseteq Wants
  BY DEF DInv, Types
<1>7. 0 \in 0..MaxTimeout /\ {} \subseteq Wants
  BY SMT DEF TimeoutAssumption
<1>8. CASE activeWants = {}
  <2>1. checkForTimeouts(r, adding, timeout')
    BY <1>1, <1>2, <1>8
  <2>2. Agree(r, adding)
    <3>1. activeWants \cup adding = adding
      BY <1>8
    <3>. QED  BY <1>4, <3>1
  <2> HIDE DEF r
  <2>. QED  BY <1>1, <1>4, <1>6, <1>7, <2>1, <2>2, ChecksDInv
<1>9. CASE activeWants # {}
  <2>1. wantQueue' = r /\ activeWants' = activeWants \cup adding /\ timer' = timer
    BY <1>2, <1>9
  <2> HIDE DEF r
  <2>2. CheckIsInTime'
    <3> SUFFICES ASSUME ctxOpen', ~tick', consumer' = "waiting"
                 PROVE  timer > 0 /\ \A i \in 1..Len(r) : r[i].active => r[i].age + timer <= timeout
      BY <1>1, <2>1 DEF CheckIsInTime
    <3>1. timer > 0 /\ \A i \in 1..Len(wantQueue) : wantQueue[i].active => wantQueue[i].age + timer <= timeout
      BY <1>1, <1>9 DEF DInv, CheckIsInTime, ctxOpen
    <3>2. PICK i \in 1..Len(wantQueue) : wantQueue[i].active
      BY <1>9 DEF DInv, Agree
    <3>3. wantQueue[i].age + timer <= timeout /\ wantQueue[i].age \in 0..MaxTimeout /\ wantQueue[i].age >= start
      BY <1>3, <1>6, <3>1, <3>2, Entries DEF NoneSince
    <3>4. start + timer <= timeout
      BY <1>6, <3>3, SMT DEF TimeoutAssumption
    <3>. QED  BY <1>5, <3>1, <3>4
  <2>3. activeWants' \subseteq Wants
    BY <1>6, <2>1
  <2>. QED  BY <1>1, <1>4, <1>6, <1>7, <2>1, <2>2, <2>3 DEF DInv, Types
<1>. QED  BY <1>8, <1>9

LEMMA CancelPendingDInv ==
    ASSUME TimeoutAssumption, DInv, NEW ks \in SUBSET Wants, CancelPending(ks)
    PROVE  DInv'
<1> DEFINE q == wantQueue
           r == wantQueue'
<1>1. /\ r = [i \in 1..Len(q) |-> IF q[i].c \in ks
                                  THEN [c |-> q[i].c, age |-> q[i].age, active |-> FALSE] ELSE q[i]]
      /\ activeWants' = activeWants \ ks
      /\ UNCHANGED <<timeout, timer, tick, consumer, shut, started, adding, start>>
  BY DEF CancelPending, call
<1>2. /\ q \in Seq(Entry) /\ timeout \in 0..MaxTimeout /\ timer \in Nat /\ activeWants \subseteq Wants
      /\ adding \subseteq Wants /\ start \in 0..MaxTimeout
  BY DEF DInv, Types
<1>3. Agree(q, activeWants) /\ InOrder(q)
  BY DEF DInv
<1> HIDE DEF q, r
<1>4. /\ Len(q) \in Nat
      /\ \A i \in 1..Len(q) : q[i].c \in Wants /\ q[i].age \in 0..MaxTimeout /\ q[i].active \in BOOLEAN
      /\ \A i \in 1..Len(q) : q[i] \in Entry
  BY <1>2, Entries, SMT
<1>5. \A i \in 1..Len(q) :
         /\ r[i].c = q[i].c /\ r[i].age = q[i].age
         /\ r[i].active <=> q[i].active /\ q[i].c \notin ks
  BY <1>1
<1>6. r \in Seq(Entry) /\ Len(r) = Len(q)
  <2>1. \A i \in 1..Len(q) : r[i] \in Entry
    BY <1>1, <1>4, SMT DEF Entry
  <2>. QED  BY <1>1, <1>4, <2>1, SMT
<1>7. Agree(r, activeWants \ ks)
  <2>1. ASSUME NEW i \in 1..Len(q), r[i].active PROVE r[i].c \in activeWants \ ks
    BY <1>3, <1>5, <2>1 DEF Agree
  <2>2. ASSUME NEW w \in activeWants \ ks PROVE \E i \in 1..Len(q) : r[i].active /\ r[i].c = w
    <3>1. PICK i \in 1..Len(q) : q[i].active /\ q[i].c = w
      BY <1>3, <2>2 DEF Agree
    <3>. QED  BY <1>5, <2>2, <3>1
  <2>3. ASSUME NEW i \in 1..Len(q), NEW j \in 1..Len(q), r[i].active, r[j].active, r[i].c = r[j].c PROVE i = j
    BY <1>3, <1>5, <2>3 DEF Agree
  <2>. QED  BY <1>6, <2>1, <2>2, <2>3 DEF Agree
<1>8. InOrder(r)
  BY <1>3, <1>5, <1>6 DEF InOrder
<1>9. CheckIsInTime'
  <2> SUFFICES ASSUME ctxOpen', activeWants' # {}, ~tick', consumer' = "waiting"
               PROVE  timer > 0 /\ \A i \in 1..Len(r) : r[i].active => r[i].age + timer <= timeout
    BY <1>1 DEF CheckIsInTime, r
  <2>1. timer > 0 /\ \A i \in 1..Len(q) : q[i].active => q[i].age + timer <= timeout
    BY <1>1 DEF DInv, CheckIsInTime, ctxOpen, q
  <2>. QED  BY <1>5, <1>6, <2>1
<1>10. adding # {} => started /\ NoneSince(r, start)
  BY <1>5, <1>6 DEF DInv, NoneSince, q
<1>. QED  BY <1>1, <1>2, <1>6, <1>7, <1>8, <1>9, <1>10 DEF DInv, Types, r

\* All entries age alike, up to the cap, and the timer comes closer as they do.
LEMMA timePassesDInv == TimeoutAssumption /\ DInv /\ timePasses => DInv'
<1> SUFFICES ASSUME TimeoutAssumption, DInv, timePasses PROVE DInv'
  OBVIOUS
<1> DEFINE q == wantQueue
           r == wantQueue'
<1>1. /\ r = [i \in 1..Len(q) |-> [c |-> q[i].c, active |-> q[i].active, age |-> older(q[i].age)]]
      /\ timer' = (IF timer > 0 THEN timer - 1 ELSE 0)
      /\ ~tick' => ~tick /\ timer # 1
      /\ start' = (IF adding = {} THEN start ELSE older(start))
      /\ UNCHANGED <<activeWants, timeout, consumer, shut, started, adding>>
  BY DEF timePasses
<1>2. /\ q \in Seq(Entry) /\ timeout \in 0..MaxTimeout /\ timer \in Nat /\ activeWants \subseteq Wants
      /\ adding \subseteq Wants /\ start \in 0..MaxTimeout
  BY DEF DInv, Types
<1>3. Agree(q, activeWants) /\ InOrder(q)
  BY DEF DInv
<1>4. \A a \in 0..MaxTimeout : older(a) \in 0..MaxTimeout /\ older(a) <= a + 1
  BY SMT DEF TimeoutAssumption, older
<1>5. \A a, b \in 0..MaxTimeout : a >= b => older(a) >= older(b)
  BY SMT DEF TimeoutAssumption, older
<1> HIDE DEF q, r
<1>6. /\ Len(q) \in Nat
      /\ \A i \in 1..Len(q) : q[i].c \in Wants /\ q[i].age \in 0..MaxTimeout /\ q[i].active \in BOOLEAN
  BY <1>2, Entries
<1>7. \A i \in 1..Len(q) : r[i].c = q[i].c /\ r[i].age = older(q[i].age) /\ r[i].active = q[i].active
  BY <1>1
<1>8. r \in Seq(Entry) /\ Len(r) = Len(q)
  <2>1. \A i \in 1..Len(q) : r[i] \in Entry
    <3>1. \A i \in 1..Len(q) : older(q[i].age) \in 0..MaxTimeout
      BY <1>4, <1>6
    <3>2. \A i \in 1..Len(q) : r[i] = [c |-> q[i].c, active |-> q[i].active, age |-> older(q[i].age)]
      BY <1>1
    <3>3. \A w \in Wants, a \in 0..MaxTimeout, b \in BOOLEAN : [c |-> w, active |-> b, age |-> a] \in Entry
      BY SMT DEF Entry
    <3>. QED  BY <1>6, <3>1, <3>2, <3>3
  <2>. QED  BY <1>1, <1>6, <2>1, SMT
<1>9. Agree(r, activeWants)
  <2>1. ASSUME NEW i \in 1..Len(q), r[i].active PROVE r[i].c \in activeWants
    BY <1>3, <1>7, <2>1 DEF Agree
  <2>2. ASSUME NEW w \in activeWants PROVE \E i \in 1..Len(q) : r[i].active /\ r[i].c = w
    <3>1. PICK i \in 1..Len(q) : q[i].active /\ q[i].c = w
      BY <1>3 DEF Agree
    <3>. QED  BY <1>7, <3>1
  <2>3. ASSUME NEW i \in 1..Len(q), NEW j \in 1..Len(q), r[i].active, r[j].active, r[i].c = r[j].c PROVE i = j
    BY <1>3, <1>7, <2>3 DEF Agree
  <2>. QED  BY <1>8, <2>1, <2>2, <2>3 DEF Agree
<1>10. InOrder(r)
  <2>1. ASSUME NEW i \in 1..Len(q), NEW j \in 1..Len(q), i < j PROVE r[i].age >= r[j].age
    <3>1. q[i].age >= q[j].age /\ q[i].age \in 0..MaxTimeout /\ q[j].age \in 0..MaxTimeout
      BY <1>3, <1>6, <2>1 DEF InOrder
    <3>. QED  BY <1>5, <1>7, <3>1
  <2>. QED  BY <1>8, <2>1 DEF InOrder
<1>11. CheckIsInTime'
  <2> SUFFICES ASSUME ctxOpen', activeWants' # {}, ~tick', consumer' = "waiting"
               PROVE  timer' > 0 /\ \A i \in 1..Len(r) : r[i].active => r[i].age + timer' <= timeout
    BY <1>1 DEF CheckIsInTime, r
  <2>1. timer > 0 /\ \A i \in 1..Len(q) : q[i].active => q[i].age + timer <= timeout
    BY <1>1 DEF DInv, CheckIsInTime, ctxOpen, q
  <2>2. timer' = timer - 1 /\ timer' > 0 /\ timer' \in Nat
    BY <1>1, <1>2, <2>1, SMT
  <2>3. ASSUME NEW i \in 1..Len(r), r[i].active PROVE r[i].age + timer' <= timeout
    <3>1. i \in 1..Len(q) /\ q[i].active /\ r[i].age = older(q[i].age)
      BY <1>7, <1>8, <2>3
    <3>2. q[i].age \in 0..MaxTimeout /\ older(q[i].age) \in 0..MaxTimeout /\ older(q[i].age) <= q[i].age + 1
      BY <1>4, <1>6, <3>1
    <3>3. q[i].age + timer <= timeout
      BY <2>1, <3>1
    <3>. QED  BY <1>2, <2>2, <3>1, <3>2, <3>3, SMT DEF TimeoutAssumption
  <2>. QED  BY <2>2, <2>3
<1>12. timer' \in Nat
  BY <1>1, <1>2, SMT
<1>13. adding # {} => started /\ NoneSince(r, start')
  <2> SUFFICES ASSUME adding # {} PROVE started /\ NoneSince(r, start')
    OBVIOUS
  <2>1. \A i \in 1..Len(q) : q[i].age >= start
    BY DEF DInv, NoneSince, q
  <2>2. start' = older(start)
    BY <1>1
  <2>3. \A i \in 1..Len(r) : r[i].age >= older(start)
    BY <1>2, <1>5, <1>6, <1>7, <1>8, <2>1
  <2>. QED  BY <2>2, <2>3 DEF DInv, NoneSince
<1>14. start' \in 0..MaxTimeout
  BY <1>1, <1>2, <1>4
<1>. QED  BY <1>1, <1>2, <1>8, <1>9, <1>10, <1>11, <1>12, <1>13, <1>14 DEF DInv, Types, r

LEMMA ShutdownDInv == DInv /\ Shutdown => DInv'
<1> SUFFICES ASSUME DInv, Shutdown PROVE DInv'
  OBVIOUS
<1>1. ~ctxOpen'
  BY DEF Shutdown, ctxOpen
<1>2. timer' \in Nat
  BY SMT DEF DInv, Types, Shutdown
<1>. QED  BY <1>1, <1>2 DEF DInv, Types, Shutdown, call, Agree, InOrder, NoneSince, CheckIsInTime

-----------------------------------------------------------------------------
\* The queue agrees with the map, is in order and is looked at in time, in
\* every reachable state, whatever the wants, the timeouts and the bounds.
THEOREM DInvInvariant == Spec => []DInv
<1>1. newDontHaveTimeoutMgr => DInv
  BY InitDInv, TimeoutAssumption
<1>2. DInv /\ [Next]_vars => DInv'
  <2> SUFFICES ASSUME DInv, [Next]_vars PROVE DInv'
    OBVIOUS
  <2>1. CASE consumeTimeouts
    BY <2>1 DEF consumeTimeouts, call, DInv, Types, Agree, InOrder, NoneSince, CheckIsInTime, ctxOpen
  <2>2. ASSUME NEW ks \in SUBSET Wants, fireTimeout(ks) PROVE DInv'
    BY <2>2 DEF fireTimeout, call, DInv, Types, Agree, InOrder, NoneSince, CheckIsInTime, ctxOpen
  <2>3. CASE UNCHANGED vars
    BY <2>3 DEF vars, call, DInv, Types, Agree, InOrder, NoneSince, CheckIsInTime, ctxOpen
  <2>. QED
    BY <2>1, <2>2, <2>3, TimeoutAssumption, StartDInv, UpdateMessageLatencyDInv, measurePingLatencyDInv,
       consumeCheckDInv, readStartDInv, AddPendingDInv, CancelPendingDInv, timePassesDInv, ShutdownDInv DEF Next
<1>. QED  BY <1>1, <1>2, PTL DEF Spec

\* The map activeWants and the queue of pendingWants agree, one active entry
\* for each active want, through AddPending, CancelPending and the checks.
THEOREM OneActiveEntryCorrect == Spec => []OneActiveEntry
<1>1. DInv => OneActiveEntry
  <2> SUFFICES ASSUME DInv, NEW w \in Wants
               PROVE  LET entries == {i \in 1..Len(wantQueue) : wantQueue[i].c = w /\ wantQueue[i].active}
                      IN  IF w \in activeWants THEN \E i \in 1..Len(wantQueue) : entries = {i} ELSE entries = {}
    BY DEF OneActiveEntry
  <2> DEFINE entries == {i \in 1..Len(wantQueue) : wantQueue[i].c = w /\ wantQueue[i].active}
  <2>1. ASSUME NEW i \in entries, NEW j \in entries PROVE i = j
    <3>1. /\ i \in 1..Len(wantQueue) /\ wantQueue[i].active
          /\ j \in 1..Len(wantQueue) /\ wantQueue[j].active
          /\ wantQueue[i].c = wantQueue[j].c
      OBVIOUS
    <3> HIDE DEF entries
    <3>. QED  BY <3>1 DEF DInv, Agree
  <2>2. ASSUME NEW i \in entries PROVE w \in activeWants
    <3>1. i \in 1..Len(wantQueue) /\ wantQueue[i].active /\ wantQueue[i].c = w
      OBVIOUS
    <3> HIDE DEF entries
    <3>. QED  BY <3>1 DEF DInv, Agree
  <2>3. CASE w \in activeWants
    <3>1. PICK i \in 1..Len(wantQueue) : wantQueue[i].active /\ wantQueue[i].c = w
      BY <2>3 DEF DInv, Agree
    <3>2. entries = {i}
      BY <2>1, <3>1
    <3>. QED  BY <2>3, <3>2
  <2>4. CASE w \notin activeWants
    BY <2>2, <2>4
  <2>. QED  BY <2>3, <2>4
<1>. QED  BY <1>1, DInvInvariant, PTL

\* The queue of pendingWants is in the order in which they were sent.
THEOREM QueueInOrderCorrect == Spec => []QueueInOrder
<1>1. DInv => QueueInOrder
  BY DEF DInv, InOrder, QueueInOrder
<1>. QED  BY <1>1, DInvInvariant, PTL

\* While wants are active and no check is under way, checkForTimeoutsTimer
\* runs and goes off before one of them is over the timeout.
THEOREM CheckIsInTimeCorrect == Spec => []CheckIsInTime
<1>1. DInv => CheckIsInTime
  BY DEF DInv
<1>. QED  BY <1>1, DInvInvariant, PTL
=============================================================================

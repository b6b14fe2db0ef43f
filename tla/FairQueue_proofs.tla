-------------------------- MODULE FairQueue_proofs --------------------------
(***************************************************************************)
(* For any items and owners and any number of items an owner may run       *)
(* (packages/inference-core/src/owner-fair-queue.ts): no owner that waits  *)
(* and may run is passed twice by another, the rotation and the buckets    *)
(* agree, and what is shown as the order of service is that order.         *)
(***************************************************************************)
EXTENDS FairQueue, OwnerFairQueue_proofs

\* The owner served last stands behind every other that waits and was passed by
\* nobody since.
LastIsLast ==
  queue.last \in Owners =>
    /\ \A p \in Owners : bypassed[queue.last][p] = 0
    /\ queue.last \in ToSet(queue.owners) =>
         \A o \in ToSet(queue.owners) \ {queue.last} : Before(queue.owners, o, queue.last)

\* Whoever passed o stands behind it.
PassedStandsFirst ==
  \A o, p \in Owners :
    o # p /\ bypassed[o][p] = 1 /\ p \in ToSet(queue.owners) => Before(queue.owners, o, p)

FairInv ==
  /\ QueueInv(queue)
  /\ bypassed \in [Owners -> [Owners -> {0, 1}]]
  /\ LastIsLast
  /\ PassedStandsFirst

\* Whoever waits has a turn.
LEMMA HasTurn ==
  ASSUME QueueInv(queue), NEW o \in Owners
  PROVE  Waiting(o) <=> o \in ToSet(queue.owners)
BY DEF QueueInv, Waiting

\* What a recount leaves: a counter it kept, of an owner that waited and waits.
LEMMA Recounted ==
  ASSUME FairInv, Recount
  PROVE  /\ bypassed' \in [Owners -> [Owners -> {0, 1}]]
         /\ \A o, p \in Owners :
              /\ bypassed[o][p] = 0 => bypassed'[o][p] = 0
              /\ bypassed'[o][p] = 1 => bypassed[o][p] = 1 /\ Waiting(o) /\ Waiting(o)'
<1>1. bypassed \in [Owners -> [Owners -> {0, 1}]] /\ NoTurns \in [Owners -> {0, 1}]
  BY DEF FairInv, NoTurns
<1>2. bypassed' = [o \in Owners |-> IF Counted(o) /\ Counted(o)' THEN bypassed[o] ELSE NoTurns]
  BY DEF Recount
<1>3. ASSUME NEW o \in Owners
      PROVE  \/ bypassed'[o] = NoTurns
             \/ bypassed'[o] = bypassed[o] /\ Waiting(o) /\ Waiting(o)'
  BY <1>2 DEF Counted
<1>4. \A p \in Owners : NoTurns[p] = 0
  BY DEF NoTurns
<1>5. bypassed' \in [Owners -> [Owners -> {0, 1}]]
  BY <1>1, <1>2
<1>6. ASSUME NEW o \in Owners, NEW p \in Owners
      PROVE  /\ bypassed[o][p] = 0 => bypassed'[o][p] = 0
             /\ bypassed'[o][p] = 1 => bypassed[o][p] = 1 /\ Waiting(o) /\ Waiting(o)'
  BY <1>3, <1>4
<1> QED BY <1>5, <1>6

LEMMA FairInit == Init => FairInv
<1> SUFFICES ASSUME Init PROVE FairInv
  OBVIOUS
<1>1. QueueInv(queue) /\ queue.last = NoOwner /\ NoOwner \notin Owners
  BY Fresh, AbsentAssumption DEF Init, EmptyQueue
<1>2. \A o, p \in Owners : bypassed[o][p] = 0
  BY DEF Init, NoTurns
<1>3. bypassed \in [Owners -> [Owners -> {0, 1}]]
  BY DEF Init, NoTurns
<1> QED BY <1>1, <1>2, <1>3 DEF FairInv, LastIsLast, PassedStandsFirst

LEMMA FairSubmit == ASSUME FairInv, NEW i \in Items, Submit(i) PROVE FairInv'
<1> DEFINE e == OwnerOf[i]
           s == queue.owners
<1>1. e \in Owners /\ s \in Seq(Owners) /\ IsInjective(s) /\ QueueInv(queue)
  BY OwnersAssumption, Parts DEF FairInv, QueueInv
<1>2. queue' = Enqueue(queue, i) /\ i \notin Queued(queue)
  BY DEF Submit
<1>3. QueueInv(queue')
  BY <1>1, <1>2, Enqueued
<1>4. queue'.last = queue.last
  BY <1>1, <1>2, EnqueuedTurns
<1>5. queue'.owners = IF e \in ToSet(s) THEN s ELSE JoinRotation(queue, e)
  BY <1>1, <1>2, EnqueuedTurns
<1>6. /\ bypassed' \in [Owners -> [Owners -> {0, 1}]]
      /\ \A o, p \in Owners :
           /\ bypassed[o][p] = 0 => bypassed'[o][p] = 0
           /\ bypassed'[o][p] = 1 => bypassed[o][p] = 1 /\ Waiting(o)
  BY Recounted DEF Submit
<1>7. \A o \in Owners : Waiting(o) <=> o \in ToSet(s)
  BY <1>1, HasTurn
<1> HIDE DEF e, s
<1>8. CASE e \in ToSet(s)
  <2>1. queue'.owners = s
    BY <1>5, <1>8
  <2>2. LastIsLast'
    BY <1>4, <1>6, <2>1 DEF FairInv, LastIsLast, s
  <2>3. PassedStandsFirst'
    BY <1>6, <2>1 DEF FairInv, PassedStandsFirst, s
  <2> QED BY <1>3, <1>6, <2>2, <2>3 DEF FairInv
<1>9. CASE e \notin ToSet(s)
  <2>1. /\ queue'.owners = JoinRotation(queue, e)
        /\ ToSet(queue'.owners) = ToSet(s) \cup {e}
    BY <1>1, <1>5, <1>9, Joined DEF s
  <2>2. /\ \A o, p \in ToSet(s) : Before(s, o, p) => Before(queue'.owners, o, p)
        /\ \A o \in ToSet(s) \ {queue.last} : Before(queue'.owners, o, e)
        /\ queue.last \in ToSet(s) => Before(queue'.owners, e, queue.last)
    <3>1. CASE queue.last \in ToSet(s)
      <4>1. PICK n \in DOMAIN s : n = IndexOf(s, queue.last) /\ s[n] = queue.last
        BY <1>1, <3>1, Found
      <4>2. queue'.owners = InsertAt(s, n, e)
        BY <1>9, <2>1, <3>1, <4>1 DEF JoinRotation, s
      <4>3. \A o, p \in ToSet(s) : Before(s, o, p) => Before(queue'.owners, o, p)
        BY <1>1, <4>2, BeforeInserted
      <4>4. ASSUME NEW o \in ToSet(s) \ {queue.last} PROVE Before(queue'.owners, o, e)
        <5>1. Before(s, o, queue.last)
          BY <1>1, <3>1, Parts DEF FairInv, LastIsLast, s
        <5>2. PICK j \in DOMAIN s, k \in DOMAIN s : j < k /\ s[j] = o /\ s[k] = queue.last
          BY <5>1 DEF Before
        <5>3. k = n
          BY <1>1, <4>1, <5>2 DEF IsInjective
        <5> QED BY <1>1, <4>2, <5>2, <5>3, BeforeInserted
      <4>5. Before(queue'.owners, e, queue.last)
        <5>1. n \in Nat /\ n <= n
          BY <1>1, LenProperties
        <5> QED BY <1>1, <4>1, <4>2, <5>1, BeforeInserted
      <4> QED BY <4>3, <4>4, <4>5
    <3>2. CASE queue.last \notin ToSet(s)
      <4>1. queue'.owners = Append(s, e)
        BY <2>1, <3>2 DEF JoinRotation, s
      <4>2. \A o, p \in ToSet(s) : Before(s, o, p) => Before(queue'.owners, o, p)
        BY <1>1, <4>1, BeforeAppend
      <4>3. \A o \in ToSet(s) : Before(queue'.owners, o, e)
        BY <1>1, <4>1, BeforeAppend
      <4> QED BY <3>2, <4>2, <4>3
    <3> QED BY <3>1, <3>2
  <2>3. ToSet(s) \subseteq Owners
    BY <1>1, Holds
  <2>4. queue.last \in Owners => \A p \in Owners : bypassed[queue.last][p] = 0
    BY DEF FairInv, LastIsLast
  <2>6. LastIsLast'
    <3> SUFFICES ASSUME queue.last \in Owners
                 PROVE  /\ \A p \in Owners : bypassed'[queue.last][p] = 0
                        /\ queue.last \in ToSet(queue'.owners) =>
                             \A o \in ToSet(queue'.owners) \ {queue.last} :
                               Before(queue'.owners, o, queue.last)
      BY <1>4 DEF LastIsLast
    <3>1. \A p \in Owners : bypassed'[queue.last][p] = 0
      BY <1>6, <2>4
    <3>2. ASSUME queue.last \in ToSet(queue'.owners),
                 NEW o \in ToSet(queue'.owners) \ {queue.last}
          PROVE  Before(queue'.owners, o, queue.last)
      <4>1. CASE queue.last \in ToSet(s) /\ o \in ToSet(s)
        <5>1. Before(s, o, queue.last)
          BY <3>2, <4>1 DEF FairInv, LastIsLast, s
        <5> QED BY <2>2, <4>1, <5>1
      <4>2. CASE o = e
        BY <2>1, <2>2, <3>2, <4>2
      <4>3. CASE queue.last = e
        BY <2>1, <2>2, <3>2, <4>3
      <4> QED BY <2>1, <3>2, <4>1, <4>2, <4>3
    <3> QED BY <3>1, <3>2
  <2>7. PassedStandsFirst'
    <3> SUFFICES ASSUME NEW o \in Owners, NEW p \in Owners, o # p,
                        bypassed'[o][p] = 1, p \in ToSet(queue'.owners)
                 PROVE  Before(queue'.owners, o, p)
      BY DEF PassedStandsFirst
    <3>1. bypassed[o][p] = 1 /\ o \in ToSet(s)
      BY <1>6, <1>7
    <3>2. CASE p \in ToSet(s)
      <4>1. Before(s, o, p)
        BY <3>1, <3>2 DEF FairInv, PassedStandsFirst, s
      <4> QED BY <2>2, <3>1, <3>2, <4>1
    <3>3. CASE p = e
      <4>1. o # queue.last
        BY <2>4, <3>1
      <4> QED BY <2>2, <3>1, <3>3, <4>1
    <3> QED BY <2>1, <3>2, <3>3
  <2> QED BY <1>3, <1>6, <2>6, <2>7 DEF FairInv
<1> QED BY <1>8, <1>9

LEMMA FairWithdraw == ASSUME FairInv, NEW i \in Items, Withdraw(i) PROVE FairInv'
<1> DEFINE s == queue.owners
           e == OwnerOf[i]
<1>1. s \in Seq(Owners) /\ IsInjective(s) /\ QueueInv(queue) /\ e \in Owners
  BY OwnersAssumption, Parts DEF FairInv, QueueInv
<1>2. queue' = RemoveItem(queue, i) /\ i \in Queued(queue)
  BY DEF Withdraw
<1>3. QueueInv(queue') /\ queue'.last = queue.last
  BY <1>1, <1>2, Removed, RemovedTurns
<1>4. /\ bypassed' \in [Owners -> [Owners -> {0, 1}]]
      /\ \A o, p \in Owners :
           /\ bypassed[o][p] = 0 => bypassed'[o][p] = 0
           /\ bypassed'[o][p] = 1 => bypassed[o][p] = 1 /\ Waiting(o)'
  BY Recounted DEF Withdraw
<1>5. \A o \in Owners : Waiting(o)' => o \in ToSet(queue'.owners)
  BY <1>3 DEF QueueInv, Waiting
<1>6. \/ queue'.owners = s
      \/ \E n \in DOMAIN s : s[n] = e /\ queue'.owners = RemoveAt(s, n)
  BY <1>1, <1>2, RemovedTurns
<1> HIDE DEF s, e
<1>7. /\ ToSet(queue'.owners) \subseteq ToSet(s)
      /\ \A o, p \in ToSet(queue'.owners) : Before(s, o, p) => Before(queue'.owners, o, p)
  <2>1. CASE queue'.owners = s
    BY <2>1
  <2>2. CASE \E n \in DOMAIN s : s[n] = e /\ queue'.owners = RemoveAt(s, n)
    <3>1. PICK n \in DOMAIN s : s[n] = e /\ queue'.owners = RemoveAt(s, n)
      BY <2>2
    <3>2. ToSet(queue'.owners) = ToSet(s) \ {s[n]}
      BY <1>1, <3>1, Without
    <3>3. \A o, p \in ToSet(queue'.owners) : Before(s, o, p) => Before(queue'.owners, o, p)
      BY <1>1, <3>1, <3>2, BeforeRemoved
    <3> QED BY <3>2, <3>3
  <2> QED BY <1>6, <2>1, <2>2
<1>8. LastIsLast'
  <2>1. queue.last \in Owners => \A p \in Owners : bypassed'[queue.last][p] = 0
    BY <1>4 DEF FairInv, LastIsLast
  <2>2. ASSUME queue.last \in Owners, queue.last \in ToSet(queue'.owners),
               NEW o \in ToSet(queue'.owners) \ {queue.last}
        PROVE  Before(queue'.owners, o, queue.last)
    <3>1. Before(s, o, queue.last)
      BY <1>7, <2>2 DEF FairInv, LastIsLast, s
    <3> QED BY <1>7, <2>2, <3>1
  <2> QED BY <1>3, <2>1, <2>2 DEF LastIsLast
<1>9. PassedStandsFirst'
  <2> SUFFICES ASSUME NEW o \in Owners, NEW p \in Owners, o # p,
                      bypassed'[o][p] = 1, p \in ToSet(queue'.owners)
               PROVE  Before(queue'.owners, o, p)
    BY DEF PassedStandsFirst
  <2>1. bypassed[o][p] = 1 /\ o \in ToSet(queue'.owners)
    BY <1>4, <1>5
  <2>2. Before(s, o, p)
    BY <1>7, <2>1 DEF FairInv, PassedStandsFirst, s
  <2> QED BY <1>7, <2>1, <2>2
<1> QED BY <1>3, <1>4, <1>8, <1>9 DEF FairInv

LEMMA FairFinish == ASSUME FairInv, NEW i \in Items, Finish(i) PROVE FairInv'
<1>1. queue' = queue /\ Recount
  BY DEF Finish
<1>2. /\ bypassed' \in [Owners -> [Owners -> {0, 1}]]
      /\ \A o, p \in Owners :
           /\ bypassed[o][p] = 0 => bypassed'[o][p] = 0
           /\ bypassed'[o][p] = 1 => bypassed[o][p] = 1
  BY <1>1, Recounted
<1>3. LastIsLast'
  BY <1>1, <1>2 DEF FairInv, LastIsLast
<1>4. PassedStandsFirst'
  BY <1>1, <1>2 DEF FairInv, PassedStandsFirst
<1> QED BY <1>1, <1>2, <1>3, <1>4 DEF FairInv

LEMMA FairServe == ASSUME FairInv, Serve PROVE FairInv'
<1> DEFINE s == queue.owners
<1>1. s \in Seq(Owners) /\ IsInjective(s) /\ QueueInv(queue)
  BY Parts DEF FairInv, QueueInv
<1>2. PICK d : d = DequeueWhere(queue, Accepted)
  OBVIOUS
<1>3. d.item # NoItem /\ queue' = d.queue
  BY <1>2 DEF Serve
<1>4. Eligible(queue, Accepted) # {}
  BY <1>2, <1>3 DEF DequeueWhere
<1>5. PICK k \in Eligible(queue, Accepted) :
        (\A j \in Eligible(queue, Accepted) : k <= j) /\ Serves(queue, k, d)
  BY <1>1, <1>2, <1>4, ServedWhere
<1>6. k \in DOMAIN s /\ DOMAIN s = 1..Len(s) /\ Len(s) \in Nat
  BY <1>1, LenProperties DEF Eligible
<1>7. PICK v : v = s[k]
  OBVIOUS
<1>8. /\ QueueInv(queue') /\ queue'.last = v /\ OwnerOf[d.item] = v
      /\ \/ queue'.owners = Turned(s, k) /\ v \notin ToSet(queue'.owners)
         \/ queue'.owners = Append(Turned(s, k), v)
  BY <1>3, <1>5, <1>7 DEF Serves
<1>9. v \in Owners /\ v \in ToSet(s)
  BY <1>1, <1>6, <1>7, TurnHasItem
<1>10. bypassed' = [o \in Owners |-> IF o # v /\ Counted(o)
                                     THEN [bypassed[o] EXCEPT ![v] = @ + 1] ELSE NoTurns]
  BY <1>2, <1>8 DEF Serve
<1> HIDE DEF s
<1>11. /\ Turned(s, k) \in Seq(Owners) /\ IsInjective(Turned(s, k))
       /\ ToSet(Turned(s, k)) = ToSet(s) \ {v}
  BY <1>1, <1>6, <1>7, Rotated DEF Turned
<1>12. ASSUME NEW o \in Owners, o # v, Counted(o)
       PROVE  o \in ToSet(s) /\ \A i \in DOMAIN s : s[i] = o => k < i
  <2>1. queue.buckets[o] # <<>> /\ Admissible(o)
    BY <1>12 DEF Counted, Waiting
  <2>2. o \in ToSet(s) /\ queue.buckets[o] \in Seq(Items)
    BY <1>1, <2>1, Parts DEF QueueInv, s
  <2>3. Head(queue.buckets[o]) \in Items /\ OwnerOf[Head(queue.buckets[o])] = o
    <3>1. Head(queue.buckets[o]) \in Items /\ Head(queue.buckets[o]) \in ToSet(queue.buckets[o])
      BY <2>1, <2>2, NothingIn
    <3> QED BY <1>1, <3>1 DEF QueueInv
  <2>4. Head(queue.buckets[o]) \in Accepted
    BY <2>1, <2>3 DEF Accepted
  <2>5. ASSUME NEW i \in DOMAIN s, s[i] = o PROVE k < i
    <3>1. i \in Eligible(queue, Accepted)
      BY <2>4, <2>5 DEF Eligible, s
    <3>2. k <= i /\ k # i
      BY <1>5, <1>7, <1>12, <2>5, <3>1
    <3> QED BY <1>6, <3>2
  <2> QED BY <2>2, <2>5
<1>13. ASSUME NEW o \in Owners, o # v, Counted(o) PROVE bypassed[o][v] = 0
  <2>1. bypassed[o][v] \in {0, 1}
    BY <1>9 DEF FairInv
  <2>2. ASSUME bypassed[o][v] = 1 PROVE FALSE
    <3>1. Before(s, o, v)
      BY <1>9, <1>13, <2>2 DEF FairInv, PassedStandsFirst, s
    <3>2. PICK j \in DOMAIN s, m \in DOMAIN s : j < m /\ s[j] = o /\ s[m] = v
      BY <3>1 DEF Before
    <3>3. m = k /\ k < j
      BY <1>1, <1>6, <1>7, <1>12, <1>13, <3>2 DEF IsInjective
    <3> QED BY <1>6, <3>2, <3>3
  <2> QED BY <2>1, <2>2
<1>14. ASSUME NEW o \in Owners
       PROVE  /\ bypassed'[o] \in [Owners -> {0, 1}]
              /\ \A p \in Owners : bypassed'[o][p] = 1 =>
                   o # v /\ Counted(o) /\ (p # v => bypassed[o][p] = 1)
  <2>1. CASE o # v /\ Counted(o)
    <3>1. bypassed'[o] = [bypassed[o] EXCEPT ![v] = 1]
      BY <1>10, <1>13, <2>1
    <3>2. bypassed[o] \in [Owners -> {0, 1}]
      BY DEF FairInv
    <3> QED BY <1>9, <2>1, <3>1, <3>2
  <2>2. CASE ~(o # v /\ Counted(o))
    <3>1. bypassed'[o] = NoTurns
      BY <1>10, <2>2
    <3> QED BY <3>1 DEF NoTurns
  <2> QED BY <2>1, <2>2
<1>15. bypassed' \in [Owners -> [Owners -> {0, 1}]]
  BY <1>10, <1>14
<1>16. LastIsLast'
  <2>1. \A p \in Owners : bypassed'[v][p] = 0
    BY <1>9, <1>14, <1>15
  <2>2. ASSUME v \in ToSet(queue'.owners), NEW o \in ToSet(queue'.owners) \ {v}
        PROVE  Before(queue'.owners, o, v)
    <3>1. queue'.owners = Append(Turned(s, k), v)
      BY <1>8, <2>2
    <3>2. o \in ToSet(Turned(s, k))
      BY <1>9, <1>11, <2>2, <3>1, AppendSet
    <3> QED BY <1>9, <1>11, <3>1, <3>2, BeforeAppend
  <2> QED BY <1>8, <2>1, <2>2 DEF LastIsLast
<1>17. PassedStandsFirst'
  <2> SUFFICES ASSUME NEW o \in Owners, NEW p \in Owners, o # p,
                      bypassed'[o][p] = 1, p \in ToSet(queue'.owners)
               PROVE  Before(queue'.owners, o, p)
    BY DEF PassedStandsFirst
  <2>1. o # v /\ Counted(o) /\ (p # v => bypassed[o][p] = 1)
    BY <1>14
  <2>2. o \in ToSet(s) /\ \A i \in DOMAIN s : s[i] = o => k < i
    BY <1>12, <2>1
  <2>3. CASE p = v
    <3>1. queue'.owners = Append(Turned(s, k), v)
      BY <1>8, <2>3
    <3>2. o \in ToSet(Turned(s, k))
      BY <1>11, <2>1, <2>2
    <3> QED BY <1>9, <1>11, <2>3, <3>1, <3>2, BeforeAppend
  <2>4. CASE p # v
    <3>1. p \in ToSet(s)
      <4>1. ToSet(Append(Turned(s, k), v)) = ToSet(Turned(s, k)) \cup {v}
        BY <1>9, <1>11, AppendSet
      <4>2. p \in ToSet(Turned(s, k))
        <5>1. CASE queue'.owners = Turned(s, k)
          BY <5>1
        <5>2. CASE queue'.owners = Append(Turned(s, k), v)
          BY <2>4, <4>1, <5>2
        <5> QED BY <1>8, <5>1, <5>2
      <4> QED BY <1>11, <4>2
    <3>2. Before(s, o, p)
      BY <2>1, <2>4, <3>1 DEF FairInv, PassedStandsFirst, s
    <3>3. PICK i \in DOMAIN s, j \in DOMAIN s : i < j /\ s[i] = o /\ s[j] = p
      BY <3>2 DEF Before
    <3>4. Before(Turned(s, k), o, p)
      BY <1>1, <1>6, <2>2, <3>3, BeforeTurned
    <3> QED BY <1>8, <1>9, <1>11, <3>4, BeforeAppend
  <2> QED BY <2>3, <2>4
<1> QED BY <1>8, <1>15, <1>16, <1>17 DEF FairInv

LEMMA FairStutter == FairInv /\ UNCHANGED vars => FairInv'
BY DEF FairInv, LastIsLast, PassedStandsFirst, vars

-----------------------------------------------------------------------------
\* An owner that waits and may run sees any other owner served at most once before
\* its own turn, however many items the others submit, withdraw and resubmit:
\* enqueue() lets a newcomer in before the owner served last, never before one
\* that waits longer.
THEOREM PassedOnce == Spec => []BoundedBypass
<1>1. FairInv /\ [Next]_vars => FairInv'
  BY FairSubmit, FairWithdraw, FairFinish, FairServe, FairStutter DEF Next
<1>2. FairInv => BoundedBypass
  BY DEF FairInv, BoundedBypass
<1> QED BY FairInit, <1>1, <1>2, PTL DEF Spec

-----------------------------------------------------------------------------
(* A bucket keeps its items in the order of arrival                        *)

\* What waits is what arrived and was neither served nor withdrawn, and a bucket
\* has its items in the order in which they arrived.
Arrivals ==
  /\ arrived \in Seq(Items) /\ IsInjective(arrived) /\ ToSet(arrived) = Queued(queue)
  /\ running \subseteq Items
  /\ \A o \in Owners, i, j \in Items : Before(queue.buckets[o], i, j) => Before(arrived, i, j)

\* The place of an item that waits.
LEMMA Arrived ==
  ASSUME Arrivals, NEW i \in Queued(queue)
  PROVE  \E n \in DOMAIN arrived :
           /\ n = IndexOf(arrived, i) /\ arrived[n] = i
           /\ RemoveAt(arrived, n) \in Seq(Items) /\ IsInjective(RemoveAt(arrived, n))
           /\ ToSet(RemoveAt(arrived, n)) = Queued(queue) \ {i}
<1>1. PICK n \in DOMAIN arrived : n = IndexOf(arrived, i) /\ arrived[n] = i
  BY Found DEF Arrivals
<1> QED BY <1>1, Without DEF Arrivals

\* An item leaves its bucket, the others keep their order, and it leaves the record.
LEMMA ArrivalsLeave ==
  ASSUME Arrivals, QueueInv(queue), NEW i \in Queued(queue),
         QueueInv(queue'), Queued(queue') = Queued(queue) \ {i},
         arrived' = RemoveAt(arrived, IndexOf(arrived, i)), running' \subseteq Items,
         \A o \in Owners \ {OwnerOf[i]} : queue'.buckets[o] = queue.buckets[o],
         \A a, b \in Items : Before(queue'.buckets[OwnerOf[i]], a, b)
                               => Before(queue.buckets[OwnerOf[i]], a, b)
  PROVE  Arrivals'
<1>1. PICK n \in DOMAIN arrived :
        /\ n = IndexOf(arrived, i) /\ arrived[n] = i
        /\ RemoveAt(arrived, n) \in Seq(Items) /\ IsInjective(RemoveAt(arrived, n))
        /\ ToSet(RemoveAt(arrived, n)) = Queued(queue) \ {i}
  BY Arrived
<1>2. arrived' \in Seq(Items) /\ IsInjective(arrived') /\ ToSet(arrived') = Queued(queue')
  BY <1>1
<1>3. ASSUME NEW o \in Owners, NEW a \in Items, NEW b \in Items, Before(queue'.buckets[o], a, b)
      PROVE  Before(arrived', a, b)
  <2>1. Before(queue.buckets[o], a, b)
    BY <1>3
  <2>2. Before(arrived, a, b)
    BY <2>1 DEF Arrivals
  <2>3. queue'.buckets[o] \in Seq(Items) /\ IsInjective(queue'.buckets[o])
    BY Parts DEF QueueInv
  <2>4. a \in ToSet(queue'.buckets[o]) /\ b \in ToSet(queue'.buckets[o])
    BY <1>3, <2>3, BeforeOnce
  <2>5. a \in Queued(queue') /\ b \in Queued(queue')
    BY <2>4 DEF Queued
  <2>6. a # arrived[n] /\ b # arrived[n] /\ arrived \in Seq(Items)
    BY <1>1, <2>5 DEF Arrivals
  <2> QED BY <1>1, <2>2, <2>6, BeforeRemoved
<1> QED BY <1>2, <1>3 DEF Arrivals

LEMMA ArrivalsSubmit ==
  ASSUME Arrivals, QueueInv(queue), NEW i \in Items, Submit(i)
  PROVE  Arrivals'
<1>1. /\ queue' = Enqueue(queue, i) /\ i \notin Queued(queue)
      /\ arrived' = Append(arrived, i) /\ running' = running
  BY DEF Submit
<1>2. QueueInv(queue') /\ Queued(queue') = Queued(queue) \cup {i}
  BY <1>1, Enqueued
<1>3. arrived' \in Seq(Items) /\ IsInjective(arrived') /\ ToSet(arrived') = Queued(queue')
  BY <1>1, <1>2, AppendOnce, AppendSet, AppendProperties DEF Arrivals
<1>4. ASSUME NEW o \in Owners, NEW a \in Items, NEW b \in Items, Before(queue'.buckets[o], a, b)
      PROVE  Before(arrived', a, b)
  <2>1. queue.buckets[o] \in Seq(Items)
    BY Parts
  <2>2. CASE o # OwnerOf[i]
    <3>1. queue'.buckets[o] = queue.buckets[o]
      BY <1>1, <2>2, EnqueuedTurns
    <3> QED BY <1>1, <1>4, <3>1, BeforeAppend DEF Arrivals
  <2>3. CASE o = OwnerOf[i]
    <3>1. queue'.buckets[o] = Append(queue.buckets[o], i)
      BY <1>1, <2>3, BucketOf
    <3>2. Before(queue.buckets[o], a, b) \/ (a \in ToSet(queue.buckets[o]) /\ b = i)
      BY <1>4, <2>1, <3>1, AppendBefore
    <3>3. Before(arrived, a, b) \/ (a \in ToSet(arrived) /\ b = i)
      BY <3>2 DEF Arrivals, Queued
    <3> QED BY <1>1, <3>3, BeforeAppend DEF Arrivals
  <2> QED BY <2>2, <2>3
<1> QED BY <1>1, <1>3, <1>4 DEF Arrivals

LEMMA ArrivalsWithdraw ==
  ASSUME Arrivals, QueueInv(queue), NEW i \in Items, Withdraw(i)
  PROVE  Arrivals'
<1>1. /\ queue' = RemoveItem(queue, i) /\ i \in Queued(queue) /\ running' = running
      /\ arrived' = RemoveAt(arrived, IndexOf(arrived, i))
  BY DEF Withdraw
<1>2. /\ QueueInv(queue') /\ Queued(queue') = Queued(queue) \ {i}
      /\ \A o \in Owners \ {OwnerOf[i]} : queue'.buckets[o] = queue.buckets[o]
  BY <1>1, Removed, RemovedTurns
<1>3. PICK n \in DOMAIN queue.buckets[OwnerOf[i]] :
        queue'.buckets[OwnerOf[i]] = RemoveAt(queue.buckets[OwnerOf[i]], n)
  BY <1>1, BucketOf
<1>4. queue.buckets[OwnerOf[i]] \in Seq(Items) /\ IsInjective(queue.buckets[OwnerOf[i]])
  BY OwnersAssumption, Parts DEF QueueInv
<1>5. \A a, b \in Items : Before(queue'.buckets[OwnerOf[i]], a, b)
                            => Before(queue.buckets[OwnerOf[i]], a, b)
  BY <1>3, <1>4, RemovalBefore
<1>6. running' \subseteq Items
  BY <1>1 DEF Arrivals
<1> QED BY <1>1, <1>2, <1>5, <1>6, ArrivalsLeave

LEMMA ArrivalsServe ==
  ASSUME Arrivals, QueueInv(queue), Serve
  PROVE  Arrivals'
<1>1. PICK d : d = DequeueWhere(queue, Accepted)
  OBVIOUS
<1>2. /\ d.item # NoItem /\ queue' = d.queue /\ running' = running \cup {d.item}
      /\ arrived' = RemoveAt(arrived, IndexOf(arrived, d.item))
  BY <1>1 DEF Serve
<1>3. Eligible(queue, Accepted) # {}
  BY <1>1, <1>2 DEF DequeueWhere
<1>4. PICK k \in Eligible(queue, Accepted) :
        (\A j \in Eligible(queue, Accepted) : k <= j) /\ Serves(queue, k, d)
  BY <1>1, <1>3, ServedWhere
<1>5. PICK l \in Eligible(queue, Accepted) :
        /\ \A j \in Eligible(queue, Accepted) : l <= j
        /\ d.queue.buckets = [queue.buckets EXCEPT ![queue.owners[l]] = Tail(queue.buckets[queue.owners[l]])]
  BY <1>1, <1>3, ServesFirst
<1>6. k \in DOMAIN queue.owners /\ l = k
  <2>1. Eligible(queue, Accepted) \subseteq DOMAIN queue.owners
    BY DEF Eligible
  <2>2. k \in Nat /\ l \in Nat
    BY <2>1, Parts, LenProperties
  <2> QED BY <1>4, <1>5, <2>1, <2>2
<1>7. PICK o \in Owners : o = queue.owners[k] /\ queue.buckets[o] # <<>>
  BY <1>6, TurnHasItem
<1>8. /\ d.item \in Queued(queue) /\ OwnerOf[d.item] = o
      /\ QueueInv(queue') /\ Queued(queue') = Queued(queue) \ {d.item}
      /\ \A p \in Owners \ {o} : queue'.buckets[p] = queue.buckets[p]
  BY <1>2, <1>4, <1>7 DEF Serves
<1>9. queue.buckets \in [Owners -> Seq(Items)]
  BY Parts
<1>10. queue'.buckets[o] = Tail(queue.buckets[o])
  BY <1>2, <1>5, <1>6, <1>7, <1>9
<1>11. \A a, b \in Items : Before(queue'.buckets[o], a, b) => Before(queue.buckets[o], a, b)
  BY <1>7, <1>9, <1>10, TailBefore
<1>12. running' \subseteq Items
  BY <1>2, <1>8, WaitsInBucket DEF Arrivals
<1> QED BY <1>2, <1>8, <1>11, <1>12, ArrivalsLeave

LEMMA ArrivalsStep ==
  ASSUME FairInv, Arrivals, [Next]_vars
  PROVE  Arrivals'
<1>1. QueueInv(queue)
  BY DEF FairInv
<1>2. ASSUME NEW i \in Items, Finish(i) PROVE Arrivals'
  BY <1>2 DEF Finish, Arrivals
<1>3. CASE UNCHANGED vars
  BY <1>3 DEF vars, Arrivals
<1> QED BY <1>1, <1>2, <1>3, ArrivalsSubmit, ArrivalsWithdraw, ArrivalsServe DEF Next

LEMMA ArrivalsInit == Init => Arrivals
<1> SUFFICES ASSUME Init PROVE Arrivals
  OBVIOUS
<1>1. arrived = <<>> /\ running = {} /\ queue = EmptyQueue
  BY DEF Init
<1>2. arrived \in Seq(Items) /\ IsInjective(arrived) /\ ToSet(arrived) = Queued(queue)
  BY <1>1, Fresh, EmptyOnce, EmptySeq
<1>3. \A o \in Owners, i, j \in Items : ~Before(queue.buckets[o], i, j)
  BY <1>1 DEF EmptyQueue, Before
<1> QED BY <1>1, <1>2, <1>3 DEF Arrivals

\* owner-fair-queue.ts:53, 92: the "bucket disappeared" that the queue would throw.
\* For any items, owners and limits, whatever is submitted, served and withdrawn in
\* whatever order: an owner has a turn, and one, exactly while it has a bucket; the
\* bucket is its waiting items in the order of arrival; and the owner served last
\* stands last while it waits.
THEOREM BucketsHaveTurns == Spec => []RotationMatchesBuckets
<1>1. FairInv /\ [Next]_vars => FairInv'
  BY FairSubmit, FairWithdraw, FairFinish, FairServe, FairStutter DEF Next
<1>2. FairInv /\ Arrivals /\ [Next]_vars => Arrivals'
  BY ArrivalsStep
<1>3. FairInv /\ Arrivals => RotationMatchesBuckets
  <2> SUFFICES ASSUME FairInv, Arrivals PROVE RotationMatchesBuckets
    OBVIOUS
  <2>1. QueueInv(queue) /\ TypeOK
    BY DEF FairInv, Arrivals, QueueInv, TypeOK
  <2>2. ASSUME NEW o \in Owners
        PROVE  /\ o \in ToSet(queue.owners) <=> Waiting(o)
               /\ ToSet(queue.buckets[o]) = {i \in ToSet(arrived) : OwnerOf[i] = o}
    <3>1. \A i \in ToSet(queue.buckets[o]) : OwnerOf[i] = o
      BY <2>1 DEF QueueInv
    <3>2. ToSet(queue.buckets[o]) \subseteq Queued(queue)
      BY DEF Queued
    <3>3. \A i \in Queued(queue) : OwnerOf[i] = o => i \in ToSet(queue.buckets[o])
      BY <2>1, WaitsInBucket
    <3>4. ToSet(arrived) = Queued(queue)
      BY DEF Arrivals
    <3> QED BY <2>1, <3>1, <3>2, <3>3, <3>4, HasTurn
  <2>3. ASSUME queue.last \in ToSet(queue.owners)
        PROVE  queue.owners[Len(queue.owners)] = queue.last
    <3>1. queue.owners \in Seq(Owners) /\ IsInjective(queue.owners) /\ queue.last \in Owners
      BY <2>1, <2>3, Parts DEF QueueInv
    <3>2. Len(queue.owners) \in Nat /\ DOMAIN queue.owners = 1..Len(queue.owners)
      BY <3>1, LenProperties
    <3>3. Len(queue.owners) \in DOMAIN queue.owners
      BY <2>3, <3>2 DEF ToSet
    <3>4. PICK x \in ToSet(queue.owners) : x = queue.owners[Len(queue.owners)]
      BY <3>3 DEF ToSet
    <3>5. ~Before(queue.owners, x, queue.last)
      BY <3>1, <3>2, <3>3, <3>4 DEF Before, IsInjective
    <3> QED BY <2>3, <3>1, <3>4, <3>5 DEF FairInv, LastIsLast
  <2> QED BY <2>1, <2>2, <2>3 DEF RotationMatchesBuckets, QueueInv, Arrivals
<1> QED BY FairInit, ArrivalsInit, <1>1, <1>2, <1>3, PTL DEF Spec

\* values(), whose positions the user is shown, is the order of service: for any
\* items, owners and limits, the next item is the first of the snapshot, and the
\* snapshot without it is the snapshot of the queue that is left.
THEOREM ServedAsShown == Spec => []SnapshotIsServiceOrder
<1>1. FairInv /\ [Next]_vars => FairInv'
  BY FairSubmit, FairWithdraw, FairFinish, FairServe, FairStutter DEF Next
<1>2. FairInv => SnapshotIsServiceOrder
  <2> SUFFICES ASSUME FairInv, Values(queue) # <<>>
               PROVE  /\ Dequeue(queue).item = Head(Values(queue))
                      /\ Values(Dequeue(queue).queue) = Tail(Values(queue))
    BY DEF SnapshotIsServiceOrder
  <2>1. PICK q : q = queue
    OBVIOUS
  <2>2. PICK N : N = Cardinality(Turns(q))
    OBVIOUS
  <2>3. PICK v : v = Values(q)
    OBVIOUS
  <2>4. QueueInv(q) /\ v # <<>>
    BY <2>1, <2>3 DEF FairInv
  <2>5. /\ N \in Nat /\ IsFiniteSet(Turns(q)) /\ v \in [1..N -> Items]
        /\ \A t \in Turns(q) : Rank(q, t) \in 0..N - 1 /\ v[Rank(q, t) + 1] = ItemOf(q, t)
    BY <2>2, <2>3, <2>4, Snapshot
  <2>6. v \in Seq(Items) /\ Len(v) = N
    BY <2>5, SeqDef, LenProperties
  <2>7. Turns(q) # {}
    <3>1. N # 0
      BY <2>4, <2>6, EmptySeq
    <3> QED BY <2>2, <3>1, FS_EmptySet
  <2>8. PICK d : d = Dequeue(q)
    OBVIOUS
  <2>9. PICK p : p = d.queue
    OBVIOUS
  <2>10. PICK n : n = Len(q.owners)
    OBVIOUS
  <2>11. /\ QueueInv(p) /\ <<1, 1>> \in Turns(q) /\ d.item = ItemOf(q, <<1, 1>>)
         /\ \A t \in Turns(p) : /\ MovedUp(n, t) \in Turns(q)
                                /\ ItemOf(p, t) = ItemOf(q, MovedUp(n, t))
    BY <2>4, <2>7, <2>8, <2>9, <2>10, TurnsMoveUp
  <2>12. /\ N = Cardinality(Turns(p)) + 1 /\ Rank(q, <<1, 1>>) = 0
         /\ \A t \in Turns(p) : Rank(q, MovedUp(n, t)) = Rank(p, t) + 1
    BY <2>2, <2>4, <2>7, <2>8, <2>9, <2>10, RanksMoveUp
  <2>13. d.item = Head(v)
    <3>1. v[1] = ItemOf(q, <<1, 1>>)
      <4>1. v[Rank(q, <<1, 1>>) + 1] = ItemOf(q, <<1, 1>>)
        BY <2>5, <2>11
      <4>2. Rank(q, <<1, 1>>) + 1 = 1
        BY <2>12
      <4> QED BY <4>1, <4>2
    <3>2. Head(v) = v[1]
      BY <2>4, <2>6, NothingIn
    <3> QED BY <2>11, <3>1, <3>2
  <2>14. PICK M : M = Cardinality(Turns(p))
    OBVIOUS
  <2>15. PICK w : w = Values(p)
    OBVIOUS
  <2>16. /\ M \in Nat /\ w \in [1..M -> Items]
         /\ \A t \in Turns(p) : w[Rank(p, t) + 1] = ItemOf(p, t)
         /\ \A m \in 0..M - 1 : \E t \in Turns(p) : Rank(p, t) = m
    BY <2>11, <2>14, <2>15, Snapshot
  <2>17. N = M + 1
    BY <2>12, <2>14
  <2>18. w \in Seq(Items) /\ Len(w) = M
    BY <2>16, SeqDef, LenProperties
  <2>19. /\ Tail(v) \in Seq(Items) /\ Len(Tail(v)) = M
         /\ \A m \in 1..M : Tail(v)[m] = v[m + 1]
    BY <2>4, <2>6, <2>16, <2>17, HeadTailProperties
  <2>20. ASSUME NEW m \in 1..M PROVE w[m] = Tail(v)[m]
    <3>1. m - 1 \in 0..M - 1 /\ (m - 1) + 1 = m
      BY <2>16
    <3>2. PICK t \in Turns(p) : Rank(p, t) = m - 1
      BY <2>16, <3>1
    <3>3. w[m] = ItemOf(p, t)
      <4>1. Rank(p, t) + 1 = m
        BY <3>1, <3>2
      <4> QED BY <2>16, <4>1
    <3>4. PICK u \in Turns(q) : u = MovedUp(n, t) /\ ItemOf(q, u) = ItemOf(p, t)
      BY <2>11
    <3>5. Rank(q, u) = m
      BY <2>12, <3>1, <3>2, <3>4
    <3>6. v[m + 1] = ItemOf(q, u)
      BY <2>5, <3>5
    <3> QED BY <2>19, <3>3, <3>4, <3>6
  <2>21. w = Tail(v)
    BY <2>18, <2>19, <2>20, SeqEqual
  <2> QED BY <2>1, <2>3, <2>8, <2>9, <2>13, <2>15, <2>21
<1> QED BY FairInit, <1>1, <1>2, PTL DEF Spec
=============================================================================

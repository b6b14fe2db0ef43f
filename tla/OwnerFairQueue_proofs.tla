----------------------- MODULE OwnerFairQueue_proofs ------------------------
(***************************************************************************)
(* What the methods of a queue keep and what they do to the items in it,   *)
(* for any items and owners                                                *)
(* (packages/inference-core/src/owner-fair-queue.ts).                      *)
(***************************************************************************)
EXTENDS OwnerFairQueue, OnceSequences, FiniteSetTheorems

\* An owner has a turn exactly while it has a bucket, and one; a bucket holds
\* items of its owner, each once.
QueueInv(q) ==
  /\ q \in Queues
  /\ IsInjective(q.owners)
  /\ \A o \in Owners :
       /\ o \in ToSet(q.owners) <=> q.buckets[o] # <<>>
       /\ IsInjective(q.buckets[o])
       /\ \A i \in ToSet(q.buckets[o]) : OwnerOf[i] = o

\* The parts of a queue.
LEMMA Parts ==
  ASSUME NEW q, QueueInv(q)
  PROVE  /\ q.owners \in Seq(Owners) /\ q.buckets \in [Owners -> Seq(Items)]
         /\ q.last \in Owners \cup {NoOwner}
         /\ \A o \in Owners : q.buckets[o] \in Seq(Items)
         /\ ToSet(q.owners) \subseteq Owners
<1>1. /\ q.owners \in Seq(Owners) /\ q.buckets \in [Owners -> Seq(Items)]
      /\ q.last \in Owners \cup {NoOwner}
  BY DEF QueueInv, Queues
<1>2. ToSet(q.owners) \subseteq Owners
  BY <1>1, LenProperties, ElementOfSeq DEF ToSet
<1> QED BY <1>1, <1>2

\* What a sequence of items holds are items.
LEMMA Holds ==
  ASSUME NEW S, NEW s \in Seq(S)
  PROVE  ToSet(s) \subseteq S
BY LenProperties, ElementOfSeq DEF ToSet

\* An item waits in the bucket of its owner.
LEMMA WaitsInBucket ==
  ASSUME NEW q, QueueInv(q)
  PROVE  /\ Queued(q) \subseteq Items
         /\ \A i \in Items : i \in Queued(q) <=> i \in ToSet(q.buckets[OwnerOf[i]])
<1>1. \A o \in Owners : ToSet(q.buckets[o]) \subseteq Items
  BY Parts, Holds
<1>2. \A i \in Items : OwnerOf[i] \in Owners
  BY OwnersAssumption
<1> QED BY <1>1, <1>2 DEF Queued, QueueInv

\* One bucket is replaced, and its owner has a turn if it is not empty.
LEMMA Replaced ==
  ASSUME NEW q, QueueInv(q), NEW o \in Owners, NEW b \in Seq(Items), IsInjective(b),
         \A i \in ToSet(b) : OwnerOf[i] = o,
         NEW p \in Queues, p.buckets = [q.buckets EXCEPT ![o] = b],
         IsInjective(p.owners),
         b # <<>> => ToSet(p.owners) = ToSet(q.owners) \cup {o},
         b = <<>> => ToSet(p.owners) = ToSet(q.owners) \ {o}
  PROVE  /\ QueueInv(p)
         /\ Queued(p) = (Queued(q) \ ToSet(q.buckets[o])) \cup ToSet(b)
<1>1. q.buckets \in [Owners -> Seq(Items)]
  BY Parts
<1>2. p.buckets[o] = b /\ \A r \in Owners : r # o => p.buckets[r] = q.buckets[r]
  BY <1>1
<1>3. ASSUME NEW r \in Owners
      PROVE  /\ r \in ToSet(p.owners) <=> p.buckets[r] # <<>>
             /\ IsInjective(p.buckets[r])
             /\ \A i \in ToSet(p.buckets[r]) : OwnerOf[i] = r
  <2>1. CASE r = o
    BY <1>2, <2>1
  <2>2. CASE r # o
    BY <1>2, <2>2 DEF QueueInv
  <2> QED BY <2>1, <2>2
<1>4. QueueInv(p)
  BY <1>3 DEF QueueInv
<1>5. ASSUME NEW i \in Items
      PROVE  i \in Queued(p) <=> i \in (Queued(q) \ ToSet(q.buckets[o])) \cup ToSet(b)
  <2>1. OwnerOf[i] \in Owners
    BY OwnersAssumption
  <2>2. i \in Queued(p) <=> i \in ToSet(p.buckets[OwnerOf[i]])
    BY <1>4, WaitsInBucket
  <2>3. i \in Queued(q) <=> i \in ToSet(q.buckets[OwnerOf[i]])
    BY WaitsInBucket
  <2>4. i \in ToSet(q.buckets[o]) => OwnerOf[i] = o
    BY DEF QueueInv
  <2>5. CASE OwnerOf[i] = o
    BY <1>2, <2>2, <2>3, <2>5
  <2>6. CASE OwnerOf[i] # o
    BY <1>2, <2>1, <2>2, <2>3, <2>4, <2>6
  <2> QED BY <2>5, <2>6
<1>6. Queued(p) \subseteq Items /\ Queued(q) \subseteq Items /\ ToSet(b) \subseteq Items
  BY <1>4, WaitsInBucket, Holds
<1> QED BY <1>4, <1>5, <1>6

\* A fresh queue.
LEMMA Fresh == QueueInv(EmptyQueue) /\ Queued(EmptyQueue) = {}
<1>1. EmptyQueue \in Queues
  BY EmptySeq DEF EmptyQueue, Queues
<1>2. EmptyQueue.owners = <<>> /\ \A o \in Owners : EmptyQueue.buckets[o] = <<>>
  BY DEF EmptyQueue
<1> QED BY <1>1, <1>2, EmptyOnce DEF QueueInv, Queued

\* Where an element of a sequence is.
LEMMA Found ==
  ASSUME NEW S, NEW s \in Seq(S), NEW e \in ToSet(s)
  PROVE  IndexOf(s, e) \in DOMAIN s /\ s[IndexOf(s, e)] = e
<1>1. \E k \in DOMAIN s : s[k] = e
  BY DEF ToSet
<1> QED BY <1>1 DEF IndexOf

\* An element is put in before another.
LEMMA Inserted ==
  ASSUME NEW S, NEW s \in Seq(S), IsInjective(s), NEW n \in DOMAIN s,
         NEW e \in S, e \notin ToSet(s)
  PROVE  /\ InsertAt(s, n, e) \in Seq(S) /\ IsInjective(InsertAt(s, n, e))
         /\ ToSet(InsertAt(s, n, e)) = ToSet(s) \cup {e}
<1> DEFINE l == SubSeq(s, 1, n - 1)
           r == SubSeq(s, n, Len(s))
           m == l \o <<e>>
<1>1. Len(s) \in Nat /\ n \in 1..Len(s)
  BY LenProperties
<1>2. n - 1 \in 0..Len(s) /\ (n - 1) + 1 = n
  BY <1>1
<1>3. /\ l \in Seq(S) /\ IsInjective(l) /\ r \in Seq(S) /\ IsInjective(r)
      /\ ToSet(l) \cup ToSet(r) = ToSet(s) /\ ToSet(l) \cap ToSet(r) = {}
  BY <1>2, Cut
<1>4. InsertAt(s, n, e) = m \o r
  BY DEF InsertAt
<1> HIDE DEF l, r
<1>5. l \o <<e>> = Append(l, e)
  BY <1>3, AppendIsConcat
<1>6. Append(l, e) \in Seq(S) /\ IsInjective(Append(l, e)) /\ ToSet(Append(l, e)) = ToSet(l) \cup {e}
  BY <1>3, AppendOnce, AppendSet, AppendProperties
<1>7. m \in Seq(S) /\ IsInjective(m) /\ ToSet(m) = ToSet(l) \cup {e}
  BY <1>5, <1>6
<1> HIDE DEF m
<1>8. ToSet(m) \cap ToSet(r) = {}
  BY <1>3, <1>7
<1>9. m \o r \in Seq(S)
  BY <1>3, <1>7, ConcatProperties
<1>10. IsInjective(m \o r)
  BY <1>3, <1>7, <1>8, ConcatOnce
<1>11. ToSet(m \o r) = ToSet(m) \cup ToSet(r)
  BY <1>3, <1>7, ConcatSet
<1> QED BY <1>3, <1>4, <1>7, <1>9, <1>10, <1>11

\* A newcomer enters the rotation.
LEMMA Joined ==
  ASSUME NEW q, QueueInv(q), NEW o \in Owners, o \notin ToSet(q.owners)
  PROVE  /\ JoinRotation(q, o) \in Seq(Owners) /\ IsInjective(JoinRotation(q, o))
         /\ ToSet(JoinRotation(q, o)) = ToSet(q.owners) \cup {o}
<1>1. q.owners \in Seq(Owners) /\ IsInjective(q.owners)
  BY Parts DEF QueueInv
<1>2. CASE q.last \in ToSet(q.owners) /\ q.last # o
  <2>1. JoinRotation(q, o) = InsertAt(q.owners, IndexOf(q.owners, q.last), o)
    BY <1>2 DEF JoinRotation
  <2>2. IndexOf(q.owners, q.last) \in DOMAIN q.owners
    BY <1>1, <1>2, Found
  <2> QED BY <1>1, <2>1, <2>2, Inserted
<1>3. CASE ~(q.last \in ToSet(q.owners) /\ q.last # o)
  <2>1. JoinRotation(q, o) = Append(q.owners, o)
    BY <1>3 DEF JoinRotation
  <2> QED BY <1>1, <2>1, AppendOnce, AppendSet, AppendProperties
<1> QED BY <1>2, <1>3

\* enqueue().
LEMMA Enqueued ==
  ASSUME NEW q, QueueInv(q), NEW i \in Items, i \notin Queued(q)
  PROVE  QueueInv(Enqueue(q, i)) /\ Queued(Enqueue(q, i)) = Queued(q) \cup {i}
<1> DEFINE o == OwnerOf[i]
           b == Append(q.buckets[o], i)
           p == Enqueue(q, i)
<1>1. o \in Owners
  BY OwnersAssumption
<1>2. q \in Queues /\ q.buckets \in [Owners -> Seq(Items)] /\ q.buckets[o] \in Seq(Items)
  BY <1>1, Parts DEF QueueInv
<1>3. IsInjective(q.buckets[o]) /\ i \notin ToSet(q.buckets[o])
  BY <1>1, WaitsInBucket DEF QueueInv
<1>4. b \in Seq(Items) /\ b # <<>> /\ IsInjective(b) /\ ToSet(b) = ToSet(q.buckets[o]) \cup {i}
  BY <1>2, <1>3, AppendOnce, AppendSet, AppendProperties
<1>5. \A j \in ToSet(b) : OwnerOf[j] = o
  BY <1>1, <1>4 DEF QueueInv
<1>6. p.buckets = [q.buckets EXCEPT ![o] = b]
  BY <1>2 DEF Enqueue, Queues
<1>7. p.owners = IF q.buckets[o] # <<>> THEN q.owners ELSE JoinRotation(q, o)
  BY <1>2 DEF Enqueue, Queues
<1>8. p.last = q.last /\ DOMAIN p = {"owners", "buckets", "last"}
  BY <1>2 DEF Enqueue, Queues
<1>9. /\ p.owners \in Seq(Owners) /\ IsInjective(p.owners)
      /\ ToSet(p.owners) = ToSet(q.owners) \cup {o}
  <2>1. CASE q.buckets[o] # <<>>
    BY <1>1, <1>7, <2>1, Parts DEF QueueInv
  <2>2. CASE q.buckets[o] = <<>>
    <3>1. o \notin ToSet(q.owners)
      BY <1>1, <2>2 DEF QueueInv
    <3> HIDE DEF p, o
    <3> QED BY <1>1, <1>7, <2>2, <3>1, Joined
  <2> QED BY <2>1, <2>2
<1>10. p \in Queues
  <2>1. [q.buckets EXCEPT ![o] = b] \in [Owners -> Seq(Items)]
    BY <1>1, <1>2, <1>4
  <2>2. p.buckets \in [Owners -> Seq(Items)] /\ p.last \in Owners \cup {NoOwner}
    BY <1>6, <1>8, <2>1, Parts
  <2>3. p = [q EXCEPT !.buckets[o] = b, !.owners = IF q.buckets[o] # <<>> THEN q.owners ELSE JoinRotation(q, o)]
    BY DEF Enqueue
  <2> HIDE DEF b, o
  <2> QED BY <1>2, <1>9, <2>2, <2>3 DEF Queues
<1> HIDE DEF p, b, o
<1>11. /\ QueueInv(p)
       /\ Queued(p) = (Queued(q) \ ToSet(q.buckets[o])) \cup ToSet(b)
  BY <1>1, <1>4, <1>5, <1>6, <1>9, <1>10, Replaced
<1>12. ToSet(q.buckets[o]) \subseteq Queued(q)
  BY <1>1 DEF Queued
<1> QED BY <1>4, <1>11, <1>12 DEF p

\* What stands behind an element, then what stands before it.
LEMMA Rotated ==
  ASSUME NEW S, NEW s \in Seq(S), IsInjective(s), NEW n \in DOMAIN s
  PROVE  LET t == SubSeq(s, n + 1, Len(s)) \o SubSeq(s, 1, n - 1)
         IN  t \in Seq(S) /\ IsInjective(t) /\ ToSet(t) = ToSet(s) \ {s[n]}
<1>0. Len(s) \in Nat /\ DOMAIN s = 1..Len(s) /\ n \in 1..Len(s)
  BY LenProperties
<1> DEFINE l == SubSeq(s, 1, n - 1)
           r == SubSeq(s, n + 1, Len(s))
<1>1. /\ 1 \in 1..Len(s) + 1 /\ n - 1 \in 0..Len(s)
      /\ n + 1 \in 1..Len(s) + 1 /\ Len(s) \in 0..Len(s)
  BY <1>0
<1>2. l \in Seq(S) /\ IsInjective(l) /\ ToSet(l) = {s[k] : k \in 1..n - 1}
  BY <1>1, SubSeqOnce
<1>3. r \in Seq(S) /\ IsInjective(r) /\ ToSet(r) = {s[k] : k \in n + 1..Len(s)}
  BY <1>1, SubSeqOnce
<1>4. ASSUME NEW a \in 1..n - 1, NEW b \in n + 1..Len(s) PROVE s[a] # s[b]
  BY <1>0 DEF IsInjective
<1>5. ASSUME NEW a \in 1..n - 1 PROVE s[a] # s[n]
  BY <1>0 DEF IsInjective
<1>6. ASSUME NEW b \in n + 1..Len(s) PROVE s[b] # s[n]
  BY <1>0 DEF IsInjective
<1>7. ToSet(r) \cap ToSet(l) = {} /\ s[n] \notin ToSet(l) /\ s[n] \notin ToSet(r)
  BY <1>2, <1>3, <1>4, <1>5, <1>6
<1>8. 1..Len(s) = (1..n - 1) \cup {n} \cup (n + 1..Len(s))
  BY <1>0
<1>9. ToSet(s) = ToSet(l) \cup {s[n]} \cup ToSet(r)
  BY <1>0, <1>2, <1>3, <1>8 DEF ToSet
<1> HIDE DEF l, r
<1>10. r \o l \in Seq(S)
  BY <1>2, <1>3, ConcatProperties
<1>11. IsInjective(r \o l)
  BY <1>2, <1>3, <1>7, ConcatOnce
<1>12. ToSet(r \o l) = ToSet(r) \cup ToSet(l)
  BY <1>2, <1>3, ConcatSet
<1>13. ToSet(r \o l) = ToSet(s) \ {s[n]}
  BY <1>7, <1>9, <1>12
<1> QED BY <1>10, <1>11, <1>13 DEF l, r

\* The owner of a turn has something to be served.
LEMMA TurnHasItem ==
  ASSUME NEW q, QueueInv(q), NEW k \in DOMAIN q.owners
  PROVE  /\ q.owners[k] \in Owners /\ q.owners[k] \in ToSet(q.owners)
         /\ q.buckets[q.owners[k]] # <<>>
<1>1. q.owners[k] \in ToSet(q.owners)
  BY DEF ToSet
<1> QED BY <1>1, Parts DEF QueueInv

\* What stands behind the k-th owner, then what stands before it.
Turned(s, k) == SubSeq(s, k + 1, Len(s)) \o SubSeq(s, 1, k - 1)

\* d is what a dequeue that serves the k-th owner of q returns.
Serves(q, k, d) ==
  /\ d.item \in Queued(q) /\ OwnerOf[d.item] = q.owners[k]
  /\ QueueInv(d.queue) /\ Queued(d.queue) = Queued(q) \ {d.item}
  /\ \A p \in Owners \ {q.owners[k]} : d.queue.buckets[p] = q.buckets[p]
  /\ d.queue.last = q.owners[k]
  /\ \/ d.queue.owners = Turned(q.owners, k) /\ q.owners[k] \notin ToSet(d.queue.owners)
     \/ d.queue.owners = Append(Turned(q.owners, k), q.owners[k])

\* dequeueWhere() serves the first owner whose next item is accepted.
LEMMA ServedWhere ==
  ASSUME NEW q, QueueInv(q), NEW accepted, Eligible(q, accepted) # {}
  PROVE  \E k \in Eligible(q, accepted) :
           /\ \A j \in Eligible(q, accepted) : k <= j
           /\ Serves(q, k, DequeueWhere(q, accepted))
<1>1. /\ q.owners \in Seq(Owners) /\ IsInjective(q.owners)
      /\ q.buckets \in [Owners -> Seq(Items)]
      /\ Len(q.owners) \in Nat /\ DOMAIN q.owners = 1..Len(q.owners)
  BY Parts, LenProperties DEF QueueInv
<1> DEFINE n == CHOOSE k \in Eligible(q, accepted) : \A j \in Eligible(q, accepted) : k <= j
<1>2. n \in Eligible(q, accepted) /\ \A j \in Eligible(q, accepted) : n <= j
  <2>1. Eligible(q, accepted) \subseteq Nat
    BY <1>1 DEF Eligible
  <2>2. \E k \in Eligible(q, accepted) : \A j \in Eligible(q, accepted) : k <= j
    BY <2>1, SmallestNat
  <2> QED BY <2>2
<1>3. n \in DOMAIN q.owners
  BY <1>2 DEF Eligible
<1> DEFINE o == q.owners[n]
           b == q.buckets[o]
           rest == Tail(b)
           turned == Turned(q.owners, n)
           p == [owners  |-> IF rest = <<>> THEN turned ELSE Append(turned, o),
                 buckets |-> [q.buckets EXCEPT ![o] = rest],
                 last    |-> o]
<1>4. DequeueWhere(q, accepted) = [item |-> Head(b), queue |-> p]
  BY DEF DequeueWhere, Turned
<1>5. o \in Owners /\ o \in ToSet(q.owners) /\ b # <<>>
  BY <1>3, TurnHasItem
<1>6. b \in Seq(Items) /\ IsInjective(b) /\ \A i \in ToSet(b) : OwnerOf[i] = o
  BY <1>1, <1>5 DEF QueueInv
<1>7. turned \in Seq(Owners) /\ IsInjective(turned) /\ ToSet(turned) = ToSet(q.owners) \ {o}
  BY <1>1, <1>3, Rotated DEF Turned
<1> HIDE DEF n, o, b, turned
<1>8. /\ Head(b) \in ToSet(b) /\ rest \in Seq(Items) /\ IsInjective(rest)
      /\ ToSet(rest) = ToSet(b) \ {Head(b)}
  BY <1>5, <1>6, Behead
<1>9. /\ Append(turned, o) \in Seq(Owners) /\ IsInjective(Append(turned, o))
      /\ ToSet(Append(turned, o)) = ToSet(turned) \cup {o}
  BY <1>5, <1>7, AppendOnce, AppendSet, AppendProperties
<1> HIDE DEF rest
<1>10. /\ p.owners \in Seq(Owners) /\ IsInjective(p.owners)
       /\ rest # <<>> => ToSet(p.owners) = ToSet(q.owners) \cup {o}
       /\ rest = <<>> => ToSet(p.owners) = ToSet(q.owners) \ {o}
  BY <1>5, <1>7, <1>9
<1>11. \/ p.owners = turned /\ o \notin ToSet(p.owners)
       \/ p.owners = Append(turned, o)
  BY <1>7
<1>12. p \in Queues /\ p.buckets = [q.buckets EXCEPT ![o] = rest] /\ p.last = o
  <2>1. [q.buckets EXCEPT ![o] = rest] \in [Owners -> Seq(Items)]
    BY <1>1, <1>5, <1>8
  <2> QED BY <1>5, <1>10, <2>1 DEF Queues
<1> HIDE DEF p
<1>13. \A i \in ToSet(rest) : OwnerOf[i] = o
  BY <1>6, <1>8
<1>14. /\ QueueInv(p)
       /\ Queued(p) = (Queued(q) \ ToSet(q.buckets[o])) \cup ToSet(rest)
  BY <1>5, <1>8, <1>10, <1>12, <1>13, Replaced
<1>15. ToSet(b) \subseteq Queued(q) /\ b = q.buckets[o]
  BY <1>5 DEF Queued, b
<1>16. Head(b) \in Queued(q) /\ OwnerOf[Head(b)] = o /\ Queued(p) = Queued(q) \ {Head(b)}
  BY <1>6, <1>8, <1>14, <1>15
<1>17. \A r \in Owners \ {o} : p.buckets[r] = q.buckets[r]
  BY <1>1, <1>12
<1>18. PICK d : d = DequeueWhere(q, accepted)
  OBVIOUS
<1>19. d.item = Head(b) /\ d.queue = p
  BY <1>4, <1>18
<1>20. Serves(q, n, d)
  BY <1>11, <1>12, <1>14, <1>16, <1>17, <1>19 DEF Serves, o, turned
<1> QED BY <1>2, <1>18, <1>20

\* dequeue() of a queue that is not empty: one of its items, and the rest.
LEMMA Dequeued ==
  ASSUME NEW q, QueueInv(q), Queued(q) # {}
  PROVE  /\ Dequeue(q).item \in Queued(q)
         /\ QueueInv(Dequeue(q).queue)
         /\ Queued(Dequeue(q).queue) = Queued(q) \ {Dequeue(q).item}
<1>1. PICK o \in Owners : ToSet(q.buckets[o]) # {}
  BY DEF Queued
<1>2. q.buckets[o] # <<>>
  BY <1>1, EmptyOnce
<1>3. o \in ToSet(q.owners) /\ q.buckets[o] \in Seq(Items)
  BY <1>2, Parts DEF QueueInv
<1>4. Head(q.buckets[o]) \in Items
  BY <1>2, <1>3, NothingIn
<1>5. PICK k \in DOMAIN q.owners : q.owners[k] = o
  BY <1>3 DEF ToSet
<1>6. Eligible(q, Items) # {}
  BY <1>4, <1>5 DEF Eligible
<1>7. PICK n : Serves(q, n, DequeueWhere(q, Items))
  BY <1>6, ServedWhere
<1> QED BY <1>7 DEF Serves, Dequeue

\* dequeue() of an empty queue.
LEMMA NothingToServe ==
  ASSUME NEW q, QueueInv(q), Queued(q) = {}
  PROVE  Dequeue(q) = [item |-> NoItem, queue |-> q]
<1>1. ASSUME NEW k \in DOMAIN q.owners PROVE FALSE
  <2>1. q.owners[k] \in Owners /\ q.buckets[q.owners[k]] # <<>>
    BY TurnHasItem
  <2>2. q.buckets[q.owners[k]] \in Seq(Items)
    BY <2>1, Parts
  <2>3. Head(q.buckets[q.owners[k]]) \in ToSet(q.buckets[q.owners[k]])
    BY <2>1, <2>2, NothingIn
  <2> QED BY <2>1, <2>3 DEF Queued
<1>2. Eligible(q, Items) = {}
  BY <1>1 DEF Eligible
<1> QED BY <1>2 DEF Dequeue, DequeueWhere

\* remove() of an item that waits.
LEMMA Removed ==
  ASSUME NEW q, QueueInv(q), NEW i \in Queued(q)
  PROVE  QueueInv(RemoveItem(q, i)) /\ Queued(RemoveItem(q, i)) = Queued(q) \ {i}
<1> DEFINE o == OwnerOf[i]
           b == q.buckets[o]
           rest == RemoveAt(b, IndexOf(b, i))
           owners == IF rest = <<>> THEN RemoveAt(q.owners, IndexOf(q.owners, o)) ELSE q.owners
           p == RemoveItem(q, i)
<1>1. i \in Items /\ o \in Owners /\ i \in ToSet(b)
  BY WaitsInBucket, OwnersAssumption
<1>2. /\ b \in Seq(Items) /\ IsInjective(b) /\ \A j \in ToSet(b) : OwnerOf[j] = o
      /\ q.owners \in Seq(Owners) /\ IsInjective(q.owners)
      /\ q.buckets \in [Owners -> Seq(Items)] /\ q \in Queues
  BY <1>1, Parts DEF QueueInv
<1>3. b # <<>> /\ o \in ToSet(q.owners)
  BY <1>1, EmptyOnce DEF QueueInv
<1>4. p = [q EXCEPT !.buckets[o] = rest, !.owners = owners]
  BY <1>1 DEF RemoveItem
<1> HIDE DEF p, o, b
<1>5. IndexOf(b, i) \in DOMAIN b /\ b[IndexOf(b, i)] = i
  BY <1>1, <1>2, Found
<1>6. rest \in Seq(Items) /\ IsInjective(rest) /\ ToSet(rest) = ToSet(b) \ {i}
  BY <1>2, <1>5, Without
<1>7. IndexOf(q.owners, o) \in DOMAIN q.owners /\ q.owners[IndexOf(q.owners, o)] = o
  BY <1>2, <1>3, Found
<1>8. /\ RemoveAt(q.owners, IndexOf(q.owners, o)) \in Seq(Owners)
      /\ IsInjective(RemoveAt(q.owners, IndexOf(q.owners, o)))
      /\ ToSet(RemoveAt(q.owners, IndexOf(q.owners, o))) = ToSet(q.owners) \ {o}
  BY <1>2, <1>7, Without
<1> HIDE DEF rest
<1>9. /\ owners \in Seq(Owners) /\ IsInjective(owners)
      /\ rest # <<>> => ToSet(owners) = ToSet(q.owners) \cup {o}
      /\ rest = <<>> => ToSet(owners) = ToSet(q.owners) \ {o}
  BY <1>2, <1>3, <1>8
<1> HIDE DEF owners
<1>10. p.owners = owners /\ p.buckets = [q.buckets EXCEPT ![o] = rest]
  BY <1>2, <1>4 DEF Queues
<1>11. p \in Queues
  BY <1>1, <1>2, <1>4, <1>6, <1>9 DEF Queues
<1>12. \A j \in ToSet(rest) : OwnerOf[j] = o
  BY <1>2, <1>6
<1>13. /\ QueueInv(p)
       /\ Queued(p) = (Queued(q) \ ToSet(q.buckets[o])) \cup ToSet(rest)
  BY <1>1, <1>6, <1>9, <1>10, <1>11, <1>12, Replaced
<1>14. b = q.buckets[o] /\ ToSet(b) \subseteq Queued(q)
  BY <1>1 DEF Queued, b
<1>15. \A j \in Queued(q) \ ToSet(b) : j # i
  BY <1>1
<1> QED BY <1>6, <1>13, <1>14, <1>15 DEF p

\* What enqueue() does to the rotation.
LEMMA EnqueuedTurns ==
  ASSUME NEW q, QueueInv(q), NEW i \in Items
  PROVE  /\ Enqueue(q, i).last = q.last
         /\ Enqueue(q, i).owners = IF OwnerOf[i] \in ToSet(q.owners) THEN q.owners
                                   ELSE JoinRotation(q, OwnerOf[i])
         /\ \A p \in Owners \ {OwnerOf[i]} : Enqueue(q, i).buckets[p] = q.buckets[p]
<1>1. q \in Queues /\ OwnerOf[i] \in Owners /\ q.buckets \in [Owners -> Seq(Items)]
  BY OwnersAssumption, Parts DEF QueueInv
<1>2. OwnerOf[i] \in ToSet(q.owners) <=> q.buckets[OwnerOf[i]] # <<>>
  BY <1>1 DEF QueueInv
<1> QED BY <1>1, <1>2 DEF Enqueue, Queues

\* What remove() does to the rotation.
LEMMA RemovedTurns ==
  ASSUME NEW q, QueueInv(q), NEW i \in Queued(q)
  PROVE  /\ RemoveItem(q, i).last = q.last
         /\ \/ RemoveItem(q, i).owners = q.owners
            \/ \E n \in DOMAIN q.owners : /\ q.owners[n] = OwnerOf[i]
                                          /\ RemoveItem(q, i).owners = RemoveAt(q.owners, n)
         /\ \A p \in Owners \ {OwnerOf[i]} : RemoveItem(q, i).buckets[p] = q.buckets[p]
<1>1. q \in Queues /\ OwnerOf[i] \in Owners /\ q.buckets \in [Owners -> Seq(Items)]
  BY WaitsInBucket, OwnersAssumption, Parts DEF QueueInv
<1>2. i \in ToSet(q.buckets[OwnerOf[i]]) /\ q.owners \in Seq(Owners)
  BY WaitsInBucket, Parts
<1>3. q.buckets[OwnerOf[i]] # <<>>
  BY <1>2, EmptyOnce
<1>4. OwnerOf[i] \in ToSet(q.owners)
  BY <1>1, <1>3 DEF QueueInv
<1>5. PICK n \in DOMAIN q.owners : n = IndexOf(q.owners, OwnerOf[i]) /\ q.owners[n] = OwnerOf[i]
  BY <1>2, <1>4, Found
<1>6. PICK rest : rest = RemoveAt(q.buckets[OwnerOf[i]], IndexOf(q.buckets[OwnerOf[i]], i))
  OBVIOUS
<1>7. PICK owners : owners = IF rest = <<>> THEN RemoveAt(q.owners, n) ELSE q.owners
  OBVIOUS
<1>8. RemoveItem(q, i) = [q EXCEPT !.buckets[OwnerOf[i]] = rest, !.owners = owners]
  BY <1>2, <1>5, <1>6, <1>7 DEF RemoveItem
<1>9. /\ RemoveItem(q, i).last = q.last /\ RemoveItem(q, i).owners = owners
      /\ \A p \in Owners \ {OwnerOf[i]} : RemoveItem(q, i).buckets[p] = q.buckets[p]
  BY <1>1, <1>8 DEF Queues
<1> QED BY <1>5, <1>7, <1>9

-----------------------------------------------------------------------------
(* Who stands before whom                                                  *)

\* Nobody stands before himself, nor two before each other.
LEMMA BeforeOnce ==
  ASSUME NEW S, NEW s \in Seq(S), IsInjective(s), NEW a, NEW b, Before(s, a, b)
  PROVE  a \in ToSet(s) /\ b \in ToSet(s) /\ a # b /\ ~Before(s, b, a)
<1>1. DOMAIN s = 1..Len(s) /\ Len(s) \in Nat
  BY LenProperties
<1> QED BY <1>1 DEF Before, ToSet, IsInjective

\* Who stands in the first part stands before who stands in the second, and
\* within a part nothing changes.
LEMMA BeforeConcat ==
  ASSUME NEW S, NEW s \in Seq(S), NEW t \in Seq(S), NEW a, NEW b,
         \/ Before(s, a, b)
         \/ Before(t, a, b)
         \/ a \in ToSet(s) /\ b \in ToSet(t)
  PROVE  Before(s \o t, a, b)
<1>1. PICK l \in Nat, k \in Nat :
        /\ l = Len(s) /\ k = Len(t) /\ DOMAIN s = 1..l /\ DOMAIN t = 1..k
        /\ DOMAIN (s \o t) = 1..l + k
        /\ \A n \in 1..l : (s \o t)[n] = s[n]
        /\ \A n \in 1..k : (s \o t)[l + n] = t[n]
  <2>1. /\ Len(s) \in Nat /\ DOMAIN s = 1..Len(s) /\ Len(t) \in Nat /\ DOMAIN t = 1..Len(t)
    BY LenProperties
  <2>2. /\ s \o t \in Seq(S) /\ Len(s \o t) = Len(s) + Len(t)
        /\ \A n \in 1..Len(s) + Len(t) :
             (s \o t)[n] = IF n <= Len(s) THEN s[n] ELSE t[n - Len(s)]
    BY ConcatProperties
  <2>3. DOMAIN (s \o t) = 1..Len(s) + Len(t)
    BY <2>2, LenProperties
  <2>4. ASSUME NEW n \in 1..Len(s) PROVE (s \o t)[n] = s[n]
    BY <2>1, <2>2
  <2>5. ASSUME NEW n \in 1..Len(t) PROVE (s \o t)[Len(s) + n] = t[n]
    <3>1. Len(s) + n \in 1..Len(s) + Len(t) /\ ~(Len(s) + n <= Len(s)) /\ (Len(s) + n) - Len(s) = n
      BY <2>1
    <3> QED BY <2>2, <3>1
  <2> QED BY <2>1, <2>3, <2>4, <2>5
<1>2. CASE Before(s, a, b)
  <2>1. PICK m \in 1..l, n \in 1..l : m < n /\ s[m] = a /\ s[n] = b
    BY <1>1, <1>2 DEF Before
  <2>2. m \in 1..l + k /\ n \in 1..l + k
    OBVIOUS
  <2> QED BY <1>1, <2>1, <2>2 DEF Before
<1>3. CASE Before(t, a, b)
  <2>1. PICK m \in 1..k, n \in 1..k : m < n /\ t[m] = a /\ t[n] = b
    BY <1>1, <1>3 DEF Before
  <2>2. l + m \in 1..l + k /\ l + n \in 1..l + k /\ l + m < l + n
    BY <2>1
  <2> QED BY <1>1, <2>1, <2>2 DEF Before
<1>4. CASE a \in ToSet(s) /\ b \in ToSet(t)
  <2>1. PICK m \in 1..l, n \in 1..k : s[m] = a /\ t[n] = b
    BY <1>1, <1>4 DEF ToSet
  <2>2. m \in 1..l + k /\ l + n \in 1..l + k /\ m < l + n
    OBVIOUS
  <2> QED BY <1>1, <2>1, <2>2 DEF Before
<1> QED BY <1>2, <1>3, <1>4

\* A part of a sequence keeps the order.
LEMMA BeforeWithin ==
  ASSUME NEW S, NEW s \in Seq(S), NEW m \in 1..Len(s) + 1, NEW n \in 0..Len(s),
         NEW j \in m..n, NEW k \in m..n, j < k
  PROVE  Before(SubSeq(s, m, n), s[j], s[k])
<1>1. PICK l \in Nat : l = Len(s)
  BY LenProperties
<1>2. /\ SubSeq(s, m, n) \in Seq(S)
      /\ Len(SubSeq(s, m, n)) = n - m + 1
      /\ \A i \in 1..n - m + 1 : SubSeq(s, m, n)[i] = s[m + i - 1]
  BY <1>1, SubSeqProperties
<1>3. DOMAIN SubSeq(s, m, n) = 1..n - m + 1
  BY <1>2, LenProperties
<1>4. /\ j - m + 1 \in 1..n - m + 1 /\ k - m + 1 \in 1..n - m + 1
      /\ j - m + 1 < k - m + 1
      /\ m + (j - m + 1) - 1 = j /\ m + (k - m + 1) - 1 = k
  BY <1>1
<1> QED BY <1>2, <1>3, <1>4 DEF Before

\* What a part of a sequence holds.
LEMMA PartSet ==
  ASSUME NEW S, NEW s \in Seq(S), NEW m \in 1..Len(s) + 1, NEW n \in 0..Len(s), NEW j \in m..n
  PROVE  s[j] \in ToSet(SubSeq(s, m, n))
<1>1. PICK l \in Nat : l = Len(s)
  BY LenProperties
<1>2. /\ SubSeq(s, m, n) \in Seq(S)
      /\ Len(SubSeq(s, m, n)) = n - m + 1
      /\ \A i \in 1..n - m + 1 : SubSeq(s, m, n)[i] = s[m + i - 1]
  BY <1>1, SubSeqProperties
<1>3. DOMAIN SubSeq(s, m, n) = 1..n - m + 1
  BY <1>2, LenProperties
<1>4. j - m + 1 \in 1..n - m + 1 /\ m + (j - m + 1) - 1 = j
  BY <1>1
<1> QED BY <1>2, <1>3, <1>4 DEF ToSet

\* Who is appended stands behind everybody.
LEMMA BeforeAppend ==
  ASSUME NEW S, NEW s \in Seq(S), NEW e \in S, NEW a, NEW b,
         Before(s, a, b) \/ (a \in ToSet(s) /\ b = e)
  PROVE  Before(Append(s, e), a, b)
<1>1. <<e>> \in Seq(S) /\ Append(s, e) = s \o <<e>> /\ e \in ToSet(<<e>>)
  BY AppendIsConcat DEF ToSet
<1> QED BY <1>1, BeforeConcat

\* Somebody leaves: the others keep their order.
LEMMA BeforeRemoved ==
  ASSUME NEW S, NEW s \in Seq(S), NEW n \in DOMAIN s, NEW a, NEW b,
         Before(s, a, b), a # s[n], b # s[n]
  PROVE  Before(RemoveAt(s, n), a, b)
<1>1. Len(s) \in Nat /\ DOMAIN s = 1..Len(s)
  BY LenProperties
<1>2. PICK j \in 1..Len(s), k \in 1..Len(s) : j < k /\ s[j] = a /\ s[k] = b
  BY <1>1 DEF Before
<1>3. j # n /\ k # n
  BY <1>2
<1>4. PICK l, r : l = SubSeq(s, 1, n - 1) /\ r = SubSeq(s, n + 1, Len(s))
  OBVIOUS
<1>5. /\ n - 1 \in 0..Len(s) /\ n + 1 \in 1..Len(s) + 1
      /\ 1 \in 1..Len(s) + 1 /\ Len(s) \in 0..Len(s)
  BY <1>1
<1>6. l \in Seq(S) /\ r \in Seq(S) /\ RemoveAt(s, n) = l \o r
  BY <1>4, <1>5, SubSeqProperties DEF RemoveAt
<1>7. CASE k < n
  <2>1. j \in 1..n - 1 /\ k \in 1..n - 1
    BY <1>1, <1>2, <1>7
  <2>2. Before(l, a, b)
    BY <1>2, <1>4, <1>5, <2>1, BeforeWithin
  <2> QED BY <1>6, <2>2, BeforeConcat
<1>8. CASE n < j
  <2>1. j \in n + 1..Len(s) /\ k \in n + 1..Len(s)
    BY <1>1, <1>2, <1>8
  <2>2. Before(r, a, b)
    BY <1>2, <1>4, <1>5, <2>1, BeforeWithin
  <2> QED BY <1>6, <2>2, BeforeConcat
<1>9. CASE j < n /\ n < k
  <2>1. j \in 1..n - 1 /\ k \in n + 1..Len(s)
    BY <1>1, <1>9
  <2>2. a \in ToSet(l)
    BY <1>2, <1>4, <1>5, <2>1, PartSet
  <2>3. b \in ToSet(r)
    BY <1>2, <1>4, <1>5, <2>1, PartSet
  <2> QED BY <1>6, <2>2, <2>3, BeforeConcat
<1> QED BY <1>1, <1>2, <1>3, <1>7, <1>8, <1>9

\* Somebody is put in before the n-th: the others keep their order, and who stood
\* before the n-th stands before the newcomer.
LEMMA BeforeInserted ==
  ASSUME NEW S, NEW s \in Seq(S), NEW n \in DOMAIN s, NEW e \in S, NEW a, NEW b,
         \/ Before(s, a, b)
         \/ \E j \in DOMAIN s : j < n /\ s[j] = a /\ b = e
         \/ \E j \in DOMAIN s : n <= j /\ s[j] = b /\ a = e
  PROVE  Before(InsertAt(s, n, e), a, b)
<1>1. Len(s) \in Nat /\ DOMAIN s = 1..Len(s)
  BY LenProperties
<1>2. PICK l, r : l = SubSeq(s, 1, n - 1) /\ r = SubSeq(s, n, Len(s))
  OBVIOUS
<1>3. /\ n - 1 \in 0..Len(s) /\ n \in 1..Len(s) + 1
      /\ 1 \in 1..Len(s) + 1 /\ Len(s) \in 0..Len(s)
  BY <1>1
<1>4. l \in Seq(S) /\ r \in Seq(S)
  BY <1>2, <1>3, SubSeqProperties
<1>5. PICK m : m = Append(l, e)
  OBVIOUS
<1>6. m \in Seq(S) /\ ToSet(m) = ToSet(l) \cup {e} /\ InsertAt(s, n, e) = m \o r
  <2>1. m \in Seq(S) /\ ToSet(m) = ToSet(l) \cup {e}
    BY <1>4, <1>5, AppendSet, AppendProperties
  <2>2. m = l \o <<e>>
    BY <1>4, <1>5, AppendIsConcat
  <2>3. InsertAt(s, n, e) = m \o r
    BY <1>2, <2>2 DEF InsertAt
  <2> QED BY <2>1, <2>3
<1>7. ASSUME NEW j \in 1..Len(s), j < n PROVE s[j] \in ToSet(l)
  <2>1. j \in 1..n - 1
    BY <1>1, <1>7
  <2> QED BY <1>2, <1>3, <2>1, PartSet
<1>8. ASSUME NEW j \in 1..Len(s), n <= j PROVE s[j] \in ToSet(r)
  <2>1. j \in n..Len(s)
    BY <1>1, <1>8
  <2> QED BY <1>2, <1>3, <2>1, PartSet
<1>9. CASE \E j \in DOMAIN s : j < n /\ s[j] = a /\ b = e
  <2>1. Before(m, a, b)
    BY <1>1, <1>4, <1>5, <1>7, <1>9, BeforeAppend
  <2> QED BY <1>4, <1>6, <2>1, BeforeConcat
<1>10. CASE \E j \in DOMAIN s : n <= j /\ s[j] = b /\ a = e
  BY <1>1, <1>4, <1>6, <1>8, <1>10, BeforeConcat
<1>11. CASE Before(s, a, b)
  <2>1. PICK j \in 1..Len(s), k \in 1..Len(s) : j < k /\ s[j] = a /\ s[k] = b
    BY <1>1, <1>11 DEF Before
  <2>2. CASE k < n
    <3>1. j \in 1..n - 1 /\ k \in 1..n - 1
      BY <1>1, <2>1, <2>2
    <3>2. Before(l, a, b)
      BY <1>2, <1>3, <2>1, <3>1, BeforeWithin
    <3>3. Before(m, a, b)
      BY <1>4, <1>5, <3>2, BeforeAppend
    <3> QED BY <1>4, <1>6, <3>3, BeforeConcat
  <2>3. CASE n <= j
    <3>1. j \in n..Len(s) /\ k \in n..Len(s)
      BY <1>1, <2>1, <2>3
    <3>2. Before(r, a, b)
      BY <1>2, <1>3, <2>1, <3>1, BeforeWithin
    <3> QED BY <1>4, <1>6, <3>2, BeforeConcat
  <2>4. CASE j < n /\ n <= k
    <3>1. a \in ToSet(m) /\ b \in ToSet(r)
      BY <1>6, <1>7, <1>8, <2>1, <2>4
    <3> QED BY <1>4, <1>6, <3>1, BeforeConcat
  <2> QED BY <1>1, <2>1, <2>2, <2>3, <2>4
<1> QED BY <1>9, <1>10, <1>11

\* A turn of the k-th: who stands behind it keeps the order.
LEMMA BeforeTurned ==
  ASSUME NEW S, NEW s \in Seq(S), NEW k \in DOMAIN s, NEW i \in DOMAIN s, NEW j \in DOMAIN s,
         k < i, i < j
  PROVE  Turned(s, k) \in Seq(S) /\ Before(Turned(s, k), s[i], s[j])
<1>1. Len(s) \in Nat /\ DOMAIN s = 1..Len(s)
  BY LenProperties
<1>2. PICK l, r : l = SubSeq(s, 1, k - 1) /\ r = SubSeq(s, k + 1, Len(s))
  OBVIOUS
<1>3. /\ k - 1 \in 0..Len(s) /\ k + 1 \in 1..Len(s) + 1
      /\ 1 \in 1..Len(s) + 1 /\ Len(s) \in 0..Len(s)
      /\ i \in k + 1..Len(s) /\ j \in k + 1..Len(s)
  BY <1>1
<1>4. l \in Seq(S) /\ r \in Seq(S) /\ Turned(s, k) = r \o l
  BY <1>2, <1>3, SubSeqProperties DEF Turned
<1>5. Before(r, s[i], s[j])
  BY <1>2, <1>3, BeforeWithin
<1>6. r \o l \in Seq(S)
  BY <1>4, ConcatProperties
<1> QED BY <1>4, <1>5, <1>6, BeforeConcat

-----------------------------------------------------------------------------
(* What a caller sees of the queue                                         *)

\* dequeueWhere() with a predicate that looks at owners only: an item that is
\* accepted leaves, or no item that waits is.
LEMMA ServedByOwner ==
  ASSUME NEW q, QueueInv(q), NEW accepted,
         \A i, j \in Items : OwnerOf[i] = OwnerOf[j] => (i \in accepted <=> j \in accepted)
  PROVE  LET d == DequeueWhere(q, accepted) IN
         \/ /\ d.item \in Queued(q) /\ d.item \in accepted
            /\ QueueInv(d.queue) /\ Queued(d.queue) = Queued(q) \ {d.item}
         \/ /\ d.item = NoItem /\ d.queue = q
            /\ \A i \in Queued(q) : i \notin accepted
<1>1. CASE Eligible(q, accepted) = {}
  <2>1. DequeueWhere(q, accepted) = [item |-> NoItem, queue |-> q]
    BY <1>1 DEF DequeueWhere
  <2>2. ASSUME NEW i \in Queued(q), i \in accepted PROVE FALSE
    <3>1. i \in Items /\ i \in ToSet(q.buckets[OwnerOf[i]]) /\ OwnerOf[i] \in Owners
      BY WaitsInBucket, OwnersAssumption
    <3>2. q.buckets[OwnerOf[i]] \in Seq(Items) /\ q.buckets[OwnerOf[i]] # <<>>
      BY <3>1, Parts, EmptyOnce
    <3>3. Head(q.buckets[OwnerOf[i]]) \in Items /\ OwnerOf[Head(q.buckets[OwnerOf[i]])] = OwnerOf[i]
      BY <3>1, <3>2, NothingIn DEF QueueInv
    <3>4. Head(q.buckets[OwnerOf[i]]) \in accepted
      BY <2>2, <3>1, <3>3
    <3>5. PICK k \in DOMAIN q.owners : q.owners[k] = OwnerOf[i]
      BY <3>1, <3>2 DEF QueueInv, ToSet
    <3> QED BY <1>1, <3>4, <3>5 DEF Eligible
  <2> QED BY <2>1, <2>2
<1>2. CASE Eligible(q, accepted) # {}
  <2>1. PICK k \in Eligible(q, accepted) : Serves(q, k, DequeueWhere(q, accepted))
    BY <1>2, ServedWhere
  <2>2. k \in DOMAIN q.owners /\ Head(q.buckets[q.owners[k]]) \in accepted
    BY DEF Eligible
  <2>3. q.owners[k] \in Owners /\ q.buckets[q.owners[k]] # <<>>
    BY <2>2, TurnHasItem
  <2>4. /\ Head(q.buckets[q.owners[k]]) \in Items
        /\ OwnerOf[Head(q.buckets[q.owners[k]])] = q.owners[k]
    BY <2>3, Parts, NothingIn DEF QueueInv
  <2>5. DequeueWhere(q, accepted).item \in Items
    BY <2>1, WaitsInBucket DEF Serves
  <2> QED BY <2>1, <2>2, <2>4, <2>5 DEF Serves
<1> QED BY <1>1, <1>2

\* Turns are ordered one after the other.
LEMMA Ranked ==
  ASSUME NEW T \in SUBSET (Nat \X Nat), IsFiniteSet(T)
  PROVE  /\ Cardinality(T) \in Nat
         /\ [t \in T |-> Cardinality({s \in T : Earlier(s, t)})]
              \in Surjection(T, 0..Cardinality(T) - 1)
<1> DEFINE n == Cardinality(T)
           E(t) == {s \in T : Earlier(s, t)}
           rank == [t \in T |-> Cardinality(E(t))]
<1>1. n \in Nat
  BY FS_CardinalityType
<1>2. ASSUME NEW t \in T
      PROVE  IsFiniteSet(E(t)) /\ Cardinality(E(t)) \in 0..n - 1
  <2>1. t[1] \in Nat /\ t[2] \in Nat
    OBVIOUS
  <2>2. E(t) \subseteq T \ {t}
    BY <2>1 DEF Earlier
  <2>3. IsFiniteSet(T \ {t}) /\ Cardinality(T \ {t}) = n - 1
    BY FS_RemoveElement
  <2>4. IsFiniteSet(E(t)) /\ Cardinality(E(t)) <= n - 1
    BY <2>2, <2>3, FS_Subset
  <2> QED BY <1>1, <2>4, FS_CardinalityType
<1> HIDE DEF E
<1>3. ASSUME NEW s \in T, NEW t \in T, Earlier(s, t)
      PROVE  Cardinality(E(s)) < Cardinality(E(t))
  <2>1. \A u \in T : u[1] \in Nat /\ u[2] \in Nat
    OBVIOUS
  <2>2. E(s) \cup {s} \in SUBSET E(t) /\ s \notin E(s)
    BY <1>3, <2>1 DEF Earlier, E
  <2>3. Cardinality(E(s) \cup {s}) = Cardinality(E(s)) + 1
    BY <1>2, <2>2, FS_AddElement
  <2>4. Cardinality(E(s) \cup {s}) <= Cardinality(E(t))
    BY <1>2, <2>2, FS_Subset
  <2>5. Cardinality(E(s)) \in Int /\ Cardinality(E(t)) \in Int
    BY <1>1, <1>2
  <2> QED BY <2>3, <2>4, <2>5
<1>4. ASSUME NEW s \in T, NEW t \in T, s # t
      PROVE  Earlier(s, t) \/ Earlier(t, s)
  <2>1. s = <<s[1], s[2]>> /\ t = <<t[1], t[2]>>
    OBVIOUS
  <2>2. s[1] \in Nat /\ s[2] \in Nat /\ t[1] \in Nat /\ t[2] \in Nat
    OBVIOUS
  <2>3. s[1] # t[1] \/ s[2] # t[2]
    BY <1>4, <2>1
  <2> QED BY <2>2, <2>3 DEF Earlier
<1> HIDE DEF n
<1>5. rank \in Injection(T, 0..n - 1)
  <2>1. rank \in [T -> 0..n - 1]
    BY <1>2
  <2>2. ASSUME NEW s \in T, NEW t \in T, rank[s] = rank[t] PROVE s = t
    <3>1. Cardinality(E(s)) \in Int /\ Cardinality(E(t)) \in Int
      BY <1>1, <1>2
    <3> QED BY <1>3, <1>4, <2>2, <3>1
  <2> QED BY <2>1, <2>2 DEF Injection, IsInjective
<1>6. IsFiniteSet(0..n - 1) /\ Cardinality(0..n - 1) = n
  BY <1>1, FS_Interval
<1>7. rank \in Surjection(T, 0..n - 1)
  BY <1>5, <1>6, FS_Injection DEF n
<1> QED BY <1>1, <1>7 DEF n, E

\* A turn is a place in a bucket, and there are finitely many.
LEMMA TurnsCounted ==
  ASSUME NEW q, QueueInv(q)
  PROVE  /\ Turns(q) \in SUBSET (Nat \X Nat) /\ IsFiniteSet(Turns(q))
         /\ \A t \in Turns(q) : q.buckets[q.owners[t[2]]][t[1]] \in Queued(q)
         /\ \A i \in Queued(q) : \E t \in Turns(q) : q.buckets[q.owners[t[2]]][t[1]] = i
<1> DEFINE L(k) == DOMAIN q.buckets[q.owners[k]]
           B(k) == {<<r, k>> : r \in L(k)}
           K    == DOMAIN q.owners
           F    == [k \in K |-> B(k)]
<1>1. Turns(q) = UNION {B(k) : k \in K}
  BY DEF Turns
<1>2. K = 1..Len(q.owners) /\ Len(q.owners) \in Nat
  BY Parts, LenProperties
<1>3. ASSUME NEW k \in K
      PROVE  /\ q.owners[k] \in Owners /\ q.buckets[q.owners[k]] \in Seq(Items)
             /\ Len(q.buckets[q.owners[k]]) \in Nat /\ L(k) = 1..Len(q.buckets[q.owners[k]])
  BY TurnHasItem, Parts, LenProperties
<1>4. ASSUME NEW k \in K PROVE IsFiniteSet(B(k))
  <2>1. IsFiniteSet(L(k))
    <3>1. Len(q.buckets[q.owners[k]]) \in Int
      BY <1>3
    <3> QED BY <1>3, <3>1, FS_Interval
  <2>2. [r \in L(k) |-> <<r, k>>] \in Surjection(L(k), B(k))
    BY DEF Surjection
  <2> QED BY <2>1, <2>2, FS_Surjection
<1>5. IsFiniteSet({B(k) : k \in K})
  <2>1. IsFiniteSet(K)
    <3>1. 1 \in Int /\ Len(q.owners) \in Int
      BY <1>2
    <3> QED BY <1>2, <3>1, FS_Interval
  <2>2. F \in Surjection(K, {B(k) : k \in K})
    BY DEF Surjection
  <2> QED BY <2>1, <2>2, FS_Surjection
<1>6. IsFiniteSet(Turns(q))
  <2> DEFINE S == {B(k) : k \in K}
  <2>1. \A X \in S : IsFiniteSet(X)
    BY <1>4
  <2>2. IsFiniteSet(S) /\ Turns(q) = UNION S
    BY <1>1, <1>5
  <2> HIDE DEF S
  <2> QED BY <2>1, <2>2, FS_UNION
<1>7. \A t \in Turns(q) : \E k \in K : \E r \in L(k) : t = <<r, k>>
  BY <1>1
<1>8. \A k \in K : \A r \in L(k) : <<r, k>> \in Turns(q)
  BY <1>1
<1> HIDE DEF B, F
<1>9. Turns(q) \in SUBSET (Nat \X Nat)
  <2>1. \A k \in K : k \in Nat /\ \A r \in L(k) : r \in Nat
    BY <1>2, <1>3
  <2> QED BY <1>7, <2>1
<1>10. ASSUME NEW t \in Turns(q) PROVE q.buckets[q.owners[t[2]]][t[1]] \in Queued(q)
  <2>0. PICK k \in K : \E r \in L(k) : t = <<r, k>>
    BY <1>7
  <2>1. PICK r \in L(k) : t = <<r, k>>
    BY <2>0
  <2>2. q.buckets[q.owners[k]][r] \in ToSet(q.buckets[q.owners[k]])
    BY DEF ToSet
  <2>3. q.buckets[q.owners[k]][r] \in Queued(q)
    BY <1>3, <2>2 DEF Queued
  <2>4. t[1] = r /\ t[2] = k
    BY <2>1
  <2> QED BY <2>3, <2>4
<1>11. ASSUME NEW i \in Queued(q) PROVE \E t \in Turns(q) : q.buckets[q.owners[t[2]]][t[1]] = i
  <2>1. i \in Items /\ i \in ToSet(q.buckets[OwnerOf[i]]) /\ OwnerOf[i] \in Owners
    BY WaitsInBucket, OwnersAssumption
  <2>2. q.buckets[OwnerOf[i]] # <<>>
    BY <2>1, EmptyOnce
  <2>3. PICK k \in K : q.owners[k] = OwnerOf[i]
    BY <2>1, <2>2 DEF QueueInv, ToSet
  <2>4. PICK r \in L(k) : q.buckets[q.owners[k]][r] = i
    BY <2>1, <2>3 DEF ToSet
  <2>5. <<r, k>> \in Turns(q) /\ <<r, k>>[1] = r /\ <<r, k>>[2] = k
    BY <1>8
  <2> QED BY <2>4, <2>5
<1> QED BY <1>6, <1>9, <1>10, <1>11

\* values() lists what waits.
LEMMA Listed ==
  ASSUME NEW q, QueueInv(q)
  PROVE  \E n \in Nat :
           /\ DOMAIN Values(q) = 1..n
           /\ \A k \in 1..n : Values(q)[k] \in Queued(q)
           /\ \A i \in Queued(q) : \E k \in 1..n : Values(q)[k] = i
<1> DEFINE T       == Turns(q)
           n       == Cardinality(T)
           rank(t) == Cardinality({s \in T : Earlier(s, t)})
           Nth(m)  == CHOOSE t \in T : rank(t) = m - 1
           item(t) == q.buckets[q.owners[t[2]]][t[1]]
<1>1. /\ T \in SUBSET (Nat \X Nat) /\ IsFiniteSet(T)
      /\ \A t \in T : item(t) \in Queued(q)
      /\ \A i \in Queued(q) : \E t \in T : item(t) = i
  BY TurnsCounted
<1>2. n \in Nat /\ [t \in T |-> rank(t)] \in Surjection(T, 0..n - 1)
  BY <1>1, Ranked
<1>3. (\A t \in T : rank(t) \in 0..n - 1) /\ \A m \in 0..n - 1 : \E t \in T : rank(t) = m
  BY <1>2 DEF Surjection
<1>4. Values(q) = [m \in 1..n |-> item(Nth(m))]
  BY DEF Values
<1> HIDE DEF T, n, rank, item
<1>5. ASSUME NEW m \in 1..n PROVE Nth(m) \in T /\ rank(Nth(m)) = m - 1
  <2>1. m - 1 \in 0..n - 1
    BY <1>2
  <2>2. \E t \in T : rank(t) = m - 1
    BY <1>3, <2>1
  <2> QED BY <2>2
<1>6. \A s, t \in T : rank(s) = rank(t) => s = t
  <2>1. IsFiniteSet(0..n - 1) /\ Cardinality(0..n - 1) = n
    BY <1>2, FS_Interval
  <2>2. [t \in T |-> rank(t)] \in Injection(T, 0..n - 1)
    BY <1>1, <1>2, <2>1, FS_SurjSameCardinalityImpliesInj DEF n
  <2> QED BY <2>2 DEF Injection, IsInjective
<1>7. ASSUME NEW i \in Queued(q) PROVE \E m \in 1..n : Values(q)[m] = i
  <2>1. PICK t \in T : item(t) = i
    BY <1>1
  <2>2. rank(t) \in 0..n - 1
    BY <1>3
  <2>3. PICK m \in 1..n : rank(t) = m - 1
    BY <1>2, <2>2
  <2>4. Nth(m) = t
    BY <1>5, <1>6, <2>3
  <2> QED BY <1>4, <2>1, <2>4
<1>8. ASSUME NEW m \in 1..n PROVE Values(q)[m] \in Queued(q)
  BY <1>1, <1>4, <1>5
<1>9. DOMAIN Values(q) = 1..n
  BY <1>4
<1> QED BY <1>2, <1>7, <1>8, <1>9

-----------------------------------------------------------------------------
(* A bucket keeps the order of its items, and a dequeue takes the first    *)

\* Who stands before whom after an append, after a removal and without the first.
LEMMA AppendBefore ==
  ASSUME NEW S, NEW s \in Seq(S), NEW e \in S, NEW a, NEW b, Before(Append(s, e), a, b)
  PROVE  Before(s, a, b) \/ (a \in ToSet(s) /\ b = e)
<1>1. /\ Append(s, e) \in Seq(S) /\ Len(Append(s, e)) = Len(s) + 1
      /\ \A i \in 1..Len(s) : Append(s, e)[i] = s[i]
      /\ Append(s, e)[Len(s) + 1] = e
  BY AppendProperties
<1>2. /\ Len(s) \in Nat /\ DOMAIN s = 1..Len(s)
      /\ DOMAIN Append(s, e) = 1..Len(s) + 1
  BY <1>1, LenProperties
<1>3. PICK t : t = Append(s, e)
  OBVIOUS
<1>4. PICK m \in 1..Len(s) + 1, n \in 1..Len(s) + 1 : m < n /\ t[m] = a /\ t[n] = b
  BY <1>2, <1>3 DEF Before
<1>5. m \in 1..Len(s) /\ s[m] = a
  BY <1>1, <1>2, <1>3, <1>4
<1>6. n \in 1..Len(s) => s[n] = b
  BY <1>1, <1>3, <1>4
<1>7. n \notin 1..Len(s) => b = e
  <2>1. n \notin 1..Len(s) => n = Len(s) + 1
    BY <1>2
  <2> QED BY <1>1, <1>3, <1>4, <2>1
<1> QED BY <1>2, <1>4, <1>5, <1>6, <1>7 DEF Before, ToSet

LEMMA RemovalBefore ==
  ASSUME NEW S, NEW s \in Seq(S), IsInjective(s), NEW n \in DOMAIN s, NEW a, NEW b,
         Before(RemoveAt(s, n), a, b)
  PROVE  Before(s, a, b)
<1>1. PICK t : t = RemoveAt(s, n)
  OBVIOUS
<1>2. t \in Seq(S) /\ IsInjective(t) /\ ToSet(t) = ToSet(s) \ {s[n]}
  BY <1>1, Without
<1>3. a \in ToSet(s) /\ b \in ToSet(s) /\ a # b /\ a # s[n] /\ b # s[n] /\ ~Before(t, b, a)
  BY <1>1, <1>2, BeforeOnce
<1>4. PICK i \in DOMAIN s, j \in DOMAIN s : s[i] = a /\ s[j] = b
  BY <1>3 DEF ToSet
<1>5. i \in Nat /\ j \in Nat
  BY LenProperties
<1>6. i < j \/ j < i
  BY <1>3, <1>4, <1>5
<1>7. ~Before(s, b, a)
  BY <1>1, <1>3, BeforeRemoved
<1> QED BY <1>4, <1>6, <1>7 DEF Before

LEMMA TailBefore ==
  ASSUME NEW S, NEW s \in Seq(S), s # <<>>, NEW a, NEW b, Before(Tail(s), a, b)
  PROVE  Before(s, a, b)
<1>1. /\ Tail(s) \in Seq(S) /\ Len(Tail(s)) = Len(s) - 1
      /\ \A i \in 1..Len(Tail(s)) : Tail(s)[i] = s[i + 1]
  BY HeadTailProperties
<1>2. Len(s) \in Nat /\ DOMAIN s = 1..Len(s) /\ DOMAIN Tail(s) = 1..Len(s) - 1
  BY <1>1, LenProperties
<1>3. PICK m \in 1..Len(s) - 1, n \in 1..Len(s) - 1 : m < n /\ Tail(s)[m] = a /\ Tail(s)[n] = b
  BY <1>2 DEF Before
<1>4. m + 1 \in DOMAIN s /\ n + 1 \in DOMAIN s /\ m + 1 < n + 1 /\ s[m + 1] = a /\ s[n + 1] = b
  BY <1>1, <1>2, <1>3
<1> QED BY <1>4 DEF Before

\* What the methods do to the bucket of an item.
LEMMA BucketOf ==
  ASSUME NEW q, QueueInv(q), NEW i \in Items
  PROVE  LET o == OwnerOf[i]
             b == q.buckets[o]
         IN  /\ Enqueue(q, i).buckets[o] = Append(b, i)
             /\ i \in Queued(q) =>
                  \E n \in DOMAIN b : b[n] = i /\ RemoveItem(q, i).buckets[o] = RemoveAt(b, n)
<1>1. q \in Queues /\ OwnerOf[i] \in Owners /\ q.buckets \in [Owners -> Seq(Items)]
  BY OwnersAssumption, Parts DEF QueueInv
<1>2. Enqueue(q, i).buckets[OwnerOf[i]] = Append(q.buckets[OwnerOf[i]], i)
  BY <1>1 DEF Enqueue, Queues
<1>3. ASSUME i \in Queued(q)
      PROVE  \E n \in DOMAIN q.buckets[OwnerOf[i]] :
               /\ q.buckets[OwnerOf[i]][n] = i
               /\ RemoveItem(q, i).buckets[OwnerOf[i]] = RemoveAt(q.buckets[OwnerOf[i]], n)
  <2>1. i \in ToSet(q.buckets[OwnerOf[i]]) /\ q.buckets[OwnerOf[i]] \in Seq(Items)
    BY <1>1, <1>3, WaitsInBucket
  <2>2. PICK n \in DOMAIN q.buckets[OwnerOf[i]] :
          n = IndexOf(q.buckets[OwnerOf[i]], i) /\ q.buckets[OwnerOf[i]][n] = i
    BY <2>1, Found
  <2>3. PICK rest : rest = RemoveAt(q.buckets[OwnerOf[i]], n)
    OBVIOUS
  <2>4. RemoveItem(q, i).buckets = [q.buckets EXCEPT ![OwnerOf[i]] = rest]
    BY <1>1, <2>1, <2>2, <2>3 DEF RemoveItem, Queues
  <2> QED BY <1>1, <2>2, <2>3, <2>4
<1> QED BY <1>2, <1>3

\* A dequeue takes the first item of the first owner it may serve, and the owner
\* goes to the end of the rotation or out of it.
LEMMA ServesFirst ==
  ASSUME NEW q, QueueInv(q), NEW accepted, Eligible(q, accepted) # {}
  PROVE  \E k \in Eligible(q, accepted) :
           LET o == q.owners[k]
               d == DequeueWhere(q, accepted)
           IN  /\ \A j \in Eligible(q, accepted) : k <= j
               /\ d.item = Head(q.buckets[o])
               /\ d.queue.buckets = [q.buckets EXCEPT ![o] = Tail(q.buckets[o])]
               /\ d.queue.owners = IF Tail(q.buckets[o]) = <<>> THEN Turned(q.owners, k)
                                   ELSE Append(Turned(q.owners, k), o)
<1>1. DOMAIN q.owners = 1..Len(q.owners) /\ Len(q.owners) \in Nat
  BY Parts, LenProperties
<1> DEFINE n == CHOOSE k \in Eligible(q, accepted) : \A j \in Eligible(q, accepted) : k <= j
<1>2. n \in Eligible(q, accepted) /\ \A j \in Eligible(q, accepted) : n <= j
  <2>1. Eligible(q, accepted) \subseteq Nat
    BY <1>1 DEF Eligible
  <2>2. \E k \in Eligible(q, accepted) : \A j \in Eligible(q, accepted) : k <= j
    BY <2>1, SmallestNat
  <2> QED BY <2>2
<1>3. DequeueWhere(q, accepted) =
        LET o    == q.owners[n]
            rest == Tail(q.buckets[o])
        IN  [item  |-> Head(q.buckets[o]),
             queue |-> [owners  |-> IF rest = <<>> THEN Turned(q.owners, n)
                                    ELSE Append(Turned(q.owners, n), o),
                        buckets |-> [q.buckets EXCEPT ![o] = rest],
                        last    |-> o]]
  BY DEF DequeueWhere, Turned
<1> HIDE DEF n
<1> QED BY <1>2, <1>3

-----------------------------------------------------------------------------
(* The snapshot is the order of service                                    *)

Rank(q, t)   == Cardinality({s \in Turns(q) : Earlier(s, t)})
ItemOf(q, t) == q.buckets[q.owners[t[2]]][t[1]]

\* A turn is a place in the bucket of an owner of the rotation.
LEMMA TurnOf ==
  ASSUME NEW q, QueueInv(q)
  PROVE  /\ \A t \in Turns(q) : /\ t = <<t[1], t[2]>> /\ t[2] \in 1..Len(q.owners)
                                /\ t[1] \in 1..Len(q.buckets[q.owners[t[2]]])
         /\ \A k \in 1..Len(q.owners), r \in Nat :
              r \in 1..Len(q.buckets[q.owners[k]]) => <<r, k>> \in Turns(q)
         /\ Len(q.owners) \in Nat /\ DOMAIN q.owners = 1..Len(q.owners)
         /\ \A k \in 1..Len(q.owners) :
              /\ q.owners[k] \in Owners /\ q.buckets[q.owners[k]] \in Seq(Items)
              /\ Len(q.buckets[q.owners[k]]) \in Nat \ {0}
              /\ DOMAIN q.buckets[q.owners[k]] = 1..Len(q.buckets[q.owners[k]])
<1>1. Len(q.owners) \in Nat /\ DOMAIN q.owners = 1..Len(q.owners)
  BY Parts, LenProperties
<1>2. ASSUME NEW k \in 1..Len(q.owners)
      PROVE  /\ q.owners[k] \in Owners /\ q.buckets[q.owners[k]] \in Seq(Items)
             /\ Len(q.buckets[q.owners[k]]) \in Nat \ {0}
             /\ DOMAIN q.buckets[q.owners[k]] = 1..Len(q.buckets[q.owners[k]])
  <2>1. /\ q.owners[k] \in Owners /\ q.buckets[q.owners[k]] # <<>>
        /\ q.buckets[q.owners[k]] \in Seq(Items)
    BY <1>1, TurnHasItem, Parts
  <2> QED BY <2>1, LenProperties, EmptySeq
<1>3. ASSUME NEW t \in Turns(q)
      PROVE  /\ t = <<t[1], t[2]>> /\ t[2] \in 1..Len(q.owners)
             /\ t[1] \in 1..Len(q.buckets[q.owners[t[2]]])
  <2>1. \E k \in 1..Len(q.owners) : t \in {<<r, k>> : r \in DOMAIN q.buckets[q.owners[k]]}
    BY <1>1 DEF Turns
  <2>2. PICK k \in 1..Len(q.owners) : \E r \in DOMAIN q.buckets[q.owners[k]] : t = <<r, k>>
    BY <2>1
  <2>3. PICK r \in DOMAIN q.buckets[q.owners[k]] : t = <<r, k>>
    BY <2>2
  <2>4. t[1] = r /\ t[2] = k
    BY <2>3
  <2> QED BY <1>2, <2>3, <2>4
<1>4. ASSUME NEW k \in 1..Len(q.owners), NEW r \in Nat, r \in 1..Len(q.buckets[q.owners[k]])
      PROVE  <<r, k>> \in Turns(q)
  <2>1. r \in DOMAIN q.buckets[q.owners[k]]
    BY <1>2, <1>4
  <2> QED BY <1>1, <2>1 DEF Turns
<1> QED BY <1>1, <1>2, <1>3, <1>4

\* The place of an item in the snapshot is the number of earlier turns.
LEMMA Snapshot ==
  ASSUME NEW q, QueueInv(q)
  PROVE  /\ Cardinality(Turns(q)) \in Nat /\ IsFiniteSet(Turns(q))
         /\ Values(q) \in [1..Cardinality(Turns(q)) -> Items]
         /\ \A t \in Turns(q) : /\ Rank(q, t) \in 0..Cardinality(Turns(q)) - 1
                                /\ Values(q)[Rank(q, t) + 1] = ItemOf(q, t)
         /\ \A m \in 0..Cardinality(Turns(q)) - 1 : \E t \in Turns(q) : Rank(q, t) = m
<1> DEFINE T      == Turns(q)
           n      == Cardinality(T)
           rank(t) == Cardinality({s \in T : Earlier(s, t)})
           Nth(m) == CHOOSE t \in T : rank(t) = m - 1
<1>1. /\ T \in SUBSET (Nat \X Nat) /\ IsFiniteSet(T)
      /\ \A t \in T : ItemOf(q, t) \in Items
  BY TurnsCounted, WaitsInBucket DEF ItemOf
<1>2. n \in Nat /\ [t \in T |-> rank(t)] \in Surjection(T, 0..n - 1)
  BY <1>1, Ranked
<1>3. (\A t \in T : rank(t) \in 0..n - 1) /\ \A m \in 0..n - 1 : \E t \in T : rank(t) = m
  BY <1>2 DEF Surjection
<1>4. Values(q) = [m \in 1..n |-> ItemOf(q, Nth(m))]
  BY DEF Values, ItemOf
<1>5. \A t \in T : rank(t) = Rank(q, t)
  BY DEF Rank
<1> HIDE DEF T, n, rank
<1>6. ASSUME NEW m \in 1..n PROVE Nth(m) \in T /\ rank(Nth(m)) = m - 1
  <2>1. m - 1 \in 0..n - 1
    BY <1>2
  <2>2. \E t \in T : rank(t) = m - 1
    BY <1>3, <2>1
  <2> QED BY <2>2
<1>7. \A s, t \in T : rank(s) = rank(t) => s = t
  <2>1. IsFiniteSet(0..n - 1) /\ Cardinality(0..n - 1) = n
    BY <1>2, FS_Interval
  <2>2. [t \in T |-> rank(t)] \in Injection(T, 0..n - 1)
    BY <1>1, <1>2, <2>1, FS_SurjSameCardinalityImpliesInj DEF n
  <2> QED BY <2>2 DEF Injection, IsInjective
<1>8. Values(q) \in [1..n -> Items]
  BY <1>1, <1>4, <1>6
<1>9. ASSUME NEW t \in T PROVE Values(q)[rank(t) + 1] = ItemOf(q, t)
  <2>1. PICK k : k = rank(t)
    OBVIOUS
  <2>2. k \in 0..n - 1
    BY <1>3, <2>1
  <2>3. PICK m : m = k + 1
    OBVIOUS
  <2>4. m \in 1..n /\ m - 1 = k
    BY <1>2, <2>2, <2>3
  <2>5. PICK u : u = Nth(m)
    OBVIOUS
  <2>6. u \in T /\ rank(u) = k
    BY <1>6, <2>4, <2>5
  <2>7. u = t
    BY <1>7, <2>1, <2>6
  <2>8. Values(q)[m] = ItemOf(q, t)
    BY <1>4, <2>4, <2>5, <2>7
  <2> QED BY <2>1, <2>3, <2>8
<1> QED BY <1>1, <1>2, <1>3, <1>5, <1>8, <1>9 DEF T, n

\* dequeue() serves the first owner of the rotation.
LEMMA DequeuesFirst ==
  ASSUME NEW q, QueueInv(q), Turns(q) # {}
  PROVE  LET N == Len(q.owners)
             o == q.owners[1]
             b == q.buckets[o]
             d == Dequeue(q)
         IN  /\ N \in Nat \ {0} /\ d.item = b[1] /\ QueueInv(d.queue)
             /\ Len(d.queue.owners) = IF Len(b) = 1 THEN N - 1 ELSE N
             /\ \A k \in 1..N - 1 : d.queue.owners[k] = q.owners[k + 1]
             /\ Len(b) # 1 => d.queue.owners[N] = o
             /\ \A p \in Owners \ {o} : d.queue.buckets[p] = q.buckets[p]
             /\ Len(d.queue.buckets[o]) = Len(b) - 1
             /\ \A r \in 1..Len(b) - 1 : d.queue.buckets[o][r] = b[r + 1]
<1> DEFINE N == Len(q.owners)
<1>1. N \in Nat \ {0} /\ DOMAIN q.owners = 1..N
  BY TurnOf
<1>2. 1 \in 1..N
  BY <1>1
<1>3. PICK o \in Owners : o = q.owners[1]
  BY <1>2, TurnOf
<1>4. PICK b \in Seq(Items) : b = q.buckets[o] /\ Len(b) \in Nat \ {0} /\ b # <<>>
  <2>1. q.buckets[o] # <<>>
    BY <1>1, <1>2, <1>3, TurnHasItem
  <2> QED BY <1>2, <1>3, <2>1, TurnOf
<1>5. Head(b) \in Items /\ Head(b) = b[1]
  BY <1>4, NothingIn
<1>6. 1 \in Eligible(q, Items)
  BY <1>1, <1>2, <1>3, <1>4, <1>5 DEF Eligible
<1>7. PICK d : d = Dequeue(q)
  OBVIOUS
<1>8. QueueInv(d.queue)
  <2>1. Eligible(q, Items) # {}
    BY <1>6
  <2>2. PICK k : Serves(q, k, DequeueWhere(q, Items))
    BY <2>1, ServedWhere
  <2> QED BY <1>7, <2>2 DEF Serves, Dequeue
<1>9. PICK k \in Eligible(q, Items) :
        /\ \A j \in Eligible(q, Items) : k <= j
        /\ d.item = Head(q.buckets[q.owners[k]])
        /\ d.queue.buckets = [q.buckets EXCEPT ![q.owners[k]] = Tail(q.buckets[q.owners[k]])]
        /\ d.queue.owners = IF Tail(q.buckets[q.owners[k]]) = <<>> THEN Turned(q.owners, k)
                            ELSE Append(Turned(q.owners, k), q.owners[k])
  <2>1. Eligible(q, Items) # {}
    BY <1>6
  <2> QED BY <1>7, <2>1, ServesFirst DEF Dequeue
<1>10. k = 1
  <2>1. k \in 1..N /\ k <= 1
    BY <1>1, <1>6, <1>9 DEF Eligible
  <2> QED BY <1>1, <2>1
<1>11. PICK rest : rest = Tail(b)
  OBVIOUS
<1>12. /\ rest \in Seq(Items) /\ Len(rest) = Len(b) - 1
       /\ \A r \in 1..Len(b) - 1 : rest[r] = b[r + 1]
  BY <1>4, <1>11, HeadTailProperties
<1>13. q.buckets \in [Owners -> Seq(Items)] /\ q.owners \in Seq(Owners)
  BY Parts
<1>14. d.queue.buckets[o] = rest /\ \A p \in Owners \ {o} : d.queue.buckets[p] = q.buckets[p]
  BY <1>3, <1>4, <1>9, <1>10, <1>11, <1>13
<1>15. PICK t \in Seq(Owners) :
         t = Turned(q.owners, 1) /\ Len(t) = N - 1 /\ \A j \in 1..N - 1 : t[j] = q.owners[j + 1]
  <2>1. /\ SubSeq(q.owners, 2, N) \in Seq(Owners) /\ Len(SubSeq(q.owners, 2, N)) = N - 2 + 1
        /\ \A j \in 1..N - 2 + 1 : SubSeq(q.owners, 2, N)[j] = q.owners[2 + j - 1]
    BY <1>1, <1>13, SubSeqProperties
  <2>2. SubSeq(q.owners, 1, 0) = <<>>
    <3>1. 1 \in 1..Len(q.owners) + 1 /\ 0 \in 0..Len(q.owners)
      BY <1>1
    <3>2. SubSeq(q.owners, 1, 0) \in Seq(Owners) /\ Len(SubSeq(q.owners, 1, 0)) = 0 - 1 + 1
      BY <1>13, <3>1, SubSeqProperties
    <3> QED BY <3>2, EmptySeq
  <2>3. Turned(q.owners, 1) = SubSeq(q.owners, 2, N) \o <<>>
    BY <2>2 DEF Turned
  <2>4. Turned(q.owners, 1) = SubSeq(q.owners, 2, N)
    BY <2>1, <2>3, ConcatEmptySeq
  <2>5. /\ Len(SubSeq(q.owners, 2, N)) = N - 1
        /\ \A j \in 1..N - 1 : SubSeq(q.owners, 2, N)[j] = q.owners[j + 1]
    <3>1. N - 2 + 1 = N - 1 /\ \A j \in 1..N - 1 : 2 + j - 1 = j + 1
      BY <1>1
    <3> QED BY <2>1, <3>1
  <2> QED BY <2>1, <2>4, <2>5
<1>16. d.queue.owners = IF rest = <<>> THEN t ELSE Append(t, o)
  BY <1>3, <1>4, <1>9, <1>10, <1>11, <1>15
<1>17. rest = <<>> <=> Len(b) = 1
  <2>1. Len(rest) = 0 <=> Len(b) = 1
    BY <1>4, <1>12
  <2>2. rest = <<>> <=> Len(rest) = 0
    BY <1>12, EmptySeq
  <2> QED BY <2>1, <2>2
<1>18. /\ Len(Append(t, o)) = N /\ Append(t, o)[N] = o
       /\ \A j \in 1..N - 1 : Append(t, o)[j] = t[j]
  BY <1>1, <1>15, AppendProperties
<1>19. /\ Len(d.queue.owners) = IF Len(b) = 1 THEN N - 1 ELSE N
       /\ \A j \in 1..N - 1 : d.queue.owners[j] = q.owners[j + 1]
       /\ Len(b) # 1 => d.queue.owners[N] = o
  BY <1>15, <1>16, <1>17, <1>18
<1>20. d.item = b[1]
  BY <1>3, <1>4, <1>5, <1>9, <1>10
<1> QED BY <1>1, <1>3, <1>4, <1>7, <1>8, <1>12, <1>14, <1>19, <1>20

\* A turn moves up by one when the first owner of n goes to the end.
MovedUp(n, t) == IF t[2] = n THEN <<t[1] + 1, 1>> ELSE <<t[1], t[2] + 1>>

\* A turn among n owners.
TurnAmong(n, t) == t = <<t[1], t[2]>> /\ t[1] \in Nat /\ t[2] \in 1..n

LEMMA MovesKeepOrder ==
  ASSUME NEW n \in Nat \ {0}, NEW s, TurnAmong(n, s), NEW t, TurnAmong(n, t)
  PROVE  /\ Earlier(MovedUp(n, s), MovedUp(n, t)) <=> Earlier(s, t)
         /\ MovedUp(n, s) = MovedUp(n, t) => s = t
<1>1. PICK a \in Nat, b \in 1..n : s = <<a, b>>
  BY DEF TurnAmong
<1>2. PICK c \in Nat, d \in 1..n : t = <<c, d>>
  BY DEF TurnAmong
<1>3. Earlier(s, t) <=> (a < c \/ (a = c /\ b < d))
  BY <1>1, <1>2 DEF Earlier
<1>4. CASE b = n /\ d = n
  <2>1. MovedUp(n, s) = <<a + 1, 1>> /\ MovedUp(n, t) = <<c + 1, 1>>
    BY <1>1, <1>2, <1>4 DEF MovedUp
  <2>2. Earlier(MovedUp(n, s), MovedUp(n, t)) <=> a + 1 < c + 1
    BY <2>1 DEF Earlier
  <2> QED BY <1>1, <1>2, <1>3, <1>4, <2>1, <2>2
<1>5. CASE b # n /\ d = n
  <2>1. MovedUp(n, s) = <<a, b + 1>> /\ MovedUp(n, t) = <<c + 1, 1>>
    BY <1>1, <1>2, <1>5 DEF MovedUp
  <2>2. Earlier(MovedUp(n, s), MovedUp(n, t)) <=> (a < c + 1 \/ (a = c + 1 /\ b + 1 < 1))
    BY <2>1 DEF Earlier
  <2> QED BY <1>1, <1>2, <1>3, <1>5, <2>1, <2>2
<1>6. CASE b = n /\ d # n
  <2>1. MovedUp(n, s) = <<a + 1, 1>> /\ MovedUp(n, t) = <<c, d + 1>>
    BY <1>1, <1>2, <1>6 DEF MovedUp
  <2>2. Earlier(MovedUp(n, s), MovedUp(n, t)) <=> (a + 1 < c \/ (a + 1 = c /\ 1 < d + 1))
    BY <2>1 DEF Earlier
  <2> QED BY <1>1, <1>2, <1>3, <1>6, <2>1, <2>2
<1>7. CASE b # n /\ d # n
  <2>1. MovedUp(n, s) = <<a, b + 1>> /\ MovedUp(n, t) = <<c, d + 1>>
    BY <1>1, <1>2, <1>7 DEF MovedUp
  <2>2. Earlier(MovedUp(n, s), MovedUp(n, t)) <=> (a < c \/ (a = c /\ b + 1 < d + 1))
    BY <2>1 DEF Earlier
  <2> QED BY <1>1, <1>2, <1>3, <2>1, <2>2
<1> QED BY <1>4, <1>5, <1>6, <1>7

\* The turns that are left when dequeue() has taken the first one.
LEMMA TurnsMoveUp ==
  ASSUME NEW q, QueueInv(q), Turns(q) # {}
  PROVE  LET n == Len(q.owners)
             p == Dequeue(q).queue
         IN  /\ n \in Nat \ {0} /\ QueueInv(p) /\ <<1, 1>> \in Turns(q)
             /\ Dequeue(q).item = ItemOf(q, <<1, 1>>)
             /\ \A t \in Turns(q) : TurnAmong(n, t) /\ t[1] # 0
             /\ \A t \in Turns(p) : /\ TurnAmong(n, t)
                                    /\ MovedUp(n, t) \in Turns(q) \ {<<1, 1>>}
                                    /\ ItemOf(p, t) = ItemOf(q, MovedUp(n, t))
             /\ \A u \in Turns(q) \ {<<1, 1>>} : \E t \in Turns(p) : MovedUp(n, t) = u
<1> DEFINE n == Len(q.owners)
<1>1. PICK d : d = Dequeue(q)
  OBVIOUS
<1>2. PICK p : p = d.queue
  OBVIOUS
<1>3. n \in Nat \ {0} /\ QueueInv(p) /\ 1 \in 1..n
  BY <1>1, <1>2, DequeuesFirst
<1>4. PICK o \in Owners : o = q.owners[1]
  BY <1>3, TurnOf
<1>5. PICK b : b = q.buckets[o]
  OBVIOUS
<1>6. Len(b) \in Nat \ {0}
  BY <1>3, <1>4, <1>5, TurnOf
<1>7. /\ d.item = b[1]
      /\ Len(p.owners) = IF Len(b) = 1 THEN n - 1 ELSE n
      /\ \A k \in 1..n - 1 : p.owners[k] = q.owners[k + 1]
      /\ Len(b) # 1 => p.owners[n] = o
      /\ \A r \in Owners \ {o} : p.buckets[r] = q.buckets[r]
      /\ Len(p.buckets[o]) = Len(b) - 1
      /\ \A r \in 1..Len(b) - 1 : p.buckets[o][r] = b[r + 1]
  BY <1>1, <1>2, <1>4, <1>5, DequeuesFirst
<1>8. <<1, 1>> \in Turns(q)
  <2>1. 1 \in 1..Len(q.buckets[q.owners[1]])
    BY <1>4, <1>5, <1>6
  <2> QED BY <1>3, <2>1, TurnOf
<1>9. d.item = ItemOf(q, <<1, 1>>)
  BY <1>4, <1>5, <1>7 DEF ItemOf
<1>10. ASSUME NEW t \in Turns(q) PROVE TurnAmong(n, t) /\ t[1] # 0
  <2>1. t = <<t[1], t[2]>> /\ t[2] \in 1..n /\ t[1] \in 1..Len(q.buckets[q.owners[t[2]]])
    BY TurnOf
  <2>2. Len(q.buckets[q.owners[t[2]]]) \in Nat
    BY <2>1, TurnOf
  <2>3. t[1] \in Nat \ {0}
    BY <2>1, <2>2
  <2> QED BY <2>1, <2>3 DEF TurnAmong
<1>11. ASSUME NEW k \in 1..n - 1
       PROVE  /\ p.owners[k] = q.owners[k + 1] /\ k \in 1..Len(p.owners) /\ k + 1 \in 1..n
              /\ p.buckets[p.owners[k]] = q.buckets[q.owners[k + 1]]
  <2>1. p.owners[k] = q.owners[k + 1] /\ k \in 1..Len(p.owners) /\ k + 1 \in 1..n /\ k + 1 # 1
    BY <1>3, <1>7
  <2>2. q.owners[k + 1] \in Owners
    BY <2>1, TurnOf
  <2>3. q.owners[k + 1] # o
    <3>1. IsInjective(q.owners) /\ DOMAIN q.owners = 1..n
      BY TurnOf DEF QueueInv
    <3> QED BY <1>3, <1>4, <2>1, <3>1 DEF IsInjective
  <2> QED BY <1>7, <2>1, <2>2, <2>3
<1>12. ASSUME NEW t \in Turns(p)
       PROVE  /\ TurnAmong(n, t) /\ MovedUp(n, t) \in Turns(q) \ {<<1, 1>>}
              /\ ItemOf(p, t) = ItemOf(q, MovedUp(n, t))
  <2>1. PICK r, k : r = t[1] /\ k = t[2]
    OBVIOUS
  <2>2. t = <<r, k>> /\ k \in 1..Len(p.owners) /\ r \in 1..Len(p.buckets[p.owners[k]])
    BY <1>3, <2>1, TurnOf
  <2>3. Len(p.buckets[p.owners[k]]) \in Nat
    BY <1>3, <2>2, TurnOf
  <2>4. k \in 1..n /\ r \in Nat /\ r \in 1..Len(p.buckets[p.owners[k]])
    BY <1>3, <1>7, <2>2, <2>3
  <2>7. TurnAmong(n, t)
    BY <2>1, <2>2, <2>4 DEF TurnAmong
  <2>5. CASE k = n
    <3>1. Len(b) # 1 /\ p.owners[k] = o
      BY <1>3, <1>7, <2>2, <2>5
    <3>2. r \in 1..Len(b) - 1
      BY <1>7, <2>2, <3>1
    <3>3. MovedUp(n, t) = <<r + 1, 1>>
      BY <2>2, <2>5 DEF MovedUp
    <3>4. r + 1 \in 1..Len(q.buckets[q.owners[1]]) /\ r + 1 \in Nat /\ r + 1 # 1
      BY <1>4, <1>5, <1>6, <3>2
    <3>5. <<r + 1, 1>> \in Turns(q) /\ <<r + 1, 1>> # <<1, 1>>
      BY <1>3, <3>4, TurnOf
    <3>6. ItemOf(p, t) = p.buckets[o][r]
      BY <2>2, <3>1 DEF ItemOf
    <3>7. ItemOf(q, <<r + 1, 1>>) = b[r + 1]
      BY <1>4, <1>5 DEF ItemOf
    <3> QED BY <1>7, <2>2, <2>7, <3>2, <3>3, <3>5, <3>6, <3>7
  <2>6. CASE k # n
    <3>1. k \in 1..n - 1 /\ k + 1 # 1
      BY <1>3, <2>4, <2>6
    <3>2. p.buckets[p.owners[k]] = q.buckets[q.owners[k + 1]] /\ k + 1 \in 1..n
      BY <1>11, <3>1
    <3>3. MovedUp(n, t) = <<r, k + 1>>
      BY <2>2, <2>6 DEF MovedUp
    <3>4. r \in 1..Len(q.buckets[q.owners[k + 1]])
      BY <2>4, <3>2
    <3>5. <<r, k + 1>> \in Turns(q) /\ <<r, k + 1>> # <<1, 1>>
      BY <2>4, <3>1, <3>2, <3>4, TurnOf
    <3>6. ItemOf(p, t) = ItemOf(q, <<r, k + 1>>)
      BY <2>2, <3>2 DEF ItemOf
    <3> QED BY <2>2, <2>7, <3>3, <3>5, <3>6
  <2> QED BY <2>5, <2>6
<1>13. ASSUME NEW u \in Turns(q) \ {<<1, 1>>}
       PROVE  \E t \in Turns(p) : MovedUp(n, t) = u
  <2>1. PICK r, k : r = u[1] /\ k = u[2]
    OBVIOUS
  <2>2. u = <<r, k>> /\ k \in 1..n /\ r \in 1..Len(q.buckets[q.owners[k]]) /\ r \in Nat \ {0}
    BY <1>10, <2>1, TurnOf DEF TurnAmong
  <2>3. CASE k = 1
    <3>1. r \in 1..Len(b) /\ r # 1
      BY <1>4, <1>5, <2>2, <2>3
    <3>2. r - 1 \in 1..Len(b) - 1 /\ r - 1 \in Nat /\ Len(b) # 1 /\ (r - 1) + 1 = r
      BY <1>6, <3>1
    <3>3. n \in 1..Len(p.owners) /\ r - 1 \in 1..Len(p.buckets[p.owners[n]])
      BY <1>3, <1>7, <3>2
    <3>4. <<r - 1, n>> \in Turns(p)
      BY <1>3, <3>2, <3>3, TurnOf
    <3>5. MovedUp(n, <<r - 1, n>>) = <<r, 1>>
      BY <3>2 DEF MovedUp
    <3> QED BY <2>2, <2>3, <3>4, <3>5
  <2>4. CASE k # 1
    <3>1. k - 1 \in 1..n - 1 /\ (k - 1) + 1 = k /\ k - 1 # n
      BY <1>3, <2>2, <2>4
    <3>2. k - 1 \in 1..Len(p.owners) /\ p.buckets[p.owners[k - 1]] = q.buckets[q.owners[k]]
      <4>1. PICK j \in 1..n - 1 : j = k - 1 /\ j + 1 = k
        BY <3>1
      <4> QED BY <1>11, <4>1
    <3>3. <<r, k - 1>> \in Turns(p)
      BY <1>3, <2>2, <3>2, TurnOf
    <3>4. MovedUp(n, <<r, k - 1>>) = <<r, k>>
      BY <3>1 DEF MovedUp
    <3> QED BY <2>2, <3>3, <3>4
  <2> QED BY <2>3, <2>4
<1> QED BY <1>1, <1>2, <1>3, <1>8, <1>9, <1>10, <1>12, <1>13

\* A set of turns moves up and keeps its size.
LEMMA MovesCount ==
  ASSUME NEW n \in Nat \ {0}, NEW A, IsFiniteSet(A), \A t \in A : TurnAmong(n, t), NEW B,
         IsFiniteSet(B), <<1, 1>> \in B,
         \A t \in A : MovedUp(n, t) \in B \ {<<1, 1>>},
         \A u \in B \ {<<1, 1>>} : \E t \in A : MovedUp(n, t) = u
  PROVE  Cardinality(B) = Cardinality(A) + 1
<1> DEFINE C == B \ {<<1, 1>>}
           f == [t \in A |-> MovedUp(n, t)]
<1>1. f \in Bijection(A, C)
  <2>1. f \in [A -> C]
    OBVIOUS
  <2>2. \A s, t \in A : f[s] = f[t] => s = t
    BY MovesKeepOrder
  <2>3. \A u \in C : \E t \in A : f[t] = u
    OBVIOUS
  <2> HIDE DEF f, C
  <2> QED BY <2>1, <2>2, <2>3 DEF Bijection, Injection, Surjection, IsInjective
<1>2. Cardinality(C) = Cardinality(A)
  BY <1>1, FS_Bijection DEF ExistsBijection
<1>3. Cardinality(C) = Cardinality(B) - 1
  BY FS_RemoveElement
<1>4. Cardinality(A) \in Nat /\ Cardinality(B) \in Nat
  BY FS_CardinalityType
<1> QED BY <1>2, <1>3, <1>4

\* A turn that is left has one place less before it, and the first one has none.
LEMMA RanksMoveUp ==
  ASSUME NEW q, QueueInv(q), Turns(q) # {}
  PROVE  LET n == Len(q.owners)
             p == Dequeue(q).queue
         IN  /\ Cardinality(Turns(q)) = Cardinality(Turns(p)) + 1
             /\ Rank(q, <<1, 1>>) = 0
             /\ \A t \in Turns(p) : Rank(q, MovedUp(n, t)) = Rank(p, t) + 1
<1> DEFINE n == Len(q.owners)
           f == <<1, 1>>
<1>1. PICK p : p = Dequeue(q).queue
  OBVIOUS
<1>2. /\ n \in Nat \ {0} /\ QueueInv(p) /\ f \in Turns(q)
      /\ \A t \in Turns(q) : TurnAmong(n, t) /\ t[1] # 0
      /\ \A t \in Turns(p) : TurnAmong(n, t) /\ MovedUp(n, t) \in Turns(q) \ {f}
      /\ \A u \in Turns(q) \ {f} : \E t \in Turns(p) : MovedUp(n, t) = u
  BY <1>1, TurnsMoveUp
<1>3. IsFiniteSet(Turns(q)) /\ IsFiniteSet(Turns(p))
  BY <1>2, TurnsCounted
<1>4. Cardinality(Turns(q)) = Cardinality(Turns(p)) + 1
  BY <1>2, <1>3, MovesCount
<1>5. \A t \in Turns(q) \ {f} : Earlier(f, t) /\ ~Earlier(t, f)
  <2> SUFFICES ASSUME NEW t \in Turns(q) \ {f} PROVE Earlier(f, t) /\ ~Earlier(t, f)
    OBVIOUS
  <2>1. PICK r \in Nat \ {0}, k \in 1..n : t = <<r, k>>
    BY <1>2 DEF TurnAmong
  <2>2. r # 1 \/ k # 1
    BY <2>1
  <2> QED BY <1>2, <2>1, <2>2 DEF Earlier
<1>6. Rank(q, f) = 0
  <2>1. ~Earlier(f, f)
    BY DEF Earlier
  <2>2. {s \in Turns(q) : Earlier(s, f)} = {}
    BY <1>5, <2>1
  <2> QED BY <2>2, FS_EmptySet DEF Rank
<1>7. ASSUME NEW t \in Turns(p) PROVE Rank(q, MovedUp(n, t)) = Rank(p, t) + 1
  <2>1. PICK v : v = MovedUp(n, t)
    OBVIOUS
  <2>2. PICK A : A = {s \in Turns(p) : Earlier(s, t)}
    OBVIOUS
  <2>3. PICK B : B = {s \in Turns(q) : Earlier(s, v)}
    OBVIOUS
  <2>4. IsFiniteSet(A) /\ IsFiniteSet(B) /\ \A s \in A : TurnAmong(n, s)
    BY <1>2, <1>3, <2>2, <2>3, FS_Subset
  <2>5. f \in B
    BY <1>2, <1>5, <2>1, <2>3
  <2>6. ASSUME NEW s \in A PROVE MovedUp(n, s) \in B \ {f}
    <3>1. Earlier(MovedUp(n, s), v)
      BY <1>2, <2>1, <2>2, MovesKeepOrder
    <3> QED BY <1>2, <2>2, <2>3, <3>1
  <2>7. ASSUME NEW u \in B \ {f} PROVE \E s \in A : MovedUp(n, s) = u
    <3>1. PICK s \in Turns(p) : MovedUp(n, s) = u
      BY <1>2, <2>3
    <3>2. Earlier(s, t)
      BY <1>2, <2>1, <2>3, <3>1, MovesKeepOrder
    <3> QED BY <2>2, <3>1, <3>2
  <2>8. Cardinality(B) = Cardinality(A) + 1
    BY <1>2, <2>4, <2>5, <2>6, <2>7, MovesCount
  <2> QED BY <2>1, <2>2, <2>3, <2>8 DEF Rank
<1> QED BY <1>1, <1>4, <1>6, <1>7
=============================================================================

--------------------------- MODULE OwnerFairQueue ---------------------------
(***************************************************************************)
(* The operations of OwnerFairQueue<T>                                     *)
(* (packages/inference-core/src/owner-fair-queue.ts), the round-robin      *)
(* queue shared by the inference lanes and by the agent-run coordinator.   *)
(*                                                                         *)
(* A queue is a record:                                                    *)
(*   owners   the array #owners, next owner to be inspected first;         *)
(*   buckets  the map #buckets; an owner without a key has the bucket <<>> *)
(*            (the code deletes a bucket the moment it becomes empty);     *)
(*   last     #lastServedOwner, or NoOwner before the first dequeue.       *)
(*                                                                         *)
(* Every operator is a pure function of the queue: JavaScript runs each    *)
(* method to completion, so a method is one step of whoever calls it.      *)
(***************************************************************************)
EXTENDS Integers, Sequences, FiniteSets, SequencesExt

CONSTANTS Items,      \* the objects that may be queued
          Owners,     \* the owner keys ownerOf() can return
          OwnerOf,    \* the owner of every item (non-empty, already trimmed)
          NoOwner,    \* lastServedOwner = undefined
          NoItem      \* dequeue() = undefined

ASSUME OwnersAssumption == OwnerOf \in [Items -> Owners]
ASSUME AbsentAssumption == NoOwner \notin Owners /\ NoItem \notin Items

EmptyQueue == [owners  |-> <<>>,
               buckets |-> [o \in Owners |-> <<>>],
               last    |-> NoOwner]

Queues == [owners  : Seq(Owners),
           buckets : [Owners -> Seq(Items)],
           last    : Owners \cup {NoOwner}]

\* The items inside the queue; `length` counts them, an object being in at
\* most one bucket and there at most once.
Queued(q)      == UNION {ToSet(q.buckets[o]) : o \in Owners}
QueueLength(q) == Cardinality(Queued(q))

IndexOf(s, e) == CHOOSE k \in DOMAIN s : s[k] = e

\* The element a stands before b in the sequence s.
Before(s, a, b) == \E m, n \in DOMAIN s : m < n /\ s[m] = a /\ s[n] = b

\* Where a new owner enters the rotation: right before the last owner served
\* when that one is still waiting, at the end otherwise.
JoinRotation(q, o) ==
  IF q.last \in ToSet(q.owners) /\ q.last # o
  THEN InsertAt(q.owners, IndexOf(q.owners, q.last), o)
  ELSE Append(q.owners, o)

Enqueue(q, i) ==
  LET o == OwnerOf[i] IN
  [q EXCEPT !.buckets[o] = Append(@, i),
            !.owners     = IF q.buckets[o] # <<>> THEN @ ELSE JoinRotation(q, o)]

\* The rotation positions whose bucket head satisfies the predicate; the
\* predicate is given as the set of items it accepts.
Eligible(q, accepted) ==
  {k \in DOMAIN q.owners : Head(q.buckets[q.owners[k]]) \in accepted}

\* Seeded fault: the owner just served stays in front.
DequeueKeepsFront(q, accepted) ==
  IF Eligible(q, accepted) = {}
  THEN [item |-> NoItem, queue |-> q]
  ELSE LET o    == q.owners[CHOOSE k \in Eligible(q, accepted) : TRUE]
           rest == Tail(q.buckets[o])
           others == SelectSeq(q.owners, LAMBDA p : p # o)
       IN [item  |-> Head(q.buckets[o]),
           queue |-> [owners  |-> IF rest = <<>> THEN others ELSE <<o>> \o others,
                      buckets |-> [q.buckets EXCEPT ![o] = rest],
                      last    |-> o]]

\* dequeueWhere(): owners that are skipped are rotated to the end one by one,
\* then the served owner goes behind them unless its bucket is now empty. When
\* nobody is eligible the rotation comes full circle.
DequeueWhere(q, accepted) ==
  IF Eligible(q, accepted) = {}
  THEN [item |-> NoItem, queue |-> q]
  ELSE LET k    == CHOOSE k \in Eligible(q, accepted) :
                     \A j \in Eligible(q, accepted) : k <= j
           o    == q.owners[k]
           rest == Tail(q.buckets[o])
           turned == SubSeq(q.owners, k + 1, Len(q.owners)) \o SubSeq(q.owners, 1, k - 1)
       IN [item  |-> Head(q.buckets[o]),
           queue |-> [owners  |-> IF rest = <<>> THEN turned ELSE Append(turned, o),
                      buckets |-> [q.buckets EXCEPT ![o] = rest],
                      last    |-> o]]

Dequeue(q) == DequeueWhere(q, Items)

\* Seeded fault: the owner of an emptied bucket stays in the rotation.
RemoveKeepsOwner(q, i) ==
  [q EXCEPT !.buckets[OwnerOf[i]] = SelectSeq(@, LAMBDA j : j # i)]

\* remove(): the item leaves its bucket, and an emptied bucket takes its owner
\* out of the rotation. #lastServedOwner is left alone.
RemoveItem(q, i) ==
  LET o    == OwnerOf[i]
      rest == RemoveAt(q.buckets[o], IndexOf(q.buckets[o], i))
  IN IF i \notin ToSet(q.buckets[o])
     THEN q
     ELSE [q EXCEPT !.buckets[o] = rest,
                    !.owners = IF rest = <<>> THEN RemoveAt(@, IndexOf(@, o)) ELSE @]

\* values(): the round-robin snapshot. Round r takes the r-th item of every
\* bucket that has one, in rotation order; a turn is <<round, rotation index>>.
Turns(q) ==
  UNION {{<<r, k>> : r \in DOMAIN q.buckets[q.owners[k]]} : k \in DOMAIN q.owners}
\* Seeded fault: the snapshot lists one owner after the other.
EarlierByOwner(s, t) == s[2] < t[2] \/ (s[2] = t[2] /\ s[1] < t[1])
Earlier(s, t) == s[1] < t[1] \/ (s[1] = t[1] /\ s[2] < t[2])

Values(q) ==
  LET Nth(n) == CHOOSE t \in Turns(q) :
                  Cardinality({s \in Turns(q) : Earlier(s, t)}) = n - 1
  IN [n \in 1..Cardinality(Turns(q)) |-> q.buckets[q.owners[Nth(n)[2]]][Nth(n)[1]]]
=============================================================================

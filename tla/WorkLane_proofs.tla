-------------------------- MODULE WorkLane_proofs ---------------------------
(***************************************************************************)
(* A lane settles what it admits once, wastes no executor and implements   *)
(* its contract, for any items and owners and any number of executors,     *)
(* waiting places and callers                                              *)
(* (packages/inference-core/src/bounded-work-lane.ts, owner-fair-queue.ts).*)
(***************************************************************************)
EXTENDS WorkLane, OwnerFairQueue_proofs, FiniteSetTheorems

-----------------------------------------------------------------------------
(* The lane                                                                *)

LaneInv == QueueInv(queue) /\ SettledOnce /\ WorkConserving

\* The statuses when item i is told one more.
Plus(i, status) == [published EXCEPT ![i] = Append(@, status)]

\* What the methods do to the lane, as sets of items.
Becomes(waiting, running, ends) ==
  /\ QueueInv(queue') /\ Queued(queue') = waiting
  /\ active' = running /\ published' = ends

\* Waiting and running items are finitely many.
LEMMA Counted ==
  ASSUME LaneInv
  PROVE  /\ Queued(queue) \subseteq Items /\ IsFiniteSet(Queued(queue))
         /\ active \subseteq Items /\ IsFiniteSet(active)
         /\ QueueLength(queue) = Cardinality(Queued(queue))
         /\ Cardinality(Queued(queue)) \in Nat /\ Cardinality(active) \in Nat
         /\ Concurrency \in Nat \ {0} /\ MaxQueued \in Nat \ {0}
<1>1. Queued(queue) \subseteq Items /\ active \subseteq Items
  BY WaitsInBucket DEF LaneInv, SettledOnce, TypeOK
<1>2. IsFiniteSet(Queued(queue)) /\ IsFiniteSet(active)
  BY <1>1, FiniteItems, FS_Subset
<1> QED BY <1>1, <1>2, FS_CardinalityType, LaneAssumption DEF QueueLength

\* #pump(): while nothing that waits is aborted it starts one item, or there is
\* none, or no executor is free.
LEMMA Pumps ==
  ASSUME NEW q, QueueInv(q), NEW busy, Queued(q) \cap aborted = {}, Pump(q, busy)
  PROVE  \/ /\ Cardinality(busy) < Concurrency
            /\ \E w \in Queued(q) : /\ active' = busy \cup {w}
                                    /\ QueueInv(queue') /\ Queued(queue') = Queued(q) \ {w}
         \/ /\ ~(Cardinality(busy) < Concurrency) \/ Queued(q) = {}
            /\ queue' = q /\ active' = busy
<1>1. CASE Queued(q) = {}
  BY <1>1, NothingToServe DEF Pump
<1>2. CASE Queued(q) # {}
  <2>1. /\ Dequeue(q).item \in Queued(q) /\ QueueInv(Dequeue(q).queue)
        /\ Queued(Dequeue(q).queue) = Queued(q) \ {Dequeue(q).item}
    BY <1>2, Dequeued
  <2>2. Dequeue(q).item # NoItem
    BY <2>1, WaitsInBucket, AbsentAssumption
  <2> QED BY <1>2, <2>1, <2>2 DEF Pump
<1> QED BY <1>1, <1>2

\* enqueue() starts the item, makes it wait, or refuses it.
LEMMA SubmitEffect ==
  ASSUME LaneInv, NEW i \in Items, Submit(i)
  PROVE  /\ New(i) /\ i \notin aborted /\ UNCHANGED <<accepting, aborted, closers>>
         /\ \/ /\ accepting /\ Queued(queue) = {} /\ Cardinality(active) < Concurrency
               /\ Becomes({}, active \cup {i}, published)
            \/ /\ accepting /\ Cardinality(active) >= Concurrency
               /\ Cardinality(Queued(queue)) < MaxQueued
               /\ Becomes(Queued(queue) \cup {i}, active, published)
            \/ /\ ~accepting \/ Full
               /\ Becomes(Queued(queue), active, Plus(i, "refused"))
<1>1. New(i) /\ i \notin aborted /\ UNCHANGED <<accepting, aborted, closers>>
  BY DEF Submit
<1>2. CASE ~(accepting /\ ~Full)
  BY <1>1, <1>2 DEF Submit, Publish, Plus, Becomes, LaneInv
<1>3. CASE accepting /\ ~Full
  <2>1. PICK q : q = Enqueue(queue, i)
    OBVIOUS
  <2>2. Pump(q, active) /\ published' = published
    BY <1>3, <2>1 DEF Submit
  <2>3. i \notin Queued(queue) /\ i \notin active
    BY <1>1 DEF New
  <2>4. QueueInv(q) /\ Queued(q) = Queued(queue) \cup {i}
    BY <2>1, <2>3, Enqueued DEF LaneInv
  <2>5. Queued(q) \cap aborted = {}
    BY <1>1, <2>4 DEF LaneInv, SettledOnce
  <2>6. CASE Cardinality(active) < Concurrency
    <3>1. Queued(queue) = {}
      BY <2>6, Counted DEF LaneInv, WorkConserving
    <3>2. Becomes({}, active \cup {i}, published)
      BY <2>2, <2>4, <2>5, <2>6, <3>1, Pumps DEF Becomes
    <3> QED BY <1>1, <1>3, <2>6, <3>1, <3>2
  <2>7. CASE ~(Cardinality(active) < Concurrency)
    <3>1. Cardinality(active) >= Concurrency /\ Cardinality(Queued(queue)) < MaxQueued
      BY <1>3, <2>7, Counted DEF Full
    <3>2. queue' = q /\ active' = active
      BY <2>2, <2>4, <2>5, <2>7, Pumps
    <3>3. Becomes(Queued(queue) \cup {i}, active, published)
      BY <2>2, <2>4, <3>2 DEF Becomes
    <3> QED BY <1>1, <1>3, <3>1, <3>3
  <2> QED BY <2>6, <2>7
<1> QED BY <1>2, <1>3

\* cancel() settles what waits and marks the rest.
LEMMA CancelEffect ==
  ASSUME LaneInv, NEW i \in Items, Cancel(i)
  PROVE  /\ aborted' = aborted \cup {i} /\ accepting' = accepting
         /\ \/ /\ i \in Queued(queue)
               /\ Becomes(Queued(queue) \ {i}, active, Plus(i, "cancelled"))
               /\ ResolveIdle
            \/ /\ i \notin Queued(queue) /\ UNCHANGED closers
               /\ Becomes(Queued(queue), active, published)
<1>1. CASE i \in Queued(queue)
  <2>1. PICK q : q = RemoveItem(queue, i)
    OBVIOUS
  <2>2. QueueInv(q) /\ Queued(q) = Queued(queue) \ {i}
    BY <1>1, <2>1, Removed DEF LaneInv
  <2>3. queue' = q
    BY <1>1, <2>1 DEF Cancel
  <2> QED BY <1>1, <2>2, <2>3 DEF Cancel, Publish, Plus, Becomes
<1>2. CASE i \notin Queued(queue)
  BY <1>2 DEF Cancel, Becomes, LaneInv
<1> QED BY <1>1, <1>2

\* An executor settles, and its place is given on while something waits.
LEMMA SettleEffect ==
  ASSUME LaneInv, NEW i \in Items, NEW threw \in BOOLEAN, Settle(i, threw)
  PROVE  /\ i \in active /\ UNCHANGED <<accepting, aborted>> /\ ResolveIdle
         /\ \E how \in {"completed", "cancelled", "failed"} :
              \/ /\ Queued(queue) = {}
                 /\ Becomes({}, active \ {i}, Plus(i, how))
              \/ \E w \in Queued(queue) :
                   Becomes(Queued(queue) \ {w}, (active \ {i}) \cup {w},
                           Plus(i, how))
<1>1. i \in active /\ UNCHANGED <<accepting, aborted>> /\ ResolveIdle
  BY DEF Settle
<1>2. PICK how \in {"completed", "cancelled", "failed"} :
        published' = Plus(i, how)
  BY DEF Settle, Publish, Plus
<1>3. Pump(queue, active \ {i})
  BY DEF Settle
<1>4. Cardinality(active \ {i}) < Concurrency
  <2>1. IsFiniteSet(active) /\ Cardinality(active) \in Nat /\ Concurrency \in Nat \ {0}
    BY Counted
  <2>2. Cardinality(active \ {i}) = Cardinality(active) - 1
    BY <1>1, <2>1, FS_RemoveElement
  <2>3. Cardinality(active) <= Concurrency
    BY DEF LaneInv, WorkConserving
  <2> QED BY <2>1, <2>2, <2>3
<1>5. QueueInv(queue) /\ Queued(queue) \cap aborted = {}
  BY DEF LaneInv, SettledOnce
<1>6. PICK q, busy : q = queue /\ busy = active \ {i}
  OBVIOUS
<1>7. Pump(q, busy) /\ QueueInv(q) /\ Queued(q) \cap aborted = {} /\ Cardinality(busy) < Concurrency
  BY <1>3, <1>4, <1>5, <1>6
<1>8. \/ \E w \in Queued(q) : /\ active' = busy \cup {w}
                              /\ QueueInv(queue') /\ Queued(queue') = Queued(q) \ {w}
      \/ Queued(q) = {} /\ queue' = q /\ active' = busy
  BY <1>7, Pumps
<1>9. CASE Queued(q) = {} /\ queue' = q /\ active' = busy
  BY <1>1, <1>2, <1>6, <1>7, <1>9 DEF Becomes
<1>10. CASE \E w \in Queued(q) : /\ active' = busy \cup {w}
                                 /\ QueueInv(queue') /\ Queued(queue') = Queued(q) \ {w}
  BY <1>1, <1>2, <1>6, <1>10 DEF Becomes
<1> QED BY <1>8, <1>9, <1>10

\* A drain settles all that waits.
LEMMA CancelAllEffect ==
  ASSUME LaneInv, NEW c \in Callers, CancelAll(c)
  PROVE  /\ aborted' = aborted \cup Queued(queue) \cup active
         /\ accepting' = (accepting /\ c \notin Closers)
         /\ closers' = [closers EXCEPT ![c] = IF active = {} THEN "returned" ELSE "waiting"]
         /\ Becomes({}, active, [i \in Items |-> IF i \in Queued(queue)
                                                THEN Append(published[i], "cancelled")
                                                ELSE published[i]])
<1>1. queue' = [queue EXCEPT !.owners = <<>>, !.buckets = [o \in Owners |-> <<>>]]
  BY DEF CancelAll
<1>2. queue \in Queues /\ queue.last \in Owners \cup {NoOwner}
  BY Parts DEF LaneInv, QueueInv
<1>3. queue'.owners = <<>> /\ queue'.buckets = [o \in Owners |-> <<>>] /\ queue' \in Queues
  BY <1>1, <1>2, EmptySeq DEF Queues
<1>4. QueueInv(queue') /\ Queued(queue') = {}
  BY <1>3, EmptyOnce DEF QueueInv, Queued
<1> QED BY <1>4 DEF CancelAll, Becomes

\* What an item was told.
LEMMA Told ==
  ASSUME LaneInv
  PROVE  /\ published \in [Items -> Seq(Statuses)]
         /\ \A i \in Items : /\ published[i] = <<>> \/ Len(published[i]) = 1
                             /\ i \in Queued(queue) \cup active => published[i] = <<>>
         /\ \A s : Append(<<>>, s) = <<s>> /\ Len(<<s>>) = 1
         /\ \A s \in Statuses : <<s>> \in Seq(Statuses)
<1>1. published \in [Items -> Seq(Statuses)]
  BY DEF LaneInv, SettledOnce, TypeOK
<1>2. ASSUME NEW i \in Items, published[i] # <<>> PROVE Len(published[i]) = 1
  <2>1. published[i] \in Seq(Statuses) /\ Len(published[i]) <= 1
    BY <1>1 DEF LaneInv, SettledOnce
  <2>2. PICK n : n = Len(published[i])
    OBVIOUS
  <2>3. n \in Nat
    BY <2>1, <2>2, LenProperties
  <2>4. n # 0
    BY <1>2, <2>1, <2>2, EmptySeq
  <2>5. n <= 1
    BY <2>1, <2>2
  <2>6. n = 1
    BY <2>3, <2>4, <2>5
  <2> QED BY <2>2, <2>6
<1>3. \A i \in Items : i \in Queued(queue) \cup active => published[i] = <<>>
  BY DEF LaneInv, SettledOnce
<1> QED BY <1>1, <1>2, <1>3

\* The invariant after a step, from what the step did.
LEMMA InvAfter ==
  ASSUME LaneInv, NEW W \in SUBSET Items, NEW R \in SUBSET Items,
         NEW E \in [Items -> Seq(Statuses)], Becomes(W, R, E),
         W \cap R = {}, W \cap aborted' = {}, aborted' \subseteq Items,
         accepting' \in BOOLEAN, closers' \in [Callers -> {"idle", "waiting", "returned"}],
         \A i \in Items : Len(E[i]) <= 1 /\ (i \in W \cup R => E[i] = <<>>),
         W # {} => Cardinality(R) >= Concurrency,
         Cardinality(R) <= Concurrency, Cardinality(W) <= MaxQueued
  PROVE  LaneInv'
<1>1. QueueInv(queue') /\ Queued(queue') = W /\ active' = R /\ published' = E
  BY DEF Becomes
<1>2. queue' \in Queues
  BY <1>1 DEF QueueInv
<1>3. TypeOK'
  BY <1>1, <1>2 DEF TypeOK
<1>4. SettledOnce'
  BY <1>1, <1>3 DEF SettledOnce
<1>5. WorkConserving'
  BY <1>1 DEF WorkConserving, QueueLength
<1> QED BY <1>1, <1>4, <1>5 DEF LaneInv

\* An item that was told nothing yet is told something.
LEMMA Tells ==
  ASSUME LaneInv, NEW i \in Items, published[i] = <<>>, NEW s \in Statuses
  PROVE  /\ Plus(i, s) \in [Items -> Seq(Statuses)]
         /\ Plus(i, s)[i] = <<s>> /\ Head(Plus(i, s)[i]) = s
         /\ \A j \in Items : j # i => Plus(i, s)[j] = published[j]
         /\ \A j \in Items : Len(Plus(i, s)[j]) <= 1
<1>1. published \in [Items -> Seq(Statuses)] /\ <<s>> \in Seq(Statuses) /\ Append(<<>>, s) = <<s>>
  BY Told
<1>2. /\ Plus(i, s) \in [Items -> Seq(Statuses)] /\ Plus(i, s)[i] = <<s>>
      /\ \A j \in Items : j # i => Plus(i, s)[j] = published[j]
  BY <1>1 DEF Plus
<1>3. \A j \in Items : Len(published[j]) <= 1
  BY DEF LaneInv, SettledOnce
<1>4. Len(<<s>>) <= 1 /\ Head(<<s>>) = s
  OBVIOUS
<1>5. \A j \in Items : Len(Plus(i, s)[j]) <= 1
  BY <1>2, <1>3, <1>4
<1>6. Head(Plus(i, s)[i]) = s
  BY <1>2, <1>4
<1> QED BY <1>2, <1>5, <1>6

\* ... and whoever waits or runs after it was told nothing.
LEMMA TellsOne ==
  ASSUME LaneInv, NEW i \in Items, published[i] = <<>>, NEW s \in Statuses,
         NEW S, S \subseteq Queued(queue) \cup active, i \notin S
  PROVE  \A j \in Items : j \in S => Plus(i, s)[j] = <<>>
<1>1. \A j \in Items : j \in Queued(queue) \cup active => published[j] = <<>>
  BY Told
<1>2. \A j \in Items : j # i => Plus(i, s)[j] = published[j]
  BY Tells
<1> QED BY <1>1, <1>2

\* What the lane believes of its callers keeps its type.
LEMMA Resolves ==
  ASSUME LaneInv, ResolveIdle
  PROVE  closers' \in [Callers -> {"idle", "waiting", "returned"}]
BY DEF LaneInv, SettledOnce, TypeOK, ResolveIdle

LEMMA InvInit == Init => LaneInv
<1> SUFFICES ASSUME Init PROVE LaneInv
  OBVIOUS
<1>1. QueueInv(queue) /\ Queued(queue) = {} /\ active = {}
  BY Fresh DEF Init
<1>2. Cardinality({}) = 0 /\ Concurrency \in Nat /\ MaxQueued \in Nat
  BY FS_EmptySet, LaneAssumption
<1>3. WorkConserving
  BY <1>1, <1>2 DEF WorkConserving, QueueLength
<1>4. TypeOK
  BY <1>1, EmptySeq DEF TypeOK, Init, QueueInv
<1>5. SettledOnce
  BY <1>1, <1>4 DEF SettledOnce, Init
<1> QED BY <1>1, <1>3, <1>5 DEF LaneInv

LEMMA InvSubmit == ASSUME LaneInv, NEW i \in Items, Submit(i) PROVE LaneInv'
<1>1. New(i) /\ i \notin aborted /\ UNCHANGED <<accepting, aborted, closers>>
  BY SubmitEffect
<1>2. published[i] = <<>> /\ i \notin Queued(queue) /\ i \notin active
  BY <1>1 DEF New
<1>3. /\ aborted' \subseteq Items /\ accepting' \in BOOLEAN
      /\ closers' \in [Callers -> {"idle", "waiting", "returned"}]
  BY <1>1 DEF LaneInv, SettledOnce, TypeOK
<1>4. /\ published \in [Items -> Seq(Statuses)]
      /\ \A j \in Items : Len(published[j]) <= 1 /\ (j \in Queued(queue) \cup active => published[j] = <<>>)
  BY Told DEF LaneInv, SettledOnce
<1>5. Queued(queue) \cap active = {} /\ Queued(queue) \cap aborted' = {}
  BY <1>1 DEF LaneInv, SettledOnce
<1>6. /\ Queued(queue) # {} => Cardinality(active) >= Concurrency
      /\ Cardinality(active) <= Concurrency /\ Cardinality(Queued(queue)) <= MaxQueued
  BY DEF LaneInv, WorkConserving, QueueLength
<1>7. CASE /\ Queued(queue) = {} /\ Cardinality(active) < Concurrency
           /\ Becomes({}, active \cup {i}, published)
  <2>1. Cardinality(active \cup {i}) = Cardinality(active) + 1
    BY <1>2, Counted, FS_AddElement
  <2>2. Cardinality(active \cup {i}) <= Concurrency
    BY <1>7, <2>1, Counted
  <2>3. Cardinality({}) <= MaxQueued
    BY FS_EmptySet, LaneAssumption
  <2>4. {} \in SUBSET Items /\ active \cup {i} \in SUBSET Items
    BY Counted
  <2>5. \A j \in Items : j \in {} \cup (active \cup {i}) => published[j] = <<>>
    BY <1>2, <1>4
  <2> QED BY <1>3, <1>4, <1>7, <2>2, <2>3, <2>4, <2>5, InvAfter
<1>8. CASE /\ Cardinality(active) >= Concurrency /\ Cardinality(Queued(queue)) < MaxQueued
           /\ Becomes(Queued(queue) \cup {i}, active, published)
  <2>1. Cardinality(Queued(queue) \cup {i}) = Cardinality(Queued(queue)) + 1
    BY <1>2, Counted, FS_AddElement
  <2>2. Cardinality(Queued(queue) \cup {i}) <= MaxQueued
    BY <1>8, <2>1, Counted
  <2>3. PICK S : S = Queued(queue) \cup {i}
    OBVIOUS
  <2>4. active \in SUBSET Items /\ S \in SUBSET Items
    BY <2>3, Counted
  <2>5. S \cap active = {} /\ S \cap aborted' = {}
    BY <1>1, <1>2, <1>5, <2>3
  <2>6. \A j \in Items : j \in S \cup active => published[j] = <<>>
    BY <1>2, <1>4, <2>3
  <2>7. Becomes(S, active, published) /\ Cardinality(S) <= MaxQueued
    BY <1>8, <2>2, <2>3
  <2>8. S # {} => Cardinality(active) >= Concurrency
    BY <1>8
  <2> QED BY <1>3, <1>4, <1>6, <2>4, <2>5, <2>6, <2>7, <2>8, InvAfter
<1>9. CASE Becomes(Queued(queue), active, Plus(i, "refused"))
  <2>1. "refused" \in Statuses
    BY DEF Statuses
  <2>2. PICK S : S = Queued(queue) \cup active
    OBVIOUS
  <2>3. \A j \in Items : j \in S => Plus(i, "refused")[j] = <<>>
    BY <1>2, <2>1, <2>2, TellsOne
  <2>4. /\ Plus(i, "refused") \in [Items -> Seq(Statuses)]
        /\ \A j \in Items : Len(Plus(i, "refused")[j]) <= 1
    BY <1>2, <2>1, Tells
  <2>5. active \in SUBSET Items /\ Queued(queue) \in SUBSET Items
    BY Counted
  <2> QED BY <1>3, <1>5, <1>6, <1>9, <2>2, <2>3, <2>4, <2>5, InvAfter
<1> QED BY <1>7, <1>8, <1>9, SubmitEffect

\* The bounds of the lane, spelled out.
LEMMA Bounds ==
  ASSUME LaneInv
  PROVE  /\ Queued(queue) # {} => Cardinality(active) >= Concurrency
         /\ Cardinality(active) <= Concurrency /\ Cardinality(Queued(queue)) <= MaxQueued
         /\ Queued(queue) \cap active = {} /\ Queued(queue) \cap aborted = {}
         /\ aborted \subseteq Items /\ accepting \in BOOLEAN
         /\ closers \in [Callers -> {"idle", "waiting", "returned"}]
BY DEF LaneInv, WorkConserving, QueueLength, SettledOnce, TypeOK

LEMMA InvCancel == ASSUME LaneInv, NEW i \in Items, Cancel(i) PROVE LaneInv'
<1>1. aborted' = aborted \cup {i} /\ accepting' = accepting
  BY CancelEffect
<1>2. CASE /\ i \in Queued(queue) /\ ResolveIdle
           /\ Becomes(Queued(queue) \ {i}, active, Plus(i, "cancelled"))
  <2>1. "cancelled" \in Statuses /\ published[i] = <<>>
    BY <1>2, Told DEF Statuses
  <2>2. PICK S : S = (Queued(queue) \ {i}) \cup active
    OBVIOUS
  <2>3. i \notin S /\ S \subseteq Queued(queue) \cup active
    BY <1>2, <2>2, Bounds
  <2>4. \A j \in Items : j \in S => Plus(i, "cancelled")[j] = <<>>
    BY <2>1, <2>3, TellsOne
  <2>5. /\ Plus(i, "cancelled") \in [Items -> Seq(Statuses)]
        /\ \A j \in Items : Len(Plus(i, "cancelled")[j]) <= 1
    BY <2>1, Tells
  <2>6. active \in SUBSET Items /\ Queued(queue) \ {i} \in SUBSET Items
    BY Counted
  <2>7. (Queued(queue) \ {i}) \cap aborted' = {} /\ (Queued(queue) \ {i}) \cap active = {}
    BY <1>1, Bounds
  <2>8. Cardinality(Queued(queue) \ {i}) <= MaxQueued
    <3>1. Cardinality(Queued(queue) \ {i}) = Cardinality(Queued(queue)) - 1
      BY <1>2, Counted, FS_RemoveElement
    <3> QED BY <3>1, Bounds, Counted
  <2>9. Queued(queue) \ {i} # {} => Cardinality(active) >= Concurrency
    BY Bounds
  <2>10. /\ aborted' \subseteq Items /\ accepting' \in BOOLEAN
         /\ closers' \in [Callers -> {"idle", "waiting", "returned"}]
    BY <1>1, <1>2, Bounds, Resolves
  <2>11. Cardinality(active) <= Concurrency
    BY Bounds
  <2> QED
    BY <1>2, <2>2, <2>4, <2>5, <2>6, <2>7, <2>8, <2>9, <2>10, <2>11, InvAfter
<1>3. CASE i \notin Queued(queue) /\ UNCHANGED closers /\ Becomes(Queued(queue), active, published)
  <2>1. active \in SUBSET Items /\ Queued(queue) \in SUBSET Items
    BY Counted
  <2>2. Queued(queue) \cap aborted' = {} /\ aborted' \subseteq Items
    BY <1>1, <1>3, Bounds
  <2>3. closers' \in [Callers -> {"idle", "waiting", "returned"}] /\ accepting' \in BOOLEAN
    BY <1>1, <1>3, Bounds
  <2>4. /\ published \in [Items -> Seq(Statuses)]
        /\ \A j \in Items : Len(published[j]) <= 1 /\ (j \in Queued(queue) \cup active => published[j] = <<>>)
    BY Told DEF LaneInv, SettledOnce
  <2> QED BY <1>3, <2>1, <2>2, <2>3, <2>4, Bounds, InvAfter
<1> QED BY <1>2, <1>3, CancelEffect

LEMMA InvSettle ==
  ASSUME LaneInv, NEW i \in Items, NEW threw \in BOOLEAN, Settle(i, threw) PROVE LaneInv'
<1>1. i \in active /\ UNCHANGED <<accepting, aborted>> /\ ResolveIdle
  BY SettleEffect
<1>2. /\ aborted' \subseteq Items /\ accepting' \in BOOLEAN
      /\ closers' \in [Callers -> {"idle", "waiting", "returned"}]
  BY <1>1, Bounds, Resolves
<1>3. published[i] = <<>> /\ i \notin Queued(queue)
  BY <1>1, Told, Bounds
<1>4. Cardinality(active \ {i}) = Cardinality(active) - 1
  BY <1>1, Counted, FS_RemoveElement
<1>5. PICK how \in {"completed", "cancelled", "failed"} :
        \/ Queued(queue) = {} /\ Becomes({}, active \ {i}, Plus(i, how))
        \/ \E w \in Queued(queue) :
             Becomes(Queued(queue) \ {w}, (active \ {i}) \cup {w}, Plus(i, how))
  BY SettleEffect
<1>6. how \in Statuses
  BY <1>5 DEF Statuses
<1>7. /\ Plus(i, how) \in [Items -> Seq(Statuses)]
      /\ \A j \in Items : Len(Plus(i, how)[j]) <= 1
  BY <1>3, <1>6, Tells
<1>8. CASE Queued(queue) = {} /\ Becomes({}, active \ {i}, Plus(i, how))
  <2>1. PICK S : S = {} \cup (active \ {i})
    OBVIOUS
  <2>2. \A j \in Items : j \in S => Plus(i, how)[j] = <<>>
    BY <1>3, <1>6, <2>1, TellsOne
  <2>3. Cardinality(active \ {i}) <= Concurrency /\ Cardinality({}) <= MaxQueued
    BY <1>4, Bounds, Counted, FS_EmptySet
  <2>4. active \ {i} \in SUBSET Items
    BY Counted
  <2> QED BY <1>2, <1>7, <1>8, <2>1, <2>2, <2>3, <2>4, InvAfter
<1>9. CASE \E w \in Queued(queue) :
             Becomes(Queued(queue) \ {w}, (active \ {i}) \cup {w}, Plus(i, how))
  <2>1. PICK w \in Queued(queue) :
             Becomes(Queued(queue) \ {w}, (active \ {i}) \cup {w}, Plus(i, how))
    BY <1>9
  <2>2. PICK W, R : W = Queued(queue) \ {w} /\ R = (active \ {i}) \cup {w}
    OBVIOUS
  <2>3. W \cup R \subseteq Queued(queue) \cup active /\ i \notin W \cup R
    BY <1>1, <1>3, <2>1, <2>2
  <2>4. \A j \in Items : j \in W \cup R => Plus(i, how)[j] = <<>>
    BY <1>3, <1>6, <2>3, TellsOne
  <2>5. W \cap R = {} /\ W \cap aborted' = {} /\ W \in SUBSET Items /\ R \in SUBSET Items
    BY <1>1, <2>1, <2>2, Bounds, Counted
  <2>6. Cardinality(R) = Cardinality(active)
    <3>1. IsFiniteSet(active \ {i}) /\ w \notin active \ {i}
      BY <2>1, Bounds, Counted, FS_RemoveElement
    <3>2. Cardinality(R) = Cardinality(active \ {i}) + 1
      BY <2>2, <3>1, FS_AddElement
    <3> QED BY <1>4, <3>2, Counted
  <2>7. Cardinality(W) <= MaxQueued
    <3>1. Cardinality(W) = Cardinality(Queued(queue)) - 1
      BY <2>1, <2>2, Counted, FS_RemoveElement
    <3> QED BY <3>1, Bounds, Counted
  <2>8. Cardinality(R) <= Concurrency /\ Cardinality(R) >= Concurrency
    BY <2>1, <2>6, Bounds
  <2>9. Becomes(W, R, Plus(i, how))
    BY <2>1, <2>2
  <2> QED BY <1>2, <1>7, <2>4, <2>5, <2>7, <2>8, <2>9, InvAfter
<1> QED BY <1>5, <1>8, <1>9

\* The statuses when everything that waits is cancelled.
Drained == [i \in Items |-> IF i \in Queued(queue) THEN Append(published[i], "cancelled")
                                                   ELSE published[i]]

LEMMA Drains ==
  ASSUME LaneInv
  PROVE  /\ Drained \in [Items -> Seq(Statuses)]
         /\ \A i \in Items : /\ i \in Queued(queue) => Drained[i] = <<"cancelled">>
                             /\ i \notin Queued(queue) => Drained[i] = published[i]
                             /\ Len(Drained[i]) <= 1
<1>1. /\ published \in [Items -> Seq(Statuses)]
      /\ \A i \in Items : i \in Queued(queue) => published[i] = <<>>
      /\ <<"cancelled">> \in Seq(Statuses) /\ Append(<<>>, "cancelled") = <<"cancelled">>
  BY Told DEF Statuses
<1>2. \A i \in Items : /\ i \in Queued(queue) => Drained[i] = <<"cancelled">>
                       /\ i \notin Queued(queue) => Drained[i] = published[i]
  BY <1>1 DEF Drained
<1>3. \A i \in Items : Drained[i] \in Seq(Statuses)
  BY <1>1, <1>2
<1>4. Drained \in [Items -> Seq(Statuses)]
  BY <1>3 DEF Drained
<1>5. Len(<<"cancelled">>) <= 1 /\ \A i \in Items : Len(published[i]) <= 1
  BY DEF LaneInv, SettledOnce
<1>6. \A i \in Items : Len(Drained[i]) <= 1
  BY <1>2, <1>5
<1> QED BY <1>2, <1>4, <1>6

LEMMA InvCancelAll == ASSUME LaneInv, NEW c \in Callers, CancelAll(c) PROVE LaneInv'
<1>1. /\ aborted' = aborted \cup Queued(queue) \cup active
      /\ accepting' = (accepting /\ c \notin Closers)
      /\ closers' = [closers EXCEPT ![c] = IF active = {} THEN "returned" ELSE "waiting"]
      /\ Becomes({}, active, Drained)
  BY CancelAllEffect DEF Drained
<1>2. /\ Drained \in [Items -> Seq(Statuses)]
      /\ \A j \in Items : Len(Drained[j]) <= 1 /\ (j \in {} \cup active => Drained[j] = <<>>)
  BY Drains, Bounds, Told
<1>3. aborted' \subseteq Items /\ active \in SUBSET Items
  BY <1>1, Bounds, Counted
<1>4. closers' \in [Callers -> {"idle", "waiting", "returned"}]
  BY <1>1, Bounds
<1>5. accepting' \in BOOLEAN
  BY <1>1
<1>6. Cardinality(active) <= Concurrency /\ Cardinality({}) <= MaxQueued
  BY Bounds, Counted, FS_EmptySet
<1> QED BY <1>1, <1>2, <1>3, <1>4, <1>5, <1>6, InvAfter

LEMMA InvStutter == LaneInv /\ UNCHANGED vars => LaneInv'
<1> SUFFICES ASSUME LaneInv, UNCHANGED vars PROVE LaneInv'
  OBVIOUS
<1>1. /\ queue' = queue /\ active' = active /\ accepting' = accepting /\ aborted' = aborted
      /\ closers' = closers /\ published' = published
  BY DEF vars
<1>2. Becomes(Queued(queue), active, published)
  BY <1>1 DEF Becomes, LaneInv
<1>3. active \in SUBSET Items /\ Queued(queue) \in SUBSET Items
  BY Counted
<1>4. /\ published \in [Items -> Seq(Statuses)]
      /\ \A j \in Items : Len(published[j]) <= 1 /\ (j \in Queued(queue) \cup active => published[j] = <<>>)
  BY Told DEF LaneInv, SettledOnce
<1> QED BY <1>1, <1>2, <1>3, <1>4, Bounds, InvAfter

LEMMA InvStep == LaneInv /\ [Next]_vars => LaneInv'
<1> SUFFICES ASSUME LaneInv, [Next]_vars PROVE LaneInv'
  OBVIOUS
<1> QED BY InvSubmit, InvCancel, InvSettle, InvCancelAll, InvStutter DEF Next

LEMMA LaneKept == Spec => []LaneInv
BY InvInit, InvStep, PTL DEF Spec

-----------------------------------------------------------------------------
\* What the lane admits it settles, once: an item is waiting, running or ended,
\* never two of them, and no waiting item is aborted, so the pump drops none
\* (bounded-work-lane.ts:59-113).
THEOREM SettlesOnce == Spec => []SettledOnce
BY LaneKept, PTL DEF LaneInv

\* No executor is free while something waits, and the lane keeps its two bounds
\* (bounded-work-lane.ts:50-57, 90-113).
THEOREM ConservesWork == Spec => []WorkConserving
BY LaneKept, PTL DEF LaneInv

-----------------------------------------------------------------------------
(* The contract                                                            *)

\* Where an item is, from what the lane holds.
At(W, R, E, i) ==
  IF i \in W THEN "waiting" ELSE IF i \in R THEN "running"
  ELSE IF E[i] = <<>> THEN "new" ELSE Head(E[i])

LEMMA ViewBefore == \A i \in Items : StageOf(i) = At(Queued(queue), active, published, i)
BY DEF StageOf, At

LEMMA ViewAfter ==
  ASSUME NEW W, NEW R, NEW E, Becomes(W, R, E)
  PROVE  \A i \in Items : StageOf(i)' = At(W, R, E, i)
BY DEF Becomes, StageOf, At

\* The stages are told apart.
LEMMA Views ==
  ASSUME LaneInv
  PROVE  /\ \A i \in Items : /\ StageOf(i) = "waiting" <=> i \in Queued(queue)
                             /\ StageOf(i) = "running" <=> i \in active
                             /\ New(i) => StageOf(i) = "new"
         /\ Contract!In("waiting") = Queued(queue)
         /\ Contract!In("running") = active
<1>1. ASSUME NEW i \in Items, published[i] # <<>> PROVE Head(published[i]) \in Statuses
  <2>1. published[i] \in Seq(Statuses)
    BY Told
  <2> QED BY <1>1, <2>1, NothingIn
<1>2. \A i \in Items : i \notin Queued(queue) /\ i \notin active =>
        StageOf(i) = "new" \/ StageOf(i) \in Statuses
  BY <1>1 DEF StageOf
<1>3. \A i \in Items : /\ StageOf(i) = "waiting" <=> i \in Queued(queue)
                       /\ StageOf(i) = "running" <=> i \in active
                       /\ New(i) => StageOf(i) = "new"
  BY <1>2, Bounds DEF StageOf, Statuses, New
<1>4. /\ Contract!In("waiting") = {i \in Items : StageOf(i) = "waiting"}
      /\ Contract!In("running") = {i \in Items : StageOf(i) = "running"}
  BY DEF Contract!In
<1> QED BY <1>3, <1>4, Counted

\* The contract counts as the lane does.
LEMMA SameCount == \A S : Contract!Cardinality(S) = Cardinality(S)
BY DEF Contract!Cardinality, Cardinality

\* A step of the contract, or none.
ContractStep == [Contract!Next]_<<[i \in Items |-> StageOf(i)], accepting>>

LEMMA SubmitImplements == ASSUME LaneInv, NEW i \in Items, Submit(i) PROVE ContractStep
<1> DEFINE stage == [j \in Items |-> StageOf(j)]
<1>1. New(i) /\ accepting' = accepting
  BY SubmitEffect
<1>2. stage[i] = "new"
  BY <1>1, Views
<1>3. published[i] = <<>> /\ i \notin Queued(queue) /\ i \notin active
  BY <1>1 DEF New
<1>4. CASE /\ accepting /\ Queued(queue) = {} /\ Cardinality(active) < Concurrency
           /\ Becomes({}, active \cup {i}, published)
  <2>1. \A j \in Items : StageOf(j)' = [stage EXCEPT ![i] = "running"][j]
    BY <1>3, <1>4, ViewBefore, ViewAfter DEF At
  <2>2. stage' = [stage EXCEPT ![i] = "running"]
    BY <2>1
  <2>3. Contract!StartAtOnce(i)
    BY <1>1, <1>2, <1>4, <2>2, Views, SameCount DEF Contract!StartAtOnce
  <2> QED BY <2>3 DEF ContractStep, Contract!Next
<1>5. CASE /\ accepting /\ Cardinality(active) >= Concurrency
           /\ Cardinality(Queued(queue)) < MaxQueued
           /\ Becomes(Queued(queue) \cup {i}, active, published)
  <2>1. \A j \in Items : StageOf(j)' = [stage EXCEPT ![i] = "waiting"][j]
    BY <1>3, <1>5, ViewBefore, ViewAfter DEF At
  <2>2. stage' = [stage EXCEPT ![i] = "waiting"]
    BY <2>1
  <2>3. Contract!Wait(i)
    BY <1>1, <1>2, <1>5, <2>2, Views, SameCount DEF Contract!Wait
  <2> QED BY <2>3 DEF ContractStep, Contract!Next
<1>6. CASE /\ ~accepting \/ Full
           /\ Becomes(Queued(queue), active, Plus(i, "refused"))
  <2>0. "refused" \in Statuses
    BY DEF Statuses
  <2>1. \A j \in Items : j # i => Plus(i, "refused")[j] = published[j]
    BY <1>3, <2>0, Tells
  <2>2. Head(Plus(i, "refused")[i]) = "refused" /\ Plus(i, "refused")[i] # <<>>
    BY <1>3, <2>0, Tells
  <2>3. \A j \in Items : StageOf(j)' = [stage EXCEPT ![i] = "refused"][j]
    BY <1>3, <1>6, <2>1, <2>2, ViewBefore, ViewAfter DEF At
  <2>4. stage' = [stage EXCEPT ![i] = "refused"]
    BY <2>3
  <2>5. ~accepting \/ (Cardinality(Queued(queue)) >= MaxQueued /\ Cardinality(active) >= Concurrency)
    BY <1>6 DEF Full, QueueLength
  <2>6. Contract!Refuse(i)
    BY <1>1, <1>2, <2>4, <2>5, Views, SameCount DEF Contract!Refuse
  <2> QED BY <2>6 DEF ContractStep, Contract!Next
<1> QED BY <1>4, <1>5, <1>6, SubmitEffect

LEMMA CancelImplements == ASSUME LaneInv, NEW i \in Items, Cancel(i) PROVE ContractStep
<1> DEFINE stage == [j \in Items |-> StageOf(j)]
<1>1. accepting' = accepting
  BY CancelEffect
<1>2. CASE i \in Queued(queue) /\ Becomes(Queued(queue) \ {i}, active, Plus(i, "cancelled"))
  <2>0. "cancelled" \in Statuses /\ published[i] = <<>> /\ i \notin active
    BY <1>2, Told, Bounds DEF Statuses
  <2>1. \A j \in Items : j # i => Plus(i, "cancelled")[j] = published[j]
    BY <2>0, Tells
  <2>2. Head(Plus(i, "cancelled")[i]) = "cancelled" /\ Plus(i, "cancelled")[i] # <<>>
    BY <2>0, Tells
  <2>3. \A j \in Items : StageOf(j)' = [stage EXCEPT ![i] = "cancelled"][j]
    BY <1>2, <2>0, <2>1, <2>2, ViewBefore, ViewAfter DEF At
  <2>4. stage' = [stage EXCEPT ![i] = "cancelled"]
    BY <2>3
  <2>5. Contract!Drop(i)
    BY <1>1, <1>2, <2>4, Views DEF Contract!Drop
  <2> QED BY <2>5 DEF ContractStep, Contract!Next
<1>3. CASE Becomes(Queued(queue), active, published)
  <2>1. \A j \in Items : StageOf(j)' = StageOf(j)
    BY <1>3, ViewBefore, ViewAfter
  <2>2. stage' = stage
    BY <2>1
  <2> QED BY <1>1, <2>2 DEF ContractStep
<1> QED BY <1>2, <1>3, CancelEffect

LEMMA SettleImplements ==
  ASSUME LaneInv, NEW i \in Items, NEW threw \in BOOLEAN, Settle(i, threw) PROVE ContractStep
<1> DEFINE stage == [j \in Items |-> StageOf(j)]
<1>1. i \in active /\ accepting' = accepting /\ published[i] = <<>> /\ i \notin Queued(queue)
  BY SettleEffect, Told, Bounds
<1>2. PICK how \in {"completed", "cancelled", "failed"} :
        \/ Queued(queue) = {} /\ Becomes({}, active \ {i}, Plus(i, how))
        \/ \E w \in Queued(queue) :
             Becomes(Queued(queue) \ {w}, (active \ {i}) \cup {w}, Plus(i, how))
  BY SettleEffect
<1>3. how \in Statuses /\ how \in Contract!Ended \ {"refused"}
  BY <1>2 DEF Statuses, Contract!Ended
<1>4. \A j \in Items : j # i => Plus(i, how)[j] = published[j]
  BY <1>1, <1>3, Tells
<1>5. Head(Plus(i, how)[i]) = how /\ Plus(i, how)[i] # <<>>
  BY <1>1, <1>3, Tells
<1>6. stage[i] = "running"
  BY <1>1, Views
<1>7. CASE Queued(queue) = {} /\ Becomes({}, active \ {i}, Plus(i, how))
  <2>1. \A j \in Items : StageOf(j)' = [stage EXCEPT ![i] = how][j]
    BY <1>1, <1>4, <1>5, <1>7, ViewBefore, ViewAfter DEF At
  <2>2. stage' = [stage EXCEPT ![i] = how]
    BY <2>1
  <2>3. Contract!End(i, how)
    BY <1>1, <1>6, <1>7, <2>2, Views DEF Contract!End
  <2> QED BY <1>3, <2>3 DEF ContractStep, Contract!Next
<1>8. CASE \E w \in Queued(queue) :
             Becomes(Queued(queue) \ {w}, (active \ {i}) \cup {w}, Plus(i, how))
  <2>1. PICK w \in Queued(queue) :
             Becomes(Queued(queue) \ {w}, (active \ {i}) \cup {w}, Plus(i, how))
    BY <1>8
  <2>2. w \in Items /\ w # i /\ w \notin active /\ published[w] = <<>>
    BY <1>1, Counted, Told, Bounds
  <2>3. ASSUME NEW j \in Items
        PROVE  StageOf(j)' = IF j = w THEN "running" ELSE IF j = i THEN how ELSE StageOf(j)
    <3>1. StageOf(j)' = At(Queued(queue) \ {w}, (active \ {i}) \cup {w}, Plus(i, how), j)
      BY <2>1, ViewAfter
    <3>2. StageOf(j) = At(Queued(queue), active, published, j)
      BY ViewBefore
    <3>3. CASE j = w
      BY <2>2, <3>1, <3>3 DEF At
    <3>4. CASE j = i
      BY <1>1, <1>5, <2>2, <3>1, <3>4 DEF At
    <3>5. CASE j # i /\ j # w
      <4>1. Plus(i, how)[j] = published[j]
        BY <1>4, <3>5
      <4> QED BY <3>1, <3>2, <3>5, <4>1 DEF At
    <3> QED BY <2>2, <3>3, <3>4, <3>5
  <2>4. stage' = [stage EXCEPT ![i] = how, ![w] = "running"]
    BY <2>2, <2>3
  <2>5. w \in Contract!In("waiting")
    BY Views
  <2>6. Contract!End(i, how)
    BY <1>1, <1>6, <2>4, <2>5 DEF Contract!End
  <2> QED BY <1>3, <2>6 DEF ContractStep, Contract!Next
<1> QED BY <1>2, <1>7, <1>8

LEMMA CancelAllImplements == ASSUME LaneInv, NEW c \in Callers, CancelAll(c) PROVE ContractStep
<1> DEFINE stage == [j \in Items |-> StageOf(j)]
<1>1. Becomes({}, active, Drained) /\ accepting' = (accepting /\ c \notin Closers)
  BY CancelAllEffect DEF Drained
<1>2. Head(<<"cancelled">>) = "cancelled" /\ <<"cancelled">> # <<>> /\ accepting \in BOOLEAN
  BY Bounds
<1>3. \A j \in Items :
        StageOf(j)' = [k \in Items |-> IF stage[k] = "waiting" THEN "cancelled" ELSE stage[k]][j]
  <2> SUFFICES ASSUME NEW j \in Items
               PROVE  StageOf(j)' = IF StageOf(j) = "waiting" THEN "cancelled" ELSE StageOf(j)
    OBVIOUS
  <2>1. StageOf(j)' = At({}, active, Drained, j) /\ StageOf(j) = At(Queued(queue), active, published, j)
    BY <1>1, ViewBefore, ViewAfter
  <2>2. StageOf(j) = "waiting" <=> j \in Queued(queue)
    BY Views
  <2>3. CASE j \in Queued(queue)
    <3>1. j \notin active /\ Drained[j] = <<"cancelled">>
      BY <2>3, Bounds, Drains
    <3> QED BY <1>2, <2>1, <2>2, <2>3, <3>1 DEF At
  <2>4. CASE j \notin Queued(queue)
    <3>1. Drained[j] = published[j]
      BY <2>4, Drains
    <3> QED BY <2>1, <2>2, <2>4, <3>1 DEF At
  <2> QED BY <2>3, <2>4
<1>4. stage' = [k \in Items |-> IF stage[k] = "waiting" THEN "cancelled" ELSE stage[k]]
  BY <1>3
<1>5. accepting' = accepting \/ accepting' = FALSE
  BY <1>1, <1>2
<1>6. Contract!DropAll(accepting) \/ Contract!DropAll(FALSE)
  BY <1>4, <1>5 DEF Contract!DropAll
<1> QED BY <1>6 DEF ContractStep, Contract!Next

LEMMA StepImplements == LaneInv /\ [Next]_vars => ContractStep
<1> SUFFICES ASSUME LaneInv, [Next]_vars PROVE ContractStep
  OBVIOUS
<1>1. CASE UNCHANGED vars
  <2>1. Becomes(Queued(queue), active, published) /\ accepting' = accepting
    BY <1>1 DEF vars, Becomes, LaneInv
  <2>2. \A j \in Items : StageOf(j)' = StageOf(j)
    BY <2>1, ViewBefore, ViewAfter
  <2>3. [i \in Items |-> StageOf(i)]' = [i \in Items |-> StageOf(i)]
    BY <2>2
  <2> QED BY <2>1, <2>3 DEF ContractStep
<1> QED
  BY <1>1, SubmitImplements, CancelImplements, SettleImplements, CancelAllImplements DEF Next

\* The lane implements the contract its users rely on: with the queue hidden,
\* each method is a step of LaneContract or none (bounded-work-lane.ts:50-113).
THEOREM LaneImplementsContract == Spec => ImplementsContract
<1>1. Init => Contract!Init
  <2> SUFFICES ASSUME Init PROVE Contract!Init
    OBVIOUS
  <2>1. active = {} /\ Queued(queue) = {} /\ accepting = TRUE
    BY Fresh DEF Init
  <2>2. \A i \in Items : StageOf(i) = "new"
    BY <2>1 DEF Init, StageOf
  <2> QED BY <2>1, <2>2 DEF Contract!Init
<1> QED
  BY <1>1, StepImplements, LaneKept, PTL DEF Spec, ImplementsContract, Contract!Spec, ContractStep
=============================================================================

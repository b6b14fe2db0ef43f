----------------------------- MODULE FairQueue ------------------------------
(***************************************************************************)
(* The life of one OwnerFairQueue under the two ways the program drains it:*)
(* dequeue() by BoundedWorkLane, and dequeueWhere() by                     *)
(* AgentRunCoordinator, whose predicate admits an owner only while fewer   *)
(* than PerOwner of its items are running (agent-runs.ts).  With PerOwner  *)
(* at least the number of items the predicate is always true and the queue *)
(* is the lane's.                                                          *)
(*                                                                         *)
(* `arrived` and `bypassed` are history: no action reads them.             *)
(***************************************************************************)
EXTENDS OwnerFairQueue

CONSTANT PerOwner     \* items of one owner that may run at once

ASSUME PerOwnerAssumption == PerOwner \in Nat \ {0}

VARIABLES queue,      \* the OwnerFairQueue
          running,    \* items taken from the queue and not finished
          arrived,    \* history: the waiting items in submission order
          bypassed    \* history: bypassed[o][p] counts the turns p got since
                      \* o began to wait and was last ineligible

vars == <<queue, running, arrived, bypassed>>

RunningOf(o)  == {i \in running : OwnerOf[i] = o}
Admissible(o) == Cardinality(RunningOf(o)) < PerOwner
Accepted      == {i \in Items : Admissible(OwnerOf[i])}
Waiting(o)    == queue.buckets[o] # <<>>

\* An owner's patience counter runs only while it waits and could be served.
Counted(o) == Waiting(o) /\ Admissible(o)
NoTurns    == [p \in Owners |-> 0]
Recount ==
  bypassed' = [o \in Owners |-> IF Counted(o) /\ Counted(o)' THEN bypassed[o] ELSE NoTurns]

Init ==
  /\ queue = EmptyQueue
  /\ running = {}
  /\ arrived = <<>>
  /\ bypassed = [o \in Owners |-> NoTurns]

Submit(i) ==
  /\ i \notin Queued(queue) \cup running
  /\ queue' = Enqueue(queue, i)
  /\ arrived' = Append(arrived, i)
  /\ UNCHANGED running
  /\ Recount

\* A free slot pulls the next fair item whose owner may run.
Serve ==
  LET next == DequeueWhere(queue, Accepted) IN
  /\ next.item # NoItem
  /\ queue' = next.queue
  /\ running' = running \cup {next.item}
  /\ arrived' = RemoveAt(arrived, IndexOf(arrived, next.item))
  /\ bypassed' = [o \in Owners |->
                   IF o # OwnerOf[next.item] /\ Counted(o)
                   THEN [bypassed[o] EXCEPT ![OwnerOf[next.item]] = @ + 1]
                   ELSE NoTurns]

\* The owner cancels an item that is still waiting.
Withdraw(i) ==
  /\ i \in Queued(queue)
  /\ queue' = RemoveItem(queue, i)
  /\ arrived' = RemoveAt(arrived, IndexOf(arrived, i))
  /\ UNCHANGED running
  /\ Recount

\* Seeded fault: the settled item is not taken off the running ones.
FinishKeepsSlot(i) == i \in running /\ UNCHANGED vars

Finish(i) ==
  /\ i \in running
  /\ running' = running \ {i}
  /\ UNCHANGED <<queue, arrived>>
  /\ Recount

Next ==
  \/ Serve
  \/ \E i \in Items : Submit(i) \/ Withdraw(i) \/ Finish(i)

\* A running item ends, and a free slot is offered to the queue; nobody is
\* obliged to submit or to withdraw.
Fairness ==
  /\ WF_vars(Serve)
  /\ \A i \in Items : WF_vars(Finish(i))

Spec     == Init /\ [][Next]_vars
FairSpec == Spec /\ Fairness

-----------------------------------------------------------------------------
(* Properties                                                              *)

TypeOK ==
  /\ queue \in Queues
  /\ running \subseteq Items
  /\ arrived \in Seq(Items)

\* The map and the rotation never disagree: an owner is in the rotation, once,
\* exactly when it has a bucket, and the bucket is its waiting items in the order
\* of submission.  This is what keeps "Fair queue bucket disappeared"
\* (owner-fair-queue.ts:53, 92) from ever being thrown.  And the owner served last
\* is at the end of the rotation whenever it still waits: enqueue() relies on it,
\* for inserting a newcomer before that owner is then inserting it behind every
\* other one.  With it, every field keeps its type.
RotationMatchesBuckets ==
  /\ TypeOK
  /\ IsInjective(queue.owners) /\ IsInjective(arrived)
  /\ \A o \in Owners :
       /\ o \in ToSet(queue.owners) <=> Waiting(o)
       /\ ToSet(queue.buckets[o]) = {i \in ToSet(arrived) : OwnerOf[i] = o}
       /\ \A i, j \in Items : Before(queue.buckets[o], i, j) => Before(arrived, i, j)
  /\ queue.last \in ToSet(queue.owners) => queue.owners[Len(queue.owners)] = queue.last

\* An owner that waits and may run sees any other owner served at most once
\* before its own turn, however many items the others submit, withdraw and
\* resubmit meanwhile (docs/runtime-contract.md: waiting work is owner-fair).
BoundedBypass ==
  \A o, p \in Owners : o # p => bypassed[o][p] <= 1

\* The snapshot the UI shows (values(), which numbers the queued positions) is
\* the order service follows: taking the next item leaves the snapshot of the
\* rest.
SnapshotIsServiceOrder ==
  Values(queue) # <<>> =>
    /\ Dequeue(queue).item = Head(Values(queue))
    /\ Values(Dequeue(queue).queue) = Tail(Values(queue))

\* Nothing that waits is forgotten: it is served or withdrawn.
WaitingIsServed ==
  \A i \in Items : i \in Queued(queue) ~> i \notin Queued(queue)
=============================================================================

------------------------------ MODULE WorkLane ------------------------------
(***************************************************************************)
(* BoundedWorkLane (packages/inference-core/src/bounded-work-lane.ts), one *)
(* resource lane of the inference scheduler: an OwnerFairQueue in front of *)
(* Concurrency executors.                                                  *)
(*                                                                         *)
(* Each method runs to completion before any other (JavaScript), so each   *)
(* is one action.  The executor of an active item is a promise: it settles *)
(* later, in an action of its own.  Items are one-shot, as jobs are.       *)
(*                                                                         *)
(* The lane's observers, settleQueuedCancellation and onStateChange, are   *)
(* recorded in the history variable `published`: the terminal statuses     *)
(* each item was given.                                                    *)
(***************************************************************************)
EXTENDS OwnerFairQueue

CONSTANTS Concurrency,   \* options.concurrency
          MaxQueued,     \* options.maxQueued
          Closers,       \* the calls of shutdown() the host may make
          Drainers       \* the calls of cancelAllAndWait() it makes elsewhere

\* The constructor throws on anything else (bounded-work-lane.ts:36-41).
ASSUME LaneAssumption == Concurrency \in Nat \ {0} /\ MaxQueued \in Nat \ {0}
ASSUME FiniteItems == IsFiniteSet(Items)
ASSUME CallersAssumption == Closers \cap Drainers = {}

VARIABLES queue,       \* #queued
          active,      \* #active
          accepting,   \* #accepting
          aborted,     \* items whose controller is aborted
          closers,     \* where each call of either stands
          published    \* history: terminal statuses published for each item

vars == <<queue, active, accepting, aborted, closers, published>>

Callers  == Closers \cup Drainers
Statuses == {"refused", "cancelled", "completed", "failed"}

Depth == Cardinality(active) + QueueLength(queue)

Init ==
  /\ queue = EmptyQueue
  /\ active = {}
  /\ accepting = TRUE
  /\ aborted = {}
  /\ closers = [c \in Callers |-> "idle"]
  /\ published = [i \in Items |-> <<>>]

Publish(i, status) == published' = [published EXCEPT ![i] = Append(@, status)]

\* #pump() on queue q with a set of busy executors: while an executor is free,
\* the next fair item starts, unless it is aborted, in which case it is dropped
\* and the loop goes on.  The loop is unrolled once: WorkConserving and
\* SettledOnce state that its condition is then false, so the unrolling is
\* exact.
Pump(q, busy) ==
  LET next == Dequeue(q) IN
  IF Cardinality(busy) < Concurrency /\ next.item # NoItem
  THEN /\ queue'  = next.queue
       /\ active' = IF next.item \in aborted THEN busy ELSE busy \cup {next.item}
  ELSE /\ queue'  = q
       /\ active' = busy

\* #resolveIdleIfNeeded(): every waiter resumes once nothing is queued or active.
ResolveIdle ==
  closers' = IF Cardinality(active') + QueueLength(queue') = 0
             THEN [c \in Callers |-> IF closers[c] = "waiting" THEN "returned" ELSE closers[c]]
             ELSE closers

\* An object the lane has never seen.
New(i) == published[i] = <<>> /\ i \notin active \cup Queued(queue)

Full == QueueLength(queue) >= MaxQueued /\ Cardinality(active) >= Concurrency

\* Seeded fault: a closed lane goes on accepting.
SubmitAlways(i) ==
  /\ New(i) /\ i \notin aborted
  /\ IF ~Full
     THEN Pump(Enqueue(queue, i), active) /\ UNCHANGED published
     ELSE Publish(i, "refused") /\ UNCHANGED <<queue, active>>
  /\ UNCHANGED <<accepting, aborted, closers>>

\* enqueue(); the scheduler hands over no item that is already aborted
\* (scheduler.ts:283).
Submit(i) ==
  /\ New(i) /\ i \notin aborted
  /\ IF accepting /\ ~Full
     THEN Pump(Enqueue(queue, i), active) /\ UNCHANGED published
     ELSE Publish(i, "refused") /\ UNCHANGED <<queue, active>>
  /\ UNCHANGED <<accepting, aborted, closers>>

\* Seeded fault: cancel() settles what is still running.
CancelSettlesActive(i) ==
  /\ i \notin aborted
  /\ aborted' = aborted \cup {i}
  /\ queue' = RemoveItem(queue, i)
  /\ IF i \in Queued(queue) \cup active THEN Publish(i, "cancelled") ELSE UNCHANGED published
  /\ UNCHANGED <<active, accepting, closers>>

\* cancel(): an item that waits is settled here, an active one only learns that
\* it is aborted, anything else is just marked.
Cancel(i) ==
  /\ i \notin aborted
  /\ aborted' = aborted \cup {i}
  /\ IF i \in Queued(queue)
     THEN /\ queue' = RemoveItem(queue, i)
          /\ UNCHANGED active
          /\ Publish(i, "cancelled")
          /\ ResolveIdle
     ELSE UNCHANGED <<queue, active, published, closers>>
  /\ UNCHANGED accepting

\* Seeded fault: the freed executor is not offered to the queue.
SettleWithoutPump(i, threw) ==
  /\ i \in active
  /\ Publish(i, IF ~threw THEN "completed" ELSE IF i \in aborted THEN "cancelled" ELSE "failed")
  /\ active' = active \ {i} /\ UNCHANGED queue
  /\ ResolveIdle
  /\ UNCHANGED <<accepting, aborted>>

\* The executor of i settles (#run): the status says how, the slot is given on,
\* the lane may now be idle.
Settle(i, threw) ==
  /\ i \in active
  /\ Publish(i, IF ~threw THEN "completed" ELSE IF i \in aborted THEN "cancelled" ELSE "failed")
  /\ Pump(queue, active \ {i})
  /\ ResolveIdle
  /\ UNCHANGED <<accepting, aborted>>

\* cancelAllAndWait(): everything waiting is cancelled in turn, the active
\* executors are told to stop, and the call returns once nothing is left.
\* shutdown() closes the lane first.
CancelAll(c) ==
  /\ closers[c] = "idle"
  /\ accepting' = (accepting /\ c \notin Closers)
  /\ aborted' = aborted \cup Queued(queue) \cup active
  /\ published' = [i \in Items |-> IF i \in Queued(queue) THEN Append(published[i], "cancelled")
                                                          ELSE published[i]]
  /\ queue' = [queue EXCEPT !.owners = <<>>, !.buckets = [o \in Owners |-> <<>>]]
  /\ UNCHANGED active
  /\ closers' = [closers EXCEPT ![c] = IF active = {} THEN "returned" ELSE "waiting"]

Next ==
  \/ \E i \in Items : Submit(i) \/ Cancel(i)
  \/ \E i \in Items, threw \in BOOLEAN : Settle(i, threw)
  \/ \E c \in Callers : CancelAll(c)

\* An executor settles sooner or later; nobody has to submit, cancel or close.
Fairness == \A i \in Items : WF_vars(\E threw \in BOOLEAN : Settle(i, threw))

Spec     == Init /\ [][Next]_vars
FairSpec == Spec /\ Fairness

-----------------------------------------------------------------------------
(* Properties                                                              *)

TypeOK ==
  /\ queue \in Queues
  /\ active \subseteq Items
  /\ accepting \in BOOLEAN
  /\ aborted \subseteq Items
  /\ closers \in [Callers -> {"idle", "waiting", "returned"}]
  /\ published \in [Items -> Seq(Statuses)]

\* No executor is free while an item waits: every path that frees a slot or
\* adds an item pumps the lane.  So the lane is bounded although enqueue() tests
\* its two limits together and admits beyond MaxQueued while an executor is free.
WorkConserving ==
  /\ Queued(queue) # {} => Cardinality(active) >= Concurrency
  /\ Cardinality(active) <= Concurrency
  /\ QueueLength(queue) <= MaxQueued

\* An item handed to the lane is at any time in exactly one place, waiting,
\* running or ended, and ends once: a cancel, a settling executor and a
\* shutdown racing for it never settle it twice, and none is lost.  No waiting
\* item is aborted, so #pump never drops one: `continue` on line 94 would lose it
\* without settling it.  With it, every field keeps its type.
SettledOnce ==
  /\ TypeOK
  /\ Queued(queue) \cap active = {}
  /\ Queued(queue) \cap aborted = {}
  /\ \A i \in Items : /\ Len(published[i]) <= 1
                      /\ i \in Queued(queue) \cup active => published[i] = <<>>

\* The lane comes to rest.  What is admitted is settled.  Every shutdown() returns,
\* including one made while another call waits, and though the lane was only
\* drained before and had gone on accepting work; and when one has returned,
\* nothing waits or runs, and nothing ever will again: the host closes its stores
\* right after (create-app.ts, onClose).
LaneComesToRest ==
  /\ \A i \in Items : i \in Queued(queue) \cup active ~> published[i] # <<>>
  /\ \A c \in Closers : closers[c] = "waiting" ~> closers[c] = "returned"
  /\ []((\E c \in Closers : closers[c] = "returned") =>
          ~accepting /\ active = {} /\ Queued(queue) = {})

\* The lane as its users see it.
StageOf(i) ==
  IF i \in Queued(queue) THEN "waiting"
  ELSE IF i \in active THEN "running"
  ELSE IF published[i] = <<>> THEN "new" ELSE Head(published[i])

Contract == INSTANCE LaneContract WITH
  stage <- [i \in Items |-> StageOf(i)],
  open  <- accepting

\* The lane implements the contract.
ImplementsContract == Contract!Spec
=============================================================================

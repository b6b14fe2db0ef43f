------------------------- MODULE InferenceScheduler -------------------------
(***************************************************************************)
(* InferenceScheduler (packages/inference-core/src/scheduler.ts): jobs     *)
(* that pass through the local GPU lane and drive the lifecycle manager,   *)
(* together with the two ways the host brings everything to a stop.        *)
(*                                                                         *)
(* The lane is its contract (LaneContract, which WorkLane implements); the *)
(* lifecycle manager is LifecycleManager, one caller per job.  A job's     *)
(* execute() is a sequence of lifecycle calls: `step` says which one is    *)
(* under way.                                                              *)
(*                                                                         *)
(* Kinds: a chat, an exact recipe test (a chat with unloadAfterCompletion),*)
(* a local media job, a warm-up.  The cloud lane has the same contract and *)
(* touches no lifecycle; evidence, usage and output channels are left out. *)
(***************************************************************************)
EXTENDS LifecycleManager

CONSTANTS KindOf, RecipeOf,
          Concurrency, MaxQueued,
          Quiescer, Closer     \* quiesce() and shutdown() as callers of the manager

\* Every job is a caller of the manager.
Jobs == Slots

ASSUME JobsAssumption ==
  /\ KindOf \in [Jobs -> {"chat", "test", "media", "warm"}]
  /\ \A j \in Jobs : RecipeOf[j] \in IF KindOf[j] = "media" THEN MediaRecipes ELSE TextRecipes

ASSUME StoppersAssumption == Hosts = {Quiescer, Closer} /\ Quiescer # Closer

VARIABLES stage, open,   \* the GPU lane
          step,          \* how far execute() of each job has come
          cancelled,     \* jobs whose controller is aborted
          barrier,       \* the quiesce() under way; #quiescing unless "open"
          closing        \* shutdown()

lane          == <<stage, open>>
lifecycle     == vars
control       == <<barrier, closing>>
schedulerVars == <<lane, lifecycle, step, cancelled, control>>

Lane == INSTANCE LaneContract WITH Items <- Jobs

Quiescing == barrier # "open"
Depth     == Cardinality(Lane!In("waiting") \cup Lane!In("running"))
Fine(p)   == call[p].at = "returned"

\* The host pins Default before it accepts a job (create-app.ts:324).
SchedulerInit ==
  /\ Lane!Init /\ Fresh /\ pinned \in Defaults
  /\ step = [j \in Jobs |-> "none"]
  /\ cancelled = {} /\ barrier = "open" /\ closing = "open"

-----------------------------------------------------------------------------
(* Admission and cancellation                                              *)

\* Seeded fault: the quiesce barrier is not looked at.
SubmitThroughBarrier(j) ==
  /\ Lane!Refuse(j) \/ Lane!StartAtOnce(j) \/ Lane!Wait(j)
  /\ UNCHANGED <<lifecycle, step, cancelled, control>>

\* #submit(): nothing is admitted while the scheduler quiesces; else the lane
\* decides.
Submit(j) ==
  /\ IF Quiescing
     THEN stage[j] = "new" /\ stage' = [stage EXCEPT ![j] = "refused"] /\ UNCHANGED open
     ELSE Lane!Refuse(j) \/ Lane!StartAtOnce(j) \/ Lane!Wait(j)
  /\ UNCHANGED <<lifecycle, step, cancelled, control>>

\* The lane calls execute() in the same turn in which it starts a job: nothing
\* reaches a job between the two.
Launched == \A j \in Jobs : stage[j] = "running" => step[j] # "none"

\* cancel() of a waiting or of a running job.
Cancel(j) ==
  /\ Launched /\ j \notin cancelled /\ cancelled' = cancelled \cup {j}
  /\ \/ Lane!Drop(j) /\ UNCHANGED lifecycle
     \/ stage[j] = "running" /\ AbortAll({j}) /\ UNCHANGED lane
  /\ UNCHANGED <<step, control>>

-----------------------------------------------------------------------------
(* execute(job), one lifecycle call after the other                        *)

\* execute() runs up to its first lifecycle call as soon as the lane starts the
\* job.
Execute(j) ==
  /\ stage[j] = "running" /\ step[j] = "none"
  /\ CASE KindOf[j] \in {"chat", "test"} -> Chat(j, RecipeOf[j])
       [] KindOf[j] = "media"            -> Media(j, RecipeOf[j])
       [] KindOf[j] = "warm"             -> Warm(j, RecipeOf[j])
  /\ step' = [step EXCEPT ![j] = "work"]
  /\ UNCHANGED <<lane, cancelled, control>>

Call(j, next) ==
  /\ step' = [step EXCEPT ![j] = next]
  /\ UNCHANGED <<lane, cancelled, control>>

\* execute() settles and the lane gives the slot on.
Settle(j, ok) ==
  /\ Lane!End(j, IF ok THEN "completed" ELSE IF j \in cancelled THEN "cancelled" ELSE "failed")
  /\ step' = [step EXCEPT ![j] = "done"]
  /\ UNCHANGED <<lifecycle, cancelled, control>>

\* Seeded fault: only a successful media job restores Default.
RestoresIfFine(j) == KindOf[j] = "media" /\ ~Quiescing /\ pinned # NoRecipe /\ Fine(j)
\* A media job, however it ended, restores Default, but not behind quiesce().
Restores(j) == KindOf[j] = "media" /\ ~Quiescing /\ pinned # NoRecipe
\* A successful recipe test unloads its engine, and then restores Default.
Unloads(j)  == KindOf[j] = "test" /\ Fine(j)

AfterWork(j) ==
  /\ step[j] = "work" /\ Idle(j)
  /\ \/ Unloads(j) /\ Stop(j) /\ Call(j, "stop")
     \/ /\ Restores(j) /\ Restore(j)
        /\ Call(j, IF Fine(j) THEN "restore" ELSE "restoreAfterError")
     \/ ~Restores(j) /\ ~Unloads(j) /\ Settle(j, Fine(j))

AfterStop(j) ==
  /\ step[j] = "stop" /\ Idle(j)
  /\ IF Fine(j) /\ ~Quiescing /\ pinned # NoRecipe
     THEN Restore(j) /\ Call(j, "restore")
     ELSE Settle(j, Fine(j))

\* Seeded fault: restorePinned() is not awaited.
AfterRestoreEarly(j) ==
  /\ step[j] \in {"restore", "restoreAfterError"}
  /\ Settle(j, step[j] = "restore")

AfterRestore(j) ==
  /\ step[j] \in {"restore", "restoreAfterError"} /\ Idle(j)
  /\ Settle(j, Fine(j) /\ step[j] = "restore")

-----------------------------------------------------------------------------
(* Stopping everything                                                     *)

\* Seeded fault: what runs is waited for and not aborted.
CancelWaiting(stillOpen) ==
  /\ Launched
  /\ cancelled' = cancelled \cup Lane!In("waiting")
  /\ Lane!DropAll(stillOpen)
  /\ UNCHANGED lifecycle

\* cancelAllAndWait(): cancel what waits, abort what runs.
CancelAll(stillOpen) ==
  /\ Launched
  /\ cancelled' = cancelled \cup Lane!In("waiting") \cup Lane!In("running")
  /\ Lane!DropAll(stillOpen)
  /\ AbortAll(Lane!In("running"))

\* quiesce(): a second caller shares the first one's task.
Quiesce ==
  /\ barrier = "open" /\ barrier' = "draining"
  /\ CancelAll(open)
  /\ UNCHANGED <<step, closing>>

\* The lane is idle: stop the instance by force.
StopDrained(p) ==
  /\ Depth = 0
  /\ Begin(p, "force", NoRecipe, "stop")
  /\ UNCHANGED <<lane, step, cancelled>>

QuiesceStops ==
  barrier = "draining" /\ StopDrained(Quiescer) /\ barrier' = "stopping" /\ UNCHANGED closing
\* Seeded fault: quiesce() does not await the stop.
QuiesceEndsEarly ==
  /\ barrier = "stopping" /\ barrier' = "open"
  /\ UNCHANGED <<lane, lifecycle, step, cancelled, closing>>

QuiesceEnds ==
  /\ barrier = "stopping" /\ Idle(Quiescer) /\ barrier' = "open"
  /\ UNCHANGED <<lane, lifecycle, step, cancelled, closing>>

\* shutdown(): after a quiesce under way, close the lane, drain it, stop.  It does
\* not look for a quiesce that begins later: the two then stop side by side.
Shutdown ==
  /\ closing = "open" /\ barrier = "open" /\ closing' = "draining"
  /\ CancelAll(FALSE)
  /\ UNCHANGED <<step, barrier>>
ShutdownStops ==
  closing = "draining" /\ StopDrained(Closer) /\ closing' = "stopping" /\ UNCHANGED barrier
ShutdownEnds ==
  /\ closing = "stopping" /\ Idle(Closer) /\ closing' = "closed"
  /\ UNCHANGED <<lane, lifecycle, step, cancelled, barrier>>

-----------------------------------------------------------------------------
\* The management API stops the instance gracefully (create-app.ts:679).
AdminStop ==
  /\ Stop(Admin)
  /\ UNCHANGED <<lane, step, cancelled, control>>

LifecycleStep(A) == A /\ UNCHANGED <<lane, step, cancelled, control>>

\* An administrator assigns another Default.
Repin(r) ==
  /\ Pin(r) /\ pinned # r
  /\ UNCHANGED <<lane, step, cancelled, control>>

Advance(j) == Execute(j) \/ AfterWork(j) \/ AfterStop(j) \/ AfterRestore(j)
Proceed(p) == LifecycleStep(Progress(p))
Environment ==
  \/ \E r \in Defaults : Repin(r)
  \/ \E e \in Engines : LifecycleStep(EngineDies(e))
Stopping == QuiesceStops \/ QuiesceEnds \/ ShutdownStops \/ ShutdownEnds

SchedulerNext ==
  \/ \E j \in Jobs : Submit(j) \/ Cancel(j) \/ Advance(j)
  \/ \E p \in Callers : Proceed(p)
  \/ LifecycleStep(EvictionFires)
  \/ Environment
  \/ Quiesce \/ Shutdown \/ Stopping \/ AdminStop

\* A generation that nobody aborted: neither the scheduler nor runMedia()'s poll
\* loop (lifecycle-manager.ts:198-209) bounds it, and push() waits for its consumer.
MayHang(p) == call[p].at = "running" /\ ~call[p].aborted

\* What the program does by itself.  Engines are started, probed and stopped within
\* the adapters' timeouts, an aborted generation ends, and the event loop delivers
\* such an event although others keep arriving (strong fairness: Drained is false
\* again and again; the management API and the eviction callback only take steps
\* under the lock, which nobody else disables).  No other generation has to end,
\* and nobody has to submit, cancel, pin or stop.
SchedulerFairness ==
  /\ \A j \in Jobs : SF_schedulerVars(~MayHang(j) /\ (Proceed(j) \/ Advance(j)))
  /\ SF_schedulerVars(QuiesceStops \/ Proceed(Quiescer) \/ QuiesceEnds)
  /\ SF_schedulerVars(ShutdownStops \/ Proceed(Closer) \/ ShutdownEnds)
  /\ \A p \in {Admin, Evictor} : WF_schedulerVars(Proceed(p))

SchedulerSpec     == SchedulerInit /\ [][SchedulerNext]_schedulerVars
SchedulerFairSpec == SchedulerSpec /\ SchedulerFairness

-----------------------------------------------------------------------------
(* Properties                                                              *)

SchedulerTypeOK ==
  /\ stage \in [Jobs -> Lane!Stages] /\ open \in BOOLEAN
  /\ TypeOK
  /\ step \in [Jobs -> {"none", "work", "stop", "restore", "restoreAfterError", "done"}]
  /\ cancelled \subseteq Jobs
  /\ barrier \in {"open", "draining", "stopping"}
  /\ closing \in {"open", "draining", "stopping", "closed"}

\* bounded-work-lane.ts:81-83: "no queued request may race the model stop and
\* load another runtime afterward".  The scheduler drains its lanes and then stops
\* by force: the stop meets no generation, nor a load it would interrupt, and from
\* then until quiesce() or shutdown() returns nothing loads, prepares or generates,
\* even when the two stop side by side.
BarrierHolds ==
  /\ \A p \in Hosts : At(p, "stop") => state # "BUSY" /\ leases = 0 /\ Lane!In("running") = {}
  /\ barrier = "stopping" \/ closing = "stopping" =>
       /\ state \notin {"PREPARING", "LOADING", "BUSY"}
       /\ \A j \in Jobs : Idle(j)

\* docs/model-residency.md: "Desktop shutdown ends with no Fitz-owned model in
\* VRAM".  quiesce() returns only with the engine gone and nothing admitted, and
\* after shutdown() it stays so for ever: whatever else was under way when it was
\* called, and a quiesce() that began during it or after, cannot bring an engine
\* back.  This is about lanes one job wide, or at most one image job: with the
\* thermal guard and two image jobs in a wider lane the fault of
\* GenerationOwnsInstance leaves an engine behind.
StoppedMeansEmpty ==
  /\ [][QuiesceEnds => state = "UNLOADED" /\ alive = {} /\ Depth = 0]_schedulerVars
  /\ [](closing = "closed" => /\ state = "UNLOADED" /\ alive = {} /\ ~timer
                              /\ Lane!In("waiting") \cup Lane!In("running") = {})

\* A job holds its lane slot as long as it uses the instance: when the lane
\* calls it ended, it holds no lease and no turn at the lock.  With it, every field
\* keeps its type.
EndedMeansReleased ==
  SchedulerTypeOK /\ \A j \in Jobs : stage[j] \in Lane!Ended \cup {"new", "waiting"} =>
    Idle(j) /\ j \notin Range(lockQ) \cup Range(waiters)

\* docs/model-residency.md: media displaces Default and restores it.  Whenever
\* the lane is empty (and no quiesce() is about to stop the instance anyway),
\* what is loaded, or was the last to be tried, is a Default or nothing: the
\* jobs overtake each other on the admission lock, but no order leaves a media
\* model behind.  Only an exact recipe test may (see MCTrial).
DefaultComesBack ==
  Depth = 0 /\ ~Quiescing =>
    recipe \in Defaults \cup {NoRecipe} \cup {RecipeOf[j] : j \in {i \in Jobs : KindOf[i] = "test"}}

\* Every admitted job ends and every call of the lifecycle manager returns, or some
\* generation that nobody aborted runs for ever: no job waits on a lease, on the
\* admission lock or on a place in the lane that nobody will give up.
WorkEnds ==
  \/ /\ \A j \in Jobs : stage[j] \in {"waiting", "running"} ~> stage[j] \in Lane!Ended
     /\ CallReturns
  \/ \E j \in Jobs : <>[]MayHang(j)

\* Every quiesce() and every shutdown() returns, even one that meets a generation
\* that would never have ended: what runs is aborted.
BarrierEnds == (Quiescing ~> ~Quiescing) /\ (closing = "draining" ~> closing = "closed")
=============================================================================

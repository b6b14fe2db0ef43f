# A verification development of the Fitz harness core

The Fitz harness is a desktop application with a local host. The host owns one
GPU and at most one local engine process. It serves chats, agent runs and media
jobs of several owners, and it manages which model is resident. This directory
holds TLA+ modules that model the concurrent core of the host, the TLC
configurations that check them on small instances, and theorems about them with
proofs checked by TLAPS.

Paths below are relative to the repository. `core/` abbreviates
`packages/inference-core/src/`.

## 1. Inventory of the system

The host is one Node.js process. Its concurrency is that of an event loop: a
synchronous stretch of code is atomic, and every `await` is a place where other
work may run. The hard behaviours are interleavings across awaits, promises that
are never settled, values tested before an await and used after it, and the
order in which microtasks, timers and I/O continue.

| Component | State it keeps | Operations | Talks to |
| --- | --- | --- | --- |
| Owner-fair queue (`core/owner-fair-queue.ts`) | a bucket of items per owner, the rotation of owners, the owner served last | `enqueue`, `dequeue`, `dequeueWhere`, `remove`, `values` | used by lanes and by the agent-run coordinator |
| Bounded work lane (`core/bounded-work-lane.ts`) | a fair queue, the set of active items, whether it accepts, idle waiters | `enqueue`, `cancel`, `shutdown`, `cancelAllAndWait`, the pump | executes jobs by a callback of the scheduler |
| Lifecycle manager (`core/lifecycle-manager.ts`, `core/state-machine.ts`) | the instance (state, recipe, engine handle, lease count), the pinned Default, an admission lock, lease waiters, an eviction timer | `run`, `runMedia`, `warm`, `restorePinned`, `stop`, `pin`, eviction | engine adapters (start, probe, stop, generate); called by the scheduler and the management API |
| Inference scheduler (`core/scheduler.ts`) | jobs, one GPU lane and one cloud lane, a quiesce barrier | `enqueueChat`, `enqueueMedia`, `enqueueWarm`, `enqueueRecipeTest`, `cancel`, `quiesce`, `shutdown` | lanes, lifecycle manager, output channels |
| Output channel (`core/async-channel.ts`) | buffered items, waiting writers, waiting readers | `push`, `close`, `fail`, `next` | between a job and the consumer of its stream |
| Agent-run coordinator (`apps/host/src/agent-runs.ts`) | a fair queue of jobs, active jobs, active subagents, a stream per run | `start`, `launchSubagent`, `cancel`, `shutdown`, the pump, the loop that consumes a stream | run store, Pi runtime, scheduler |
| Agent-run and identity stores (`packages/storage/src/sqlite-agent-run-store.ts`, `sqlite-identity-store.ts`) | SQLite rows of runs, events, transcripts, approvals | create, append an event, claim a resumption, recover what a crash interrupted | coordinator, routes |
| Pi agent runtime (`packages/agent-pi/src/pi-agent-runtime.ts`) | the session of a run and the call it is in | stream of text and tool calls, escalation to the user, abort and dispose | coordinator, approval gate, leases |
| Media-job coordinator (`apps/host/src/media-jobs.ts`) | active jobs, each with a consumer | `submit`, `cancel`, `shutdown`, `#consume` | scheduler, output channels, media store, artifacts |
| Media and job stores (`packages/storage/src/sqlite-media-store.ts`, `sqlite-job-store.ts`) | the row of a media job, its events, a line of the index of all jobs | create, update, append, recover | coordinator |
| Workspace mutation leases (`packages/agent-pi/src/workspace-mutation-leases.ts`) | a map of lock objects: held, waiters | acquire, release, abort | tool calls of agent runs |
| Tool approval gate (`apps/host/src/tool-approval-gate.ts`) | a durable approval per call that asks, a poll for its decision | request, decide, abort | agent runs, user interface |
| Host composition, routes, hosting service, instance lock | wiring and start-up/shutdown order | HTTP operations | all of the above |
| Engine adapters, storage, agent safety, security, context, desktop UI | I/O, text analysis, presentation | | |

What makes each correct:

* **Queue.** The map and the rotation agree; an owner that waits and may run is
  overtaken at most once by any other owner; an owner's own work stays in order;
  the snapshot shown is the order served.
* **Lane.** An item is settled exactly once; no free executor while something
  waits; the waiting places are bounded; nothing starts after the lane closed; a
  drain or shutdown returns.
* **Lifecycle manager.** One engine process; the instance under a generation is
  never stopped, replaced or forgotten; the lease count is the number of holders;
  the declared generation limit holds; nobody waits without a waker; what is idle
  is evicted; every call returns.
* **Scheduler.** A forced stop meets no generation; nothing loads behind a
  quiesce; after a shutdown nothing runs; a job that has ended uses nothing; the
  Default comes back; every job and every barrier ends.
* **Channel.** What is accepted is delivered once and in order, within both
  bounds; no read and no push waits beside what it waits for; the end comes after
  the last item; pending pushes settle.
* **Agent runs.** The store and the coordinator agree about which runs live; no free
  place beside a run that may have it; an outcome is the last word, over crashes
  and recoveries; the text of an ended run is in its transcript; a broken run is
  continued at most once and its offer is not lost; nothing lives after a shutdown.
* **Leases and approvals.** One run at a time changes a workspace; whoever waits
  stands behind a holder; neither a lease nor an approval outlives its call.
* **Media jobs.** A job that is not over is followed by a consumer; record, index,
  event log, artifact and charge agree; who stops a job is answered.

`PROJECT.json` lists all components, with the reasons for leaving parts out, and
the hazards of the code with the property that covers each.

## 2. Modules

| Module | Models | Correspondence |
| --- | --- | --- |
| `OwnerFairQueue` | the queue's methods | pure operators on a record `[owners, buckets, last]`, one per method; shared by the two modules below |
| `FairQueue` | one queue over its life | `Submit`, `Serve` (`dequeueWhere` with the coordinator's predicate: fewer than `PerOwner` items of the owner are running), `Withdraw`, `Finish`; `arrived` and `bypassed` are history |
| `WorkLane` | `BoundedWorkLane` | one action per method and one for a settling executor; the pump is part of the actions that call it |
| `LaneContract` | what a lane promises its users | stages of jobs (new, waiting, running, ended), without the queue; `WorkLane` implements it |
| `LifecycleManager` | the manager and its engines | one action per stretch between two awaits |
| `InferenceScheduler` | jobs, quiesce and shutdown; EXTENDS `LifecycleManager`, instantiates `LaneContract` | the two composed: every job is a caller of the manager; its own specification is `SchedulerSpec` |
| `AsyncChannel` | `AsyncChannel`, the stream between a job and its consumer | one action per method that runs to completion: `Push`, `Close`, `Fail`, the abort listener (`Abort`), and `next()` by what it finds (`Take`, `End`, `Await`); `Leave` is a consumer that stops reading; `accepted` and `delivered` are history |
| `WorkspaceLeases` | `WorkspaceMutationLeaseManager` | `AcquireLease`, `AbandonLease` (the abort listener), `ReleaseLease`, `ForgetLeases` (the process ends); lock objects have identities of their own, as the closures keep them |
| `AgentRuns` | coordinator, run store, recovery, approvals; EXTENDS `WorkspaceLeases`, instantiates `OwnerFairQueue` | one action per request, per step of a run's stream and per turn of the coordinator; the transactions of a turn are in `turn` |
| `MediaJobs` | media-job coordinator, consumer, executor, the two tables | one action per call, per step of the executor and per event the consumer reads; statements are in `turn` |
| `MC...` | constants for TLC; `MCTrial` adds a history variable, the tests that displaced a loaded Default | |
| `InferenceScheduler_proofs` | the type invariant, the lease and the engine properties of `LifecycleManager`, the safety properties of `InferenceScheduler`, and those of the thermal guard with one executor at a time, proved | |
| `AsyncChannel_proofs` | order, wake-up and end of `AsyncChannel`, proved | |
| `OnceSequences` | lemmas about sequences without repetition | |
| `OwnerFairQueue_proofs` | lemmas about the queue's methods, in any queue | |
| `FairQueue_proofs` | fairness between owners, order within a bucket and of the snapshot, proved | |
| `MediaJobs_proofs` | what becomes of media jobs and their records, proved | |
| `WorkLane_proofs` | what the lane promises and that it implements `LaneContract`, proved | |
| `AgentRuns_proofs` | the leases, that `AgentRuns` implements `WorkspaceLeases`, and every safety property of agent runs, proved | |

### How the lifecycle manager is cut into steps

A caller is a record of `call`: its operation, the recipe it wants, the engine it
was leased, how its generation ended, and `at`, the await it stands at. The
admission lock is a promise chain, modelled as a FIFO sequence `lockQ` whose head
owns it. A critical section that has no I/O is one action (`Acquire`,
`EnsureReady`, `Release`, `StopUnlocked` up to its stop). Each I/O under the lock
is a position of its own (`prepare`, `stopOld`, `validate`, `start`, `probe`,
`cleanup`, `stopping`, `thermalStop`) and a step that ends it with every outcome
the code handles. Timers, requests and engine events arrive only when the chain
stands still (`Drained`): the code between them runs in microtasks.

The engine processes on the machine (`alive`) are kept apart from the handle the
manager has. `StopOutcomes` says what stopping a living engine may do: report it
stopped, report that it survived, or throw. `spared` is history: the engines
whose stop was reported to have failed.

### How the channel is cut into steps

None of the channel's methods awaits before it has done its work, so each is one
action; what remains of a push or a read that has to wait is its place in
`writers` or `readers`, and `pushed` and `consumer` tell what became of it. The
loop of `#admitWriters` is one definition: the longest prefix of the waiting
pushes that fits. The constructor's arguments are chosen by `Init`. Errors are
told apart as closed, failed, aborted and refused; a `fail()` without a reason,
which no caller makes, is left out.

### How agent runs are cut into steps

A turn of the coordinator is synchronous, and so is SQLite: the code between two
awaits runs several transactions one after the other, and nothing but a crash can
come between them. The action does what the turn does to memory and lists its
transactions in `turn`; `Commit` runs the next one, `Idle` lets other actions wait
for the last, and `Restart` may throw the rest away. A row keeps what decisions
read: status, parent, the run it continues, whether it is offered for
resumption, and of the event log whether the answer is complete (`answered`) and
whether logged text is missing from the transcript (`unsaved`).

The stream of the runtime is cut where it waits: for the model (`work`), in a tool
call that is being judged (`call`), for the user (`ask`), for or under the lease
(`tool`). An abort takes effect as a step of its own (`Aborts`), so that everything
else may come between `cancel()` and it. `host` is the process: it starts, recovers
run by run, serves, closes, is down; `Restart` is a crash in any of these.

Left out: events to subscribers, queue positions and `queue.updated`,
`model.request` events, steering, the completion of plans, the tools a checkpoint
lists and `resumeSafety`, storage failures and throwing listeners, the hook after a
run has completed. Handing over to a media job ends a stream like an answer. A
cancellation that arrives between the terminal event and `settled` is allowed to
mark the job, which the code's check may refuse: a superset.

### How media jobs are cut into steps

`row` is what SQLite has of a job: its status, its line in the index of all jobs,
the last event, whether the artifact is stored, how often it was charged. Unlike a
run's, the statements for one media event are separate: the record, the index,
then one transaction for the event and the index, the charge last. `stage` is
where the executor of the job stands (in the lane, submitting, polling, waiting to
push an event, giving its engine back), `items` and `end` are its channel, and
`consumer` is the coordinator's loop. `cut` is history: jobs with a turn that a
crash cut short; `late`: jobs created after a shutdown began.

Left out: provider job ids and the best-effort cancellation at providers, quotas,
references beyond "may be refused", idempotent client requests, usage accounting
(fail-open). The lane's fairness is `WorkLane`'s, the channel's byte bound
`AsyncChannel`'s. `Throws` is a statement or listener for an event that throws; that
the handling of a failure throws too is excluded. Every job has a price.

### How the scheduler is composed

A job is an executor of the lane and a caller of the lifecycle manager.
`execute()` is cut at its lifecycle calls (`step`). `quiesce()` and `shutdown()` are
callers too, `Quiescer` and `Closer` of `Hosts`: each drains the lane and stops by force, and
their own stages are `barrier` and `closing`. `shutdown()` looks for a quiesce under way once,
when it is called (`scheduler.ts:211`), so one that begins later runs beside it and either
may return first. The lane is used through
`LaneContract`, which `WorkLane` implements (checked on an instance, proved for all of
them), so the composition does not carry the queue. Definitions marked *Seeded fault* in the modules are
variants of the definition below them that no specification uses; they show
that a property notices the fault.

## 3. Runs

| Run | Instance | Shows |
| --- | --- | --- |
| `fair_queue` | three owners, four items, one item of an owner at a time | `RotationMatchesBuckets` (map and rotation agree, an owner's items stay in order, the owner served last is the last in turn), bounded bypass, the snapshot is the order served; nobody waits for ever |
| `work_lane` | four items of two owners, two executors, one waiting place, one drain and one shutdown | `SettledOnce` (and nothing waits after its abort), `WorkConserving` (within the bounds); implements `LaneContract`; `LaneComesToRest`: nothing starts after the lane closed, admitted work settles and shutdown returns |
| `lifecycle` | two executors, two recipes (the text one with two concurrent generations), three engines, all stop outcomes | the manager's safety properties without the thermal guard: `EnginesAreKnown` (no engine lives unknown to the manager but one whose stop was reported to have failed, and the state matches the handle), `EvictionIsTimely` (an eviction finds nobody generating, what is idle and evictable has a timer), and the lease properties |
| `lifecycle_guard` | one executor, thermal guard on | `UnloadIsSafe`: the engine properties of `lifecycle` hold with the guard when generations do not overlap |
| `lifecycle_survivor` | the same with engines that may survive | finding 1 |
| `lifecycle_thermal` | the same with the thermal guard | finding 2 |
| `scheduler` | a media job and a recipe test, two possible Defaults, thermal guard, management API, quiesce and shutdown in any order and side by side | `BarrierHolds` (a forced stop meets no generation, nothing loads behind it), `StoppedMeansEmpty` (no engine is resident and nothing runs when a quiesce returns and after a shutdown, whichever began first; only one of the jobs is an image job, see finding 2), a job that ended uses nothing, the Default comes back |
| `scheduler_live` | a chat and a media job, each of which may generate for ever | `WorkEnds`: every job and call ends, or a generation that nobody aborted runs for ever; `BarrierEnds`: every quiesce and shutdown returns, over such a generation too |
| `scheduler_trial` | a warm-up that loads the Default and a recipe test that displaces it, one executor | finding 3 |
| `channel` | four pushes of sizes 1, 1, 2 and 3, two consumers, one or two places for at most two or three units, with and without the exception for one oversized item | `BufferIsUsed` (within both bounds, and a push waits only behind what is buffered), order, no lost wake-up of a reader or a writer, the end after the last item; pending pushes settle |
| `agent_runs` | three runs of two owners in one workspace, one at a time per owner, two places, two locks, two restarts at any point | store and memory agree, outcomes are final, no text is lost, one continuation, exclusive leases, nothing outlives its call, shutdown is complete |
| `media_jobs` | two jobs for one executor, one place in each channel, one of them with a progress report, a crash at any point and again while recovering | every live job is followed, its records agree, its outcome is final, who stops it is answered |

**Bounds.** Items and jobs are one-shot (an id is used once), and that bounds the
runs of the lane and the scheduler; the queue's items may be submitted again
after they finished. The lifecycle's callers are not bounded: they call again and
again, and only the identities of engines are limited. Three identities are one
more than needed for a held engine and a survivor; `Unused` blocks a start when
none is free, which cuts behaviours with more survivors. The host's GPU lane is
three wide (`create-app.ts:276`). Two executors are enough to overlap loads, joins and
releases in pairs, and to let one hold the lease while another waits or asks for the
lock. What a third adds (two that wait at once, a third kept out by a limit of two) no
run has; the theorems of section 5 cover it, being for any number of executors. Three
owners are needed for one owner to be overtaken by another while a third is skipped. One recipe with a limit of two and one with
a limit of one make both a join and a wait happen. The channel's pushes are
one-shot; four of them fill both bounds with two more waiting, of which one may be
too large for what is left, and two consumers are one more than the program has.

Agent runs are records, used once each. Three are enough for one that runs, one
that waits behind it for the same owner and one of another owner beside them. Whoever waits
in this instance waits for the limit of its owner: with two owners and one run each, the two places
of `MaxConcurrent` are never short. That nobody waits beside a free place when they are is
`NobodyWaitsForNothing`, which is proved for all values of both limits. Three are also enough for a
run, its child and its continuation; and for a holder of the lease with two waiters
behind it. Two restarts let a crash interrupt the recovery from another crash. Two
lock identities are enough because at most one lock of the single workspace is in the map
while an old one may still be referred to. In `media_jobs` a channel of one place
makes the executor wait while the consumer works, and the second job waits for the
executor of the first. A crash of a serving host is bounded by `MaxRestarts`; one
between the two statements of the recovery is always allowed.

**Deadlock** is allowed where ids run out (`work_lane`, `channel`, `agent_runs`,
`media_jobs`, the scheduler runs): when every job has ended, every item is pushed and read and everything is
closed, nothing is left to do. It is
checked in `fair_queue` and the lifecycle runs.

**Symmetry** of executors and engines, of two runs of one owner and of locks is used
in safety runs only.

**Fairness.** A call under way takes its steps, except that a generation need not
end. The adapters bound readiness and stop by timeouts
(`llama-cpp-adapter.ts:143`, `:170`; `comfyui-adapter.ts:229`, `:370`); other I/O
of a load or a stop (reading files, a child command, a request to cancel) is assumed
to come back. Nothing bounds a generation: an engine may never answer, the loop that polls a
media job has no limit (`lifecycle-manager.ts:198-209`), and `push()` waits as long as its
consumer does not read. `MayHang` is a job that stands there and is not
aborted; no fairness applies to it, and once it is aborted its generation ends, since every
wait inside it listens to the signal. The steps of a job get strong fairness because a step that
needs a settled chain (`Drained`) is disabled again and again by other calls,
while the event loop queues its event and delivers it in turn. The same holds for
`quiesce()` and `shutdown()`, which begin their stop at such a moment. The management
API and the eviction callback only take steps under the lock, which nobody else
disables, so weak fairness does. Nothing obliges a user to submit, cancel, pin or
stop, and no eviction has to fire. In the queue, a free slot is offered again and again and running items
finish. The lane's executors settle. A channel's consumer that has not left calls
`next()` again; nobody has to push, close or abort.

In `media_jobs` the process does by itself what it does: it commits, reads,
writes, listens to its signals, and gives its engine back (loads are bounded by
timeouts). Nobody has to submit or cancel, and an engine may never answer, so only
a job that somebody stopped must end. `agent_runs` states no fairness: a run
may wait for the model or the user for ever; that a waiting run of an owner with room
is served in turn is `WaitingIsServed` of its queue.

`scheduler_live` has one chat and one media job, so that a job waits for at most one
generation at a time. It says nothing of a waiter that generations of one recipe,
overlapping without end, keep out: the code does not serve it, see the observations. With `WorkEnds`
as it is stated the one generation that never ends is an excuse for whoever waits
behind it; a job that waits for anything else is not excused.

## 4. Findings

1. **A surviving engine is forgotten** (`lifecycle_survivor`, `SingleEngine`).
   `docs/model-residency.md` promises exactly one model-bearing process.
   `#stopUnlocked` and `#loadRecipe` do not look at the report of
   `adapter.stop()`; the next load starts a second engine. `EnginesAreKnown` states
   what does hold: an engine is lost only after a stop that reported failure.
2. **A thermal unload gives away a lease twice** (`lifecycle_thermal`,
   `GenerationOwnsInstance`). `#unloadAfterThermalFailure` clears the count and
   wakes the waiters; the tripping caller's own `#releaseLease` afterwards
   releases the lease of whoever was woken, and the instance may be evicted under
   a generation, or a second engine started beside it. The lifecycle properties
   are therefore checked on two executors without the guard, and with the guard
   on one executor (`lifecycle_guard`), where the unload is safe: the fault needs
   the second executor. The scheduler has the same fault with two image jobs in a
   lane wider than one, and the host's is three wide (`create-app.ts:276`). The unload of the second
   stops its own engine, which is already gone, and then forgets whatever has been
   loaded since, so that `StoppedMeansEmpty` fails: an engine outlives the shutdown. TLC finds
   it with two image jobs, a recipe test and two executors; no run is kept for
   it, the cause being the one above. In `scheduler` one job is an image job: a lease may
   be given away, but no engine is lost, and `StoppedMeansEmpty` holds with the guard. Both
   are proved for a single image job and for a lane one job wide (section 5).
3. **A failed recipe test keeps its engine** (`scheduler_trial`,
   `TestRestoresDefault`). Only a completed test stops its engine and restores the
   Default (`scheduler.ts:327-330`). In the counterexample a warm-up has loaded the Default, the
   test stops it for its own recipe, generates and fails, and its job ends with its own
   engine loaded. `docs/model-residency.md:57` promises the Default back "before the test
   completes". The property holds on this instance when the stop and the
   restoration follow a test however it ends (`Unloads` without `Fine`).

Observations that no run is kept for:

* `dequeueWhere` rotates skipped owners behind owners it did not inspect, while
  the comment at `owner-fair-queue.ts:44-45` says they are kept in rotation
  order. `BoundedBypass` holds all the same.
* Lease waiters are woken only by the last release (`lifecycle-manager.ts:271`).
  Generations of one batching recipe that overlap for ever keep a caller of
  another recipe out for ever.
* A media job restores the Default after its lease is given up
  (`scheduler.ts:344`), so a waiting text job may load something else first.
* A new push takes room that an earlier, larger waiting push cannot use
  (`async-channel.ts:69` does not look at the writers). With several producers the
  larger one could wait for ever; the program has one producer per channel.
* After the first waiting push is aborted nobody looks whether the next one fits
  (`async-channel.ts:75-79`); it waits for the next read, which comes as long as
  something is buffered (`BufferIsUsed`).
* The branches of `next()` and `#admitWriters` that hand a waiting push straight to
  a reader (`async-channel.ts:116-121`, `:143-149`) are never taken:
  `ReadsWaitForNothing` and `BufferIsUsed` exclude them. The model keeps
  them.
* A media consumer whose own bookkeeping throws leaves its loop without cancelling
  the job (`apps/host/src/media-jobs.ts:443`). The job is recorded as failed
  (`JobsAreFollowed`), but its executor may wait in `push()` for ever, with its place
  in the lane; `PushSettles` excepts channels that every consumer has left.
* A media job that shutdown aborts still restores the Default before the lane is
  idle, and that load takes no abort signal.
* A media job whose artifact is stored and charged becomes *failed* when restoring
  the Default throws behind its result (`scheduler.ts:343-347`);
  `docs/media-generation.md:486` speaks of a charge "appended per completed job".
  `OutcomeIsFinal` of `MediaJobs` allows this one change.
* `MediaJobCoordinator.shutdown()` does not see submissions that await their
  references (`accepting` is checked before the await): the job is created and
  enqueued after the shutdown returned (`late`), against the comment at
  `media-jobs.ts:379-380`. For the same reason simultaneous submissions may exceed
  the owner's quota of concurrent jobs.
* A crash between the statements of `updateMediaJob` leaves the index of jobs behind
  the record; recovery may then mark the index of a completed job interrupted, or,
  when no record was live, leave it at work. A crash after completion and before the charge
  never charges (`RecordsAgree` excepts `cut`).
* For agent runs the index may be revived: between the terminal event of a run and
  its `settled` microtask another run's `#publishQueue` appends
  `queue.updated` with *running*, and the index says so from then on, though it is "an
  index, not a second source of truth" (`docs/jobs.md:14-16`).
* `materializeUncommittedEvents` may append a piece of text again: live flushes span
  other events, recovery splits at them. No text is lost (`EndedTextIsSaved`).
* A crash between marking a run interrupted and its terminal event leaves the run
  without one; the offer to resume it is repaired at the next start (`ContinuedOnce`).
* `#emit` may throw after its append (a listener): `run.completed` is then followed by
  `run.failed`. `cancel()` of a run that has just ended returns true.
* Re-pinning Default away from the idle resident recipe leaves the old model READY
  without an eviction timer until the warm-up of the new one replaces it.

## 5. Proofs

`InferenceScheduler_proofs` is about `Spec` of `LifecycleManager` first, for any number of
executors, recipes and engines, for all limits of generations and whatever a stop
may do. The assumptions are the named `ASSUME`s of that module, which every run on
it evaluates: recipes of text and media are distinct, executors are finitely many
and distinct from the other callers, limits are positive. Its first part:

* `TypeCorrect`: `Spec => []TypeOK`. `TypeOK` is inductive as it stands. It is
  split into the part about the lock, the waiters and the calls (`Queueing`) and
  the part about the instance and the processes (`Instance`). Each operator an
  action is made of (`Update`, `Keep`, `Leave`, `Ask`, `WaitForLease`, `Grant`,
  `StopReports`...) has a lemma that says what it preserves, and the proof of an
  action applies them. What needs an argument: an aborted waiter leaves a sequence
  of callers, a release never counts below zero, an engine whose stop was
  reported to have failed is alive.

Its second part has the hypothesis `~ThermalTrips` (with the guard and two
executors the properties are false, finding 2):

* `GeneratingIsSafe`: `[]GenerationOwnsInstance`, nothing stops, replaces or
  forgets an engine that is generating;
* `LeasesAreCounted`: `[]LeasesCountHolders`;
* `LimitIsKept`: `[]GenerationLimit`;
* `WaitersAreWoken`: `[]WaitersHaveWaker`;
* `EnginesStayKnown`: `[]EnginesAreKnown`;
* `EvictionMeetsIdle`: `[]EvictionFindsIdle`, the first half of `EvictionIsTimely`;
* `EvictionIsPrompt`: `[]EvictionIsTimely`, both halves, with one Default (`OneDefault`).

None of the first four is inductive: that a stop finds nobody generating depends on what
the caller saw when it got the lock, possibly several awaits earlier, and on
nobody else having run under the lock since. The inductive invariant `IInv` adds

* `LockInv`: nobody is in the lock's chain twice, only its head awaits I/O,
  waiters stand outside it, and a forced stop in the chain has no executor before
  it (the scheduler asks for one when its lanes are idle, so an executor that asks
  later is served after it);
* `CallInv`: only executors use engines, and they want a recipe;
* `HeadInv`: while the head of the chain awaits I/O nobody holds a lease, and a
  load in progress has made its recipe the instance's;
* `LeaseInv`: the count is the number of holders, the instance is BUSY exactly while
  it is positive, it is within the recipe's limit, every holder has the engine and
  the recipe the manager knows of, nobody waits when it is zero.

The proof goes bottom up: lemmas about sequences (`ChainTail`, `ChainJoin`,
`Removal`); what each lock operation does to the chain (`KeepLock`, `LeaveLock`,
`AskLock`, `RequeueLock`, `WaitLock`); what is left of the lease invariant by a step
of one of six shapes (`LeaveQuiet`, `KeepQuiet`, `AskQuiet`, `WaitQuiet`,
`GrantInv`, `ReleaseInv`); then one lemma per action or group of actions; `StepInv`
collects them.

The last three rest on `IInv` and on `EngineInv`, which says what a caller that awaits I/O
under the lock has left behind (`Underway`): no timer is armed, an instance that is being
started has no engine yet, one that is being probed or cleaned up is LOADING and has one.
With it a load that fails drops no engine it does not know of. The callback of the
timer asks for the lock only when the chain stands still and a timer is armed, so the
chain is empty and it is served next (`EvictorInv`): that is why it need not look twice.
That an idle instance has its timer armed, the second half of `EvictionIsTimely`, is a
claim about every statement that disarms it. `TimelyInv`: an idle instance that may be
evicted and has no timer is one that the owner of the lock is about to replace, or
the one the eviction itself is about to stop. `CallsInv` says what the callers are up
to: who restores a Default restores the pinned one, which is not evicted. It needs
`OneDefault`: with several Defaults the property is false by design between a re-pin
and the warm-up that follows it (see the observations).

The rest of it is about `SchedulerSpec` of `InferenceScheduler`,
for any jobs of any kinds, recipes, Defaults and engines and any width of the lane
(`JobsAssumption`, the scheduler's own, says what the jobs are, and `StoppersAssumption`
that quiesce and shutdown are two callers, the only ones that stop by force):

* `StopsRaceNothing`: `SchedulerSpec => []BarrierHolds`, whatever the stops report and whether or not
  the thermal guard fires;
* `SlotsOutliveTheirUse`: `[]EndedMeansReleased`, likewise;
* `NoMediaIsLeftBehind`: `[]DefaultComesBack`, with or without the guard, when a stop
  may fail but not throw (`StopsReturn`), and chats and warm-ups are for a Default
  (`OrdinaryJobs`). A stop that throws leaves the media model where it is, and a chat
  for another recipe loads that recipe, as it is meant to;
* `LaneKeepsLeases` and `LaneEvictsPromptly`: the properties of the second part behind
  the scheduler, which aborts several callers at once, for lanes of any width, without the guard;
* `NothingIsLeftLoaded`: `StoppedMeansEmpty`, when engines stop when told to and the
  guard, if it may fire, is behind a lane one job wide or has a single image job to
  fire for (`StopsWork`); the latter is the instance of the run `scheduler`.

The scheduler extends the manager, so the lemmas about the manager's actions carry
over; its invariants do not, because the scheduler's steps are not steps of the
manager's `Next` (a drain aborts several callers at once) and because the guard breaks
parts of `IInv`. The first three theorems rest on what holds in spite of the guard:
`Served` says that the lock's chain is sound, that only jobs are in the
middle of anything but a stop (`Roles`), that what is being loaded is loaded by the
owner of the lock (`HeadStands`), and that no more leases are counted than callers hold
one (`Tally`). `SInv` adds the scheduler's side, `Driving`: a job whose call is under way
is running in the lane, and once the scheduler stops the instance nothing is admitted
any more. The lane's steps are those of `LaneContract`. `NoMediaIsLeftBehind` needs
`RInv` as well: a call is of the kind its job has come to and wants that job's recipe,
or a Default if it restores (`CallsFit`), and if what is loaded is neither a Default nor
a test's, some media job is running that has yet to restore (`Answered`). Another
job that overtakes it at the lock does not change that: whoever restores last replaces
whatever the other has loaded. `NothingIsLeftLoaded` needs `EInv`, the manager's own
invariants carried over to the scheduler's steps (`StepsOfManager`: each is one step
of the manager, none, or an abort of several callers at once), with no engine whose
stop failed: without the guard these are `IInv` and `EngineInv`, with it `EngineInv` and what follows.

The last part is about the thermal guard where its unload is safe, with one executor
at a time or one image job:

* `UnloadsSafely`: `Spec => []UnloadIsSafe`, for one executor (`OneSlot`) against any
  calls of the administrator, the host and the eviction, whatever a stop does;
* `LaneOfOneUnloadsSafely`: `SchedulerSpec => []UnloadIsSafe` and `[]EvictionIsTimely`
  for a lane one job wide (the scheduler's own default, `scheduler.ts:129`), any number of jobs,
  and any cancellation, quiesce or shutdown;
* `OneImageKeepsEngines`: `SchedulerSpec => []EnginesAreKnown` and `[]EvictionIsTimely` for
  a lane of any width and any jobs of which at most one is an image job (`OneImage`).

All have `OneDefault`, as `EvictionIsPrompt`. `IInv` is not kept here: between the
unload and the tripping caller's own release the count and the holders disagree, and a
stop that failed leaves a FAILED instance that somebody still holds. What survives the
guard however many executors there are is `Intact`: `Served`, `EngineInv`, what
`Basics` says of calls, and `UnloadsItsOwn`: what the guard stops is the engine the
manager knows of, already FAILED. A step keeps it if whoever is about to unload holds
the engine of the BUSY instance (`TripsOwn`, `IntactProgress`). For that the inductive
invariant `Guarded` of the first two adds to `Intact`

* `Generates`: who generates or is about to unload does so on the BUSY instance it was
  granted, and while an instance is BUSY its holder is one of these or about to release;
* `ForcedAlone`: a forced stop in the chain meets no holder.

Each step preserves it as long as at most one executor is in a call (`Alone`): whoever
holds a lease is then the only one who may load, join or release. With `OneSlot` that
holds by itself. Behind the lane it is an invariant of the scheduler: `OneByOne`
(at most one job runs in the lane) and `Driving` (a call under way is a running job's) give it.

`OneImageKeepsEngines` argues in time instead. Until the guard unloads, `IInv` itself holds:
the unload is the only step that breaks it (`StepButUnloading`), and `IInv` implies
`TripsOwn`. Once it has unloaded, the image job's call is `Over`, a job makes that
call once, and nobody else can be caught by the guard (`Imaging`, `Past`), so that
`TripsOwn` holds for want of a case. `Once` is `Intact` and one of the two. With a second
image job a trip after the first would find the leases already confused: finding 2.

`AsyncChannel_proofs` is about `Spec` of `AsyncChannel`, for any pushes and sizes,
any bounds and any number of consumers:

* `DeliversInOrder`: `[]AcceptedInOrder`;
* `NoReadIsForgotten`: `[]ReadsWaitForNothing`;
* `EndComesLast`: `[]EndIsTold`;
* `WritersTakeTurns`: `WritersKeepTheirTurn`, an action property;
* `BoundsAreKept`: `[]BufferIsUsed`.

`IInv` is the conjunction of the first four with the types and two facts none of them has: no push
is queued twice and the queue of writers is empty once the channel has ended
(otherwise a later read would accept a push that was refused), and no consumer is
queued twice. Its steps rest on lemmas about sequences without repetition (what a
prefix, a removal and a concatenation keep), on `Settled` and `Moved` (what a step
does to the sets of pushes and consumers in each state), and on `TakeAdmits`: when
something is buffered no reader waits, so a read admits a prefix of the writers to
the buffer. How long the prefix is does not matter to the first four. `BufferIsUsed` depends on it:
its part of the proof says what the sums of sizes are that the code keeps in a counter
(of a concatenation, of a tail, of a part: by induction over the set of lengths for
which it holds), and its invariant adds that whatever waits would fit an empty buffer,
by its size or as the one oversized item, so that a read that empties the buffer lets
the first writer in.

`OnceSequences` holds the lemmas about sequences without repetition that the channel,
the leases and the queue share, and the induction over sets of numbers (`AllNat`,
`SmallestNat`) that stands in for the library's.

`OwnerFairQueue_proofs` is about the queue's methods as operators, in any queue that
satisfies `QueueInv`: an owner has a turn exactly while it has a bucket, and one, and a
bucket holds items of its owner, each once. It says what each method does to the items
that wait (`Enqueued`, `Dequeued`, `ServedWhere`, `Removed`) and to the rotation
(`EnqueuedTurns`, `RemovedTurns`, `Serves`), and what an insertion, a removal and a turn
do to the order of two owners (`BeforeInserted`, `BeforeRemoved`, `BeforeTurned`). Its
last part is about `values()`: an item's place in the snapshot is the number of turns
before its own (`Snapshot`), and a dequeue moves every other turn up by one
(`TurnsMoveUp`, `RanksMoveUp`). The assumptions are that `NoOwner` is no owner and every
item has one.

`FairQueue_proofs`:

* `PassedOnce`: `Spec => []BoundedBypass`, for any items and owners, and any number of
  items an owner may run;
* `BucketsHaveTurns`: `Spec => []RotationMatchesBuckets`. What fails in
  `owner-fair-queue.ts:53` and `:92` when the map and the rotation disagree never fails,
  and a bucket has its owner's items in the order of arrival;
* `ServedAsShown`: `Spec => []SnapshotIsServiceOrder`.

`BoundedBypass` is not inductive: that an owner passed once is not passed again
depends on where the two stand. `FairInv` adds that whoever passed an owner stands
behind it until it is served (`PassedStandsFirst`), and that the owner served last is
the last of the rotation and passed by nobody since (`LastIsLast`). The second makes
the first survive an arrival: `enqueue()` inserts a newcomer before the owner served
last, so the newcomer stands behind everybody else, and that owner was not passed by
it. A serve that skips owners at their limit turns the rotation and moves the skipped
owners behind those that were not inspected; the counters of owners that could not run
start again, so nothing is claimed of them.

`BucketsHaveTurns` adds `Arrivals`: the record of arrivals holds what waits, each item
once, and two items of one bucket stand in it in the order of the bucket. Each method
takes an item out of both or appends it to both. `ServedAsShown` needs `QueueInv` alone. A turn is a
round and a place in the rotation, and turns are ordered by round first. When the first
of `n` owners has been served, the turn in round `r` at place `n` was in round `r + 1`
at place 1, and every other turn was one place further (`MovedUp`); that map keeps the
order (`MovesKeepOrder`) and misses the served turn only, so that a count of earlier
turns drops by exactly one.

`WorkLane_proofs`, for any items and owners, any number of executors, of waiting places
and of calls of the shutdown methods; the assumptions are that items are finitely many,
the two limits positive and the two sets of callers disjoint:

* `SettlesOnce`: `Spec => []SettledOnce`;
* `ConservesWork`: `Spec => []WorkConserving`;
* `LaneImplementsContract`: `Spec => ImplementsContract`.

The inductive invariant `LaneInv` is the first two and `QueueInv`. Each method has a
lemma that says what it does to the lane as sets of items, waiting, running and told
(`SubmitEffect`, `CancelEffect`, `SettleEffect`, `CancelAllEffect`), with its pump
(`Pumps`): while nothing that waits is aborted, the pump starts one item, or there is none,
or no executor is free. One item is enough because a step frees at most one place;
that depends on `WorkConserving` before the step. Both the invariant and the
refinement follow from these lemmas, the latter by reading the contract's stage of an
item off the three sets (`Views`).

`MediaJobs_proofs` is about `Spec` of `MediaJobs`, for any jobs and results, any
places in the lane and the channel, and any number of crashes:

* `EveryJobIsFollowed`: `Spec => []JobsAreFollowed`;
* `RecordsStayTogether`: `Spec => []RecordsAgree`;
* `OutcomesAreFinal`: `Spec => OutcomeIsFinal`, an action property.

Neither invariant is inductive: what a statement leaves behind is right only with the
statements that follow it. `MediaInv` says that a turn is the work of one job and has one
of six forms (`Queueing`, `Refusing`, `Recording`, `Failing`, `Cancelling`,
`Completing`), each with all the rests a turn of its form can have, and where
record, channel and consumer of the job stand in it; before the host serves no turn is
under way (`Booted`), and whoever is in no turn is `Steady`.
It adds what makes the consumer's promises true: a result is the last event of its
channel (`ResultIsLast`), an executor that has pushed it only tidies up, and a channel
that was closed without an abort has had its result. `StepInv` has one lemma per action;
`Commit` has one per form.

`AgentRuns_proofs` starts with the lease manager alone, for any runs, workspaces and
locks, and any number of restarts. `MutualExclusion` is not inductive: a
release deletes the entry of the map by its key, and that is harmless only while
nobody else refers to the object. `LeaseInv` adds what ties map, objects and
closures together: a reference is to the lock the map has for the run's workspace;
a lock in the map belongs to one workspace; it is held exactly while one run holds it;
its line has every waiter of it once and nobody else. `LeaseExclusive` and
`LeaseLine` derive the two properties. Then:

* `LeasesImplemented`: `Spec => LeasesSpec`, every step of agent runs is a step of the
  lease manager or leaves it alone, whatever cuts a call short;
* `LeasesAreExclusive`: `Spec => []ExclusiveLeases`, from the two.

The rest of it is about the coordinator and its store, for any runs, owners and
limits and any number of crashes. Every safety property that a run checks of
`AgentRuns` is a theorem:

* `MemoryMatchesTheStore`: `Spec => []MemoryMatchesStore`;
* `NobodyWaitsForNothing`: `Spec => []WorkConserving`;
* `OutcomesAreFinal`: `Spec => OutcomeIsFinal`, an action property;
* `TextIsSaved`: `Spec => []EndedTextIsSaved`;
* `BrokenRunsAreContinuedOnce`: `Spec => []ContinuedOnce`;
* `CallsTakeBackWhatTheyGot`: `Spec => []NothingOutlivesItsCall`;
* `NothingIsLeftAfterShutdown`: `Spec => ShutdownIsComplete`.

The assumptions are `LimitsAssumption` (the two limits are positive) and
`OwnersAssumption` (every run has an owner, and the values for "no owner" and "no
run" are neither). Only `WorkConserving`'s limits could be shown by themselves. What
the others say of the records is broken by the next `Commit` unless the
transactions of the turn fit the records they will meet, and most of the model's
actions only add transactions. So one inductive invariant, `RunInv`, says what
memory, the records and the pending transactions know of each other:

* `Typed`, which has `QueueInv` of the queue;
* `RowOK`: what holds of a record whatever is pending;
* `TurnOK`: what holds of each pending transaction and its record (`TxOK`) and of an
  earlier and a later transaction on one run (`PairOK`). An ending comes after the
  text is saved, an offer after its mark, nothing contradicts an outcome, and a run
  whose continuation is to be created is offered to nobody;
* `JobOK` and `StatusOK`: a job waits, works or neither, and the status the record
  will have once everything is committed (`Due`) is the one memory expects. While
  the host starts or recovers nothing is expected (`Known`): a crash
  throws pending transactions away and memory with them;
* `OfferOK`: a run that broke is offered or continued, or one of the two is pending;
* `PlacesOK`: the limits are kept, and nobody waits beside a place of his.

`Commit` is one lemma per part (`CommitRows`, `CommitTurn`, `CommitDue`,
`CommitOffers`); the steps of one stream share `Onward`; what a turn appends is
compared with the records it starts from (`WritesFit`, `ClosingFits`). A cancellation,
a settled stream and a shutdown end in the pump, whose loop is a recursive function.
Its invariant `PumpInv` says that the writes are those of the jobs that have begun, that
these have left the queue, and that the limits hold; `PumpRound` shows it of one
round and `PumpedEffect` of the whole loop. The library's induction theorem takes an
operator as a parameter and cannot be used, so the induction is over the set
of the numbers of rounds for which the claim holds (`AllNat`). That the pump leaves
nobody beside a free place follows from the number of rounds: there are as many as
places, and a round that starts nobody changes nothing.

Only model-checked is liveness under fairness, which is out of the prover's reach, as is
`ENABLED`. The runs that expect a violation have counterexamples; there is nothing
to prove of them.

## 6. Order of the work, and what is left

The modules were written in the order queue, lane, lifecycle manager, scheduler,
channel, leases, agent runs, media jobs. Left, most important first:

1. **Start-up**: the instance lock and the order in which the host opens its
   database, recovers and listens.
2. **Delegation and plans**: the budget of subagents and the completion of a plan's
   workers.

## 7. Not modelled

* Evidence, usage accounting, published queue positions and failure reasons:
  reports that no decision reads.
* `prepare()`'s table of warm-ups beyond the time it takes: it changes no instance
  state.
* The cloud lane: a lane without an instance, covered by `WorkLane`.
* Engine adapters, SQL, HTTP and the desktop: I/O, taken as nondeterministic
  outcomes where the core depends on them.
* Agent safety: static analysis of commands, pure functions over text.
* The instance lock, hosting service, secrets and connections: one file or one
  process each, no state shared with the core.
* Delegation budgets and plans of agents: decisions about text the model writes.
* What is left out inside a modelled component is listed with it in section 2.

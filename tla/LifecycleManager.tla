-------------------------- MODULE LifecycleManager --------------------------
(***************************************************************************)
(* LifecycleManager (packages/inference-core/src/lifecycle-manager.ts):    *)
(* the one local engine instance of the host, its admission lock, its      *)
(* generation leases and its idle eviction.                                *)
(*                                                                         *)
(* The callers are the executors of the local GPU lane (Slots), the        *)
(* management API (Admin), whoever stops the host by force (Hosts: its     *)
(* quiesce and its shutdown) and the eviction timer's callback (Evictor).  *)
(* A caller is a record: the operation it performs, the recipe it wants,   *)
(* the engine it was leased, how its generation ended, and `at`, the await *)
(* it stands at.  A call that is over has returned or thrown.              *)
(*                                                                         *)
(* Granularity.  #withAdmissionLock is a FIFO mutex over promises: lockQ   *)
(* is its chain, the head owns it.  What runs between two awaits is one    *)
(* step.  Awaits of I/O (an engine stopping, starting, answering a probe)  *)
(* are steps of their own; a lock that is handed on, or a lease waiter     *)
(* that is woken, continues in a microtask, before any timer, request or   *)
(* engine event is delivered: Drained guards those.                        *)
(*                                                                         *)
(* Abstracted: failureReason, timestamps, ports, context capacity, and     *)
(* what prepare() warms up: only the time it takes is modelled.            *)
(***************************************************************************)
EXTENDS Integers, Sequences, FiniteSets, SequencesExt

CONSTANTS Slots, Hosts, Admin, Evictor,
          TextRecipes, MediaRecipes,
          Evictable,        \* text recipes with an evicting policy (not never/manual)
          Defaults,         \* text recipes the administrator may pin
          MaxGenerations,   \* capabilities.maxConcurrentGenerations
          Engines,          \* identities of engine processes
          StopOutcomes,     \* what adapter.stop() may do with a living process
          ThermalTrips,     \* whether the GPU thermal guard may fire
          NoRecipe, NoEngine

Recipes == TextRecipes \cup MediaRecipes
Callers == Slots \cup Hosts \cup {Admin, Evictor}

ASSUME RecipesAssumption ==
  /\ TextRecipes \cap MediaRecipes = {} /\ NoRecipe \notin Recipes
  /\ Evictable \subseteq TextRecipes /\ Defaults \subseteq TextRecipes
  /\ MaxGenerations \in [Recipes -> Nat \ {0}]
ASSUME CallersAssumption ==
  /\ IsFiniteSet(Slots) /\ IsFiniteSet(Hosts)
  /\ Slots \cap (Hosts \cup {Admin, Evictor}) = {} /\ Hosts \cap {Admin, Evictor} = {}
  /\ Admin # Evictor
ASSUME EnginesAssumption ==
  /\ NoEngine \notin Engines
  /\ StopOutcomes \subseteq {"stopped", "survived", "threw"}
  /\ ThermalTrips \in BOOLEAN

VARIABLES state,     \* #state
          recipe,    \* #recipe (set and cleared together with #adapter)
          handle,    \* #handle: the engine the manager knows of
          leases,    \* #activeLeases
          timer,     \* #evictionTask is armed
          pinned,    \* #pinnedRecipe
          lockQ,     \* callers holding (head) or queued for the admission lock
          waiters,   \* #leaseWaiters, in insertion order
          call,      \* what every caller is doing
          alive,     \* engine processes that exist on the machine
          spared     \* history: engines whose stop was reported to have failed

instance  == <<state, recipe, handle, leases>>
processes == <<alive, spared>>
vars == <<state, recipe, handle, leases, timer, pinned, lockQ, waiters, call, alive, spared>>

States == {"UNLOADED", "PREPARING", "LOADING", "READY", "BUSY", "DRAINING", "EVICTING", "FAILED"}

\* state-machine.ts: the transitions #transition() does not throw on.
Allowed == [UNLOADED  |-> {"PREPARING"},
            PREPARING |-> {"LOADING", "FAILED"},
            LOADING   |-> {"READY", "FAILED"},
            READY     |-> {"BUSY", "DRAINING", "EVICTING", "FAILED"},
            BUSY      |-> {"READY", "FAILED"},
            DRAINING  |-> {"EVICTING", "FAILED"},
            EVICTING  |-> {"UNLOADED", "FAILED"},
            FAILED    |-> {"PREPARING", "UNLOADED", "EVICTING"}]

\* Awaits under the lock that only I/O ends.
IoAwaits == {"prepare", "stopOld", "validate", "start", "probe", "cleanup", "stopping", "thermalStop"}
\* Callers that have asked for the lock and not run their critical section.
LockAwaits == {"acquire", "ready", "stop", "thermal", "release"}
Ops == {"none", "chat", "media", "warm", "restore", "graceful", "force"}

Returned == [op |-> "none", at |-> "returned", want |-> NoRecipe, held |-> NoEngine,
             end |-> "none", aborted |-> FALSE]
Threw    == [Returned EXCEPT !.at = "threw"]

Calls == [op : Ops, at : {"returned", "threw", "wait", "running", "closing"} \cup IoAwaits \cup LockAwaits,
          want : Recipes \cup {NoRecipe}, held : Engines \cup {NoEngine},
          end : {"none", "completed", "rejected", "failed"}, aborted : BOOLEAN]

Fresh ==
  /\ state = "UNLOADED" /\ recipe = NoRecipe /\ handle = NoEngine /\ leases = 0
  /\ timer = FALSE
  /\ lockQ = <<>> /\ waiters = <<>>
  /\ call = [p \in Callers |-> Returned]
  /\ alive = {} /\ spared = {}
Init == Fresh /\ pinned = NoRecipe

Idle(p)    == call[p].at \in {"returned", "threw"}
Owns(p)    == lockQ # <<>> /\ Head(lockQ) = p
At(p, pos) == Owns(p) /\ call[p].at = pos
Drained    == IF lockQ = <<>> THEN TRUE ELSE call[Head(lockQ)].at \in IoAwaits

\* The scheduler waits for its lanes to drain before it stops by force
\* (quiesce and shutdown, scheduler.ts:210-225).
LanesIdle == \A s \in Slots : Idle(s)

At1(p, pos) == [call[p] EXCEPT !.at = pos]

-----------------------------------------------------------------------------
(* The lock and the lease waiters                                          *)

\* #notifyLeaseWaiters(): each woken caller asks for the lock again, in the
\* order they began to wait.
Woken(c) == [c EXCEPT !.at = IF c.op \in {"chat", "media"} THEN "acquire" ELSE "ready"]
Update(p, c, wake) ==
  call' = [q \in Callers |-> IF q = p THEN c
                             ELSE IF wake /\ q \in ToSet(waiters) THEN Woken(call[q]) ELSE call[q]]

\* p runs on under the lock / leaves it, with its record updated to c.
Keep(p, c, wake) ==
  /\ Update(p, c, wake)
  /\ lockQ' = IF wake THEN lockQ \o waiters ELSE lockQ
  /\ waiters' = IF wake THEN <<>> ELSE waiters
Leave(p, c, wake) ==
  /\ Update(p, c, wake)
  /\ lockQ' = IF wake THEN Tail(lockQ) \o waiters ELSE Tail(lockQ)
  /\ waiters' = IF wake THEN <<>> ELSE waiters

\* p asks for the lock.
Ask(p, c) ==
  /\ call' = [call EXCEPT ![p] = c]
  /\ lockQ' = Append(lockQ, p)
  /\ UNCHANGED waiters

\* #waitForLeaseChange(signal), reached under the lock, which is then released.
WaitForLease(p) ==
  IF call[p].aborted
  THEN Leave(p, Threw, FALSE)
  ELSE /\ Update(p, At1(p, "wait"), FALSE)
       /\ lockQ' = Tail(lockQ)
       /\ waiters' = Append(waiters, p)

\* What #scheduleEviction() looks at in a recipe.
Evicts(r) == r \in MediaRecipes \/ (r \in Evictable /\ r # pinned)
\* #scheduleEviction() for the instance in state s with recipe r.
ScheduleEviction(s, r) == timer' = (timer \/ (s = "READY" /\ Evicts(r)))
\* Seeded fault: the timer is not disarmed.
CancelNothing == UNCHANGED timer
\* #cancelEviction().
CancelEviction == timer' = FALSE

\* Seeded fault: the leases are only counted down.
ClearCounting(s) == state' = s /\ recipe' = NoRecipe /\ handle' = NoEngine /\ leases' = leases - 1
\* #clearInstance(), after which the instance has state s.
ClearInstance(s) == state' = s /\ recipe' = NoRecipe /\ handle' = NoEngine /\ leases' = 0

\* adapter.stop(e) returned or threw. A dead process is always `stopped`.
StopReports(e, how) ==
  /\ how \in IF e \in alive THEN StopOutcomes ELSE {"stopped"}
  /\ IF how = "stopped"
     THEN alive' = alive \ {e} /\ spared' = spared \ {e}
     ELSE spared' = spared \cup {e} /\ UNCHANGED alive

-----------------------------------------------------------------------------
(* New calls                                                               *)

Begin(p, op, r, pos) ==
  /\ Drained /\ Idle(p)
  /\ Ask(p, [Returned EXCEPT !.op = op, !.want = r, !.at = pos])
  /\ UNCHANGED <<instance, timer, pinned, processes>>

Chat(p, r)  == Begin(p, "chat", r, "acquire")
Media(p, r) == Begin(p, "media", r, "acquire")
Warm(p, r)  == Begin(p, "warm", r, "ready")
Restore(p)  == pinned # NoRecipe /\ Begin(p, "restore", pinned, "ready")
Stop(p)     == Begin(p, "graceful", NoRecipe, "stop")
ForceStop(p) == LanesIdle /\ Begin(p, "force", NoRecipe, "stop")

\* pin(): desired state only.
Pin(r) ==
  /\ Drained /\ r \in Defaults /\ pinned' = r
  /\ UNCHANGED <<instance, timer, lockQ, waiters, call, processes>>

\* The callers' AbortSignals. restorePinned() and stop() are called without one.
Abortable(p) == call[p].op \in {"chat", "media", "warm"} /\ ~call[p].aborted
Aborted(p)   == IF call[p].at = "wait" THEN Threw ELSE [call[p] EXCEPT !.aborted = TRUE]
\* The callers of S leave the waiters; the others stay in their order.
StopWaiting(S) ==
  waiters' \in {w \in SetToSeqs(ToSet(waiters) \ S) :
                 \A i, j \in DOMAIN w : i < j =>
                   \E m, n \in DOMAIN waiters : m < n /\ waiters[m] = w[i] /\ waiters[n] = w[j]}
AbortAll(S) ==
  LET hit == {p \in S : Abortable(p)} IN
  /\ Drained
  /\ call' = [p \in Callers |-> IF p \in hit THEN Aborted(p) ELSE call[p]]
  /\ StopWaiting(hit)
  /\ UNCHANGED <<instance, timer, pinned, lockQ, processes>>
Abort(p) ==
  /\ Drained /\ Abortable(p)
  /\ call' = [call EXCEPT ![p] = Aborted(p)]
  /\ IF call[p].at = "wait"
     THEN \E k \in DOMAIN waiters : waiters[k] = p /\ waiters' = RemoveAt(waiters, k)
     ELSE UNCHANGED waiters
  /\ UNCHANGED <<instance, timer, pinned, lockQ, processes>>

-----------------------------------------------------------------------------
(* Leases                                                                  *)

\* The end of #acquireLease's critical section on an instance with recipe r
\* and handle h. A chat that got a media engine gives the lease back at once
\* (run()); a media job was checked to have a media engine when it was submitted.
Grant(p, r, h) ==
  LET rejected == call[p].op = "chat" /\ r \in MediaRecipes IN
  /\ leases' = leases + 1 /\ state' = "BUSY" /\ recipe' = r /\ handle' = h
  /\ Update(p, IF rejected
               THEN [call[p] EXCEPT !.held = h, !.at = "release", !.end = "rejected"]
               ELSE [call[p] EXCEPT !.held = h, !.at = "running"], FALSE)
  /\ lockQ' = IF rejected THEN Append(Tail(lockQ), p) ELSE Tail(lockQ)
  /\ UNCHANGED <<waiters, pinned, processes>>

\* #loadRecipe() up to its first I/O: warm-ups of other recipes are cancelled
\* and this recipe's is awaited.
BeginLoad(p) ==
  /\ Keep(p, At1(p, "prepare"), FALSE)
  /\ UNCHANGED <<instance, pinned, processes>>

\* Whether another generation of r may join the BUSY instance.
\* Seeded fault: off by one.
RoomForOneMore(r) == leases <= MaxGenerations[r]
RoomFor(r) == leases < MaxGenerations[r]

\* The critical section of #acquireLease.
Acquire(p) ==
  /\ At(p, "acquire")
  /\ LET r == call[p].want IN
     IF call[p].aborted
     THEN Leave(p, Threw, FALSE) /\ UNCHANGED <<instance, timer, pinned, processes>>
     ELSE /\ CancelEviction
          /\ CASE state \in {"READY", "BUSY"} /\ recipe = r /\ (state = "BUSY" => RoomFor(r)) ->
                    IF handle # NoEngine
                    THEN Grant(p, r, handle)
                    ELSE Leave(p, Threw, FALSE) /\ UNCHANGED <<instance, pinned, processes>>
               [] state = "BUSY" /\ (recipe = r => ~RoomFor(r)) ->
                    WaitForLease(p) /\ UNCHANGED <<instance, pinned, processes>>
               [] OTHER -> BeginLoad(p)

\* The critical section of #ensureReady; warm() then arms the eviction timer.
EnsureReady(p) ==
  /\ At(p, "ready")
  /\ LET r == call[p].want IN
     CASE state \in {"READY", "BUSY"} /\ recipe = r ->
            /\ Leave(p, Returned, FALSE)
            /\ timer' = (call[p].op = "warm" /\ state = "READY" /\ Evicts(r))
            /\ UNCHANGED <<instance, pinned, processes>>
       [] state = "BUSY" /\ recipe # r ->
            WaitForLease(p) /\ CancelEviction /\ UNCHANGED <<instance, pinned, processes>>
       [] OTHER -> BeginLoad(p) /\ CancelEviction

\* Seeded faults: a failed generation keeps its lease; it wakes nobody.
ReleaseUnlessFailed(p) ==
  /\ At(p, "release")
  /\ IF call[p].end = "failed"
     THEN UNCHANGED <<leases, state>> /\ Leave(p, Threw, FALSE)
     ELSE /\ leases' = leases - 1
          /\ state' = IF leases = 1 THEN "READY" ELSE state
          /\ Leave(p, Returned, leases = 1)
  /\ UNCHANGED <<recipe, handle, timer, pinned, processes>>
ReleaseWakesNobody(p) ==
  /\ At(p, "release")
  /\ leases' = leases - 1
  /\ state' = IF leases = 1 THEN "READY" ELSE state
  /\ Leave(p, Returned, FALSE)
  /\ UNCHANGED <<recipe, handle, timer, pinned, processes>>

\* #releaseLease(failed, reason).
Release(p) ==
  /\ At(p, "release")
  /\ LET left == IF leases = 0 THEN 0 ELSE leases - 1
         next == IF left = 0 /\ state = "BUSY"
                 THEN IF call[p].end = "failed" THEN "FAILED" ELSE "READY" ELSE state
     IN /\ leases' = left
        /\ state' = next
        /\ IF left = 0 /\ state = "BUSY" THEN ScheduleEviction(next, recipe) ELSE UNCHANGED timer
        /\ Leave(p, IF call[p].end = "completed" THEN Returned ELSE Threw, left = 0)
  /\ UNCHANGED <<recipe, handle, pinned, processes>>

-----------------------------------------------------------------------------
(* Loading an engine, under the lock                                       *)

\* Seeded fault: the engine of a FAILED instance is not disposed of.
PreparedOverFailed(p) ==
  /\ At(p, "prepare")
  /\ IF handle # NoEngine /\ state # "FAILED"
     THEN /\ state' = "EVICTING"
          /\ UNCHANGED <<recipe, handle, leases>>
          /\ Keep(p, At1(p, "stopOld"), FALSE)
     ELSE /\ state' = "PREPARING" /\ recipe' = call[p].want /\ leases' = 0
          /\ UNCHANGED handle
          /\ Keep(p, At1(p, "validate"), state \notin {"FAILED", "UNLOADED"})
  /\ UNCHANGED <<timer, pinned, processes>>

\* The warm-up has settled: dispose of what is loaded, or go straight on to
\* activate the recipe.
Prepared(p) ==
  /\ At(p, "prepare")
  /\ IF handle # NoEngine
     THEN /\ state' = IF state = "FAILED" THEN "FAILED" ELSE "EVICTING"
          /\ UNCHANGED <<recipe, handle, leases>>
          /\ Keep(p, At1(p, "stopOld"), FALSE)
     ELSE /\ state' = "PREPARING" /\ recipe' = call[p].want /\ leases' = 0
          /\ UNCHANGED handle
          /\ Keep(p, At1(p, "validate"), state \notin {"FAILED", "UNLOADED"})
  /\ UNCHANGED <<timer, pinned, processes>>

\* The old engine's stop returned; the manager forgets it whatever the report
\* says, and activates the recipe. If stop threw, the call fails.
StopOldReturns(p, how) ==
  /\ At(p, "stopOld") /\ StopReports(handle, how)
  /\ IF how = "threw"
     THEN Leave(p, Threw, FALSE) /\ UNCHANGED instance
     ELSE /\ state' = "PREPARING" /\ recipe' = call[p].want /\ handle' = NoEngine /\ leases' = 0
          /\ Keep(p, At1(p, "validate"), state # "FAILED")
  /\ UNCHANGED <<timer, pinned>>

\* Seeded fault: the lock is not released when the load throws.
LoadFailsLocked(p) == state' = "FAILED" /\ Keep(p, Threw, FALSE)

\* The load throws: the instance is FAILED and the caller gets the error.
LoadFails(p) == state' = "FAILED" /\ Leave(p, Threw, FALSE)

\* Validation, resource admission, port and launch spec.
Validated(p, ok) ==
  /\ At(p, "validate")
  /\ IF ok THEN state' = "LOADING" /\ Keep(p, At1(p, "start"), FALSE) ELSE LoadFails(p)
  /\ UNCHANGED <<recipe, handle, leases, timer, pinned, processes>>

Unused == Engines \ (alive \cup {handle} \cup {call[q].held : q \in Callers})

Started(p, ok) ==
  /\ At(p, "start")
  /\ IF ok
     THEN \E e \in Unused : /\ handle' = e /\ alive' = alive \cup {e} /\ UNCHANGED spared
                            /\ Keep(p, At1(p, "probe"), FALSE)
                            /\ UNCHANGED state
     ELSE LoadFails(p) /\ UNCHANGED <<handle, processes>>
  /\ UNCHANGED <<recipe, leases, timer, pinned>>

\* waitUntilReady(): the engine answers, or the load is given up and the engine
\* told to stop. READY is left at once when the caller takes a lease.
Probed(p, ok) ==
  /\ At(p, "probe")
  /\ CASE ok /\ call[p].op \in {"chat", "media"} ->
            Grant(p, recipe, handle) /\ UNCHANGED timer
       [] ok /\ call[p].op \notin {"chat", "media"} ->
            /\ state' = "READY" /\ Leave(p, Returned, FALSE)
            /\ IF call[p].op = "warm" THEN ScheduleEviction("READY", recipe) ELSE UNCHANGED timer
            /\ UNCHANGED <<recipe, handle, leases, pinned, processes>>
       [] OTHER -> Keep(p, At1(p, "cleanup"), FALSE) /\ UNCHANGED <<instance, timer, pinned, processes>>
  /\ ok => handle \in alive

\* The engine of a failed load is dropped, however its stop went.
CleanedUp(p, how) ==
  /\ At(p, "cleanup") /\ StopReports(handle, how)
  /\ handle' = NoEngine /\ LoadFails(p)
  /\ UNCHANGED <<recipe, leases, timer, pinned>>

-----------------------------------------------------------------------------
(* Generations                                                             *)

\* A generation ends: completed; rejected, which stands for a request the
\* engine refused, an abort and a consumer that left; or failed. Its finally
\* block then asks for the lock to release the lease.
EndGeneration(p, how) ==
  /\ Drained /\ call[p].at = "running"
  /\ how = "completed" => call[p].held \in alive
  /\ Ask(p, [call[p] EXCEPT !.at = "release", !.end = how])
  /\ UNCHANGED <<instance, timer, pinned, processes>>

\* The thermal guard of a media job fires: unload before releasing the lease.
ThermalTrip(p) ==
  /\ ThermalTrips /\ Drained /\ call[p].at = "running" /\ call[p].op = "media"
  /\ Ask(p, [call[p] EXCEPT !.at = "thermal", !.end = "failed"])
  /\ UNCHANGED <<instance, timer, pinned, processes>>

\* #unloadAfterThermalFailure: stop the engine of the lease; forget the current
\* instance only if the report says the process is gone.
UnloadAfterThermalFailure(p) ==
  /\ At(p, "thermal")
  /\ state' = IF state = "BUSY" THEN "FAILED" ELSE state
  /\ Keep(p, At1(p, "thermalStop"), FALSE)
  /\ UNCHANGED <<recipe, handle, leases, timer, pinned, processes>>

\* Seeded fault: the instance is forgotten without stopping its engine.
ThermalForgets(p, how) ==
  /\ At(p, "thermalStop") /\ ClearInstance("UNLOADED") /\ Leave(p, At1(p, "closing"), TRUE)
  /\ UNCHANGED <<timer, pinned, processes>>

ThermalStopReturns(p, how) ==
  /\ At(p, "thermalStop") /\ StopReports(call[p].held, how)
  /\ IF how = "stopped"
     THEN IF "UNLOADED" \in Allowed[state]
          THEN ClearInstance("UNLOADED") /\ Leave(p, At1(p, "closing"), TRUE)
          ELSE ClearInstance(state) /\ Leave(p, At1(p, "closing"), FALSE)
     ELSE Leave(p, At1(p, "closing"), FALSE) /\ UNCHANGED instance
  /\ UNCHANGED <<timer, pinned>>

\* thermal.close() returned; the finally block releases the lease.
CloseThermal(p) ==
  /\ Drained /\ call[p].at = "closing"
  /\ Ask(p, At1(p, "release"))
  /\ UNCHANGED <<instance, timer, pinned, processes>>

-----------------------------------------------------------------------------
(* Stopping and evicting                                                   *)

\* Seeded fault: a graceful stop does not spare a BUSY instance.
StopRegardless(p) ==
  /\ At(p, "stop")
  /\ CancelEviction
  /\ IF handle = NoEngine
     THEN ClearInstance("UNLOADED") /\ Leave(p, Returned, TRUE)
     ELSE /\ state' = "EVICTING" /\ UNCHANGED <<recipe, handle, leases>>
          /\ Keep(p, At1(p, "stopping"), FALSE)
  /\ UNCHANGED <<pinned, processes>>

\* #stopUnlocked(): nothing to stop; refused while busy unless forced; else the
\* instance is EVICTING while its engine stops.
StopUnlocked(p) ==
  /\ At(p, "stop")
  /\ CancelEviction
  /\ LET nothing == state = "UNLOADED" \/ (state = "BUSY" /\ call[p].op # "force") IN
     \/ /\ nothing /\ UNCHANGED instance
        /\ Leave(p, IF state = "BUSY" THEN Threw ELSE Returned, FALSE)
     \/ ~nothing /\ handle = NoEngine /\ ClearInstance("UNLOADED") /\ Leave(p, Returned, TRUE)
     \/ /\ ~nothing /\ handle # NoEngine
        /\ state' = "EVICTING" /\ UNCHANGED <<recipe, handle, leases>>
        /\ Keep(p, At1(p, "stopping"), FALSE)
  /\ UNCHANGED <<pinned, processes>>

\* Seeded fault: the handle is dropped when the stop throws.
StopThrowDropsHandle(p, how) ==
  /\ At(p, "stopping") /\ StopReports(handle, how)
  /\ IF how = "threw"
     THEN Leave(p, Threw, FALSE) /\ handle' = NoEngine /\ UNCHANGED <<state, recipe, leases>>
     ELSE ClearInstance("UNLOADED") /\ Leave(p, Returned, TRUE)
  /\ UNCHANGED <<timer, pinned>>

StopReturns(p, how) ==
  /\ At(p, "stopping") /\ StopReports(handle, how)
  /\ IF how = "threw"
     THEN Leave(p, Threw, FALSE) /\ UNCHANGED instance
     ELSE ClearInstance("UNLOADED") /\ Leave(p, Returned, TRUE)
  /\ UNCHANGED <<timer, pinned>>

\* The eviction timer fires; its callback looks at the instance before it asks
\* for the lock, and not again.
EvictionFires ==
  /\ timer /\ Drained /\ Idle(Evictor)
  /\ timer' = FALSE
  /\ IF leases = 0 /\ state = "READY"
     THEN Ask(Evictor, [Returned EXCEPT !.op = "graceful", !.at = "stop"])
     ELSE UNCHANGED <<lockQ, waiters, call>>
  /\ UNCHANGED <<instance, pinned, processes>>

\* An engine process dies by itself; the manager is not told.
EngineDies(e) ==
  /\ Drained /\ e \in alive /\ alive' = alive \ {e} /\ spared' = spared \ {e}
  /\ UNCHANGED <<instance, timer, pinned, lockQ, waiters, call>>

-----------------------------------------------------------------------------
\* The steps a caller takes once its call is under way.
Progress(p) ==
  \/ Acquire(p) \/ EnsureReady(p) \/ Prepared(p) \/ Release(p) \/ StopUnlocked(p)
  \/ ThermalTrip(p) \/ UnloadAfterThermalFailure(p) \/ CloseThermal(p)
  \/ \E ok \in BOOLEAN : Validated(p, ok) \/ Started(p, ok) \/ Probed(p, ok)
  \/ \E how \in StopOutcomes : \/ StopOldReturns(p, how) \/ CleanedUp(p, how)
                               \/ ThermalStopReturns(p, how) \/ StopReturns(p, how)
  \/ \E how \in {"completed", "rejected", "failed"} : EndGeneration(p, how)

Requests(p) ==
  \/ \E r \in TextRecipes : Warm(p, r)
  \/ \E r \in Recipes : Chat(p, r)
  \/ \E r \in MediaRecipes : Media(p, r)
  \/ Restore(p)
  \/ Stop(p)

Next ==
  \/ \E p \in Callers : Progress(p)
  \/ \E p \in Slots : Requests(p) \/ Abort(p)
  \/ Stop(Admin) \/ EvictionFires
  \/ \E p \in Hosts : ForceStop(p)
  \/ \E r \in Defaults : Pin(r)
  \/ \E e \in Engines : EngineDies(e)

Spec == Init /\ [][Next]_vars

-----------------------------------------------------------------------------
(* Properties                                                              *)

Holding(p) == call[p].at \in {"running", "release", "thermal", "thermalStop", "closing"}

TypeOK ==
  /\ state \in States
  /\ recipe \in Recipes \cup {NoRecipe}
  /\ handle \in Engines \cup {NoEngine}
  /\ leases \in Nat
  /\ timer \in BOOLEAN
  /\ pinned \in Defaults \cup {NoRecipe}
  /\ lockQ \in Seq(Callers)
  /\ waiters \in Seq(Callers)
  /\ call \in [Callers -> Calls]
  /\ alive \subseteq Engines /\ spared \subseteq alive

\* docs/model-residency.md: "Exactly one local model-bearing engine process may
\* be active."  At no time do two exist, whatever mix of loads, switches,
\* failures, evictions and stops is under way.
SingleEngine == Cardinality(alive) <= 1

\* The manager loses no engine: every process there is, is the one it knows of or
\* one whose stop was reported to have failed.  With engines that stop when told
\* there is at most one.
NoStrayEngine == alive \subseteq {handle} \cup spared

\* docs/media-generation.md: "leases (active work blocks eviction)".  Every
\* generation in progress runs on the engine the manager holds, which is BUSY
\* for it: nothing stops, replaces or forgets an engine that is generating.
GenerationOwnsInstance ==
  \A p \in Slots : call[p].at = "running" =>
    /\ state = "BUSY"
    /\ handle = call[p].held /\ recipe = call[p].want

\* #activeLeases is the number of callers that have yet to release one.  The
\* code's Math.max(0, n - 1) is then never needed.
LeasesCountHolders == leases = Cardinality({p \in Slots : Holding(p)})

\* docs/model-residency.md: "At most the active recipe's declared generation
\* limit may execute".
GenerationLimit ==
  \A r \in Recipes :
    Cardinality({p \in Slots : call[p].at = "running" /\ call[p].want = r}) <= MaxGenerations[r]

\* A caller waits for a lease only while somebody holds one, so somebody is
\* left to wake it.
WaitersHaveWaker ==
  waiters # <<>> => state = "BUSY" /\ \E p \in Slots : Holding(p)

\* The timer is armed only on an idle instance whose policy evicts it: taking a
\* lease, loading or stopping always disarms it first.  Its callback checks the
\* instance before it asks for the lock and does not check again: whenever its
\* turn comes, the instance is still idle.  (A graceful stop of a BUSY instance
\* would throw in a callback nobody awaits.)
EvictionFindsIdle ==
  /\ timer => state = "READY" /\ recipe \in MediaRecipes \cup Evictable
  /\ At(Evictor, "stop") => state = "READY" /\ leases = 0

\* lifecycle-manager.ts:177-179: "local media engines are evicted immediately
\* after the lease ends so the next chat model can reclaim VRAM".  An instance
\* that is idle and may be evicted has its timer armed, whoever used it last and
\* whatever disarmed the timer in between: none stays resident unnoticed.  This is
\* about one Default: pin() of another one arms no timer for the former, which the
\* warm-up that follows replaces (lifecycle-manager.ts:126).
IdleIsEvicted ==
  state = "READY" /\ lockQ = <<>> /\ Evicts(recipe) => timer

\* No call makes #transition() throw, and what the state says is what is there:
\* an engine is known exactly while one is being probed, serves or is evicted.
StateMatchesEngine ==
  /\ state \in {"READY", "BUSY", "EVICTING"} => handle # NoEngine
  /\ state \in {"UNLOADED", "PREPARING"} => handle = NoEngine
  /\ state = "UNLOADED" <=> recipe = NoRecipe

\* Every engine is known and the state machine tells the truth about it.
EnginesAreKnown == NoStrayEngine /\ StateMatchesEngine

\* Eviction comes to idle instances only, and to all of them.
EvictionIsTimely == EvictionFindsIdle /\ IdleIsEvicted

\* While the thermal guard unloads an image model it has just used, whatever its
\* stop does: no engine is lost, none is taken from a generation, the state keeps
\* to what is there and the next idle instance is still evicted.
UnloadIsSafe ==
  NoStrayEngine /\ GenerationOwnsInstance /\ StateMatchesEngine /\ IdleIsEvicted

\* Every call returns.
CallReturns == \A p \in Callers : ~Idle(p) ~> Idle(p)
=============================================================================

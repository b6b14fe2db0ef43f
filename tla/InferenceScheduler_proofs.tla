---------------------- MODULE InferenceScheduler_proofs ----------------------
(***************************************************************************)
(* First the types of the lifecycle manager.  Then why no engine is        *)
(* stopped, replaced or forgotten while it generates, and none is lost     *)
(* (packages/inference-core/src/lifecycle-manager.ts): the admission lock  *)
(* admits one caller at a time, whoever awaits I/O under it knows that no  *)
(* lease is held and what the load or the stop has left, and the lease     *)
(* count is the number of holders; and why an idle instance is evicted.    *)
(* Then the scheduler over the manager (scheduler.ts): a forced stop meets *)
(* no work, a job that ended uses nothing, media brings Default back.  At  *)
(* the end the thermal guard, which unloads safely with one executor at a  *)
(* time, and a shutdown, which leaves nothing loaded.                      *)
(***************************************************************************)
EXTENDS InferenceScheduler, SequenceTheorems, FiniteSetTheorems, TLAPS

Positions == {"returned", "threw", "wait", "running", "closing"} \cup IoAwaits \cup LockAwaits
Outcomes  == {"none", "completed", "rejected", "failed"}

\* The records of a call that is over.
LEMMA OverRecords == Returned \in Calls /\ Threw \in Calls
<1>1. Returned \in Calls
  BY DEF Calls, Returned, Ops
<1>2. Threw \in Calls
  BY <1>1 DEF Calls, Threw
<1>. QED
  BY <1>1, <1>2

\* The records of a call that begins.
LEMMA NewRecords ==
  /\ \A op \in Ops, r \in Recipes \cup {NoRecipe}, pos \in LockAwaits :
       [Returned EXCEPT !.op = op, !.want = r, !.at = pos] \in Calls
  /\ [Returned EXCEPT !.op = "graceful", !.at = "stop"] \in Calls
  BY DEF Calls, Returned, LockAwaits, Ops

\* The records the actions derive from a call.
LEMMA DerivedRecords ==
  ASSUME NEW c \in Calls
  PROVE  /\ \A pos \in Positions : [c EXCEPT !.at = pos] \in Calls
         /\ \A h \in Engines \cup {NoEngine}, pos \in Positions :
              [c EXCEPT !.held = h, !.at = pos] \in Calls
         /\ \A h \in Engines \cup {NoEngine}, pos \in Positions, how \in Outcomes :
              [c EXCEPT !.held = h, !.at = pos, !.end = how] \in Calls
         /\ \A pos \in Positions, how \in Outcomes : [c EXCEPT !.at = pos, !.end = how] \in Calls
         /\ [c EXCEPT !.aborted = TRUE] \in Calls
         /\ Woken(c) \in Calls
<1>1. \A pos \in Positions : [c EXCEPT !.at = pos] \in Calls
  BY DEF Calls, Positions
<1>2. \A h \in Engines \cup {NoEngine}, pos \in Positions : [c EXCEPT !.held = h, !.at = pos] \in Calls
  BY DEF Calls, Positions
<1>3. \A h \in Engines \cup {NoEngine}, pos \in Positions, how \in Outcomes :
        [c EXCEPT !.held = h, !.at = pos, !.end = how] \in Calls
  BY DEF Calls, Positions, Outcomes
<1>4. \A pos \in Positions, how \in Outcomes : [c EXCEPT !.at = pos, !.end = how] \in Calls
  BY DEF Calls, Positions, Outcomes
<1>5. [c EXCEPT !.aborted = TRUE] \in Calls
  BY DEF Calls
<1>6. Woken(c) \in Calls
  <2>1. "acquire" \in Positions /\ "ready" \in Positions
    BY DEF Positions, LockAwaits
  <2>2. CASE c.op \in {"chat", "media"}
    BY <1>1, <2>1, <2>2 DEF Woken
  <2>3. CASE c.op \notin {"chat", "media"}
    BY <1>1, <2>1, <2>3 DEF Woken
  <2>. QED
    BY <2>2, <2>3
<1>. QED
  BY <1>1, <1>2, <1>3, <1>4, <1>5, <1>6

-----------------------------------------------------------------------------
(* Typing of the lock operations                                           *)

Queueing == call \in [Callers -> Calls] /\ lockQ \in Seq(Callers) /\ waiters \in Seq(Callers)

\* Updating a record, and waking the waiters, keeps the calls typed.
LEMMA UpdateType ==
  ASSUME Queueing, NEW p \in Callers, NEW c \in Calls, NEW wake \in BOOLEAN, Update(p, c, wake)
  PROVE  call' \in [Callers -> Calls]
  BY DerivedRecords DEF Queueing, Update

\* So does running on under the lock,
LEMMA KeepType ==
  ASSUME Queueing, NEW p \in Callers, NEW c \in Calls, NEW wake \in BOOLEAN, Keep(p, c, wake)
  PROVE  Queueing'
  BY UpdateType, ConcatProperties, EmptySeq DEF Queueing, Keep

\* leaving it,
LEMMA LeaveType ==
  ASSUME Queueing, NEW p \in Callers, NEW c \in Calls, NEW wake \in BOOLEAN, Owns(p), Leave(p, c, wake)
  PROVE  Queueing'
<1>1. Tail(lockQ) \in Seq(Callers)
  BY HeadTailProperties DEF Queueing, Owns
<1>. QED
  BY <1>1, UpdateType, ConcatProperties, EmptySeq DEF Queueing, Leave

\* asking for it,
LEMMA AskType ==
  ASSUME Queueing, NEW p \in Callers, NEW c \in Calls, Ask(p, c)
  PROVE  Queueing'
  BY DEF Queueing, Ask

\* and waiting for a lease.
LEMMA WaitType ==
  ASSUME Queueing, NEW p \in Callers, Owns(p), WaitForLease(p)
  PROVE  Queueing'
<1>1. CASE call[p].aborted
  BY <1>1, LeaveType, OverRecords DEF WaitForLease
<1>2. CASE ~call[p].aborted
  <2>1. At1(p, "wait") \in Calls
    BY DerivedRecords DEF Queueing, At1, Positions
  <2>2. call' \in [Callers -> Calls]
    BY <1>2, <2>1, UpdateType DEF WaitForLease
  <2>3. Tail(lockQ) \in Seq(Callers)
    BY HeadTailProperties DEF Queueing, Owns
  <2>4. lockQ' = Tail(lockQ) /\ waiters' = Append(waiters, p)
    BY <1>2 DEF WaitForLease
  <2>5. waiters' \in Seq(Callers)
    BY <2>4, AppendProperties DEF Queueing
  <2>. QED
    BY <2>2, <2>3, <2>4, <2>5 DEF Queueing
<1>. QED
  BY <1>1, <1>2

-----------------------------------------------------------------------------
(* The type invariant                                                      *)

\* What is typed besides the callers.
Instance ==
  /\ state \in States
  /\ recipe \in Recipes \cup {NoRecipe}
  /\ handle \in Engines \cup {NoEngine}
  /\ leases \in Nat
  /\ pinned \in Defaults \cup {NoRecipe}
  /\ alive \subseteq Engines /\ spared \subseteq alive

\* The type invariant in the two parts that steps preserve separately.
LEMMA TypeParts == TypeOK <=> Instance /\ Queueing /\ timer \in BOOLEAN
  BY DEF TypeOK, Instance, Queueing

\* A new manager, with or without a Default.
Begins == Fresh /\ pinned \in Defaults \cup {NoRecipe}

LEMMA InitBegins == Init => Begins
BY DEF Init, Begins

\* Initially everything is typed.
LEMMA InitType == Begins => TypeOK
<1>. SUFFICES ASSUME Begins PROVE TypeOK
  OBVIOUS
<1>1. Queueing
  BY OverRecords DEF Begins, Fresh, Queueing
<1>2. Instance
  BY DEF Begins, Fresh, Instance, States
<1>3. timer \in BOOLEAN
  BY DEF Begins, Fresh
<1>. QED
  BY <1>1, <1>2, <1>3, TypeParts

\* New calls, pins and aborts.
LEMMA BeginType ==
  ASSUME TypeOK, NEW p \in Callers, NEW op \in Ops, NEW r \in Recipes \cup {NoRecipe},
         NEW pos \in LockAwaits, Begin(p, op, r, pos)
  PROVE  TypeOK'
<1>. DEFINE c == [Returned EXCEPT !.op = op, !.want = r, !.at = pos]
<1>1. c \in Calls
  BY NewRecords
<1>2. Ask(p, c)
  BY DEF Begin
<1>. HIDE DEF c
<1>3. Queueing'
  BY <1>1, <1>2, AskType, TypeParts
<1>4. Instance /\ timer \in BOOLEAN
  BY TypeParts
<1>5. Instance' /\ timer' \in BOOLEAN
  BY <1>4 DEF Begin, Instance, instance, processes
<1>. QED
  BY <1>3, <1>5 DEF TypeOK, Instance, Queueing

\* Every request begins a call with a typed record.
LEMMA RequestsType ==
  ASSUME TypeOK, NEW p \in Slots, Requests(p)
  PROVE  TypeOK'
<1>1. p \in Callers
  BY DEF Callers
<1>2. pinned # NoRecipe => pinned \in Recipes
  BY RecipesAssumption DEF TypeOK, Recipes
<1>3. {"acquire", "ready", "stop"} \subseteq LockAwaits /\ {"chat", "media", "warm", "restore", "graceful"} \subseteq Ops
  BY DEF LockAwaits, Ops
<1>4. ASSUME NEW r \in TextRecipes, Warm(p, r) PROVE TypeOK'
  BY <1>1, <1>3, <1>4, BeginType DEF Warm, Recipes
<1>5. ASSUME NEW r \in Recipes, Chat(p, r) PROVE TypeOK'
  BY <1>1, <1>3, <1>5, BeginType DEF Chat
<1>6. ASSUME NEW r \in MediaRecipes, Media(p, r) PROVE TypeOK'
  BY <1>1, <1>3, <1>6, BeginType DEF Media, Recipes
<1>7. CASE Restore(p)
  BY <1>1, <1>2, <1>3, <1>7, BeginType DEF Restore
<1>8. CASE Stop(p)
  BY <1>1, <1>3, <1>8, BeginType DEF Stop
<1>. QED
  BY <1>4, <1>5, <1>6, <1>7, <1>8 DEF Requests

\* Taking one element out of a sequence leaves a sequence over the same set.
LEMMA RemoveAtType ==
  ASSUME NEW S, NEW s \in Seq(S), NEW k \in DOMAIN s
  PROVE  RemoveAt(s, k) \in Seq(S)
<1>1. k \in 1..Len(s) /\ Len(s) \in Nat
  BY LenProperties
<1>. \A i \in 1..Len(s) : s[i] \in S
  BY ElementOfSeq
<1>2. SubSeq(s, 1, k - 1) \in Seq(S)
  BY <1>1, SubSeqProperties
<1>3. SubSeq(s, k + 1, Len(s)) \in Seq(S)
  BY <1>1, SubSeqProperties
<1>. QED
  BY <1>2, <1>3, ConcatProperties DEF RemoveAt

\* Aborting a call: a waiter is taken out of the waiters.
LEMMA AbortType ==
  ASSUME TypeOK, NEW p \in Callers, Abort(p)
  PROVE  TypeOK'
<1>1. Aborted(p) \in Calls
  BY OverRecords, DerivedRecords DEF TypeOK, Aborted
<1>2. call' \in [Callers -> Calls]
  BY <1>1 DEF Abort, TypeOK
<1>3. waiters' \in Seq(Callers)
  BY RemoveAtType DEF Abort, TypeOK
<1>4. Instance /\ timer \in BOOLEAN
  BY TypeParts
<1>5. Instance' /\ timer' \in BOOLEAN
  BY <1>4 DEF Abort, Instance, instance, processes
<1>6. lockQ' \in Seq(Callers)
  BY DEF Abort, TypeOK
<1>. QED
  BY <1>2, <1>3, <1>5, <1>6 DEF TypeOK, Instance

\* The records of a call that goes on to another await.
LEMMA AtRecords ==
  ASSUME TypeOK, NEW p \in Callers
  PROVE  \A pos \in Positions : At1(p, pos) \in Calls
  BY DerivedRecords DEF At1, TypeOK

\* Every position an action writes is one of the positions.
LEMMA Awaits ==
  /\ IoAwaits \subseteq Positions /\ LockAwaits \subseteq Positions
  /\ {"wait", "running", "closing"} \subseteq Positions
  /\ {"prepare", "stopOld", "validate", "start", "probe", "cleanup", "stopping", "thermalStop"} = IoAwaits
  /\ {"acquire", "ready", "stop", "thermal", "release"} = LockAwaits
  BY DEF Positions, IoAwaits, LockAwaits

\* A generation is granted.
LEMMA GrantType ==
  ASSUME TypeOK, NEW p \in Callers, Owns(p), NEW r \in Recipes \cup {NoRecipe},
         NEW h \in Engines \cup {NoEngine}, Grant(p, r, h)
  PROVE  Queueing' /\ Instance'
<1>. DEFINE rejected == call[p].op = "chat" /\ r \in MediaRecipes
            c == IF rejected
                 THEN [call[p] EXCEPT !.held = h, !.at = "release", !.end = "rejected"]
                 ELSE [call[p] EXCEPT !.held = h, !.at = "running"]
<1>1. c \in Calls
  <2>1. call[p] \in Calls /\ {"release", "running"} \subseteq Positions /\ "rejected" \in Outcomes
    BY Awaits DEF TypeOK, Outcomes
  <2>2. [call[p] EXCEPT !.held = h, !.at = "release", !.end = "rejected"] \in Calls
    BY <2>1, DerivedRecords
  <2>3. [call[p] EXCEPT !.held = h, !.at = "running"] \in Calls
    BY <2>1, DerivedRecords
  <2>. QED
    BY <2>2, <2>3
<1>2. Update(p, c, FALSE) /\ lockQ' = IF rejected THEN Append(Tail(lockQ), p) ELSE Tail(lockQ)
  BY DEF Grant
<1>3. leases' = leases + 1 /\ state' = "BUSY" /\ recipe' = r /\ handle' = h /\ UNCHANGED <<waiters, pinned, alive, spared>>
  BY DEF Grant, processes
<1>. HIDE DEF c, rejected
<1>4. call' \in [Callers -> Calls]
  BY <1>1, <1>2, UpdateType, TypeParts DEF Queueing
<1>5. Tail(lockQ) \in Seq(Callers)
  BY HeadTailProperties DEF TypeOK, Owns
<1>6. lockQ' \in Seq(Callers)
  BY <1>2, <1>5, AppendProperties
<1>7. Instance'
  BY <1>3 DEF TypeOK, Instance, States
<1>. QED
  BY <1>3, <1>4, <1>6, <1>7 DEF TypeOK, Queueing

\* Beginning to load.
LEMMA BeginLoadType ==
  ASSUME TypeOK, NEW p \in Callers, BeginLoad(p)
  PROVE  Queueing' /\ Instance'
<1>1. At1(p, "prepare") \in Calls
  BY AtRecords, Awaits
<1>2. Queueing'
  BY <1>1, KeepType, TypeParts DEF BeginLoad
<1>3. Instance'
  BY DEF BeginLoad, TypeOK, Instance, instance, processes
<1>. QED
  BY <1>2, <1>3

\* The critical section of #acquireLease.
LEMMA AcquireType ==
  ASSUME TypeOK, NEW p \in Callers, Acquire(p)
  PROVE  TypeOK'
<1>. Owns(p) /\ Queueing
  BY TypeParts DEF Acquire, At
<1>1. timer' \in BOOLEAN
  BY DEF Acquire, CancelEviction, TypeOK
<1>2. call[p].want \in Recipes \cup {NoRecipe}
  BY DEF TypeOK, Calls
<1>3. \/ Leave(p, Threw, FALSE) /\ UNCHANGED <<instance, pinned, processes>>
      \/ WaitForLease(p) /\ UNCHANGED <<instance, pinned, processes>>
      \/ Grant(p, call[p].want, handle)
      \/ BeginLoad(p)
  BY DEF Acquire
<1>4. ASSUME UNCHANGED <<instance, pinned, processes>> PROVE Instance'
  BY <1>4 DEF TypeOK, Instance, instance, processes
<1>5. CASE Leave(p, Threw, FALSE) /\ UNCHANGED <<instance, pinned, processes>>
  BY <1>1, <1>4, <1>5, OverRecords, LeaveType DEF TypeOK, Instance, Queueing
<1>6. CASE WaitForLease(p) /\ UNCHANGED <<instance, pinned, processes>>
  BY <1>1, <1>4, <1>6, WaitType DEF TypeOK, Instance, Queueing
<1>7. CASE Grant(p, call[p].want, handle)
  <2>1. handle \in Engines \cup {NoEngine}
    BY DEF TypeOK
  <2>2. Queueing' /\ Instance'
    BY <1>2, <1>7, <2>1, GrantType
  <2>. QED
    BY <1>1, <2>2 DEF TypeOK, Instance, Queueing
<1>8. CASE BeginLoad(p)
  BY <1>1, <1>8, BeginLoadType DEF TypeOK, Instance, Queueing
<1>. QED
  BY <1>3, <1>5, <1>6, <1>7, <1>8

\* The critical section of #ensureReady.
LEMMA EnsureReadyType ==
  ASSUME TypeOK, NEW p \in Callers, EnsureReady(p)
  PROVE  TypeOK'
<1>. Owns(p) /\ Queueing
  BY TypeParts DEF EnsureReady, At
<1>1. timer' \in BOOLEAN
  BY DEF EnsureReady, CancelEviction
<1>2. \/ Leave(p, Returned, FALSE) /\ UNCHANGED <<instance, pinned, processes>>
      \/ WaitForLease(p) /\ UNCHANGED <<instance, pinned, processes>>
      \/ BeginLoad(p)
  BY DEF EnsureReady
<1>3. ASSUME UNCHANGED <<instance, pinned, processes>> PROVE Instance'
  BY <1>3 DEF TypeOK, Instance, instance, processes
<1>4. CASE Leave(p, Returned, FALSE) /\ UNCHANGED <<instance, pinned, processes>>
  BY <1>1, <1>3, <1>4, OverRecords, LeaveType DEF TypeOK, Instance, Queueing
<1>5. CASE WaitForLease(p) /\ UNCHANGED <<instance, pinned, processes>>
  BY <1>1, <1>3, <1>5, WaitType DEF TypeOK, Instance, Queueing
<1>6. CASE BeginLoad(p)
  BY <1>1, <1>6, BeginLoadType DEF TypeOK, Instance, Queueing
<1>. QED
  BY <1>2, <1>4, <1>5, <1>6

\* Giving a lease back never counts below zero.
LEMMA ReleaseType ==
  ASSUME TypeOK, NEW p \in Callers, Release(p)
  PROVE  TypeOK'
<1>. DEFINE left == IF leases = 0 THEN 0 ELSE leases - 1
            next == IF left = 0 /\ state = "BUSY"
                    THEN IF call[p].end = "failed" THEN "FAILED" ELSE "READY" ELSE state
            c    == IF call[p].end = "completed" THEN Returned ELSE Threw
<1>1. c \in Calls /\ Owns(p) /\ Queueing
  BY OverRecords, TypeParts DEF Release, At
<1>2. Leave(p, c, left = 0)
  BY DEF Release
<1>3. Queueing'
  BY <1>1, <1>2, LeaveType
<1>4. leases' = left /\ state' = next /\ UNCHANGED <<recipe, handle, pinned, alive, spared>>
  BY DEF Release, processes
<1>5. Instance'
  BY <1>4 DEF TypeOK, Instance, States
<1>6. timer' \in BOOLEAN
  BY DEF Release, ScheduleEviction, TypeOK
<1>. QED
  BY <1>3, <1>5, <1>6 DEF TypeOK, Instance, Queueing

\* What stopping an engine leaves.
LEMMA StopReportsType ==
  ASSUME TypeOK, NEW e, NEW how, StopReports(e, how)
  PROVE  alive' \subseteq Engines /\ spared' \subseteq alive'
  BY DEF TypeOK, StopReports

\* A step under the lock: the caller's next record, and the instance's fields.
LEMMA StepType ==
  ASSUME Queueing', Instance', timer' \in BOOLEAN
  PROVE  TypeOK'
  BY DEF TypeOK, Instance, Queueing

\* A load that throws.
LEMMA LoadFailsType ==
  ASSUME TypeOK, NEW p \in Callers, Owns(p), LoadFails(p)
  PROVE  Queueing' /\ state' \in States
  BY OverRecords, LeaveType, TypeParts DEF LoadFails, States

\* The steps of a load, whatever the adapter answers.
LEMMA LoadingType ==
  ASSUME TypeOK, NEW p \in Callers,
         \/ Prepared(p)
         \/ \E how \in StopOutcomes : StopOldReturns(p, how) \/ CleanedUp(p, how)
         \/ \E ok \in BOOLEAN : Validated(p, ok) \/ Started(p, ok) \/ Probed(p, ok)
  PROVE  TypeOK'
<1>1. Queueing /\ call[p].want \in Recipes \cup {NoRecipe}
  BY TypeParts DEF TypeOK, Calls
<1>2. \A pos \in IoAwaits : At1(p, pos) \in Calls
  BY AtRecords, Awaits
<1>3. CASE Prepared(p)
  <2>1. At1(p, "stopOld") \in Calls /\ At1(p, "validate") \in Calls
    BY <1>2, Awaits
  <2>2. Queueing'
    BY <1>1, <1>3, <2>1, KeepType DEF Prepared
  <2>3. Instance'
    <3>1. /\ UNCHANGED <<handle, pinned, alive, spared>>
          /\ \/ state' \in {"FAILED", "EVICTING"} /\ UNCHANGED <<recipe, leases>>
             \/ state' = "PREPARING" /\ recipe' = call[p].want /\ leases' = 0
      BY <1>3 DEF Prepared, processes
    <3>. QED
      BY <1>1, <3>1 DEF TypeOK, Instance, States
  <2>4. timer' \in BOOLEAN
    BY <1>3 DEF Prepared, TypeOK
  <2>. QED
    BY <2>2, <2>3, <2>4, StepType
<1>4. ASSUME NEW how \in StopOutcomes, StopOldReturns(p, how) PROVE TypeOK'
  <2>1. At1(p, "validate") \in Calls /\ Owns(p) /\ StopReports(handle, how)
    BY <1>2, <1>4, Awaits DEF StopOldReturns, At
  <2>2. Queueing'
    BY <1>1, <1>4, <2>1, KeepType, LeaveType, OverRecords DEF StopOldReturns
  <2>3. Instance'
    <3>1. /\ UNCHANGED pinned
          /\ \/ UNCHANGED <<state, recipe, handle, leases>>
             \/ state' = "PREPARING" /\ recipe' = call[p].want /\ handle' = NoEngine /\ leases' = 0
      BY <1>4 DEF StopOldReturns, instance
    <3>2. alive' \subseteq Engines /\ spared' \subseteq alive'
      BY <2>1, StopReportsType
    <3>. QED
      BY <1>1, <3>1, <3>2 DEF TypeOK, Instance, States
  <2>4. timer' \in BOOLEAN
    BY <1>4 DEF StopOldReturns, TypeOK
  <2>. QED
    BY <2>2, <2>3, <2>4, StepType
<1>5. ASSUME NEW how \in StopOutcomes, CleanedUp(p, how) PROVE TypeOK'
  <2>1. Owns(p) /\ StopReports(handle, how) /\ LoadFails(p)
    BY <1>5 DEF CleanedUp, At
  <2>2. Queueing' /\ state' \in States
    BY <2>1, LoadFailsType
  <2>3. Instance'
    <3>1. handle' = NoEngine /\ UNCHANGED <<recipe, leases, pinned>>
      BY <1>5 DEF CleanedUp
    <3>2. alive' \subseteq Engines /\ spared' \subseteq alive'
      BY <2>1, StopReportsType
    <3>. QED
      BY <2>2, <3>1, <3>2 DEF TypeOK, Instance
  <2>4. timer' \in BOOLEAN
    BY <1>5 DEF CleanedUp, TypeOK
  <2>. QED
    BY <2>2, <2>3, <2>4, StepType
<1>6. ASSUME NEW ok \in BOOLEAN, Validated(p, ok) PROVE TypeOK'
  <2>1. At1(p, "start") \in Calls /\ Owns(p)
    BY <1>2, <1>6, Awaits DEF Validated, At
  <2>2. Queueing' /\ state' \in States
    BY <1>1, <1>6, <2>1, KeepType, LoadFailsType DEF Validated, States
  <2>3. Instance'
    <3>1. UNCHANGED <<recipe, handle, leases, pinned, alive, spared>>
      BY <1>6 DEF Validated, processes
    <3>. QED
      BY <2>2, <3>1 DEF TypeOK, Instance
  <2>4. timer' \in BOOLEAN
    BY <1>6 DEF Validated, TypeOK
  <2>. QED
    BY <2>2, <2>3, <2>4, StepType
<1>7. ASSUME NEW ok \in BOOLEAN, Started(p, ok) PROVE TypeOK'
  <2>1. At1(p, "probe") \in Calls /\ Owns(p)
    BY <1>2, <1>7, Awaits DEF Started, At
  <2>2. Queueing' /\ state' \in States
    BY <1>1, <1>7, <2>1, KeepType, LoadFailsType DEF Started, TypeOK
  <2>3. Instance'
    BY <1>7, <2>2 DEF Started, TypeOK, Instance, processes, Unused
  <2>4. timer' \in BOOLEAN
    BY <1>7 DEF Started, TypeOK
  <2>. QED
    BY <2>2, <2>3, <2>4, StepType
<1>8. ASSUME NEW ok \in BOOLEAN, Probed(p, ok) PROVE TypeOK'
  <2>1. At1(p, "cleanup") \in Calls /\ Owns(p) /\ recipe \in Recipes \cup {NoRecipe} /\ handle \in Engines \cup {NoEngine}
    BY <1>2, <1>8, Awaits DEF Probed, At, TypeOK
  <2>2. \/ Grant(p, recipe, handle) /\ UNCHANGED timer
        \/ /\ state' = "READY" /\ Leave(p, Returned, FALSE)
           /\ IF call[p].op = "warm" THEN ScheduleEviction("READY", recipe) ELSE UNCHANGED timer
           /\ UNCHANGED <<recipe, handle, leases, pinned, processes>>
        \/ Keep(p, At1(p, "cleanup"), FALSE) /\ UNCHANGED <<instance, timer, pinned, processes>>
    BY <1>8 DEF Probed
  <2>3. timer' \in BOOLEAN
    BY <2>2 DEF TypeOK, ScheduleEviction
  <2>4. Queueing'
    BY <1>1, <2>1, <2>2, GrantType, LeaveType, KeepType, OverRecords
  <2>5. Instance'
    BY <2>1, <2>2, GrantType DEF TypeOK, Instance, States, instance, processes
  <2>. QED
    BY <2>3, <2>4, <2>5, StepType
<1>. QED
  BY <1>3, <1>4, <1>5, <1>6, <1>7, <1>8

\* Generations and their ends.
LEMMA GenerationType ==
  ASSUME TypeOK, NEW p \in Callers,
         \/ \E how \in {"completed", "rejected", "failed"} : EndGeneration(p, how)
         \/ ThermalTrip(p) \/ CloseThermal(p) \/ UnloadAfterThermalFailure(p)
         \/ \E how \in StopOutcomes : ThermalStopReturns(p, how)
  PROVE  TypeOK'
<1>1. Queueing /\ Instance /\ timer \in BOOLEAN /\ call[p] \in Calls
  BY TypeParts DEF TypeOK
<1>2. \A pos \in Positions : At1(p, pos) \in Calls
  BY AtRecords
<1>3. ASSUME NEW c \in Calls, Ask(p, c), UNCHANGED <<instance, timer, pinned, processes>>
      PROVE  TypeOK'
  <2>1. Queueing'
    BY <1>1, <1>3, AskType
  <2>2. Instance' /\ timer' \in BOOLEAN
    BY <1>1, <1>3 DEF Instance, instance, processes
  <2>. QED
    BY <2>1, <2>2, StepType
<1>4. ASSUME NEW how \in {"completed", "rejected", "failed"}, EndGeneration(p, how) PROVE TypeOK'
  <2>. DEFINE c == [call[p] EXCEPT !.at = "release", !.end = how]
  <2>1. "release" \in Positions /\ how \in Outcomes
    BY Awaits DEF Outcomes
  <2>2. c \in Calls
    BY <1>1, <2>1, DerivedRecords
  <2>3. Ask(p, c) /\ UNCHANGED <<instance, timer, pinned, processes>>
    BY <1>4 DEF EndGeneration
  <2>. QED
    BY <1>3, <2>2, <2>3
<1>5. CASE ThermalTrip(p)
  <2>. DEFINE c == [call[p] EXCEPT !.at = "thermal", !.end = "failed"]
  <2>1. "thermal" \in Positions /\ "failed" \in Outcomes
    BY Awaits DEF Outcomes
  <2>2. c \in Calls
    BY <1>1, <2>1, DerivedRecords
  <2>3. Ask(p, c) /\ UNCHANGED <<instance, timer, pinned, processes>>
    BY <1>5 DEF ThermalTrip
  <2>. QED
    BY <1>3, <2>2, <2>3
<1>6. CASE CloseThermal(p)
  <2>1. At1(p, "release") \in Calls
    BY <1>2, Awaits
  <2>2. Ask(p, At1(p, "release")) /\ UNCHANGED <<instance, timer, pinned, processes>>
    BY <1>6 DEF CloseThermal
  <2>. QED
    BY <1>3, <2>1, <2>2
<1>7. CASE UnloadAfterThermalFailure(p)
  <2>1. At1(p, "thermalStop") \in Calls
    BY <1>2, Awaits
  <2>2. Queueing'
    BY <1>1, <1>7, <2>1, KeepType DEF UnloadAfterThermalFailure
  <2>3. Instance' /\ timer' \in BOOLEAN
    BY <1>1, <1>7 DEF UnloadAfterThermalFailure, Instance, States, processes
  <2>. QED
    BY <2>2, <2>3, StepType
<1>8. ASSUME NEW how \in StopOutcomes, ThermalStopReturns(p, how) PROVE TypeOK'
  <2>1. At1(p, "closing") \in Calls /\ Owns(p) /\ StopReports(call[p].held, how)
    BY <1>2, <1>8, Awaits DEF ThermalStopReturns, At
  <2>2. /\ UNCHANGED <<timer, pinned>>
        /\ \/ ClearInstance("UNLOADED") /\ Leave(p, At1(p, "closing"), TRUE)
           \/ ClearInstance(state) /\ Leave(p, At1(p, "closing"), FALSE)
           \/ Leave(p, At1(p, "closing"), FALSE) /\ UNCHANGED instance
    BY <1>8 DEF ThermalStopReturns
  <2>3. Queueing'
    BY <1>1, <2>1, <2>2, LeaveType
  <2>4. alive' \subseteq Engines /\ spared' \subseteq alive'
    BY <2>1, StopReportsType
  <2>5. Instance'
    <3>1. \/ state' \in {state, "UNLOADED"} /\ recipe' = NoRecipe /\ handle' = NoEngine /\ leases' = 0
          \/ UNCHANGED <<state, recipe, handle, leases>>
      BY <2>2 DEF ClearInstance, instance
    <3>. QED
      BY <1>1, <2>2, <2>4, <3>1 DEF Instance, States
  <2>6. timer' \in BOOLEAN
    BY <1>1, <2>2
  <2>. QED
    BY <2>3, <2>5, <2>6, StepType
<1>. QED
  BY <1>4, <1>5, <1>6, <1>7, <1>8

\* Stopping and evicting.
LEMMA StoppingType ==
  ASSUME TypeOK, NEW p \in Callers,
         StopUnlocked(p) \/ \E how \in StopOutcomes : StopReturns(p, how)
  PROVE  TypeOK'
<1>1. Queueing /\ Instance /\ timer \in BOOLEAN
  BY TypeParts
<1>2. CASE StopUnlocked(p)
  <2>1. At1(p, "stopping") \in Calls /\ Owns(p)
    BY <1>2, AtRecords, Awaits DEF StopUnlocked, At
  <2>2. /\ timer' = FALSE /\ UNCHANGED <<pinned, processes>>
        /\ \/ UNCHANGED instance /\ (Leave(p, Threw, FALSE) \/ Leave(p, Returned, FALSE))
           \/ ClearInstance("UNLOADED") /\ Leave(p, Returned, TRUE)
           \/ state' = "EVICTING" /\ UNCHANGED <<recipe, handle, leases>> /\ Keep(p, At1(p, "stopping"), FALSE)
    BY <1>2 DEF StopUnlocked, CancelEviction
  <2>3. Queueing'
    BY <1>1, <2>1, <2>2, LeaveType, KeepType, OverRecords
  <2>4. Instance'
    <3>1. \/ state' = "UNLOADED" /\ recipe' = NoRecipe /\ handle' = NoEngine /\ leases' = 0
          \/ state' \in {state, "EVICTING"} /\ UNCHANGED <<recipe, handle, leases>>
      BY <2>2 DEF ClearInstance, instance
    <3>2. UNCHANGED <<pinned, alive, spared>>
      BY <2>2 DEF processes
    <3>. QED
      BY <1>1, <3>1, <3>2 DEF Instance, States
  <2>5. timer' \in BOOLEAN
    BY <2>2
  <2>. QED
    BY <2>3, <2>4, <2>5, StepType
<1>3. ASSUME NEW how \in StopOutcomes, StopReturns(p, how) PROVE TypeOK'
  <2>1. Owns(p) /\ StopReports(handle, how)
    BY <1>3 DEF StopReturns, At
  <2>2. /\ UNCHANGED <<timer, pinned>>
        /\ \/ UNCHANGED instance /\ Leave(p, Threw, FALSE)
           \/ ClearInstance("UNLOADED") /\ Leave(p, Returned, TRUE)
    BY <1>3 DEF StopReturns
  <2>3. Queueing'
    BY <1>1, <2>1, <2>2, LeaveType, OverRecords
  <2>4. alive' \subseteq Engines /\ spared' \subseteq alive'
    BY <2>1, StopReportsType
  <2>5. Instance'
    <3>1. \/ state' \in {state, "UNLOADED"} /\ recipe' = NoRecipe /\ handle' = NoEngine /\ leases' = 0
          \/ UNCHANGED <<state, recipe, handle, leases>>
      BY <2>2 DEF ClearInstance, instance
    <3>. QED
      BY <1>1, <2>2, <2>4, <3>1 DEF Instance, States
  <2>6. timer' \in BOOLEAN
    BY <1>1, <2>2
  <2>. QED
    BY <2>3, <2>5, <2>6, StepType
<1>. QED
  BY <1>2, <1>3

\* The callback of the eviction timer.
LEMMA EvictionType ==
  ASSUME TypeOK, EvictionFires
  PROVE  TypeOK'
<1>. DEFINE c == [Returned EXCEPT !.op = "graceful", !.at = "stop"]
<1>1. Queueing /\ Instance /\ Evictor \in Callers
  BY TypeParts DEF Callers
<1>2. c \in Calls
  BY NewRecords
<1>3. /\ timer' = FALSE /\ UNCHANGED <<instance, pinned, processes>>
      /\ Ask(Evictor, c) \/ UNCHANGED <<lockQ, waiters, call>>
  BY DEF EvictionFires
<1>. HIDE DEF c
<1>4. Queueing'
  <2>1. CASE Ask(Evictor, c)
    BY <1>1, <1>2, <2>1, AskType
  <2>2. CASE UNCHANGED <<lockQ, waiters, call>>
    BY <1>1, <2>2 DEF Queueing
  <2>. QED
    BY <1>3, <2>1, <2>2
<1>5. Instance'
  BY <1>1, <1>3 DEF Instance, instance, processes
<1>6. timer' \in BOOLEAN
  BY <1>3
<1>. QED
  BY <1>4, <1>5, <1>6, StepType

\* Pins, dying engines and stuttering.
LEMMA EnvironmentType ==
  ASSUME TypeOK,
         (\E r \in Defaults : Pin(r)) \/ (\E e \in Engines : EngineDies(e)) \/ UNCHANGED vars
  PROVE  TypeOK'
<1>1. Queueing /\ Instance /\ timer \in BOOLEAN
  BY TypeParts
<1>2. UNCHANGED <<lockQ, waiters, call, timer>>
  BY DEF Pin, EngineDies, vars
<1>3. Queueing' /\ timer' \in BOOLEAN
  BY <1>1, <1>2 DEF Queueing
<1>4. Instance'
  BY <1>1 DEF Instance, Pin, EngineDies, vars, instance, processes
<1>. QED
  BY <1>3, <1>4, StepType

\* Every step of the specification keeps the types.
LEMMA TypeStep == TypeOK /\ [Next]_vars => TypeOK'
<1>. SUFFICES ASSUME TypeOK, [Next]_vars PROVE TypeOK'
  OBVIOUS
<1>1. ASSUME NEW p \in Callers, Progress(p) PROVE TypeOK'
  BY <1>1, AcquireType, EnsureReadyType, ReleaseType, LoadingType, GenerationType, StoppingType DEF Progress
<1>2. ASSUME NEW p \in Slots, Requests(p) \/ Abort(p) PROVE TypeOK'
  BY <1>2, RequestsType, AbortType DEF Callers
<1>3. CASE Stop(Admin) \/ (\E p \in Hosts : ForceStop(p))
  <2>1. Hosts \cup {Admin} \subseteq Callers /\ {"graceful", "force"} \subseteq Ops /\ "stop" \in LockAwaits
    BY DEF Callers, Ops, LockAwaits
  <2>. QED
    BY <1>3, <2>1, BeginType DEF Stop, ForceStop
<1>4. CASE EvictionFires
  BY <1>4, EvictionType
<1>5. CASE (\E r \in Defaults : Pin(r)) \/ (\E e \in Engines : EngineDies(e)) \/ UNCHANGED vars
  BY <1>5, EnvironmentType
<1>. QED
  BY <1>1, <1>2, <1>3, <1>4, <1>5 DEF Next

\* Type correctness of the manager's state and of the calls on it (the fields of
\* LifecycleManager, lifecycle-manager.ts:47-61), for any number of executors,
\* recipes and engines, and whatever stopping an engine does.
THEOREM TypeCorrect == Spec => []TypeOK
<1>1. Init => TypeOK
  BY InitBegins, InitType
<1>. QED
  BY <1>1, TypeStep, PTL DEF Spec

-----------------------------------------------------------------------------
(* Leases, the lock and the engine                                         *)


Holders == {p \in Callers : Holding(p)}

\* A forced stop is asked for when no executor is under way: nobody before it in
\* the chain of the lock is one.
Forced(c) == c.op = "force" /\ c.at = "stop"

\* The chain q of the lock, when the calls are c: its owner runs or awaits I/O,
\* the others have only asked for it; nobody is in it twice.
Chain(q, c) ==
  /\ IsInjective(q)
  /\ \A k \in 1..Len(q) : /\ c[q[k]].at \in LockAwaits \cup IoAwaits
                          /\ k > 1 => c[q[k]].at \in LockAwaits
                          /\ Forced(c[q[k]]) => \A j \in 1..k : q[j] \notin Slots
Handed(q, c) == \A k \in 1..Len(q) : c[q[k]].at \in LockAwaits

\* The callers w that wait for a lease.
Waits(w, c) == IsInjective(w) /\ \A k \in 1..Len(w) : c[w[k]].at = "wait"

\* Whether a forced stop is in the chain.
ForceIn(q, c) == \E k \in 1..Len(q) : Forced(c[q[k]])

LockInv == Chain(lockQ, call) /\ Waits(waiters, call)

\* What a call is about: only executors use engines, and they want a recipe.
\* This is about a machine whose thermal guard has yet to unload an engine.
CallInv ==
  \A p \in Callers :
    /\ call[p].at \notin {"returned", "threw", "stop", "stopping"} =>
         p \in Slots /\ call[p].want \in Recipes
    /\ call[p].at \notin {"thermalStop", "closing"}
    /\ call[p].at = "thermal" => ThermalTrips

\* Who awaits I/O under the lock knows that nobody generates, and who loads has
\* made its recipe the instance's.
HeadInv ==
  lockQ # <<>> =>
    /\ call[lockQ[1]].at \in IoAwaits => Holders = {}
    /\ call[lockQ[1]].at \in {"validate", "start", "probe", "cleanup"} =>
         recipe = call[lockQ[1]].want

\* The lease count is the number of holders, the instance is BUSY exactly while
\* there is one, and every holder has the engine the manager knows of.
LeaseInv ==
  /\ leases = Cardinality(Holders)
  /\ leases > 0 <=> state = "BUSY"
  /\ leases > 0 => leases <= MaxGenerations[recipe]
  /\ waiters # <<>> => leases > 0
  /\ \A p \in Holders : handle = call[p].held /\ recipe = call[p].want
  /\ ForceIn(lockQ, call) => Holders = {}

IInv == TypeOK /\ LockInv /\ CallInv /\ HeadInv /\ LeaseInv

-----------------------------------------------------------------------------
(* The chain of the lock                                                   *)

\* IsInjective in terms of the positions of a sequence.
LEMMA Injective ==
  ASSUME NEW S, NEW s \in Seq(S)
  PROVE  IsInjective(s) <=> \A j, k \in 1..Len(s) : s[j] = s[k] => j = k
<1>1. DOMAIN s = 1..Len(s)
  BY LenProperties
<1>. QED
  BY <1>1 DEF IsInjective

\* The owner leaves: the rest has only asked for the lock.
LEMMA ChainTail ==
  ASSUME NEW q \in Seq(Callers), q # <<>>, NEW c, NEW d, Chain(q, c),
         \A k \in 2..Len(q) : d[q[k]].at = c[q[k]].at /\ d[q[k]].op = c[q[k]].op
  PROVE  /\ Tail(q) \in Seq(Callers)
         /\ Chain(Tail(q), d) /\ Handed(Tail(q), d)
         /\ \A k \in 1..Len(Tail(q)) : Tail(q)[k] # q[1]
         /\ \A k \in 1..Len(Tail(q)) : \E j \in 1..Len(q) : Tail(q)[k] = q[j]
         /\ ForceIn(Tail(q), d) => ForceIn(q, c)
<1>. DEFINE r == Tail(q)
<1>1. /\ r \in Seq(Callers) /\ Len(r) = Len(q) - 1 /\ Len(q) \in Nat /\ Len(r) \in Nat
      /\ \A k \in 1..Len(r) : r[k] = q[k + 1] /\ k + 1 \in 2..Len(q)
  BY HeadTailProperties, LenProperties
<1>. HIDE DEF r
<1>2. \A j, k \in 1..Len(q) : q[j] = q[k] => j = k
  BY Injective DEF Chain
<1>3. IsInjective(r)
  <2>1. \A j, k \in 1..Len(r) : r[j] = r[k] => j = k
    BY <1>1, <1>2
  <2>. QED
    BY <1>1, <2>1, Injective
<1>4. Handed(r, d)
  <2>. SUFFICES ASSUME NEW k \in 1..Len(r) PROVE d[r[k]].at \in LockAwaits
    BY DEF Handed
  <2>1. k + 1 \in 2..Len(q) /\ k + 1 \in 1..Len(q) /\ k + 1 > 1 /\ r[k] = q[k + 1]
    BY <1>1
  <2>2. c[q[k + 1]].at \in LockAwaits
    BY <2>1 DEF Chain
  <2>3. d[q[k + 1]].at = c[q[k + 1]].at
    BY <2>1
  <2>. QED
    BY <2>1, <2>2, <2>3
<1>5. \A k \in 1..Len(r) : Forced(d[r[k]]) => Forced(c[q[k + 1]])
  BY <1>1 DEF Forced
<1>6. \A k \in 1..Len(r) : Forced(d[r[k]]) => \A j \in 1..k : r[j] \notin Slots
  <2>. SUFFICES ASSUME NEW k \in 1..Len(r), Forced(d[r[k]]), NEW j \in 1..k PROVE r[j] \notin Slots
    OBVIOUS
  <2>1. k + 1 \in 1..Len(q) /\ j + 1 \in 1..(k + 1) /\ j \in 1..Len(r)
    BY <1>1
  <2>2. r[j] = q[j + 1]
    BY <1>1, <2>1
  <2>3. Forced(c[q[k + 1]])
    BY <1>5
  <2>4. \A i \in 1..(k + 1) : q[i] \notin Slots
    BY <2>1, <2>3 DEF Chain
  <2>. QED
    BY <2>1, <2>2, <2>4
<1>7. Chain(r, d)
  BY <1>3, <1>4, <1>6 DEF Chain, Handed
<1>8. \A k \in 1..Len(r) : r[k] # q[1] /\ k + 1 \in 1..Len(q) /\ r[k] = q[k + 1]
  BY <1>1, <1>2
<1>9. ForceIn(r, d) => ForceIn(q, c)
  BY <1>5, <1>8 DEF ForceIn
<1>. QED
  BY <1>1, <1>4, <1>7, <1>8, <1>9 DEF r

\* Callers w outside the chain ask for the lock.
LEMMA ChainJoin ==
  ASSUME NEW q \in Seq(Callers), NEW w \in Seq(Callers), NEW d, Chain(q, d), IsInjective(w),
         \A k \in 1..Len(w) : d[w[k]].at \in LockAwaits,
         \A k \in 1..Len(w) : Forced(d[w[k]]) =>
            (\A j \in 1..Len(q) : q[j] \notin Slots) /\ (\A j \in 1..Len(w) : w[j] \notin Slots),
         \A j \in 1..Len(q), k \in 1..Len(w) : q[j] # w[k]
  PROVE  /\ q \o w \in Seq(Callers)
         /\ Chain(q \o w, d)
         /\ Handed(q, d) => Handed(q \o w, d)
         /\ q # <<>> => q \o w # <<>> /\ (q \o w)[1] = q[1]
         /\ ForceIn(q \o w, d) => ForceIn(q, d) \/ ForceIn(w, d)
<1>. DEFINE r == q \o w
<1>1. /\ r \in Seq(Callers) /\ Len(r) = Len(q) + Len(w)
      /\ Len(q) \in Nat /\ Len(w) \in Nat /\ Len(r) \in Nat
      /\ \A k \in 1..Len(r) : r[k] = IF k <= Len(q) THEN q[k] ELSE w[k - Len(q)]
  BY ConcatProperties, LenProperties
<1>. HIDE DEF r
<1>2. \A k \in 1..Len(r) : \/ k \in 1..Len(q) /\ r[k] = q[k]
                           \/ k > Len(q) /\ k - Len(q) \in 1..Len(w) /\ r[k] = w[k - Len(q)]
  BY <1>1
<1>3. /\ \A j, k \in 1..Len(q) : q[j] = q[k] => j = k
      /\ \A j, k \in 1..Len(w) : w[j] = w[k] => j = k
  BY Injective DEF Chain
<1>4. IsInjective(r)
  <2>1. \A j, k \in 1..Len(r) : r[j] = r[k] => j = k
    <3>. SUFFICES ASSUME NEW j \in 1..Len(r), NEW k \in 1..Len(r), r[j] = r[k] PROVE j = k
      OBVIOUS
    <3>1. CASE j \in 1..Len(q) /\ k \in 1..Len(q)
      <4>1. r[j] = q[j] /\ r[k] = q[k]
        BY <1>1, <3>1
      <4>. QED
        BY <1>3, <3>1, <4>1
    <3>2. CASE j > Len(q) /\ k > Len(q)
      <4>1. /\ j - Len(q) \in 1..Len(w) /\ r[j] = w[j - Len(q)]
            /\ k - Len(q) \in 1..Len(w) /\ r[k] = w[k - Len(q)]
        BY <1>1, <3>2
      <4>2. j - Len(q) = k - Len(q)
        BY <1>3, <4>1
      <4>. QED
        BY <1>1, <4>2
    <3>3. \A a, b \in 1..Len(r) : a \in 1..Len(q) /\ b > Len(q) => r[a] # r[b]
      <4>. SUFFICES ASSUME NEW a \in 1..Len(q), NEW b \in 1..Len(r), b > Len(q) PROVE r[a] # r[b]
        OBVIOUS
      <4>1. r[a] = q[a] /\ b - Len(q) \in 1..Len(w) /\ r[b] = w[b - Len(q)]
        BY <1>1
      <4>. QED
        BY <4>1
    <3>. QED
      BY <1>1, <3>1, <3>2, <3>3
  <2>. QED
    BY <1>1, <2>1, Injective
<1>5. \A k \in 1..Len(r) : /\ d[r[k]].at \in LockAwaits \cup IoAwaits
                           /\ k > 1 => d[r[k]].at \in LockAwaits
  BY <1>1, <1>2 DEF Chain
<1>6. \A k \in 1..Len(r) : Forced(d[r[k]]) => \A j \in 1..k : r[j] \notin Slots
  <2>. SUFFICES ASSUME NEW k \in 1..Len(r), Forced(d[r[k]]), NEW j \in 1..k PROVE r[j] \notin Slots
    OBVIOUS
  <2>1. j \in 1..Len(r)
    BY <1>1
  <2>2. CASE k \in 1..Len(q) /\ r[k] = q[k]
    <3>1. r[j] = q[j]
      BY <1>1, <2>1, <2>2
    <3>. QED
      BY <2>2, <3>1 DEF Chain
  <2>3. CASE k > Len(q) /\ k - Len(q) \in 1..Len(w) /\ r[k] = w[k - Len(q)]
    BY <1>2, <2>1, <2>3
  <2>. QED
    BY <1>2, <2>2, <2>3
<1>7. Chain(r, d)
  BY <1>4, <1>5, <1>6 DEF Chain
<1>8. Handed(q, d) => Handed(r, d)
  BY <1>2 DEF Handed
<1>9. q # <<>> => r # <<>> /\ r[1] = q[1]
  BY <1>1, EmptySeq
<1>10. ForceIn(r, d) => ForceIn(q, d) \/ ForceIn(w, d)
  BY <1>2 DEF ForceIn
<1>. QED
  BY <1>1, <1>7, <1>8, <1>9, <1>10 DEF r

-----------------------------------------------------------------------------
(* What an action does to the chain and to the other callers               *)

\* What waking a caller leaves alone.
LEMMA WokenParts ==
  ASSUME NEW c \in Calls
  PROVE  /\ Woken(c).at \in {"acquire", "ready"}
         /\ Woken(c).op = c.op /\ Woken(c).want = c.want /\ Woken(c).held = c.held
<1>1. CASE c.op \in {"chat", "media"}
  BY <1>1 DEF Calls, Woken
<1>2. CASE c.op \notin {"chat", "media"}
  BY <1>2 DEF Calls, Woken
<1>. QED
  BY <1>1, <1>2

\* The calls other than p's go on as they were, or are woken.
Carried(p) ==
  \A q \in Callers \ {p} :
    /\ call'[q].op = call[q].op /\ call'[q].want = call[q].want /\ call'[q].held = call[q].held
    /\ \/ call'[q].at = call[q].at
       \/ call[q].at = "wait" /\ call'[q].at \in {"acquire", "ready"}

\* The chain and the waiters; nobody is in both.
LEMMA LockFacts ==
  ASSUME TypeOK, LockInv
  PROVE  /\ lockQ \in Seq(Callers) /\ waiters \in Seq(Callers)
         /\ Len(lockQ) \in Nat /\ Len(waiters) \in Nat
         /\ \A k \in 1..Len(lockQ) : lockQ[k] \in Callers
         /\ \A k \in 1..Len(waiters) : waiters[k] \in Callers
         /\ \A q : q \in ToSet(waiters) <=> \E k \in 1..Len(waiters) : waiters[k] = q
         /\ \A k \in 1..Len(lockQ) : call[lockQ[k]].at # "wait"
         /\ \A k \in 1..Len(waiters) : call[waiters[k]].at = "wait"
         /\ \A j \in 1..Len(lockQ), k \in 1..Len(waiters) : lockQ[j] # waiters[k]
<1>1. lockQ \in Seq(Callers) /\ waiters \in Seq(Callers)
  BY DEF TypeOK
<1>2. /\ Len(lockQ) \in Nat /\ Len(waiters) \in Nat
      /\ \A k \in 1..Len(lockQ) : lockQ[k] \in Callers
      /\ \A k \in 1..Len(waiters) : waiters[k] \in Callers
  BY <1>1, LenProperties, ElementOfSeq
<1>3. \A q : q \in ToSet(waiters) <=> \E k \in 1..Len(waiters) : waiters[k] = q
  <2>1. DOMAIN waiters = 1..Len(waiters)
    BY <1>1, LenProperties
  <2>. QED
    BY <2>1 DEF ToSet
<1>4. \A k \in 1..Len(lockQ) : call[lockQ[k]].at # "wait"
  BY DEF LockInv, Chain, LockAwaits, IoAwaits
<1>5. \A k \in 1..Len(waiters) : call[waiters[k]].at = "wait"
  BY DEF LockInv, Waits
<1>. QED
  BY <1>1, <1>2, <1>3, <1>4, <1>5

\* The head of the chain.
LEMMA HeadFacts ==
  ASSUME TypeOK, LockInv, NEW p, Owns(p)
  PROVE  /\ lockQ # <<>> /\ 1 \in 1..Len(lockQ) /\ lockQ[1] = p /\ p \in Callers
         /\ \A k \in 2..Len(lockQ) : k \in 1..Len(lockQ) /\ lockQ[k] # p
         /\ call[p].at # "wait" /\ p \notin ToSet(waiters)
<1>1. lockQ # <<>> /\ lockQ[1] = p /\ Len(lockQ) \in Nat /\ Len(lockQ) > 0
  BY EmptySeq, LenProperties DEF TypeOK, Owns
<1>2. \A j, k \in 1..Len(lockQ) : lockQ[j] = lockQ[k] => j = k
  BY LockFacts, Injective DEF LockInv, Chain
<1>3. \A k \in 2..Len(lockQ) : k \in 1..Len(lockQ) /\ lockQ[k] # p
  BY <1>1, <1>2
<1>. QED
  BY <1>1, <1>3, LockFacts

\* Updating the record of p: the woken callers were waiting, the others are untouched.
LEMMA UpdateEffect ==
  ASSUME TypeOK, LockInv, NEW p \in Callers, NEW c, NEW wake \in BOOLEAN, Update(p, c, wake)
  PROVE  /\ call'[p] = c
         /\ Carried(p)
         /\ \A q \in Callers \ {p} : ~(wake /\ q \in ToSet(waiters)) => call'[q] = call[q]
         /\ \A q \in Callers \ {p} : wake /\ q \in ToSet(waiters) => call'[q].at \in {"acquire", "ready"}
<1>1. call'[p] = c
  BY DEF Update
<1>2. ASSUME NEW q \in Callers \ {p}, ~(wake /\ q \in ToSet(waiters)) PROVE call'[q] = call[q]
  BY <1>2 DEF Update
<1>3. ASSUME NEW q \in Callers \ {p}, wake /\ q \in ToSet(waiters)
      PROVE  call'[q] = Woken(call[q]) /\ call[q].at = "wait"
  <2>1. call'[q] = Woken(call[q])
    BY <1>3 DEF Update
  <2>. QED
    BY <1>3, <2>1, LockFacts
<1>4. \A q \in Callers : call[q] \in Calls
  BY DEF TypeOK
<1>. QED
  BY <1>1, <1>2, <1>3, <1>4, WokenParts DEF Carried

\* The waiters that are woken with `wake` queue up behind a chain q.
LEMMA WokenJoin ==
  ASSUME TypeOK, LockInv, NEW p \in Callers, NEW c, NEW wake \in BOOLEAN, Update(p, c, wake),
         NEW q \in Seq(Callers), Chain(q, call'), p \notin ToSet(waiters),
         \A k \in 1..Len(q) : q[k] = p \/ \E j \in 1..Len(lockQ) : q[k] = lockQ[j],
         lockQ' = (IF wake THEN q \o waiters ELSE q),
         waiters' = IF wake THEN <<>> ELSE waiters
  PROVE  /\ LockInv'
         /\ Handed(q, call') => Handed(lockQ', call')
         /\ q # <<>> => lockQ' # <<>> /\ lockQ'[1] = q[1]
         /\ ForceIn(lockQ', call') => ForceIn(q, call')
<1>1. \A k \in 1..Len(waiters) : waiters[k] \in Callers \ {p} /\ waiters[k] \in ToSet(waiters)
  BY LockFacts
<1>2. CASE wake
  <2>1. \A k \in 1..Len(waiters) : call'[waiters[k]].at \in {"acquire", "ready"}
    BY <1>1, <1>2, UpdateEffect
  <2>2. \A k \in 1..Len(waiters) : call'[waiters[k]].at \in LockAwaits /\ ~Forced(call'[waiters[k]])
    BY <2>1 DEF LockAwaits, Forced
  <2>3. IsInjective(waiters)
    BY DEF LockInv, Waits
  <2>4. \A j \in 1..Len(q), k \in 1..Len(waiters) : q[j] # waiters[k]
    BY <1>1, LockFacts
  <2>5. waiters \in Seq(Callers)
    BY LockFacts
  <2>6. ~ForceIn(waiters, call')
    BY <2>2 DEF ForceIn
  <2>7. /\ Chain(q \o waiters, call')
        /\ Handed(q, call') => Handed(q \o waiters, call')
        /\ q # <<>> => q \o waiters # <<>> /\ (q \o waiters)[1] = q[1]
        /\ ForceIn(q \o waiters, call') => ForceIn(q, call') \/ ForceIn(waiters, call')
    BY <2>2, <2>3, <2>4, <2>5, ChainJoin
  <2>8. lockQ' = q \o waiters /\ waiters' = <<>>
    BY <1>2
  <2>9. Waits(<<>>, call')
    <3>1. <<>> \in Seq(Callers) /\ Len(<<>>) = 0
      BY EmptySeq
    <3>2. IsInjective(<<>>)
      BY DEF IsInjective
    <3>. QED
      BY <3>1, <3>2 DEF Waits
  <2>10. Chain(lockQ', call') /\ Waits(waiters', call')
    BY <2>7, <2>8, <2>9
  <2>11. LockInv'
    BY <2>10 DEF LockInv
  <2>12. Handed(q, call') => Handed(lockQ', call')
    BY <2>7, <2>8
  <2>13. q # <<>> => lockQ' # <<>> /\ lockQ'[1] = q[1]
    BY <2>7, <2>8
  <2>14. ForceIn(lockQ', call') => ForceIn(q, call')
    BY <2>6, <2>7, <2>8
  <2>. QED
    BY <2>11, <2>12, <2>13, <2>14
<1>3. CASE ~wake
  <2>1. lockQ' = q /\ waiters' = waiters
    BY <1>3
  <2>2. \A k \in 1..Len(waiters) : call'[waiters[k]] = call[waiters[k]]
    BY <1>1, <1>3, UpdateEffect
  <2>3. Waits(waiters, call')
    BY <2>2 DEF LockInv, Waits
  <2>. QED
    BY <2>1, <2>3 DEF LockInv
<1>. QED
  BY <1>2, <1>3

\* p runs on under the lock; when it wakes the waiters they queue up behind.
LEMMA KeepLock ==
  ASSUME TypeOK, LockInv, NEW p \in Callers, NEW c, NEW wake \in BOOLEAN,
         Owns(p), Keep(p, c, wake), c.at \in IoAwaits
  PROVE  /\ LockInv' /\ call'[p] = c /\ Carried(p)
         /\ lockQ' # <<>> /\ lockQ'[1] = p
         /\ ForceIn(lockQ', call') => ForceIn(lockQ, call)
         /\ waiters' = IF wake THEN <<>> ELSE waiters
<1>1. /\ Update(p, c, wake)
      /\ lockQ' = (IF wake THEN lockQ \o waiters ELSE lockQ)
      /\ waiters' = IF wake THEN <<>> ELSE waiters
  BY DEF Keep
<1>2. call'[p] = c /\ Carried(p)
  BY <1>1, UpdateEffect
<1>3. \A k \in 2..Len(lockQ) : call'[lockQ[k]] = call[lockQ[k]]
  <2>1. \A k \in 2..Len(lockQ) : lockQ[k] \in Callers \ {p} /\ lockQ[k] \notin ToSet(waiters)
    BY HeadFacts, LockFacts
  <2>. QED
    BY <1>1, <2>1, UpdateEffect
<1>4. ~Forced(c)
  BY DEF Forced, IoAwaits
<1>5. \A k \in 1..Len(lockQ) : k = 1 \/ k \in 2..Len(lockQ)
  BY LockFacts
<1>6. Chain(lockQ, call')
  BY <1>2, <1>3, <1>4, <1>5, HeadFacts DEF LockInv, Chain
<1>7. ForceIn(lockQ, call') => ForceIn(lockQ, call)
  BY <1>2, <1>3, <1>4, <1>5, HeadFacts DEF ForceIn
<1>8. /\ LockInv'
      /\ lockQ # <<>> => lockQ' # <<>> /\ lockQ'[1] = lockQ[1]
      /\ ForceIn(lockQ', call') => ForceIn(lockQ, call')
  BY <1>1, <1>6, HeadFacts, LockFacts, WokenJoin
<1>. QED
  BY <1>1, <1>2, <1>7, <1>8, HeadFacts

\* What is left of the chain when its owner p leaves it.
LEMMA Rest ==
  ASSUME TypeOK, LockInv, NEW p \in Callers, NEW c, NEW wake \in BOOLEAN, Owns(p), Update(p, c, wake)
  PROVE  /\ Tail(lockQ) \in Seq(Callers)
         /\ Chain(Tail(lockQ), call') /\ Handed(Tail(lockQ), call')
         /\ \A k \in 1..Len(Tail(lockQ)) :
              /\ Tail(lockQ)[k] # p
              /\ \E j \in 1..Len(lockQ) : Tail(lockQ)[k] = lockQ[j]
         /\ ForceIn(Tail(lockQ), call') => ForceIn(lockQ, call)
<1>1. \A k \in 2..Len(lockQ) : lockQ[k] \in Callers \ {p} /\ lockQ[k] \notin ToSet(waiters)
  BY HeadFacts, LockFacts
<1>2. \A k \in 2..Len(lockQ) : call'[lockQ[k]].at = call[lockQ[k]].at /\ call'[lockQ[k]].op = call[lockQ[k]].op
  BY <1>1, UpdateEffect
<1>3. lockQ \in Seq(Callers) /\ lockQ # <<>> /\ Chain(lockQ, call) /\ lockQ[1] = p
  BY LockFacts, HeadFacts DEF LockInv
<1>. QED
  BY <1>2, <1>3, ChainTail

\* p leaves the lock.
LEMMA LeaveLock ==
  ASSUME TypeOK, LockInv, NEW p \in Callers, NEW c, NEW wake \in BOOLEAN, Owns(p), Leave(p, c, wake)
  PROVE  /\ LockInv' /\ call'[p] = c /\ Carried(p)
         /\ Handed(lockQ', call')
         /\ ForceIn(lockQ', call') => ForceIn(lockQ, call)
         /\ waiters' = IF wake THEN <<>> ELSE waiters
<1>1. /\ Update(p, c, wake)
      /\ lockQ' = (IF wake THEN Tail(lockQ) \o waiters ELSE Tail(lockQ))
      /\ waiters' = IF wake THEN <<>> ELSE waiters
  BY DEF Leave
<1>2. call'[p] = c /\ Carried(p)
  BY <1>1, UpdateEffect
<1>. DEFINE q == Tail(lockQ)
<1>3. /\ q \in Seq(Callers) /\ Chain(q, call') /\ Handed(q, call')
      /\ \A k \in 1..Len(q) : \E j \in 1..Len(lockQ) : q[k] = lockQ[j]
      /\ ForceIn(q, call') => ForceIn(lockQ, call)
  BY <1>1, Rest
<1>4. p \notin ToSet(waiters) /\ lockQ' = (IF wake THEN q \o waiters ELSE q)
  BY <1>1, HeadFacts
<1>. HIDE DEF q
<1>5. /\ LockInv'
      /\ Handed(q, call') => Handed(lockQ', call')
      /\ ForceIn(lockQ', call') => ForceIn(q, call')
  BY <1>1, <1>3, <1>4, WokenJoin
<1>. QED
  BY <1>1, <1>2, <1>3, <1>5

\* p, not waiting for a lease, asks for the lock behind a chain q.
LEMMA AskBehind ==
  ASSUME TypeOK, LockInv, NEW p \in Callers, NEW q \in Seq(Callers), Chain(q, call'),
         \A k \in 1..Len(q) : q[k] # p,
         \A k \in 1..Len(waiters) : call'[waiters[k]] = call[waiters[k]],
         call'[p].at \in LockAwaits,
         Forced(call'[p]) => p \notin Slots /\ \A k \in 1..Len(q) : q[k] \notin Slots,
         lockQ' = Append(q, p), UNCHANGED waiters
  PROVE  /\ LockInv'
         /\ Handed(q, call') => Handed(lockQ', call')
         /\ lockQ' # <<>>
         /\ lockQ'[1] = IF q = <<>> THEN p ELSE q[1]
         /\ ForceIn(lockQ', call') => ForceIn(q, call') \/ Forced(call'[p])
<1>. DEFINE w == <<p>>
<1>1. w \in Seq(Callers) /\ Len(w) = 1 /\ w[1] = p
  OBVIOUS
<1>2. lockQ' = q \o w
  BY AppendIsConcat
<1>. HIDE DEF w
<1>3. \A k \in 1..Len(w) : w[k] = p
  BY <1>1
<1>4. IsInjective(w)
  <2>1. \A j, k \in 1..Len(w) : j = k
    BY <1>1
  <2>. QED
    BY <1>1, <2>1, Injective
<1>5. /\ Chain(q \o w, call')
      /\ Handed(q, call') => Handed(q \o w, call')
      /\ q # <<>> => q \o w # <<>> /\ (q \o w)[1] = q[1]
      /\ ForceIn(q \o w, call') => ForceIn(q, call') \/ ForceIn(w, call')
  <2>1. \A k \in 1..Len(w) : call'[w[k]].at \in LockAwaits
    BY <1>3
  <2>2. \A k \in 1..Len(w) : Forced(call'[w[k]]) =>
          (\A j \in 1..Len(q) : q[j] \notin Slots) /\ (\A j \in 1..Len(w) : w[j] \notin Slots)
    BY <1>3
  <2>3. \A j \in 1..Len(q), k \in 1..Len(w) : q[j] # w[k]
    BY <1>3
  <2>. QED
    BY <1>1, <1>4, <2>1, <2>2, <2>3, ChainJoin
<1>6. ForceIn(w, call') => Forced(call'[p])
  BY <1>3 DEF ForceIn
<1>7. Chain(lockQ', call')
  BY <1>2, <1>5
<1>8. Waits(waiters', call')
  BY DEF LockInv, Waits
<1>9. LockInv'
  BY <1>7, <1>8 DEF LockInv
<1>10. lockQ' # <<>> /\ lockQ'[1] = IF q = <<>> THEN p ELSE q[1]
  <2>1. CASE q = <<>>
    BY <2>1, EmptySeq, AppendProperties
  <2>2. CASE q # <<>>
    BY <1>2, <1>5, <2>2
  <2>. QED
    BY <2>1, <2>2
<1>. QED
  BY <1>2, <1>5, <1>6, <1>9, <1>10

\* p, outside the chain and not waiting for a lease, asks for the lock.
LEMMA AskLock ==
  ASSUME TypeOK, LockInv, NEW p \in Callers, NEW c, Ask(p, c),
         call[p].at \notin LockAwaits \cup IoAwaits \cup {"wait"}, c.at \in LockAwaits,
         Forced(c) => p \notin Slots /\ \A k \in 1..Len(lockQ) : lockQ[k] \notin Slots
  PROVE  /\ LockInv' /\ call'[p] = c /\ Carried(p)
         /\ lockQ' # <<>> /\ lockQ'[1] = (IF lockQ = <<>> THEN p ELSE lockQ[1])
         /\ lockQ # <<>> => lockQ[1] # p
         /\ ForceIn(lockQ', call') => ForceIn(lockQ, call) \/ Forced(c)
         /\ UNCHANGED waiters
<1>1. /\ call' = [call EXCEPT ![p] = c] /\ call \in [Callers -> Calls]
      /\ lockQ' = Append(lockQ, p) /\ UNCHANGED waiters
  BY DEF Ask, TypeOK
<1>2. call'[p] = c /\ \A q \in Callers \ {p} : call'[q] = call[q]
  BY <1>1
<1>3. Carried(p)
  BY <1>2 DEF Carried
<1>4. \A k \in 1..Len(lockQ) : lockQ[k] \in Callers \ {p} /\ call'[lockQ[k]] = call[lockQ[k]]
  BY <1>2, LockFacts DEF LockInv, Chain
<1>5. \A k \in 1..Len(waiters) : call'[waiters[k]] = call[waiters[k]]
  BY <1>2, LockFacts
<1>6. Chain(lockQ, call') /\ (ForceIn(lockQ, call') => ForceIn(lockQ, call))
  BY <1>4 DEF LockInv, Chain, ForceIn
<1>7. lockQ # <<>> => 1 \in 1..Len(lockQ)
  BY LockFacts, EmptySeq
<1>8. /\ LockInv'
      /\ lockQ' # <<>>
      /\ lockQ'[1] = IF lockQ = <<>> THEN p ELSE lockQ[1]
      /\ ForceIn(lockQ', call') => ForceIn(lockQ, call') \/ Forced(call'[p])
  <2>1. /\ call'[p].at \in LockAwaits
        /\ Forced(call'[p]) => p \notin Slots /\ \A k \in 1..Len(lockQ) : lockQ[k] \notin Slots
        /\ \A k \in 1..Len(lockQ) : lockQ[k] # p
    BY <1>2, <1>4
  <2>. QED
    BY <1>1, <1>5, <1>6, <2>1, LockFacts, AskBehind
<1>. QED
  BY <1>1, <1>2, <1>3, <1>4, <1>6, <1>7, <1>8

\* The owner asks for the lock again.
LEMMA RequeueLock ==
  ASSUME TypeOK, LockInv, NEW p \in Callers, NEW c, Owns(p), Update(p, c, FALSE),
         lockQ' = Append(Tail(lockQ), p), UNCHANGED waiters, c.at \in LockAwaits, ~Forced(c)
  PROVE  /\ LockInv' /\ call'[p] = c /\ Carried(p)
         /\ Handed(lockQ', call')
         /\ ForceIn(lockQ', call') => ForceIn(lockQ, call)
<1>1. call'[p] = c /\ Carried(p)
  BY UpdateEffect
<1>2. \A k \in 1..Len(waiters) : call'[waiters[k]] = call[waiters[k]]
  <2>1. \A k \in 1..Len(waiters) : waiters[k] \in Callers \ {p}
    BY LockFacts, HeadFacts
  <2>. QED
    BY <2>1, UpdateEffect
<1>. DEFINE q == Tail(lockQ)
<1>3. /\ q \in Seq(Callers) /\ Chain(q, call') /\ Handed(q, call')
      /\ \A k \in 1..Len(q) : q[k] # p
      /\ ForceIn(q, call') => ForceIn(lockQ, call)
      /\ lockQ' = Append(q, p)
  BY Rest
<1>. HIDE DEF q
<1>4. call'[p].at \in LockAwaits /\ ~Forced(call'[p])
  BY <1>1
<1>5. /\ LockInv'
      /\ Handed(q, call') => Handed(lockQ', call')
      /\ ForceIn(lockQ', call') => ForceIn(q, call') \/ Forced(call'[p])
  BY <1>2, <1>3, <1>4, AskBehind
<1>. QED
  BY <1>1, <1>3, <1>4, <1>5

\* The owner leaves the lock to wait for a lease, or throws if it was aborted.
LEMMA WaitLock ==
  ASSUME TypeOK, LockInv, NEW p \in Callers, Owns(p), WaitForLease(p)
  PROVE  /\ LockInv' /\ Carried(p)
         /\ call'[p] \in {Threw, At1(p, "wait")}
         /\ Handed(lockQ', call')
         /\ ForceIn(lockQ', call') => ForceIn(lockQ, call)
<1>1. CASE call[p].aborted
  BY <1>1, LeaveLock DEF WaitForLease
<1>2. CASE ~call[p].aborted
  <2>. DEFINE c == At1(p, "wait")
  <2>1. /\ Update(p, c, FALSE) /\ lockQ' = Tail(lockQ) /\ waiters' = Append(waiters, p)
    BY <1>2 DEF WaitForLease
  <2>2. c.at = "wait"
    BY DEF At1, TypeOK, Calls
  <2>. HIDE DEF c
  <2>3. call'[p] = c /\ Carried(p)
    BY <2>1, UpdateEffect
  <2>4. \A k \in 1..Len(waiters) : waiters[k] # p /\ call'[waiters[k]] = call[waiters[k]]
    <3>1. \A k \in 1..Len(waiters) : waiters[k] \in Callers \ {p}
      BY LockFacts, HeadFacts
    <3>. QED
      BY <2>1, <3>1, UpdateEffect
  <2>5. /\ Len(waiters') = Len(waiters) + 1 /\ waiters' \in Seq(Callers)
        /\ \A k \in 1..Len(waiters) : waiters'[k] = waiters[k]
        /\ waiters'[Len(waiters) + 1] = p
    BY <2>1, LockFacts, AppendProperties
  <2>6. \A k \in 1..Len(waiters') : k \in 1..Len(waiters) \/ k = Len(waiters) + 1
    BY <2>5, LockFacts
  <2>7. \A j, k \in 1..Len(waiters) : waiters[j] = waiters[k] => j = k
    BY LockFacts, Injective DEF LockInv, Waits
  <2>8. \A j, k \in 1..Len(waiters') : waiters'[j] = waiters'[k] => j = k
    BY <2>4, <2>5, <2>6, <2>7
  <2>9. IsInjective(waiters')
    BY <2>5, <2>8, Injective
  <2>10. \A k \in 1..Len(waiters') : call'[waiters'[k]].at = "wait"
    BY <2>2, <2>3, <2>4, <2>5, <2>6, LockFacts
  <2>11. Waits(waiters', call')
    BY <2>9, <2>10 DEF Waits
  <2>12. Chain(lockQ', call') /\ Handed(lockQ', call') /\ (ForceIn(lockQ', call') => ForceIn(lockQ, call))
    BY <2>1, Rest
  <2>. QED
    BY <2>3, <2>11, <2>12 DEF LockInv, c
<1>. QED
  BY <1>1, <1>2

-----------------------------------------------------------------------------
(* What a step leaves of the invariant                                     *)

\* Only executors hold leases, so finitely many do.
LEMMA HoldersFacts ==
  ASSUME CallInv
  PROVE  /\ Holders \subseteq Slots /\ IsFiniteSet(Holders) /\ Cardinality(Holders) \in Nat
         /\ Cardinality(Holders) = 0 <=> Holders = {}
<1>1. Holders \subseteq Slots
  BY DEF Holders, Holding, CallInv
<1>2. IsFiniteSet(Holders)
  BY <1>1, CallersAssumption, FS_Subset
<1>. QED
  BY <1>1, <1>2, FS_CardinalityType, FS_EmptySet

\* Nobody holds a lease exactly when the instance is not BUSY.
LEMMA Unheld ==
  ASSUME CallInv, LeaseInv
  PROVE  /\ Holders = {} <=> leases = 0
         /\ Holders = {} <=> state # "BUSY"
  BY HoldersFacts DEF LeaseInv

\* A step of p makes or unmakes no holder but p.
LEMMA HoldersStep ==
  ASSUME NEW p \in Callers, Carried(p)
  PROVE  Holders' = IF Holding(p)' THEN Holders \cup {p} ELSE Holders \ {p}
  BY DEF Holders, Holding, Carried

\* Who holds a lease other than p keeps what it was granted.
LEMMA GrantedStep ==
  ASSUME NEW p \in Callers, Carried(p)
  PROVE  \A q \in Holders \ {p} : call'[q].held = call[q].held /\ call'[q].want = call[q].want
  BY DEF Holders, Carried

\* A step of p keeps what is known of the calls, if the new record of p agrees.
LEMMA CallStep ==
  ASSUME CallInv, NEW p \in Callers, Carried(p),
         call'[p].at \notin {"thermalStop", "closing"}, call'[p].at = "thermal" => ThermalTrips,
         call'[p].at \notin {"returned", "threw", "stop", "stopping"} =>
           p \in Slots /\ call'[p].want \in Recipes
  PROVE  CallInv'
<1>. SUFFICES ASSUME NEW q \in Callers \ {p}
     PROVE /\ call'[q].at \notin {"returned", "threw", "stop", "stopping"} =>
                q \in Slots /\ call'[q].want \in Recipes
           /\ call'[q].at \notin {"thermalStop", "closing"}
           /\ call'[q].at = "thermal" => ThermalTrips
  BY DEF CallInv
<1>1. call'[q].want = call[q].want
  BY DEF Carried
<1>2. CASE call'[q].at = call[q].at
  BY <1>1, <1>2 DEF CallInv
<1>3. CASE call[q].at = "wait" /\ call'[q].at \in {"acquire", "ready"}
  BY <1>1, <1>3 DEF CallInv
<1>. QED
  BY <1>2, <1>3 DEF Carried

\* The lock was handed on, or is free.
LEMMA HeadHanded ==
  ASSUME TypeOK', Handed(lockQ', call')
  PROVE  HeadInv'
<1>1. lockQ' # <<>> => 1 \in 1..Len(lockQ')
  BY EmptySeq, LenProperties DEF TypeOK
<1>2. lockQ' # <<>> => call'[lockQ'[1]].at \in LockAwaits
  BY <1>1 DEF Handed
<1>3. LockAwaits \cap IoAwaits = {} /\ {"validate", "start", "probe", "cleanup"} \subseteq IoAwaits
  BY DEF LockAwaits, IoAwaits
<1>. QED
  BY <1>2, <1>3 DEF HeadInv

\* A step that neither grants nor releases a lease of a BUSY instance.
LEMMA LeaseKept ==
  ASSUME CallInv, LeaseInv, NEW p \in Callers, Carried(p), UNCHANGED instance,
         Holding(p)' <=> Holding(p),
         Holding(p) => call'[p].held = call[p].held /\ call'[p].want = call[p].want,
         waiters' = <<>> \/ waiters # <<>> \/ state = "BUSY",
         ForceIn(lockQ', call') => ForceIn(lockQ, call) \/ Holders = {}
  PROVE  LeaseInv' /\ Holders' = Holders
<1>1. Holders' = Holders
  BY HoldersStep DEF Holders
<1>2. UNCHANGED <<state, recipe, handle, leases>>
  BY DEF instance
<1>3. \A q \in Holders' : handle' = call'[q].held /\ recipe' = call'[q].want
  <2>1. \A q \in Holders \ {p} : handle' = call'[q].held /\ recipe' = call'[q].want
    BY <1>2, GrantedStep DEF LeaseInv
  <2>2. p \in Holders => handle' = call'[p].held /\ recipe' = call'[p].want
    BY <1>2 DEF LeaseInv, Holders
  <2>. QED
    BY <1>1, <2>1, <2>2
<1>4. /\ leases' = Cardinality(Holders')
      /\ leases' > 0 <=> state' = "BUSY"
      /\ leases' > 0 => leases' <= MaxGenerations[recipe']
  BY <1>1, <1>2 DEF LeaseInv
<1>5. waiters' # <<>> => leases' > 0
  BY <1>2 DEF LeaseInv
<1>6. ForceIn(lockQ', call') => Holders' = {}
  BY <1>1 DEF LeaseInv
<1>. QED
  BY <1>1, <1>3, <1>4, <1>5, <1>6 DEF LeaseInv

\* A step that finds and leaves nobody holding a lease.
LEMMA LeaseNone ==
  ASSUME CallInv, LeaseInv, NEW p \in Callers, Carried(p),
         Holders = {}, ~Holding(p)', leases' = 0, state' # "BUSY",
         waiters' = <<>> \/ waiters' = waiters
  PROVE  LeaseInv' /\ Holders' = {}
<1>1. Holders' = {}
  BY HoldersStep
<1>2. waiters = <<>>
  BY Unheld DEF LeaseInv
<1>3. leases' = Cardinality(Holders')
  BY <1>1, FS_EmptySet
<1>. QED
  BY <1>1, <1>2, <1>3 DEF LeaseInv

-----------------------------------------------------------------------------
(* The shapes of a step                                                    *)

\* The parts of the records that the actions write.
LEMMA Written ==
  ASSUME TypeOK, NEW p \in Callers
  PROVE  /\ \A pos : /\ At1(p, pos).at = pos /\ At1(p, pos).want = call[p].want
                     /\ At1(p, pos).op = call[p].op /\ At1(p, pos).held = call[p].held
         /\ Returned.at = "returned" /\ Threw.at = "threw"
<1>1. call[p] \in Calls
  BY DEF TypeOK
<1>2. ASSUME NEW pos
      PROVE  /\ At1(p, pos).at = pos /\ At1(p, pos).want = call[p].want
             /\ At1(p, pos).op = call[p].op /\ At1(p, pos).held = call[p].held
  BY <1>1 DEF At1, Calls
<1>3. Returned.at = "returned" /\ Threw.at = "threw"
  BY DEF Returned, Threw
<1>. QED
  BY <1>2, <1>3

\* The owner's call returns or throws, and nothing changes hands; or it does so
\* after it stopped or lost an instance nobody uses.
LEMMA LeaveQuiet ==
  ASSUME IInv, TypeOK', NEW p \in Callers, Owns(p), NEW c, NEW wake \in BOOLEAN, Leave(p, c, wake),
         c.at \in {"returned", "threw"}, ~Holding(p),
         UNCHANGED instance \/ (Holders = {} /\ leases' = 0 /\ state' # "BUSY")
  PROVE  IInv'
<1>. USE DEF IInv
<1>1. /\ LockInv' /\ call'[p] = c /\ Carried(p)
      /\ Handed(lockQ', call')
      /\ ForceIn(lockQ', call') => ForceIn(lockQ, call)
      /\ waiters' = <<>> \/ waiters' = waiters
  BY LeaveLock
<1>2. ~Holding(p)'
  BY <1>1 DEF Holding
<1>3. CallInv'
  BY <1>1, CallStep
<1>4. HeadInv'
  BY <1>1, HeadHanded
<1>5. LeaseInv'
  <2>1. CASE UNCHANGED instance
    BY <1>1, <1>2, <2>1, LeaseKept
  <2>2. CASE Holders = {} /\ leases' = 0 /\ state' # "BUSY"
    BY <1>1, <1>2, <2>2, LeaseNone
  <2>. QED
    BY <2>1, <2>2
<1>. QED
  BY <1>1, <1>3, <1>4, <1>5 DEF IInv

\* The owner awaits I/O; nobody holds a lease.
LEMMA KeepQuiet ==
  ASSUME IInv, TypeOK', NEW p \in Callers, Owns(p), NEW c, NEW wake \in BOOLEAN, Keep(p, c, wake),
         c.at \in IoAwaits \ {"thermalStop"}, Holders = {}, leases' = 0, state' # "BUSY",
         c.at # "stopping" => p \in Slots /\ c.want \in Recipes,
         c.at \in {"validate", "start", "probe", "cleanup"} => recipe' = c.want
  PROVE  IInv'
<1>. USE DEF IInv
<1>0. c.at \in IoAwaits
  OBVIOUS
<1>1. /\ LockInv' /\ call'[p] = c /\ Carried(p)
      /\ lockQ'[1] = p
      /\ waiters' = <<>> \/ waiters' = waiters
  BY <1>0, KeepLock
<1>2. ~Holding(p)'
  BY <1>1 DEF Holding, IoAwaits
<1>3. CallInv'
  <2>1. c.at \notin {"thermal", "thermalStop", "closing", "returned", "threw", "stop"}
    BY DEF IoAwaits
  <2>. QED
    BY <1>1, <2>1, CallStep
<1>4. LeaseInv' /\ Holders' = {}
  BY <1>1, <1>2, LeaseNone
<1>5. HeadInv'
  BY <1>1, <1>4 DEF HeadInv
<1>. QED
  BY <1>1, <1>3, <1>4, <1>5 DEF IInv

\* A caller asks for the lock and keeps what it holds.
LEMMA AskQuiet ==
  ASSUME IInv, TypeOK', NEW p \in Callers, NEW c, Ask(p, c), UNCHANGED instance,
         call[p].at \notin LockAwaits \cup IoAwaits \cup {"wait"},
         c.at \in LockAwaits, c.at = "thermal" => ThermalTrips,
         c.at # "stop" => p \in Slots /\ c.want \in Recipes,
         Holding(p) <=> c.at \in {"release", "thermal"},
         Holding(p) => c.held = call[p].held /\ c.want = call[p].want,
         Forced(c) => /\ p \notin Slots /\ Holders = {}
                      /\ \A k \in 1..Len(lockQ) : lockQ[k] \notin Slots
  PROVE  IInv'
<1>. USE DEF IInv
<1>1. /\ LockInv' /\ call'[p] = c /\ Carried(p)
      /\ lockQ' # <<>> /\ lockQ'[1] = (IF lockQ = <<>> THEN p ELSE lockQ[1])
      /\ lockQ # <<>> => lockQ[1] # p
      /\ ForceIn(lockQ', call') => ForceIn(lockQ, call) \/ Forced(c)
      /\ UNCHANGED waiters
  BY AskLock
<1>2. Holding(p)' <=> Holding(p)
  BY <1>1 DEF Holding, LockAwaits
<1>3. CallInv'
  <2>1. c.at \notin {"thermalStop", "closing", "returned", "threw", "stopping"}
    BY DEF LockAwaits
  <2>. QED
    BY <1>1, <2>1, CallStep
<1>4. LeaseInv' /\ Holders' = Holders
  BY <1>1, <1>2, LeaseKept
<1>5. HeadInv'
  <2>1. CASE lockQ = <<>>
    <3>1. call'[lockQ'[1]].at \notin IoAwaits \cup {"validate", "start", "probe", "cleanup"}
      BY <1>1, <2>1 DEF LockAwaits, IoAwaits
    <3>. QED
      BY <3>1 DEF HeadInv
  <2>2. CASE lockQ # <<>>
    <3>. DEFINE h == lockQ[1]
    <3>1. h \in Callers \ {p} /\ lockQ'[1] = h
      BY <1>1, <2>2, LockFacts, EmptySeq
    <3>2. 1 \in 1..Len(lockQ)
      BY <2>2, LockFacts, EmptySeq
    <3>3. call[h].at # "wait"
      BY <3>2, LockFacts
    <3>4. call'[h].at = call[h].at /\ call'[h].want = call[h].want
      BY <1>1, <3>1, <3>3 DEF Carried
    <3>5. recipe' = recipe
      BY DEF instance
    <3>. QED
      BY <1>4, <2>2, <3>1, <3>4, <3>5 DEF HeadInv
  <2>. QED
    BY <2>1, <2>2
<1>. QED
  BY <1>1, <1>3, <1>4, <1>5 DEF IInv

\* A lease is granted to the owner p, an executor, on an instance with recipe r
\* and engine h.
LEMMA GrantInv ==
  ASSUME IInv, TypeOK', NEW p \in Slots, Owns(p), ~Holding(p), NEW r \in Recipes, r = call[p].want,
         NEW h, Grant(p, r, h), leases < MaxGenerations[r], leases = 0 \/ (handle = h /\ recipe = r)
  PROVE  IInv'
<1>. USE DEF IInv
<1>0. p \in Callers /\ call[p] \in Calls
  BY DEF Callers, TypeOK
<1>1. PICK c : /\ Update(p, c, FALSE) /\ c.held = h /\ c.want = r
               /\ \/ c.at = "release" /\ lockQ' = Append(Tail(lockQ), p)
                  \/ c.at = "running" /\ lockQ' = Tail(lockQ)
  <2>. DEFINE c1 == [call[p] EXCEPT !.held = h, !.at = "release", !.end = "rejected"]
              c2 == [call[p] EXCEPT !.held = h, !.at = "running"]
  <2>1. \/ Update(p, c1, FALSE) /\ lockQ' = Append(Tail(lockQ), p)
        \/ Update(p, c2, FALSE) /\ lockQ' = Tail(lockQ)
    BY DEF Grant
  <2>2. c1.at = "release" /\ c1.held = h /\ c1.want = r
    BY <1>0 DEF Calls
  <2>3. c2.at = "running" /\ c2.held = h /\ c2.want = r
    BY <1>0 DEF Calls
  <2>. HIDE DEF c1, c2
  <2>. QED
    BY <2>1, <2>2, <2>3
<1>2. leases' = leases + 1 /\ state' = "BUSY" /\ recipe' = r /\ handle' = h /\ UNCHANGED waiters
  BY DEF Grant
<1>3. /\ LockInv' /\ call'[p] = c /\ Carried(p) /\ Handed(lockQ', call')
      /\ ForceIn(lockQ', call') => ForceIn(lockQ, call)
  <2>1. CASE c.at = "release" /\ lockQ' = Append(Tail(lockQ), p)
    <3>1. c.at \in LockAwaits /\ ~Forced(c)
      BY <2>1 DEF LockAwaits, Forced
    <3>. QED
      BY <1>0, <1>1, <1>2, <2>1, <3>1, RequeueLock
  <2>2. CASE c.at = "running" /\ lockQ' = Tail(lockQ)
    <3>1. Leave(p, c, FALSE)
      BY <1>1, <1>2, <2>2 DEF Leave
    <3>. QED
      BY <1>0, <3>1, LeaveLock
  <2>. QED
    BY <1>1, <2>1, <2>2
<1>4. Holding(p)' /\ p \notin Holders /\ Holders' = Holders \cup {p}
  BY <1>0, <1>1, <1>3, HoldersStep DEF Holding, Holders
<1>5. CallInv'
  BY <1>0, <1>1, <1>3, CallStep
<1>6. HeadInv'
  BY <1>3, HeadHanded
<1>7. Cardinality(Holders') = Cardinality(Holders) + 1
  BY <1>4, HoldersFacts, FS_AddElement
<1>8. MaxGenerations[r] \in Nat /\ leases \in Nat
  BY RecipesAssumption DEF TypeOK
<1>9. /\ leases' = Cardinality(Holders')
      /\ leases' > 0 /\ leases' <= MaxGenerations[recipe']
  BY <1>2, <1>7, <1>8 DEF LeaseInv
<1>10. \A q \in Holders' : handle' = call'[q].held /\ recipe' = call'[q].want
  <2>1. ASSUME NEW q \in Holders PROVE handle' = call'[q].held /\ recipe' = call'[q].want
    <3>1. leases # 0
      BY <2>1, Unheld
    <3>2. handle = call[q].held /\ recipe = call[q].want
      BY <2>1 DEF LeaseInv
    <3>3. call'[q].held = call[q].held /\ call'[q].want = call[q].want
      BY <1>0, <1>3, <1>4, <2>1, GrantedStep
    <3>. QED
      BY <1>2, <3>1, <3>2, <3>3
  <2>. QED
    BY <1>1, <1>2, <1>3, <1>4, <2>1
<1>11. ~ForceIn(lockQ', call')
  BY <1>3, HeadFacts, LockFacts DEF ForceIn, LockInv, Chain
<1>12. LeaseInv'
  BY <1>2, <1>9, <1>10, <1>11 DEF LeaseInv
<1>. QED
  BY <1>3, <1>5, <1>6, <1>12

\* The owner p gives its lease back.
LEMMA ReleaseInv ==
  ASSUME IInv, TypeOK', NEW p \in Callers, Release(p)
  PROVE  IInv'
<1>. USE DEF IInv
<1>1. Owns(p) /\ call[p].at = "release" /\ p \in Holders
  BY DEF Release, At, Holders, Holding
<1>2. Holders # {} /\ state = "BUSY" /\ leases \in Nat /\ leases > 0
  BY <1>1, Unheld DEF TypeOK
<1>3. leases' = leases - 1 /\ UNCHANGED <<recipe, handle>>
  BY <1>2 DEF Release
<1>4. IF leases = 1 THEN state' \in {"FAILED", "READY"} ELSE state' = state
  BY <1>2 DEF Release
<1>. DEFINE c == IF call[p].end = "completed" THEN Returned ELSE Threw
            wake == leases = 1
<1>5. Leave(p, c, wake)
  <2>1. (IF leases = 0 THEN 0 ELSE leases - 1) = 0 <=> leases = 1
    BY <1>2
  <2>. QED
    BY <2>1 DEF Release
<1>6. c.at \in {"returned", "threw"} /\ wake \in BOOLEAN
  BY Written
<1>7. wake <=> leases = 1
  OBVIOUS
<1>. HIDE DEF c, wake
<1>8. /\ LockInv' /\ call'[p] = c /\ Carried(p) /\ Handed(lockQ', call')
      /\ ForceIn(lockQ', call') => ForceIn(lockQ, call)
      /\ waiters' = IF wake THEN <<>> ELSE waiters
  BY <1>1, <1>5, <1>6, LeaveLock
<1>9. Holders' = Holders \ {p}
  BY <1>6, <1>8, HoldersStep DEF Holding
<1>10. CallInv'
  BY <1>6, <1>8, CallStep
<1>11. HeadInv'
  BY <1>8, HeadHanded
<1>12. Cardinality(Holders') = Cardinality(Holders) - 1
  BY <1>1, <1>9, HoldersFacts, FS_RemoveElement
<1>13. leases' = Cardinality(Holders')
  BY <1>3, <1>12 DEF LeaseInv
<1>14. recipe \in Recipes
  BY <1>1 DEF CallInv, LeaseInv
<1>15. MaxGenerations[recipe] \in Nat
  BY <1>14, RecipesAssumption
<1>16. leases' > 0 => leases' <= MaxGenerations[recipe']
  BY <1>2, <1>3, <1>15 DEF LeaseInv
<1>17. leases' > 0 <=> state' = "BUSY"
  BY <1>2, <1>3, <1>4
<1>18. waiters' # <<>> => leases' > 0
  BY <1>2, <1>3, <1>7, <1>8
<1>19. \A q \in Holders' : handle' = call'[q].held /\ recipe' = call'[q].want
  BY <1>3, <1>8, <1>9, GrantedStep DEF LeaseInv
<1>20. ~ForceIn(lockQ', call')
  BY <1>2, <1>8 DEF LeaseInv
<1>21. LeaseInv'
  BY <1>13, <1>16, <1>17, <1>18, <1>19, <1>20 DEF LeaseInv
<1>. QED
  BY <1>8, <1>10, <1>11, <1>21

\* The owner waits for a lease of a BUSY instance, or was aborted.
LEMMA WaitQuiet ==
  ASSUME IInv, TypeOK', NEW p \in Slots, Owns(p), ~Holding(p), call[p].want \in Recipes,
         WaitForLease(p), state = "BUSY", UNCHANGED instance
  PROVE  IInv'
<1>. USE DEF IInv
<1>1. p \in Callers
  BY DEF Callers
<1>2. /\ LockInv' /\ Carried(p)
      /\ call'[p] \in {Threw, At1(p, "wait")}
      /\ Handed(lockQ', call')
      /\ ForceIn(lockQ', call') => ForceIn(lockQ, call)
  BY <1>1, WaitLock
<1>3. call'[p].at \in {"threw", "wait"} /\ (call'[p].at = "wait" => call'[p].want = call[p].want)
  BY <1>1, <1>2, Written
<1>4. ~Holding(p)'
  BY <1>3 DEF Holding
<1>5. CallInv'
  BY <1>1, <1>2, <1>3, CallStep
<1>6. LeaseInv'
  BY <1>1, <1>2, <1>4, LeaseKept
<1>. QED
  BY <1>2, <1>5, <1>6, HeadHanded

-----------------------------------------------------------------------------
(* The actions                                                             *)

\* What the owner of the lock knows while it awaits I/O.
LEMMA Awaiting ==
  ASSUME IInv, NEW p \in Callers, NEW pos \in IoAwaits, At(p, pos)
  PROVE  /\ Owns(p) /\ call[p].at = pos /\ ~Holding(p) /\ call[p].at # "stop"
         /\ Holders = {} /\ leases = 0 /\ state # "BUSY"
         /\ pos # "stopping" => p \in Slots /\ call[p].want \in Recipes
         /\ pos \in {"validate", "start", "probe", "cleanup"} => recipe = call[p].want
<1>. USE DEF IInv
<1>1. Owns(p) /\ call[p].at = pos
  BY DEF At
<1>2. lockQ # <<>> /\ lockQ[1] = p
  BY <1>1, HeadFacts
<1>3. Holders = {} /\ (pos \in {"validate", "start", "probe", "cleanup"} => recipe = call[p].want)
  BY <1>1, <1>2 DEF HeadInv
<1>4. ~Holding(p)
  BY <1>3 DEF Holders
<1>5. pos \notin {"returned", "threw", "stop"}
  BY DEF IoAwaits
<1>6. pos # "stopping" => p \in Slots /\ call[p].want \in Recipes
  BY <1>1, <1>5 DEF CallInv
<1>. QED
  BY <1>1, <1>3, <1>4, <1>5, <1>6, Unheld

\* What an executor knows when its turn to look at the instance comes.
LEMMA Looking ==
  ASSUME IInv, NEW p \in Callers, At(p, "acquire") \/ At(p, "ready")
  PROVE  Owns(p) /\ p \in Slots /\ call[p].want \in Recipes /\ ~Holding(p)
<1>. USE DEF IInv
<1>1. Owns(p) /\ call[p].at \in {"acquire", "ready"}
  BY DEF At
<1>. QED
  BY <1>1 DEF CallInv, Holding

\* The owner begins to load while nobody holds a lease.
LEMMA BeginLoadInv ==
  ASSUME IInv, TypeOK', NEW p \in Slots, Owns(p), call[p].want \in Recipes, state # "BUSY", BeginLoad(p)
  PROVE  IInv'
<1>. DEFINE c == At1(p, "prepare")
<1>1. p \in Callers /\ TypeOK
  BY DEF Callers, IInv
<1>2. c.at = "prepare" /\ c.want = call[p].want
  BY <1>1, Written
<1>3. Keep(p, c, FALSE) /\ UNCHANGED <<state, leases>>
  BY DEF BeginLoad, instance
<1>. HIDE DEF c
<1>4. Holders = {} /\ leases = 0
  BY Unheld DEF IInv
<1>5. c.at \in IoAwaits \ {"thermalStop"} /\ c.at \notin {"validate", "start", "probe", "cleanup"}
  BY <1>2 DEF IoAwaits
<1>. QED
  BY <1>1, <1>2, <1>3, <1>4, <1>5, KeepQuiet

\* The critical section of #acquireLease: fail, join or take over, wait, or begin to load.
LEMMA AcquireInv ==
  ASSUME IInv, TypeOK', NEW p \in Callers, Acquire(p)
  PROVE  IInv'
<1>. DEFINE r == call[p].want
<1>1. At(p, "acquire") /\ Owns(p) /\ p \in Slots /\ r \in Recipes /\ ~Holding(p)
  BY Looking DEF Acquire
<1>2. TypeOK /\ Threw.at = "threw"
  BY Written DEF IInv
<1>3. \/ Leave(p, Threw, FALSE) /\ UNCHANGED instance
      \/ /\ state \in {"READY", "BUSY"} /\ recipe = r /\ (state = "BUSY" => RoomFor(r))
         /\ handle # NoEngine /\ Grant(p, r, handle)
      \/ state = "BUSY" /\ WaitForLease(p) /\ UNCHANGED instance
      \/ state # "BUSY" /\ BeginLoad(p)
  BY DEF Acquire
<1>4. CASE Leave(p, Threw, FALSE) /\ UNCHANGED instance
  BY <1>1, <1>2, <1>4, LeaveQuiet
<1>5. CASE /\ state \in {"READY", "BUSY"} /\ recipe = r /\ (state = "BUSY" => RoomFor(r))
           /\ handle # NoEngine /\ Grant(p, r, handle)
  <2>1. MaxGenerations[r] \in Nat \ {0}
    BY <1>1, RecipesAssumption
  <2>2. state # "BUSY" => leases = 0
    BY Unheld DEF IInv
  <2>3. leases < MaxGenerations[r]
    BY <1>5, <2>1, <2>2 DEF RoomFor
  <2>. QED
    BY <1>1, <1>5, <2>3, GrantInv
<1>6. CASE state = "BUSY" /\ WaitForLease(p) /\ UNCHANGED instance
  BY <1>1, <1>6, WaitQuiet
<1>7. CASE state # "BUSY" /\ BeginLoad(p)
  BY <1>1, <1>7, BeginLoadInv
<1>. QED
  BY <1>3, <1>4, <1>5, <1>6, <1>7

\* The critical section of #ensureReady.
LEMMA EnsureReadyInv ==
  ASSUME IInv, TypeOK', NEW p \in Callers, EnsureReady(p)
  PROVE  IInv'
<1>1. Owns(p) /\ p \in Slots /\ call[p].want \in Recipes /\ ~Holding(p)
  BY Looking DEF EnsureReady
<1>2. TypeOK /\ Returned.at = "returned"
  BY Written DEF IInv
<1>3. \/ Leave(p, Returned, FALSE) /\ UNCHANGED instance
      \/ state = "BUSY" /\ WaitForLease(p) /\ UNCHANGED instance
      \/ state # "BUSY" /\ BeginLoad(p)
  BY DEF EnsureReady
<1>4. CASE Leave(p, Returned, FALSE) /\ UNCHANGED instance
  BY <1>1, <1>2, <1>4, LeaveQuiet
<1>5. CASE state = "BUSY" /\ WaitForLease(p) /\ UNCHANGED instance
  BY <1>1, <1>5, WaitQuiet
<1>6. CASE state # "BUSY" /\ BeginLoad(p)
  BY <1>1, <1>6, BeginLoadInv
<1>. QED
  BY <1>3, <1>4, <1>5, <1>6

\* The load of the owner goes on to await pos, or fails.
LEMMA LoadGoesOn ==
  ASSUME IInv, TypeOK', NEW p \in Callers, NEW now \in IoAwaits \ {"stopping"}, At(p, now),
         NEW pos \in {"stopOld", "validate", "start", "probe", "cleanup"}, NEW wake \in BOOLEAN,
         Keep(p, At1(p, pos), wake), leases' = 0, state' # "BUSY",
         pos # "stopOld" => recipe' = call[p].want
  PROVE  IInv'
<1>. DEFINE c == At1(p, pos)
<1>1. Owns(p) /\ Holders = {} /\ p \in Slots /\ call[p].want \in Recipes /\ TypeOK
  BY Awaiting DEF IInv
<1>2. c.at = pos /\ c.want = call[p].want
  BY <1>1, Written
<1>. HIDE DEF c
<1>3. c.at \in IoAwaits \ {"thermalStop"}
  BY <1>2 DEF IoAwaits
<1>4. Keep(p, c, wake)
  BY DEF c
<1>. QED
  BY <1>1, <1>2, <1>3, <1>4, KeepQuiet

\* The owner gives up, or ends, what it awaited I/O for.
LEMMA LoadGivenUp ==
  ASSUME IInv, TypeOK', NEW p \in Callers, NEW now \in IoAwaits, At(p, now),
         NEW c \in {Returned, Threw}, NEW wake \in BOOLEAN,
         Leave(p, c, wake), leases' = 0, state' # "BUSY"
  PROVE  IInv'
<1>1. Owns(p) /\ Holders = {} /\ ~Holding(p) /\ TypeOK
  BY Awaiting DEF IInv
<1>2. c.at \in {"returned", "threw"}
  BY <1>1, Written
<1>. QED
  BY <1>1, <1>2, LeaveQuiet

\* The steps of a load: nobody holds a lease until it grants one.
LEMMA LoadingInv ==
  ASSUME IInv, TypeOK', NEW p \in Callers
  PROVE  /\ Prepared(p) => IInv'
         /\ \A how \in StopOutcomes : StopOldReturns(p, how) \/ CleanedUp(p, how) => IInv'
         /\ \A ok \in BOOLEAN : Validated(p, ok) \/ Started(p, ok) \/ Probed(p, ok) => IInv'
<1>0. {"prepare", "stopOld", "validate", "start", "probe", "cleanup"} \subseteq IoAwaits \ {"stopping"}
  BY DEF IoAwaits
<1>1. ASSUME Prepared(p) PROVE IInv'
  <2>1. At(p, "prepare") /\ leases = 0 /\ state # "BUSY"
    BY <1>0, <1>1, Awaiting DEF Prepared
  <2>2. \/ /\ state' \in {"FAILED", "EVICTING"} /\ leases' = 0
           /\ Keep(p, At1(p, "stopOld"), FALSE)
        \/ /\ state' = "PREPARING" /\ recipe' = call[p].want /\ leases' = 0
           /\ Keep(p, At1(p, "validate"), state \notin {"FAILED", "UNLOADED"})
    BY <1>1, <2>1 DEF Prepared
  <2>3. (state \notin {"FAILED", "UNLOADED"}) \in BOOLEAN
    OBVIOUS
  <2>. QED
    BY <1>0, <2>1, <2>2, <2>3, LoadGoesOn
<1>2. ASSUME NEW how \in StopOutcomes, StopOldReturns(p, how) PROVE IInv'
  <2>1. At(p, "stopOld") /\ leases = 0 /\ state # "BUSY"
    BY <1>0, <1>2, Awaiting DEF StopOldReturns
  <2>2. \/ Leave(p, Threw, FALSE) /\ leases' = 0 /\ state' # "BUSY"
        \/ /\ state' = "PREPARING" /\ recipe' = call[p].want /\ leases' = 0
           /\ Keep(p, At1(p, "validate"), state # "FAILED")
    BY <1>2, <2>1 DEF StopOldReturns, instance
  <2>3. (state # "FAILED") \in BOOLEAN
    OBVIOUS
  <2>4. CASE Leave(p, Threw, FALSE) /\ leases' = 0 /\ state' # "BUSY"
    BY <1>0, <2>1, <2>4, LoadGivenUp
  <2>5. CASE /\ state' = "PREPARING" /\ recipe' = call[p].want /\ leases' = 0
             /\ Keep(p, At1(p, "validate"), state # "FAILED")
    BY <1>0, <2>1, <2>3, <2>5, LoadGoesOn
  <2>. QED
    BY <2>2, <2>4, <2>5
<1>3. ASSUME NEW how \in StopOutcomes, CleanedUp(p, how) PROVE IInv'
  <2>1. At(p, "cleanup") /\ leases = 0
    BY <1>0, <1>3, Awaiting DEF CleanedUp
  <2>2. Leave(p, Threw, FALSE) /\ leases' = 0 /\ state' = "FAILED"
    BY <1>3, <2>1 DEF CleanedUp, LoadFails
  <2>. QED
    BY <1>0, <2>1, <2>2, LoadGivenUp
<1>4. ASSUME NEW ok \in BOOLEAN, Validated(p, ok) PROVE IInv'
  <2>1. At(p, "validate") /\ leases = 0 /\ recipe = call[p].want
    BY <1>0, <1>4, Awaiting DEF Validated
  <2>2. /\ leases' = 0 /\ recipe' = call[p].want
        /\ \/ state' = "LOADING" /\ Keep(p, At1(p, "start"), FALSE)
           \/ state' = "FAILED" /\ Leave(p, Threw, FALSE)
    BY <1>4, <2>1 DEF Validated, LoadFails
  <2>3. CASE state' = "LOADING" /\ Keep(p, At1(p, "start"), FALSE)
    BY <1>0, <2>1, <2>2, <2>3, LoadGoesOn
  <2>4. CASE state' = "FAILED" /\ Leave(p, Threw, FALSE)
    BY <1>0, <2>1, <2>2, <2>4, LoadGivenUp
  <2>. QED
    BY <2>2, <2>3, <2>4
<1>5. ASSUME NEW ok \in BOOLEAN, Started(p, ok) PROVE IInv'
  <2>1. At(p, "start") /\ leases = 0 /\ recipe = call[p].want /\ state # "BUSY"
    BY <1>0, <1>5, Awaiting DEF Started
  <2>2. /\ leases' = 0 /\ recipe' = call[p].want
        /\ \/ state' = state /\ Keep(p, At1(p, "probe"), FALSE)
           \/ state' = "FAILED" /\ Leave(p, Threw, FALSE)
    BY <1>5, <2>1 DEF Started, LoadFails
  <2>3. CASE state' = state /\ Keep(p, At1(p, "probe"), FALSE)
    BY <1>0, <2>1, <2>2, <2>3, LoadGoesOn
  <2>4. CASE state' = "FAILED" /\ Leave(p, Threw, FALSE)
    BY <1>0, <2>1, <2>2, <2>4, LoadGivenUp
  <2>. QED
    BY <2>2, <2>3, <2>4
<1>6. ASSUME NEW ok \in BOOLEAN, Probed(p, ok) PROVE IInv'
  <2>1. /\ At(p, "probe") /\ Owns(p) /\ ~Holding(p) /\ leases = 0 /\ state # "BUSY"
        /\ p \in Slots /\ call[p].want \in Recipes /\ recipe = call[p].want
    BY <1>0, <1>6, Awaiting DEF Probed
  <2>2. \/ Grant(p, recipe, handle)
        \/ state' = "READY" /\ leases' = leases /\ Leave(p, Returned, FALSE)
        \/ Keep(p, At1(p, "cleanup"), FALSE) /\ UNCHANGED instance
    BY <1>6 DEF Probed
  <2>3. CASE Grant(p, recipe, handle)
    <3>1. MaxGenerations[recipe] \in Nat \ {0}
      BY <2>1, RecipesAssumption
    <3>2. leases < MaxGenerations[recipe]
      BY <2>1, <3>1
    <3>. QED
      BY <2>1, <2>3, <3>2, GrantInv
  <2>4. CASE state' = "READY" /\ leases' = leases /\ Leave(p, Returned, FALSE)
    BY <1>0, <2>1, <2>4, LoadGivenUp
  <2>5. CASE Keep(p, At1(p, "cleanup"), FALSE) /\ UNCHANGED instance
    <3>1. leases' = 0 /\ state' # "BUSY" /\ recipe' = call[p].want
      BY <2>1, <2>5 DEF instance
    <3>. QED
      BY <1>0, <2>1, <2>5, <3>1, LoadGoesOn
  <2>. QED
    BY <2>2, <2>3, <2>4, <2>5
<1>. QED
  BY <1>1, <1>2, <1>3, <1>4, <1>5, <1>6

\* A stop finds nobody holding a lease: a graceful one looks at the state, a forced
\* one was asked for when no executor was under way.
LEMMA StoppingInv ==
  ASSUME IInv, TypeOK', NEW p \in Callers
  PROVE  /\ StopUnlocked(p) => IInv'
         /\ \A how \in StopOutcomes : StopReturns(p, how) => IInv'
<1>1. ASSUME StopUnlocked(p) PROVE IInv'
  <2>1. Owns(p) /\ call[p].at = "stop" /\ ~Holding(p) /\ TypeOK
    BY <1>1 DEF StopUnlocked, At, Holding, IInv
  <2>2. Returned.at = "returned" /\ Threw.at = "threw"
    BY <2>1, Written
  <2>3. call[p].op = "force" => Holders = {}
    <3>1. 1 \in 1..Len(lockQ) /\ lockQ[1] = p
      BY <2>1, HeadFacts DEF IInv
    <3>. QED
      BY <2>1, <3>1 DEF IInv, LeaseInv, ForceIn, Forced
  <2>4. state = "UNLOADED" => Holders = {}
    BY Unheld DEF IInv
  <2>5. \/ UNCHANGED instance /\ \E c \in {Returned, Threw} : Leave(p, c, FALSE)
        \/ /\ state # "BUSY" \/ call[p].op = "force"
           /\ \/ ClearInstance("UNLOADED") /\ Leave(p, Returned, TRUE)
              \/ state' = "EVICTING" /\ leases' = leases /\ Keep(p, At1(p, "stopping"), FALSE)
    BY <1>1 DEF StopUnlocked
  <2>6. CASE UNCHANGED instance /\ \E c \in {Returned, Threw} : Leave(p, c, FALSE)
    BY <2>1, <2>2, <2>6, LeaveQuiet
  <2>7. ASSUME state # "BUSY" \/ call[p].op = "force" PROVE Holders = {} /\ leases = 0
    BY <2>3, <2>7, Unheld DEF IInv
  <2>8. CASE /\ state # "BUSY" \/ call[p].op = "force"
             /\ ClearInstance("UNLOADED") /\ Leave(p, Returned, TRUE)
    BY <2>1, <2>2, <2>7, <2>8, LeaveQuiet DEF ClearInstance
  <2>9. CASE /\ state # "BUSY" \/ call[p].op = "force"
             /\ state' = "EVICTING" /\ leases' = leases /\ Keep(p, At1(p, "stopping"), FALSE)
    <3>. DEFINE c == At1(p, "stopping")
    <3>1. c.at = "stopping" /\ Keep(p, c, FALSE)
      BY <2>1, <2>9, Written
    <3>. HIDE DEF c
    <3>2. c.at \in IoAwaits \ {"thermalStop"}
      BY <3>1 DEF IoAwaits
    <3>. QED
      BY <2>1, <2>7, <2>9, <3>1, <3>2, KeepQuiet
  <2>. QED
    BY <2>5, <2>6, <2>8, <2>9
<1>2. ASSUME NEW how \in StopOutcomes, StopReturns(p, how) PROVE IInv'
  <2>0. "stopping" \in IoAwaits
    BY DEF IoAwaits
  <2>1. At(p, "stopping") /\ leases = 0 /\ state # "BUSY"
    BY <1>2, <2>0, Awaiting DEF StopReturns
  <2>2. /\ leases' = 0 /\ state' # "BUSY"
        /\ Leave(p, Threw, FALSE) \/ Leave(p, Returned, TRUE)
    BY <1>2, <2>1 DEF StopReturns, ClearInstance, instance
  <2>. QED
    BY <2>0, <2>1, <2>2, LoadGivenUp
<1>. QED
  BY <1>1, <1>2

\* A generation ends.
LEMMA GenerationInv ==
  ASSUME IInv, TypeOK', NEW p \in Callers
  PROVE  \A how \in {"completed", "rejected", "failed"} : EndGeneration(p, how) => IInv'
<1>. SUFFICES ASSUME NEW how \in {"completed", "rejected", "failed"}, EndGeneration(p, how)
     PROVE IInv'
  OBVIOUS
<1>. DEFINE c == [call[p] EXCEPT !.at = "release", !.end = how]
<1>1. call[p].at = "running" /\ Ask(p, c) /\ UNCHANGED instance
  BY DEF EndGeneration
<1>2. call[p] \in Calls
  BY DEF IInv, TypeOK
<1>3. c.at = "release" /\ c.want = call[p].want /\ c.held = call[p].held
  BY <1>2 DEF Calls
<1>. HIDE DEF c
<1>4. Holding(p) /\ p \in Slots /\ call[p].want \in Recipes
  BY <1>1 DEF Holding, IInv, CallInv
<1>5. c.at \in LockAwaits /\ ~Forced(c)
  BY <1>3 DEF LockAwaits, Forced
<1>6. call[p].at \notin LockAwaits \cup IoAwaits \cup {"wait"}
  BY <1>1 DEF LockAwaits, IoAwaits
<1>. QED
  BY <1>1, <1>3, <1>4, <1>5, <1>6, AskQuiet

\* The thermal guard fires; it has yet to unload.
LEMMA TripInv ==
  ASSUME IInv, TypeOK', NEW p \in Callers, ThermalTrip(p)
  PROVE  IInv'
<1>. DEFINE c == [call[p] EXCEPT !.at = "thermal", !.end = "failed"]
<1>1. ThermalTrips /\ call[p].at = "running" /\ Ask(p, c) /\ UNCHANGED instance
  BY DEF ThermalTrip
<1>2. call[p] \in Calls
  BY DEF IInv, TypeOK
<1>3. c.at = "thermal" /\ c.want = call[p].want /\ c.held = call[p].held
  BY <1>2 DEF Calls
<1>. HIDE DEF c
<1>4. Holding(p) /\ p \in Slots /\ call[p].want \in Recipes
  BY <1>1 DEF Holding, IInv, CallInv
<1>5. c.at \in LockAwaits /\ ~Forced(c)
  BY <1>3 DEF LockAwaits, Forced
<1>6. call[p].at \notin LockAwaits \cup IoAwaits \cup {"wait"}
  BY <1>1 DEF LockAwaits, IoAwaits
<1>. QED
  BY <1>1, <1>3, <1>4, <1>5, <1>6, AskQuiet

\* A caller that is idle begins a call.
LEMMA BeginInv ==
  ASSUME IInv, TypeOK', NEW p \in Callers, NEW op \in Ops, NEW r, NEW pos \in LockAwaits \ {"thermal", "release"},
         Begin(p, op, r, pos),
         pos # "stop" => p \in Slots /\ r \in Recipes,
         op = "force" => p \in Hosts /\ LanesIdle
  PROVE  IInv'
<1>. DEFINE c == [Returned EXCEPT !.op = op, !.want = r, !.at = pos]
<1>1. call[p].at \in {"returned", "threw"} /\ Ask(p, c) /\ UNCHANGED instance
  BY DEF Begin, Idle
<1>2. c.at = pos /\ c.want = r /\ c.op = op
  BY DEF Returned
<1>. HIDE DEF c
<1>3. call[p].at \notin LockAwaits \cup IoAwaits \cup {"wait"} /\ ~Holding(p)
  BY <1>1 DEF LockAwaits, IoAwaits, Holding
<1>4. ASSUME op = "force"
      PROVE  /\ p \notin Slots /\ Holders = {}
             /\ \A k \in 1..Len(lockQ) : lockQ[k] \notin Slots
  <2>1. p \notin Slots
    BY <1>4, CallersAssumption
  <2>2. \A s \in Slots : call[s].at \in {"returned", "threw"}
    BY <1>4 DEF LanesIdle, Idle
  <2>3. Holders = {}
    BY <2>2, HoldersFacts DEF IInv, Holders, Holding
  <2>4. \A k \in 1..Len(lockQ) : call[lockQ[k]].at \in LockAwaits \cup IoAwaits
    BY DEF IInv, LockInv, Chain
  <2>5. \A k \in 1..Len(lockQ) : lockQ[k] \notin Slots
    BY <2>2, <2>4 DEF LockAwaits, IoAwaits
  <2>. QED
    BY <2>1, <2>3, <2>5
<1>. QED
  BY <1>1, <1>2, <1>3, <1>4, AskQuiet DEF Forced

\* New calls.
LEMMA RequestsInv ==
  ASSUME IInv, TypeOK'
  PROVE  /\ \A p \in Slots : Requests(p) => IInv'
         /\ Stop(Admin) \/ (\E p \in Hosts : ForceStop(p)) => IInv'
<1>1. /\ Slots \cup Hosts \cup {Admin} \subseteq Callers
      /\ {"chat", "media", "warm", "restore", "graceful", "force"} \subseteq Ops
      /\ {"acquire", "ready", "stop"} \subseteq LockAwaits \ {"thermal", "release"}
  BY DEF Callers, Ops, LockAwaits
<1>2. ASSUME NEW p \in Slots, Requests(p) PROVE IInv'
  <2>1. CASE \E r \in TextRecipes : Warm(p, r)
    BY <1>1, <2>1, BeginInv DEF Warm, Recipes
  <2>2. CASE \E r \in Recipes : Chat(p, r)
    BY <1>1, <2>2, BeginInv DEF Chat
  <2>3. CASE \E r \in MediaRecipes : Media(p, r)
    BY <1>1, <2>3, BeginInv DEF Media, Recipes
  <2>4. CASE Restore(p)
    <3>1. pinned \in Recipes
      BY <2>4, RecipesAssumption DEF Restore, IInv, TypeOK, Recipes
    <3>. QED
      BY <1>1, <2>4, <3>1, BeginInv DEF Restore
  <2>5. CASE Stop(p)
    BY <1>1, <2>5, BeginInv DEF Stop
  <2>. QED
    BY <1>2, <2>1, <2>2, <2>3, <2>4, <2>5 DEF Requests
<1>3. ASSUME Stop(Admin) PROVE IInv'
  BY <1>1, <1>3, BeginInv DEF Stop
<1>4. ASSUME NEW p \in Hosts, ForceStop(p) PROVE IInv'
  BY <1>1, <1>4, BeginInv DEF ForceStop
<1>. QED
  BY <1>2, <1>3, <1>4

\* A step that leaves the calls, the lock and the instance alone.
LEMMA Undisturbed ==
  ASSUME IInv, TypeOK', UNCHANGED <<call, lockQ, waiters, instance>>
  PROVE  IInv'
<1>1. UNCHANGED <<state, recipe, handle, leases>>
  BY DEF instance
<1>2. Holders' = Holders
  BY DEF Holders, Holding
<1>3. LockInv' /\ CallInv'
  BY DEF IInv, LockInv, CallInv
<1>4. HeadInv' /\ LeaseInv'
  BY <1>1, <1>2 DEF IInv, HeadInv, LeaseInv
<1>. QED
  BY <1>3, <1>4 DEF IInv

\* Evictions, pins, dying engines and stuttering.
LEMMA EnvironmentInv ==
  ASSUME IInv, TypeOK'
  PROVE  /\ EvictionFires => IInv'
         /\ (\E r \in Defaults : Pin(r)) \/ (\E e \in Engines : EngineDies(e)) \/ UNCHANGED vars => IInv'
<1>1. ASSUME EvictionFires PROVE IInv'
  <2>. DEFINE c == [Returned EXCEPT !.op = "graceful", !.at = "stop"]
  <2>1. CASE UNCHANGED <<lockQ, waiters, call>>
    BY <1>1, <2>1, Undisturbed DEF EvictionFires
  <2>2. CASE Ask(Evictor, c)
    <3>1. c.at = "stop" /\ c.op = "graceful"
      BY DEF Returned
    <3>2. call[Evictor].at \in {"returned", "threw"} /\ Evictor \in Callers /\ UNCHANGED instance
      BY <1>1 DEF EvictionFires, Idle, Callers
    <3>. HIDE DEF c
    <3>3. call[Evictor].at \notin LockAwaits \cup IoAwaits \cup {"wait"} /\ ~Holding(Evictor)
      BY <3>2 DEF LockAwaits, IoAwaits, Holding
    <3>4. c.at \in LockAwaits \ {"thermal"} /\ ~Forced(c)
      BY <3>1 DEF LockAwaits, Forced
    <3>. QED
      BY <2>2, <3>1, <3>2, <3>3, <3>4, AskQuiet
  <2>. QED
    BY <1>1, <2>1, <2>2 DEF EvictionFires
<1>2. ASSUME (\E r \in Defaults : Pin(r)) \/ (\E e \in Engines : EngineDies(e)) \/ UNCHANGED vars
      PROVE  IInv'
  BY <1>2, Undisturbed DEF Pin, EngineDies, vars, instance
<1>. QED
  BY <1>1, <1>2

\* One element of a sequence without repetition is taken out.
LEMMA Removal ==
  ASSUME NEW S, NEW s \in Seq(S), IsInjective(s), NEW i \in 1..Len(s)
  PROVE  /\ RemoveAt(s, i) \in Seq(S)
         /\ IsInjective(RemoveAt(s, i))
         /\ \A k \in 1..Len(RemoveAt(s, i)) :
              \E j \in 1..Len(s) : j # i /\ RemoveAt(s, i)[k] = s[j]
         /\ RemoveAt(s, i) # <<>> => s # <<>>
<1>. DEFINE a == SubSeq(s, 1, i - 1)
            b == SubSeq(s, i + 1, Len(s))
            r == a \o b
<1>0. Len(s) \in Nat /\ i \in Nat /\ 1 <= i /\ i <= Len(s)
  BY LenProperties
<1>1. \A k \in 1..Len(s) : s[k] \in S
  BY ElementOfSeq
<1>2. a \in Seq(S) /\ Len(a) = i - 1 /\ \A k \in 1..(i - 1) : a[k] = s[k]
  BY <1>0, <1>1, SubSeqProperties
<1>3. b \in Seq(S) /\ Len(b) = Len(s) - i /\ \A k \in 1..(Len(s) - i) : b[k] = s[k + i]
  BY <1>0, <1>1, SubSeqProperties
<1>. HIDE DEF a, b
<1>4. /\ r \in Seq(S) /\ Len(r) = Len(s) - 1
      /\ \A k \in 1..Len(r) : r[k] = IF k <= i - 1 THEN a[k] ELSE b[k - (i - 1)]
  <2>1. /\ r \in Seq(S) /\ Len(r) = Len(a) + Len(b)
        /\ \A k \in 1..(Len(a) + Len(b)) : r[k] = IF k <= Len(a) THEN a[k] ELSE b[k - Len(a)]
    BY <1>2, <1>3, ConcatProperties
  <2>2. Len(a) + Len(b) = Len(s) - 1
    BY <1>0, <1>2, <1>3
  <2>. QED
    BY <1>2, <2>1, <2>2
<1>5. RemoveAt(s, i) = r
  BY DEF RemoveAt, a, b
<1>. HIDE DEF r
<1>. DEFINE old(k) == IF k < i THEN k ELSE k + 1
<1>6. \A k \in 1..Len(r) : old(k) \in 1..Len(s) /\ old(k) # i /\ r[k] = s[old(k)]
  <2>. SUFFICES ASSUME NEW k \in 1..Len(r) PROVE old(k) \in 1..Len(s) /\ old(k) # i /\ r[k] = s[old(k)]
    OBVIOUS
  <2>1. CASE k < i
    BY <1>0, <1>2, <1>4, <2>1
  <2>2. CASE ~(k < i)
    <3>1. k - (i - 1) \in 1..(Len(s) - i) /\ k - (i - 1) + i = k + 1
      BY <1>0, <1>4, <2>2
    <3>. QED
      BY <1>0, <1>3, <1>4, <2>2, <3>1
  <2>. QED
    BY <2>1, <2>2
<1>7. \A j, k \in 1..Len(s) : s[j] = s[k] => j = k
  BY Injective
<1>8. \A j, k \in 1..Len(r) : old(j) = old(k) => j = k
  BY <1>0, <1>4
<1>9. \A j, k \in 1..Len(r) : r[j] = r[k] => j = k
  <2>. HIDE DEF old
  <2>. QED
    BY <1>6, <1>7, <1>8
<1>10. IsInjective(r)
  BY <1>4, <1>9, Injective
<1>11. s # <<>>
  BY <1>0, EmptySeq
<1>. QED
  BY <1>4, <1>5, <1>6, <1>10, <1>11

\* A caller is aborted: one that waits for a lease throws, any other is marked.
LEMMA AbortLock ==
  ASSUME TypeOK, LockInv, NEW p \in Slots, Abort(p)
  PROVE  /\ p \in Callers /\ UNCHANGED <<instance, lockQ>> /\ LockInv' /\ Carried(p)
         /\ \/ call[p].at = "wait" /\ call'[p].at = "threw" /\ call'[p] = Threw
            \/ /\ call[p].at # "wait" /\ call'[p].at = call[p].at /\ call'[p].op = call[p].op
               /\ call'[p].want = call[p].want /\ call'[p].held = call[p].held
         /\ \A q \in Callers \ {p} : call'[q] = call[q]
         /\ \A k \in 1..Len(lockQ) : /\ call'[lockQ[k]].at = call[lockQ[k]].at
                                     /\ call'[lockQ[k]].op = call[lockQ[k]].op
                                     /\ call'[lockQ[k]].want = call[lockQ[k]].want
         /\ ForceIn(lockQ', call') => ForceIn(lockQ, call)
         /\ waiters' # <<>> => waiters # <<>>
<1>1. p \in Callers /\ UNCHANGED <<instance, lockQ>> /\ call \in [Callers -> Calls]
  BY DEF Abort, Callers, TypeOK
<1>2. call' = [call EXCEPT ![p] = Aborted(p)]
  BY DEF Abort
<1>3. \/ call[p].at = "wait" /\ call'[p].at = "threw" /\ call'[p] = Threw
      \/ /\ call[p].at # "wait" /\ call'[p].at = call[p].at /\ call'[p].op = call[p].op
         /\ call'[p].want = call[p].want /\ call'[p].held = call[p].held
  <2>1. call[p] \in Calls /\ call'[p] = Aborted(p)
    BY <1>1, <1>2
  <2>2. CASE call[p].at = "wait"
    BY <2>1, <2>2 DEF Aborted, Threw
  <2>3. CASE call[p].at # "wait"
    <3>. DEFINE c == [call[p] EXCEPT !.aborted = TRUE]
    <3>1. c.at = call[p].at /\ c.op = call[p].op /\ c.want = call[p].want /\ c.held = call[p].held
      BY <2>1 DEF Calls
    <3>2. call'[p] = c
      BY <2>1, <2>3 DEF Aborted
    <3>. QED
      BY <2>3, <3>1, <3>2
  <2>. QED
    BY <2>2, <2>3
<1>4. \A q \in Callers \ {p} : call'[q] = call[q]
  BY <1>1, <1>2
<1>5. Carried(p)
  BY <1>4 DEF Carried
<1>6. \A k \in 1..Len(lockQ) : /\ call'[lockQ[k]].at = call[lockQ[k]].at
                               /\ call'[lockQ[k]].op = call[lockQ[k]].op
                               /\ call'[lockQ[k]].want = call[lockQ[k]].want
  BY <1>3, <1>4, LockFacts
<1>7. Chain(lockQ', call') /\ (ForceIn(lockQ', call') => ForceIn(lockQ, call))
  BY <1>1, <1>6 DEF LockInv, Chain, ForceIn, Forced
<1>8. Waits(waiters', call') /\ (waiters' # <<>> => waiters # <<>>)
  <2>1. CASE call[p].at = "wait"
    <3>1. PICK i \in DOMAIN waiters : waiters[i] = p /\ waiters' = RemoveAt(waiters, i)
      BY <2>1 DEF Abort
    <3>2. waiters \in Seq(Callers) /\ IsInjective(waiters) /\ i \in 1..Len(waiters)
      BY LockFacts, LenProperties DEF LockInv, Waits
    <3>3. /\ IsInjective(waiters')
          /\ \A k \in 1..Len(waiters') : \E j \in 1..Len(waiters) : j # i /\ waiters'[k] = waiters[j]
          /\ waiters' # <<>> => waiters # <<>>
      BY <3>1, <3>2, Removal
    <3>4. \A j \in 1..Len(waiters) : j # i => waiters[j] \in Callers \ {p}
      BY <3>1, <3>2, LockFacts, Injective
    <3>5. \A k \in 1..Len(waiters') : call'[waiters'[k]].at = "wait"
      <4>. SUFFICES ASSUME NEW k \in 1..Len(waiters') PROVE call'[waiters'[k]].at = "wait"
        OBVIOUS
      <4>1. PICK j \in 1..Len(waiters) : j # i /\ waiters'[k] = waiters[j]
        BY <3>3
      <4>2. call'[waiters[j]] = call[waiters[j]]
        BY <1>4, <3>4, <4>1
      <4>3. call[waiters[j]].at = "wait"
        BY LockFacts
      <4>. QED
        BY <4>1, <4>2, <4>3
    <3>. QED
      BY <3>3, <3>5 DEF Waits
  <2>2. CASE call[p].at # "wait"
    <3>1. waiters' = waiters
      BY <2>2 DEF Abort
    <3>2. \A k \in 1..Len(waiters) : call'[waiters[k]].at = "wait"
      BY <1>4, <2>2, LockFacts
    <3>. QED
      BY <3>1, <3>2 DEF LockInv, Waits
  <2>. QED
    BY <2>1, <2>2
<1>9. LockInv'
  BY <1>7, <1>8 DEF LockInv
<1>. QED
  BY <1>1, <1>3, <1>4, <1>5, <1>6, <1>7, <1>8, <1>9

\* Neither costs a generation its lease.
LEMMA AbortInv ==
  ASSUME IInv, TypeOK', NEW p \in Slots, Abort(p)
  PROVE  IInv'
<1>. USE DEF IInv
<1>1. /\ p \in Callers /\ UNCHANGED <<instance, lockQ>> /\ LockInv' /\ Carried(p)
      /\ \/ call[p].at = "wait" /\ call'[p].at = "threw" /\ call'[p] = Threw
         \/ /\ call[p].at # "wait" /\ call'[p].at = call[p].at /\ call'[p].op = call[p].op
            /\ call'[p].want = call[p].want /\ call'[p].held = call[p].held
      /\ \A k \in 1..Len(lockQ) : /\ call'[lockQ[k]].at = call[lockQ[k]].at
                                  /\ call'[lockQ[k]].op = call[lockQ[k]].op
                                  /\ call'[lockQ[k]].want = call[lockQ[k]].want
      /\ ForceIn(lockQ', call') => ForceIn(lockQ, call)
      /\ waiters' # <<>> => waiters # <<>>
  BY AbortLock
<1>2. CallInv'
  <2>1. /\ call'[p].at \notin {"thermalStop", "closing"}
        /\ call'[p].at = "thermal" => ThermalTrips
        /\ call'[p].at \notin {"returned", "threw", "stop", "stopping"} => call'[p].want \in Recipes
    BY <1>1 DEF CallInv
  <2>. QED
    BY <1>1, <2>1, CallStep
<1>3. LeaseInv' /\ Holders' = Holders
  <2>1. Holding(p)' <=> Holding(p)
    BY <1>1 DEF Holding
  <2>2. Holding(p) => call'[p].held = call[p].held /\ call'[p].want = call[p].want
    BY <1>1 DEF Holding
  <2>. QED
    BY <1>1, <2>1, <2>2, LeaseKept
<1>4. HeadInv'
  <2>1. lockQ # <<>> => 1 \in 1..Len(lockQ)
    BY LockFacts, EmptySeq
  <2>2. recipe' = recipe /\ lockQ' = lockQ
    BY <1>1 DEF instance
  <2>. QED
    BY <1>1, <1>3, <2>1, <2>2 DEF HeadInv
<1>. QED
  BY <1>1, <1>2, <1>3, <1>4

-----------------------------------------------------------------------------
(* The theorems                                                            *)

\* Initially nobody calls and nothing is loaded.
LEMMA InitInv == Begins => IInv
<1>. SUFFICES ASSUME Begins PROVE IInv
  OBVIOUS
<1>1. TypeOK
  BY InitType
<1>2. /\ state = "UNLOADED" /\ leases = 0 /\ lockQ = <<>> /\ waiters = <<>>
      /\ \A p \in Callers : call[p].at = "returned"
  <2>1. Returned.at = "returned"
    BY DEF Returned
  <2>. QED
    BY <2>1 DEF Begins, Fresh
<1>3. Len(<<>>) = 0 /\ IsInjective(<<>>)
  BY EmptySeq DEF IsInjective
<1>4. LockInv
  BY <1>2, <1>3 DEF LockInv, Chain, Waits
<1>5. CallInv /\ HeadInv
  BY <1>2 DEF CallInv, HeadInv
<1>6. Holders = {}
  BY <1>2 DEF Holders, Holding
<1>7. LeaseInv
  BY <1>2, <1>6, FS_EmptySet DEF LeaseInv
<1>. QED
  BY <1>1, <1>4, <1>5, <1>7 DEF IInv

\* Every step but the guard's unload keeps the invariant, and on a machine whose thermal
\* guard does not fire there is none.
Unloading == \E p \in Callers : UnloadAfterThermalFailure(p)

LEMMA StepButUnloading ==
  ASSUME IInv, [Next]_vars, ~Unloading
  PROVE  IInv'
<1>0. TypeOK'
  BY TypeStep DEF IInv
<1>1. ASSUME NEW p \in Callers, Progress(p) PROVE IInv'
  <2>1. ~UnloadAfterThermalFailure(p)
    BY DEF Unloading
  <2>2. ~CloseThermal(p) /\ \A how \in StopOutcomes : ~ThermalStopReturns(p, how)
    BY DEF IInv, CallInv, CloseThermal, ThermalStopReturns, At
  <2>. QED
    BY <1>0, <1>1, <2>1, <2>2, AcquireInv, EnsureReadyInv, ReleaseInv, LoadingInv, StoppingInv,
       GenerationInv, TripInv DEF Progress
<1>2. ASSUME NEW p \in Slots, Requests(p) \/ Abort(p) PROVE IInv'
  BY <1>0, <1>2, RequestsInv, AbortInv
<1>3. CASE Stop(Admin) \/ (\E p \in Hosts : ForceStop(p))
  BY <1>0, <1>3, RequestsInv
<1>4. CASE EvictionFires
  BY <1>0, <1>4, EnvironmentInv
<1>5. CASE (\E r \in Defaults : Pin(r)) \/ (\E e \in Engines : EngineDies(e)) \/ UNCHANGED vars
  BY <1>0, <1>5, EnvironmentInv
<1>. QED
  BY <1>1, <1>2, <1>3, <1>4, <1>5 DEF Next

LEMMA StepInv ==
  ASSUME ~ThermalTrips, IInv, [Next]_vars
  PROVE  IInv'
<1>1. ~Unloading
  BY DEF IInv, CallInv, Unloading, UnloadAfterThermalFailure, At
<1>. QED
  BY <1>1, StepButUnloading

\* While the thermal guard does not fire, every state satisfies the invariant.
LEMMA Invariance == ~ThermalTrips /\ Spec => []IInv
<1>. DEFINE J == ~ThermalTrips /\ IInv
<1>1. ~ThermalTrips /\ Init => J
  BY InitBegins, InitInv
<1>2. J /\ [Next]_vars => J'
  BY StepInv
<1>3. J => IInv
  OBVIOUS
<1>. HIDE DEF J
<1>. QED
  BY <1>1, <1>2, <1>3, PTL DEF Spec

LEMMA IInvOwns == IInv => GenerationOwnsInstance
<1>. SUFFICES ASSUME IInv, NEW p \in Slots, call[p].at = "running"
     PROVE state = "BUSY" /\ handle = call[p].held /\ recipe = call[p].want
  BY DEF GenerationOwnsInstance
<1>1. p \in Holders
  BY DEF Holders, Holding, Callers
<1>. QED
  BY <1>1, Unheld DEF IInv, LeaseInv

LEMMA IInvCounts == IInv => LeasesCountHolders
<1>. SUFFICES ASSUME IInv PROVE LeasesCountHolders
  OBVIOUS
<1>1. Holders = {p \in Slots : Holding(p)}
  BY HoldersFacts DEF IInv, Holders, Callers
<1>. QED
  BY <1>1 DEF IInv, LeaseInv, LeasesCountHolders

LEMMA IInvLimits == IInv => GenerationLimit
<1>. SUFFICES ASSUME IInv, NEW r \in Recipes
     PROVE  Cardinality({p \in Slots : call[p].at = "running" /\ call[p].want = r}) <= MaxGenerations[r]
  BY DEF GenerationLimit
<1>. DEFINE S == {p \in Slots : call[p].at = "running" /\ call[p].want = r}
<1>1. MaxGenerations[r] \in Nat
  BY RecipesAssumption
<1>2. S \subseteq Holders
  BY DEF Holders, Holding, Callers
<1>3. Cardinality(S) <= Cardinality(Holders) /\ Cardinality(S) \in Nat /\ Cardinality(Holders) \in Nat
  BY <1>2, HoldersFacts, FS_Subset, FS_CardinalityType DEF IInv
<1>4. CASE S = {}
  BY <1>1, <1>4, FS_EmptySet
<1>5. CASE S # {}
  <2>1. recipe = r
    BY <1>2, <1>5 DEF IInv, LeaseInv
  <2>2. leases > 0
    BY <1>2, <1>5, Unheld DEF IInv, TypeOK
  <2>3. leases <= MaxGenerations[r] /\ leases = Cardinality(Holders)
    BY <2>1, <2>2 DEF IInv, LeaseInv
  <2>. QED
    BY <1>1, <1>3, <2>3
<1>. QED
  BY <1>4, <1>5

LEMMA IInvWakes == IInv => WaitersHaveWaker
<1>. SUFFICES ASSUME IInv, waiters # <<>> PROVE state = "BUSY" /\ \E p \in Slots : Holding(p)
  BY DEF WaitersHaveWaker
<1>1. Holders # {} /\ state = "BUSY"
  BY Unheld DEF IInv, LeaseInv
<1>. QED
  BY <1>1, HoldersFacts DEF IInv, Holders

\* docs/media-generation.md: "active work blocks eviction".  For any number of
\* executors, any recipes and whatever stopping an engine does, every generation
\* in progress runs on the engine the manager holds, and the instance is BUSY for
\* it (#acquireLease, #stopUnlocked, #loadRecipe), on a machine whose thermal
\* guard does not fire.
THEOREM GeneratingIsSafe == ~ThermalTrips /\ Spec => []GenerationOwnsInstance
BY IInvOwns, Invariance, PTL

\* #activeLeases counts the callers that have yet to release one, so the
\* Math.max(0, n - 1) of #releaseLease is never needed.
THEOREM LeasesAreCounted == ~ThermalTrips /\ Spec => []LeasesCountHolders
BY IInvCounts, Invariance, PTL

\* docs/model-residency.md: "At most the active recipe's declared generation
\* limit may execute" (#acquireLease).
THEOREM LimitIsKept == ~ThermalTrips /\ Spec => []GenerationLimit
BY IInvLimits, Invariance, PTL

\* A caller waits for a lease only while somebody holds one (#waitForLeaseChange,
\* #notifyLeaseWaiters): no waiter is left without a waker.
THEOREM WaitersAreWoken == ~ThermalTrips /\ Spec => []WaitersHaveWaker
BY IInvWakes, Invariance, PTL

-----------------------------------------------------------------------------
(* Every engine is known, and an eviction finds the instance idle          *)

\* What the rest needs of the calls, the lock and the leases, and what holds even if
\* the thermal guard fires: who is under way wants a recipe, who loads has made its
\* recipe the instance's, and no lease is counted on an idle or unused instance.
Wants ==
  \A p \in Callers :
    call[p].at \notin {"returned", "threw", "stop", "stopping"} => p \in Slots /\ call[p].want \in Recipes
LoadsTheirs ==
  lockQ # <<>> /\ call[lockQ[1]].at \in {"validate", "start", "probe", "cleanup"} =>
    recipe = call[lockQ[1]].want
Unleased == state \in {"READY", "PREPARING", "LOADING", "UNLOADED"} => leases = 0

Basics == TypeOK /\ LockInv /\ Wants /\ LoadsTheirs /\ Unleased

LEMMA IInvBasics == IInv => Basics
<1>. SUFFICES ASSUME IInv PROVE Basics
  OBVIOUS
<1>1. Wants /\ LoadsTheirs
  BY DEF IInv, CallInv, HeadInv, Wants, LoadsTheirs
<1>2. Unleased
  BY Unheld DEF IInv, Unleased
<1>. QED
  BY <1>1, <1>2 DEF Basics, IInv

\* The steps of a call under way but those of the thermal guard, and the steps
\* that are none of a call under way.
Ordinary(p) ==
  \/ Acquire(p) \/ EnsureReady(p) \/ Prepared(p) \/ Release(p) \/ StopUnlocked(p)
  \/ \E ok \in BOOLEAN : Validated(p, ok) \/ Started(p, ok) \/ Probed(p, ok)
  \/ \E how \in StopOutcomes : StopOldReturns(p, how) \/ CleanedUp(p, how) \/ StopReturns(p, how)
  \/ \E how \in {"completed", "rejected", "failed"} : EndGeneration(p, how)
Outside ==
  \/ \E p \in Slots : Requests(p) \/ Abort(p)
  \/ Stop(Admin) \/ (\E p \in Hosts : ForceStop(p)) \/ EvictionFires
  \/ (\E r \in Defaults : Pin(r)) \/ (\E e \in Engines : EngineDies(e)) \/ UNCHANGED vars

\* Every step, if the guard does not fire.
LEMMA OrdinarySteps ==
  ASSUME ~ThermalTrips, IInv, [Next]_vars
  PROVE  (\E p \in Callers : Ordinary(p)) \/ Outside
<1>1. ASSUME NEW p \in Callers, Progress(p) PROVE Ordinary(p)
  <2>1. ~ThermalTrip(p)
    BY DEF ThermalTrip
  <2>2. /\ ~UnloadAfterThermalFailure(p) /\ ~CloseThermal(p)
        /\ \A how \in StopOutcomes : ~ThermalStopReturns(p, how)
    BY DEF IInv, CallInv, UnloadAfterThermalFailure, CloseThermal, ThermalStopReturns, At
  <2>. QED
    BY <1>1, <2>1, <2>2 DEF Progress, Ordinary
<1>. QED
  BY <1>1 DEF Next, Outside

\* What the await of the chain's head says of the instance: no eviction is due while
\* I/O is awaited, and the load or the stop has left its mark.
Underway(at) ==
  /\ at \in IoAwaits => ~timer
  /\ at = "validate" => state = "PREPARING"
  /\ at = "start" => state = "LOADING" /\ handle = NoEngine
  /\ at \in {"probe", "cleanup"} => state = "LOADING" /\ handle # NoEngine
  /\ at = "stopOld" => state \in {"FAILED", "EVICTING"} /\ handle # NoEngine
  /\ at = "stopping" => state = "EVICTING"

\* The timer's callback gets the lock at once, so it finds what it has just seen.
EvictorInv ==
  call[Evictor].at = "stop" =>
    lockQ # <<>> /\ lockQ[1] = Evictor /\ state = "READY" /\ leases = 0

TimerInv == timer => state = "READY" /\ recipe \in MediaRecipes \cup Evictable

Settings == EnginesAreKnown /\ TimerInv

EngineInv ==
  /\ Settings
  /\ lockQ # <<>> => Underway(call[lockQ[1]].at)
  /\ EvictorInv

\* The stop of the engine the manager knows of, whatever it reports, leaves no engine
\* that only the manager knows of.
LEMMA StopKnown ==
  ASSUME NoStrayEngine, NEW how, StopReports(handle, how)
  PROVE  alive' \subseteq spared' /\ NoStrayEngine'
BY DEF NoStrayEngine, StopReports

\* A step of the owner p: the eviction's callback is not in the chain after it.
LEMMA OwnerSteps ==
  ASSUME Basics, EngineInv, NEW p \in Callers, Owns(p), Carried(p), call'[p].at # "stop"
  PROVE  EvictorInv'
<1>. SUFFICES ASSUME call'[Evictor].at = "stop" PROVE FALSE
  BY DEF EvictorInv
<1>1. Evictor \in Callers \ {p}
  BY DEF Callers
<1>2. call[Evictor].at = "stop"
  BY <1>1 DEF Carried
<1>3. lockQ[1] = Evictor
  BY <1>2 DEF EngineInv, EvictorInv
<1>. QED
  BY <1>1, <1>3, HeadFacts DEF Basics

\* The owner hands the lock on.
LEMMA HandsOn ==
  ASSUME Basics, TypeOK', EngineInv, NEW p \in Callers, Owns(p), Carried(p), call'[p].at # "stop",
         Handed(lockQ', call'), Settings'
  PROVE  EngineInv'
<1>1. lockQ' # <<>> => call'[lockQ'[1]].at \in LockAwaits
  BY EmptySeq, LenProperties DEF TypeOK, Handed
<1>2. EvictorInv'
  BY OwnerSteps
<1>. QED
  BY <1>1, <1>2 DEF EngineInv, Underway, LockAwaits, IoAwaits

LEMMA Leaves ==
  ASSUME Basics, TypeOK', EngineInv, NEW p \in Callers, Owns(p), NEW c, c.at # "stop",
         NEW wake \in BOOLEAN, Leave(p, c, wake), Settings'
  PROVE  EngineInv'
<1>1. call'[p] = c /\ Carried(p) /\ Handed(lockQ', call')
  BY LeaveLock DEF Basics
<1>. QED
  BY <1>1, HandsOn

\* The owner goes on under the lock and awaits pos.
LEMMA Keeps ==
  ASSUME Basics, EngineInv, NEW p \in Callers, Owns(p), NEW pos \in IoAwaits,
         NEW wake \in BOOLEAN, Keep(p, At1(p, pos), wake), Settings', Underway(pos)'
  PROVE  EngineInv'
<1>. DEFINE c == At1(p, pos)
<1>1. c.at = pos
  BY Written DEF Basics
<1>2. Keep(p, c, wake)
  OBVIOUS
<1>. HIDE DEF c
<1>3. call'[p] = c /\ Carried(p) /\ lockQ' # <<>> /\ lockQ'[1] = p
  BY <1>1, <1>2, KeepLock DEF Basics
<1>4. call'[p].at = pos /\ pos # "stop"
  BY <1>1, <1>3 DEF IoAwaits
<1>5. EvictorInv'
  BY <1>3, <1>4, OwnerSteps
<1>6. call'[lockQ'[1]].at = pos
  BY <1>3, <1>4
<1>7. (lockQ # <<>> => Underway(call[lockQ[1]].at))'
  BY <1>6
<1>. QED
  BY <1>5, <1>7 DEF EngineInv

\* A caller asks for the lock when the chain stands still.
LEMMA Asks ==
  ASSUME Basics, EngineInv, NEW p \in Callers, NEW c, Drained, Ask(p, c),
         call[p].at \notin LockAwaits \cup IoAwaits, c.at \in LockAwaits,
         p = Evictor => lockQ = <<>> /\ state' = "READY" /\ leases' = 0,
         UNCHANGED <<instance, processes>>, timer' => timer
  PROVE  EngineInv'
<1>1. /\ call' = [call EXCEPT ![p] = c] /\ call \in [Callers -> Calls]
      /\ lockQ' = Append(lockQ, p) /\ lockQ \in Seq(Callers)
  BY DEF Ask, Basics, TypeOK
<1>2. call'[p] = c /\ \A q \in Callers \ {p} : call'[q] = call[q]
  BY <1>1
<1>3. UNCHANGED <<state, recipe, handle, leases, alive, spared>>
  BY DEF instance, processes
<1>4. Settings'
  BY <1>3 DEF EngineInv, Settings, EnginesAreKnown, NoStrayEngine, StateMatchesEngine, TimerInv
<1>5. /\ lockQ' # <<>>
      /\ lockQ = <<>> => lockQ'[1] = p
      /\ lockQ # <<>> => lockQ'[1] = lockQ[1] /\ 1 \in 1..Len(lockQ)
  <2>1. Len(lockQ) \in Nat /\ (lockQ # <<>> => Len(lockQ) > 0)
    BY <1>1, EmptySeq, LenProperties
  <2>2. Len(<<>>) = 0
    BY EmptySeq
  <2>. QED
    BY <1>1, <2>1, <2>2, AppendProperties
<1>6. lockQ # <<>> => lockQ[1] \in Callers \ {p} /\ call[lockQ[1]].at \in IoAwaits
  <2>1. ASSUME lockQ # <<>> PROVE lockQ[1] \in Callers /\ call[lockQ[1]].at \in LockAwaits \cup IoAwaits
    BY <1>5, <2>1, LockFacts DEF Basics, LockInv, Chain
  <2>2. lockQ # <<>> => call[lockQ[1]].at \in IoAwaits
    BY DEF Drained
  <2>. QED
    BY <2>1, <2>2
<1>7. CASE lockQ = <<>>
  <2>1. call'[lockQ'[1]] = c
    BY <1>2, <1>5, <1>7
  <2>2. (lockQ # <<>> => Underway(call[lockQ[1]].at))'
    BY <2>1 DEF Underway, LockAwaits, IoAwaits
  <2>3. ASSUME Evictor # p, call'[Evictor].at = "stop" PROVE FALSE
    <3>1. call[Evictor].at = "stop"
      BY <1>2, <2>3 DEF Callers
    <3>. QED
      BY <1>7, <3>1 DEF EngineInv, EvictorInv
  <2>4. EvictorInv'
    BY <1>5, <1>7, <2>3 DEF EvictorInv
  <2>. QED
    BY <1>4, <2>2, <2>4 DEF EngineInv
<1>8. CASE lockQ # <<>>
  <2>1. call'[lockQ'[1]] = call[lockQ[1]] /\ Evictor # p
    BY <1>2, <1>5, <1>6, <1>8
  <2>2. Underway(call[lockQ[1]].at)
    BY <1>8 DEF EngineInv
  <2>3. (lockQ # <<>> => Underway(call[lockQ[1]].at))'
    BY <1>3, <2>1, <2>2 DEF Underway
  <2>4. call'[Evictor] = call[Evictor]
    BY <1>2, <2>1 DEF Callers
  <2>5. call[Evictor].at # "stop"
    BY <1>6, <1>8 DEF EngineInv, EvictorInv, IoAwaits
  <2>6. EvictorInv'
    BY <2>4, <2>5 DEF EvictorInv
  <2>. QED
    BY <1>4, <2>3, <2>6 DEF EngineInv
<1>. QED
  BY <1>7, <1>8

LEMMA Unsettled ==
  ASSUME Settings, UNCHANGED <<state, recipe, handle, processes>>, timer' => timer
  PROVE  Settings'
<1>1. UNCHANGED <<alive, spared>>
  BY DEF processes
<1>. QED
  BY <1>1 DEF Settings, EnginesAreKnown, NoStrayEngine, StateMatchesEngine, TimerInv

\* The settings in a state that has disarmed the timer.
LEMMA Settled ==
  ASSUME ~timer', NoStrayEngine', StateMatchesEngine'
  PROVE  Settings'
BY DEF Settings, EnginesAreKnown, TimerInv

\* No timer runs while the owner awaits I/O.
LEMMA AtWork ==
  ASSUME Basics, EngineInv, NEW p \in Callers, NEW pos \in IoAwaits, At(p, pos)
  PROVE  /\ Owns(p) /\ Underway(pos) /\ ~timer
         /\ NoStrayEngine /\ StateMatchesEngine
         /\ pos # "stopping" => p \in Slots /\ call[p].want \in Recipes /\ call[p].want # NoRecipe
         /\ pos \in {"validate", "start", "probe", "cleanup"} => recipe = call[p].want
<1>1. Owns(p) /\ call[p].at = pos /\ lockQ # <<>> /\ lockQ[1] = p
  BY HeadFacts DEF At, Basics
<1>2. Underway(pos)
  BY <1>1 DEF EngineInv
<1>3. ~timer
  BY <1>2 DEF Underway
<1>4. pos # "stopping" => p \in Slots /\ call[p].want \in Recipes /\ call[p].want # NoRecipe
  <2>1. pos \notin {"returned", "threw", "stop"}
    BY DEF IoAwaits
  <2>. QED
    BY <1>1, <2>1, RecipesAssumption DEF Basics, Wants
<1>5. pos \in {"validate", "start", "probe", "cleanup"} => recipe = call[p].want
  BY <1>1 DEF Basics, LoadsTheirs
<1>. QED
  BY <1>1, <1>2, <1>3, <1>4, <1>5 DEF EngineInv, Settings, EnginesAreKnown

\* A lease is granted on the engine the manager knows of.
LEMMA Grants ==
  ASSUME Basics, TypeOK', EngineInv, NEW p \in Slots, Owns(p), NEW r \in Recipes, NEW h,
         h = handle, handle # NoEngine, Grant(p, r, h), ~timer'
  PROVE  EngineInv'
<1>0. p \in Callers /\ call[p] \in Calls
  BY DEF Callers, Basics, TypeOK
<1>1. PICK c : /\ Update(p, c, FALSE)
               /\ \/ c.at = "release" /\ lockQ' = Append(Tail(lockQ), p)
                  \/ c.at = "running" /\ lockQ' = Tail(lockQ)
  <2>. DEFINE c1 == [call[p] EXCEPT !.held = h, !.at = "release", !.end = "rejected"]
              c2 == [call[p] EXCEPT !.held = h, !.at = "running"]
  <2>1. \/ Update(p, c1, FALSE) /\ lockQ' = Append(Tail(lockQ), p)
        \/ Update(p, c2, FALSE) /\ lockQ' = Tail(lockQ)
    BY DEF Grant
  <2>2. c1.at = "release" /\ c2.at = "running"
    BY <1>0 DEF Calls
  <2>. HIDE DEF c1, c2
  <2>. QED
    BY <2>1, <2>2
<1>2. /\ state' = "BUSY" /\ recipe' = r /\ handle' = handle
      /\ UNCHANGED <<waiters, alive, spared>>
  BY DEF Grant, processes
<1>3. NoStrayEngine' /\ StateMatchesEngine'
  BY <1>2, RecipesAssumption
     DEF EngineInv, Settings, EnginesAreKnown, NoStrayEngine, StateMatchesEngine
<1>4. Settings'
  BY <1>3, Settled
<1>5. CASE c.at = "release" /\ lockQ' = Append(Tail(lockQ), p)
  <2>1. c.at \in LockAwaits /\ ~Forced(c) /\ c.at # "stop"
    BY <1>5 DEF LockAwaits, Forced
  <2>2. call'[p] = c /\ Carried(p) /\ Handed(lockQ', call')
    BY <1>0, <1>1, <1>2, <1>5, <2>1, RequeueLock DEF Basics
  <2>. QED
    BY <1>0, <1>4, <2>1, <2>2, HandsOn
<1>6. CASE c.at = "running" /\ lockQ' = Tail(lockQ)
  <2>1. Leave(p, c, FALSE) /\ c.at # "stop"
    BY <1>1, <1>2, <1>6 DEF Leave
  <2>. QED
    BY <1>0, <1>4, <2>1, Leaves
<1>. QED
  BY <1>1, <1>5, <1>6

\* The owner waits for a lease, with the timer disarmed.
LEMMA WaitsKnown ==
  ASSUME Basics, TypeOK', EngineInv, NEW p \in Callers, Owns(p), WaitForLease(p),
         UNCHANGED <<instance, processes>>, ~timer'
  PROVE  EngineInv'
<1>1. Carried(p) /\ call'[p] \in {Threw, At1(p, "wait")} /\ Handed(lockQ', call')
  BY WaitLock DEF Basics
<1>2. call'[p].at # "stop"
  BY <1>1, Written DEF Basics
<1>3. Settings'
  BY Unsettled DEF EngineInv, instance
<1>. QED
  BY <1>1, <1>2, <1>3, HandsOn

\* The owner begins to load, with the timer disarmed.
LEMMA LoadBegins ==
  ASSUME Basics, EngineInv, NEW p \in Callers, Owns(p), BeginLoad(p), ~timer'
  PROVE  EngineInv'
<1>1. Settings' /\ Keep(p, At1(p, "prepare"), FALSE)
  BY Unsettled DEF BeginLoad, EngineInv, instance
<1>2. "prepare" \in IoAwaits
  BY DEF IoAwaits
<1>3. Underway("prepare")'
  BY DEF Underway
<1>. QED
  BY <1>1, <1>2, <1>3, Keeps

\* Who looks at the instance is an executor and wants a recipe.
LEMMA Looks ==
  ASSUME Basics, NEW p \in Callers, At(p, "acquire") \/ At(p, "ready")
  PROVE  Owns(p) /\ p \in Slots /\ call[p].want \in Recipes
BY DEF Basics, Wants, At

LEMMA AcquireKnown ==
  ASSUME Basics, TypeOK', EngineInv, NEW p \in Callers, Acquire(p) \/ EnsureReady(p)
  PROVE  EngineInv'
<1>1. Owns(p) /\ p \in Slots /\ call[p].want \in Recipes
  BY Looks DEF Acquire, EnsureReady
<1>2. Threw.at = "threw" /\ Returned.at = "returned"
  BY Written DEF Basics
<1>3. \/ Leave(p, Threw, FALSE) /\ UNCHANGED <<instance, processes>> /\ (timer' => timer)
      \/ ~timer' /\ handle # NoEngine /\ Grant(p, call[p].want, handle)
      \/ ~timer' /\ WaitForLease(p) /\ UNCHANGED <<instance, processes>>
      \/ ~timer' /\ BeginLoad(p)
      \/ /\ Leave(p, Returned, FALSE) /\ UNCHANGED <<instance, processes>>
         /\ timer' = (call[p].op = "warm" /\ state = "READY" /\ Evicts(recipe))
  BY DEF Acquire, EnsureReady, CancelEviction
<1>4. CASE Leave(p, Threw, FALSE) /\ UNCHANGED <<instance, processes>> /\ (timer' => timer)
  <2>1. Settings'
    BY <1>4, Unsettled DEF EngineInv, instance
  <2>. QED
    BY <1>1, <1>2, <1>4, <2>1, Leaves
<1>5. CASE ~timer' /\ handle # NoEngine /\ Grant(p, call[p].want, handle)
  BY <1>1, <1>5, Grants
<1>6. CASE ~timer' /\ WaitForLease(p) /\ UNCHANGED <<instance, processes>>
  BY <1>1, <1>6, WaitsKnown
<1>7. CASE ~timer' /\ BeginLoad(p)
  BY <1>1, <1>7, LoadBegins
<1>8. CASE /\ Leave(p, Returned, FALSE) /\ UNCHANGED <<instance, processes>>
           /\ timer' = (call[p].op = "warm" /\ state = "READY" /\ Evicts(recipe))
  <2>1. UNCHANGED <<state, recipe, handle, alive, spared>>
    BY <1>8 DEF instance, processes
  <2>2. EnginesAreKnown'
    BY <2>1 DEF EngineInv, Settings, EnginesAreKnown, NoStrayEngine, StateMatchesEngine
  <2>3. TimerInv'
    BY <1>8, <2>1 DEF TimerInv, Evicts
  <2>. QED
    BY <1>1, <1>2, <1>8, <2>2, <2>3, Leaves DEF Settings
<1>. QED
  BY <1>3, <1>4, <1>5, <1>6, <1>7, <1>8

LEMMA ReleaseKnown ==
  ASSUME Basics, TypeOK', EngineInv, NEW p \in Callers, Release(p)
  PROVE  EngineInv'
<1>1. Owns(p) /\ UNCHANGED <<recipe, handle, alive, spared>>
  BY DEF Release, At, processes
<1>2. Settings'
  <2>1. CASE state = "BUSY"
    <3>1. state' \in {"BUSY", "FAILED", "READY"} /\ ~timer
      BY <2>1 DEF Release, EngineInv, Settings, TimerInv
    <3>2. timer' => state' = "READY" /\ Evicts(recipe')
      BY <1>1, <2>1, <3>1 DEF Release, ScheduleEviction, Evicts
    <3>3. EnginesAreKnown'
      BY <1>1, <2>1, <3>1 DEF EngineInv, Settings, EnginesAreKnown, NoStrayEngine, StateMatchesEngine
    <3>. QED
      BY <3>2, <3>3 DEF Settings, TimerInv, Evicts
  <2>2. CASE state # "BUSY"
    <3>1. UNCHANGED <<state, timer>>
      BY <2>2 DEF Release
    <3>. QED
      BY <1>1, <3>1, Unsettled DEF EngineInv, processes
  <2>. QED
    BY <2>1, <2>2
<1>. DEFINE c == IF call[p].end = "completed" THEN Returned ELSE Threw
            wake == (IF leases = 0 THEN 0 ELSE leases - 1) = 0
<1>3. Leave(p, c, wake)
  BY DEF Release
<1>4. c.at # "stop" /\ wake \in BOOLEAN
  BY Written DEF Basics
<1>. HIDE DEF c, wake
<1>. QED
  BY <1>1, <1>2, <1>3, <1>4, Leaves

\* #loadRecipe() disposes of the old engine or goes straight on.
LEMMA PreparedKnown ==
  ASSUME Basics, EngineInv, NEW p \in Callers, Prepared(p)
  PROVE  EngineInv'
<1>0. "prepare" \in IoAwaits /\ {"stopOld", "validate"} \subseteq IoAwaits
  BY DEF IoAwaits
<1>1. /\ Owns(p) /\ ~timer' /\ NoStrayEngine /\ StateMatchesEngine
      /\ call[p].want \in Recipes /\ call[p].want # NoRecipe
  BY <1>0, AtWork DEF Prepared
<1>2. NoStrayEngine'
  BY <1>1 DEF Prepared, processes, NoStrayEngine
<1>3. CASE handle # NoEngine
  <2>1. /\ state' \in {"FAILED", "EVICTING"} /\ UNCHANGED <<recipe, handle>>
        /\ Keep(p, At1(p, "stopOld"), FALSE)
    BY <1>3 DEF Prepared
  <2>2. StateMatchesEngine'
    BY <1>1, <1>3, <2>1 DEF StateMatchesEngine
  <2>3. Underway("stopOld")'
    BY <1>1, <1>3, <2>1 DEF Underway
  <2>. QED
    BY <1>0, <1>1, <1>2, <2>1, <2>2, <2>3, Settled, Keeps
<1>4. CASE handle = NoEngine
  <2>. DEFINE wake == state \notin {"FAILED", "UNLOADED"}
  <2>1. /\ state' = "PREPARING" /\ recipe' = call[p].want /\ handle' = handle
        /\ Keep(p, At1(p, "validate"), wake)
    BY <1>4 DEF Prepared
  <2>2. StateMatchesEngine'
    BY <1>1, <1>4, <2>1 DEF StateMatchesEngine
  <2>3. Underway("validate")' /\ wake \in BOOLEAN
    BY <1>1, <2>1 DEF Underway
  <2>. HIDE DEF wake
  <2>. QED
    BY <1>0, <1>1, <1>2, <2>1, <2>2, <2>3, Settled, Keeps
<1>. QED
  BY <1>3, <1>4

\* The old engine is forgotten once its stop was reported.
LEMMA StopOldKnown ==
  ASSUME Basics, TypeOK', EngineInv, NEW p \in Callers, NEW how \in StopOutcomes, StopOldReturns(p, how)
  PROVE  EngineInv'
<1>0. "stopOld" \in IoAwaits /\ "validate" \in IoAwaits
  BY DEF IoAwaits
<1>1. /\ Owns(p) /\ ~timer' /\ NoStrayEngine /\ StateMatchesEngine
      /\ call[p].want \in Recipes /\ call[p].want # NoRecipe
  BY <1>0, AtWork DEF StopOldReturns
<1>2. NoStrayEngine'
  BY <1>1, StopKnown DEF StopOldReturns
<1>3. CASE how = "threw"
  <2>1. Leave(p, Threw, FALSE) /\ UNCHANGED <<state, recipe, handle>>
    BY <1>3 DEF StopOldReturns, instance
  <2>2. StateMatchesEngine'
    BY <1>1, <2>1 DEF StateMatchesEngine
  <2>3. Threw.at # "stop"
    BY DEF Threw
  <2>. QED
    BY <1>1, <1>2, <2>1, <2>2, <2>3, Settled, Leaves
<1>4. CASE how # "threw"
  <2>. DEFINE wake == state # "FAILED"
  <2>1. /\ state' = "PREPARING" /\ recipe' = call[p].want /\ handle' = NoEngine
        /\ Keep(p, At1(p, "validate"), wake)
    BY <1>4 DEF StopOldReturns
  <2>2. StateMatchesEngine'
    BY <1>1, <2>1 DEF StateMatchesEngine
  <2>3. Underway("validate")' /\ wake \in BOOLEAN
    BY <1>1, <2>1 DEF Underway
  <2>. HIDE DEF wake
  <2>. QED
    BY <1>0, <1>1, <1>2, <2>1, <2>2, <2>3, Settled, Keeps
<1>. QED
  BY <1>3, <1>4

\* A load fails.
LEMMA FailsKnown ==
  ASSUME Basics, TypeOK', EngineInv, NEW p \in Callers, Owns(p), LoadFails(p),
         NoStrayEngine', recipe' # NoRecipe, ~timer'
  PROVE  EngineInv'
<1>1. state' = "FAILED" /\ Leave(p, Threw, FALSE)
  BY DEF LoadFails
<1>2. StateMatchesEngine'
  BY <1>1 DEF StateMatchesEngine
<1>3. Threw.at # "stop"
  BY DEF Threw
<1>. QED
  BY <1>1, <1>2, <1>3, Settled, Leaves

LEMMA ValidatedKnown ==
  ASSUME Basics, TypeOK', EngineInv, NEW p \in Callers, NEW ok \in BOOLEAN, Validated(p, ok)
  PROVE  EngineInv'
<1>0. "validate" \in IoAwaits /\ "start" \in IoAwaits
  BY DEF IoAwaits
<1>1. /\ Owns(p) /\ ~timer' /\ NoStrayEngine /\ StateMatchesEngine /\ Underway("validate")
      /\ recipe # NoRecipe
  BY <1>0, AtWork DEF Validated
<1>2. /\ UNCHANGED <<recipe, handle, alive, spared>>
      /\ \/ state' = "LOADING" /\ Keep(p, At1(p, "start"), FALSE)
         \/ LoadFails(p)
  BY DEF Validated, processes
<1>3. NoStrayEngine' /\ recipe' # NoRecipe
  BY <1>1, <1>2 DEF NoStrayEngine
<1>4. CASE state' = "LOADING" /\ Keep(p, At1(p, "start"), FALSE)
  <2>1. handle' = NoEngine
    BY <1>1, <1>2 DEF Underway, StateMatchesEngine
  <2>2. StateMatchesEngine' /\ Underway("start")'
    BY <1>1, <1>3, <1>4, <2>1 DEF StateMatchesEngine, Underway
  <2>. QED
    BY <1>0, <1>1, <1>3, <1>4, <2>2, Settled, Keeps
<1>5. CASE LoadFails(p)
  BY <1>1, <1>3, <1>5, FailsKnown
<1>. QED
  BY <1>2, <1>4, <1>5

\* The process that starts is the one the manager knows of.
LEMMA StartedKnown ==
  ASSUME Basics, TypeOK', EngineInv, NEW p \in Callers, NEW ok \in BOOLEAN, Started(p, ok)
  PROVE  EngineInv'
<1>0. "start" \in IoAwaits /\ "probe" \in IoAwaits
  BY DEF IoAwaits
<1>1. /\ Owns(p) /\ ~timer' /\ NoStrayEngine /\ Underway("start") /\ recipe' # NoRecipe
  BY <1>0, AtWork DEF Started
<1>2. alive \subseteq Engines /\ NoEngine \notin Engines
  BY EnginesAssumption DEF Basics, TypeOK
<1>3. CASE ok
  <2>1. PICK e \in Unused : /\ handle' = e /\ alive' = alive \cup {e} /\ spared' = spared
                            /\ Keep(p, At1(p, "probe"), FALSE) /\ state' = state
    BY <1>3 DEF Started
  <2>2. e # NoEngine
    BY <1>2 DEF Unused
  <2>3. NoStrayEngine'
    BY <1>1, <1>2, <2>1 DEF NoStrayEngine, Underway
  <2>4. state' = "LOADING"
    BY <1>1, <2>1 DEF Underway
  <2>5. StateMatchesEngine' /\ Underway("probe")'
    BY <1>1, <2>1, <2>2, <2>4 DEF StateMatchesEngine, Underway
  <2>. QED
    BY <1>0, <1>1, <2>1, <2>3, <2>5, Settled, Keeps
<1>4. CASE ~ok
  <2>1. LoadFails(p) /\ UNCHANGED <<handle, alive, spared>>
    BY <1>4 DEF Started, processes
  <2>2. NoStrayEngine'
    BY <1>1, <2>1 DEF NoStrayEngine
  <2>. QED
    BY <1>1, <2>1, <2>2, FailsKnown
<1>. QED
  BY <1>3, <1>4

LEMMA ProbedKnown ==
  ASSUME Basics, TypeOK', EngineInv, NEW p \in Callers, NEW ok \in BOOLEAN, Probed(p, ok)
  PROVE  EngineInv'
<1>0. "probe" \in IoAwaits /\ "cleanup" \in IoAwaits
  BY DEF IoAwaits
<1>1. /\ Owns(p) /\ ~timer /\ NoStrayEngine /\ Underway("probe")
      /\ recipe = call[p].want /\ recipe \in Recipes /\ recipe # NoRecipe /\ p \in Slots
  BY <1>0, AtWork DEF Probed
<1>2. state = "LOADING" /\ handle # NoEngine
  BY <1>1 DEF Underway
<1>3. \/ Grant(p, recipe, handle) /\ timer' = timer
      \/ /\ state' = "READY" /\ Leave(p, Returned, FALSE) /\ UNCHANGED <<recipe, handle, processes>>
         /\ timer' => Evicts(recipe)
      \/ Keep(p, At1(p, "cleanup"), FALSE) /\ UNCHANGED <<instance, timer, processes>>
  BY <1>1 DEF Probed, ScheduleEviction
<1>4. CASE Grant(p, recipe, handle) /\ timer' = timer
  BY <1>1, <1>2, <1>4, Grants
<1>5. CASE /\ state' = "READY" /\ Leave(p, Returned, FALSE) /\ UNCHANGED <<recipe, handle, processes>>
           /\ timer' => Evicts(recipe)
  <2>1. EnginesAreKnown'
    BY <1>1, <1>2, <1>5 DEF processes, EnginesAreKnown, NoStrayEngine, StateMatchesEngine
  <2>2. TimerInv'
    BY <1>5 DEF TimerInv, Evicts
  <2>3. Returned.at # "stop"
    BY DEF Returned
  <2>. QED
    BY <1>1, <1>5, <2>1, <2>2, <2>3, Leaves DEF Settings
<1>6. CASE Keep(p, At1(p, "cleanup"), FALSE) /\ UNCHANGED <<instance, timer, processes>>
  <2>1. Settings'
    BY <1>6, Unsettled DEF EngineInv, instance
  <2>2. Underway("cleanup")'
    BY <1>1, <1>2, <1>6 DEF Underway, instance
  <2>. QED
    BY <1>0, <1>1, <1>6, <2>1, <2>2, Keeps
<1>. QED
  BY <1>3, <1>4, <1>5, <1>6

\* The engine of a failed load is dropped after its stop.
LEMMA CleanedUpKnown ==
  ASSUME Basics, TypeOK', EngineInv, NEW p \in Callers, NEW how \in StopOutcomes, CleanedUp(p, how)
  PROVE  EngineInv'
<1>0. "cleanup" \in IoAwaits
  BY DEF IoAwaits
<1>1. Owns(p) /\ ~timer' /\ NoStrayEngine /\ recipe' # NoRecipe
  BY <1>0, AtWork DEF CleanedUp
<1>2. NoStrayEngine'
  BY <1>1, StopKnown DEF CleanedUp
<1>. QED
  BY <1>1, <1>2, FailsKnown DEF CleanedUp

\* A stop leaves a stopping instance, or none.
LEMMA StopsKnown ==
  ASSUME Basics, TypeOK', EngineInv, NEW p \in Callers
  PROVE  /\ StopUnlocked(p) => EngineInv'
         /\ \A how \in StopOutcomes : StopReturns(p, how) => EngineInv'
<1>0. "stopping" \in IoAwaits /\ Returned.at # "stop" /\ Threw.at # "stop"
  BY DEF IoAwaits, Returned, Threw
<1>1. NoStrayEngine /\ StateMatchesEngine
  BY DEF EngineInv, Settings, EnginesAreKnown
<1>2. ASSUME NEW wake \in BOOLEAN, Owns(p), ClearInstance("UNLOADED"), Leave(p, Returned, wake),
             NoStrayEngine', ~timer'
      PROVE  EngineInv'
  <2>1. StateMatchesEngine'
    BY <1>2 DEF ClearInstance, StateMatchesEngine
  <2>. QED
    BY <1>0, <1>2, <2>1, Settled, Leaves
<1>3. ASSUME StopUnlocked(p) PROVE EngineInv'
  <2>1. Owns(p) /\ ~timer' /\ UNCHANGED <<alive, spared>>
    BY <1>3 DEF StopUnlocked, At, CancelEviction, processes
  <2>2. \/ UNCHANGED instance /\ \E c \in {Returned, Threw} : Leave(p, c, FALSE)
        \/ handle = NoEngine /\ ClearInstance("UNLOADED") /\ Leave(p, Returned, TRUE)
        \/ /\ state # "UNLOADED" /\ handle # NoEngine /\ state' = "EVICTING"
           /\ UNCHANGED <<recipe, handle>> /\ Keep(p, At1(p, "stopping"), FALSE)
    BY <1>3 DEF StopUnlocked
  <2>3. CASE UNCHANGED instance /\ \E c \in {Returned, Threw} : Leave(p, c, FALSE)
    <3>1. Settings'
      BY <2>1, <2>3, Unsettled DEF EngineInv, instance, processes
    <3>. QED
      BY <1>0, <2>1, <2>3, <3>1, Leaves
  <2>4. CASE handle = NoEngine /\ ClearInstance("UNLOADED") /\ Leave(p, Returned, TRUE)
    <3>1. NoStrayEngine'
      BY <1>1, <2>1, <2>4 DEF NoStrayEngine, ClearInstance
    <3>. QED
      BY <1>2, <2>1, <2>4, <3>1
  <2>5. CASE /\ state # "UNLOADED" /\ handle # NoEngine /\ state' = "EVICTING"
             /\ UNCHANGED <<recipe, handle>> /\ Keep(p, At1(p, "stopping"), FALSE)
    <3>1. NoStrayEngine' /\ StateMatchesEngine'
      BY <1>1, <2>1, <2>5 DEF NoStrayEngine, StateMatchesEngine
    <3>2. Underway("stopping")'
      BY <2>1, <2>5 DEF Underway
    <3>. QED
      BY <1>0, <2>1, <2>5, <3>1, <3>2, Settled, Keeps
  <2>. QED
    BY <2>2, <2>3, <2>4, <2>5
<1>4. ASSUME NEW how \in StopOutcomes, StopReturns(p, how) PROVE EngineInv'
  <2>1. Owns(p) /\ ~timer'
    BY <1>0, <1>4, AtWork DEF StopReturns
  <2>2. NoStrayEngine'
    BY <1>1, <1>4, StopKnown DEF StopReturns
  <2>3. CASE how = "threw"
    <3>1. Leave(p, Threw, FALSE) /\ UNCHANGED <<state, recipe, handle>>
      BY <1>4, <2>3 DEF StopReturns, instance
    <3>2. StateMatchesEngine'
      BY <1>1, <3>1 DEF StateMatchesEngine
    <3>. QED
      BY <1>0, <2>1, <2>2, <3>1, <3>2, Settled, Leaves
  <2>4. CASE how # "threw"
    <3>1. ClearInstance("UNLOADED") /\ Leave(p, Returned, TRUE)
      BY <1>4, <2>4 DEF StopReturns
    <3>. QED
      BY <1>2, <2>1, <2>2, <3>1
  <2>. QED
    BY <2>3, <2>4
<1>. QED
  BY <1>3, <1>4

\* A generation ends.
LEMMA EndsKnown ==
  ASSUME Basics, EngineInv, NEW p \in Callers, NEW how, EndGeneration(p, how)
  PROVE  EngineInv'
<1>. DEFINE c == [call[p] EXCEPT !.at = "release", !.end = how]
<1>1. /\ Drained /\ call[p].at = "running" /\ Ask(p, c)
      /\ UNCHANGED <<instance, timer, pinned, processes>>
  BY DEF EndGeneration
<1>2. c.at = "release"
  BY DEF Basics, TypeOK, Calls
<1>. HIDE DEF c
<1>3. p # Evictor
  BY <1>1, CallersAssumption DEF Basics, Wants
<1>4. call[p].at \notin LockAwaits \cup IoAwaits /\ c.at \in LockAwaits
  BY <1>1, <1>2 DEF LockAwaits, IoAwaits
<1>. QED
  BY <1>1, <1>3, <1>4, Asks

\* A caller other than the eviction's callback begins a call.
LEMMA BeginKnown ==
  ASSUME Basics, EngineInv, NEW p \in Callers \ {Evictor}, NEW op, NEW r,
         NEW pos \in {"acquire", "ready", "stop"}, Begin(p, op, r, pos)
  PROVE  EngineInv'
<1>. DEFINE c == [Returned EXCEPT !.op = op, !.want = r, !.at = pos]
<1>1. /\ Drained /\ call[p].at \in {"returned", "threw"} /\ Ask(p, c)
      /\ UNCHANGED <<instance, timer, processes>>
  BY DEF Begin, Idle
<1>2. c.at = pos
  BY DEF Returned
<1>. HIDE DEF c
<1>3. call[p].at \notin LockAwaits \cup IoAwaits /\ c.at \in LockAwaits
  BY <1>1, <1>2 DEF LockAwaits, IoAwaits
<1>. QED
  BY <1>1, <1>3, Asks

LEMMA RequestsKnown ==
  ASSUME Basics, EngineInv
  PROVE  /\ \A p \in Slots : Requests(p) => EngineInv'
         /\ Stop(Admin) \/ (\E p \in Hosts : ForceStop(p)) => EngineInv'
<1>1. Slots \cup Hosts \cup {Admin} \subseteq Callers \ {Evictor}
  BY CallersAssumption DEF Callers
<1>2. ASSUME NEW p \in Slots, Requests(p) PROVE EngineInv'
  BY <1>1, <1>2, BeginKnown DEF Requests, Warm, Chat, Media, Restore, Stop
<1>3. ASSUME Stop(Admin) \/ (\E p \in Hosts : ForceStop(p)) PROVE EngineInv'
  BY <1>1, <1>3, BeginKnown DEF Stop, ForceStop
<1>. QED
  BY <1>2, <1>3

\* A step that leaves the lock and the instance alone; the calls keep their place.
LEMMA Unmoved ==
  ASSUME Basics, EngineInv, UNCHANGED <<instance, timer, lockQ>>, NoStrayEngine',
         lockQ # <<>> => call'[lockQ[1]].at = call[lockQ[1]].at,
         call'[Evictor].at = call[Evictor].at
  PROVE  EngineInv'
<1>1. UNCHANGED <<state, recipe, handle, leases>>
  BY DEF instance
<1>2. Settings'
  BY <1>1 DEF EngineInv, Settings, EnginesAreKnown, StateMatchesEngine, TimerInv
<1>3. EvictorInv'
  BY <1>1 DEF EngineInv, EvictorInv
<1>4. ASSUME lockQ # <<>> PROVE Underway(call[lockQ[1]].at)'
  <2>1. Underway(call[lockQ[1]].at)
    BY <1>4 DEF EngineInv
  <2>. QED
    BY <1>1, <1>4, <2>1 DEF Underway
<1>. QED
  BY <1>2, <1>3, <1>4 DEF EngineInv

LEMMA AbortKnown ==
  ASSUME Basics, EngineInv, NEW p \in Slots, Abort(p)
  PROVE  EngineInv'
<1>1. /\ call' = [call EXCEPT ![p] = Aborted(p)] /\ call \in [Callers -> Calls]
      /\ UNCHANGED <<instance, timer, lockQ, alive, spared>> /\ p # Evictor
      /\ p \in Callers /\ Evictor \in Callers
  BY CallersAssumption DEF Abort, Basics, TypeOK, processes, Callers
<1>2. call'[Evictor].at = call[Evictor].at
  BY <1>1
<1>3. NoStrayEngine'
  BY <1>1 DEF instance, EngineInv, Settings, EnginesAreKnown, NoStrayEngine
<1>4. call[p].at # "wait" => call'[p].at = call[p].at
  BY <1>1 DEF Aborted, Calls
<1>5. ASSUME lockQ # <<>> PROVE call'[lockQ[1]].at = call[lockQ[1]].at
  <2>1. 1 \in 1..Len(lockQ)
    BY <1>5, LockFacts, EmptySeq DEF Basics
  <2>2. lockQ[1] \in Callers /\ call[lockQ[1]].at # "wait"
    BY <2>1, LockFacts DEF Basics
  <2>3. CASE lockQ[1] = p
    BY <1>4, <2>2, <2>3
  <2>4. CASE lockQ[1] # p
    BY <1>1, <2>2, <2>4
  <2>. QED
    BY <2>3, <2>4
<1>. QED
  BY <1>1, <1>2, <1>3, <1>5, Unmoved

\* Evictions, pins, dying engines and stuttering.
LEMMA EnvironmentKnown ==
  ASSUME Basics, EngineInv
  PROVE  /\ EvictionFires => EngineInv'
         /\ (\E r \in Defaults : Pin(r)) \/ (\E e \in Engines : EngineDies(e)) \/ UNCHANGED vars
              => EngineInv'
<1>0. NoStrayEngine
  BY DEF EngineInv, Settings, EnginesAreKnown
<1>1. ASSUME EvictionFires PROVE EngineInv'
  <2>. DEFINE c == [Returned EXCEPT !.op = "graceful", !.at = "stop"]
  <2>1. /\ timer /\ ~timer' /\ Drained /\ call[Evictor].at \in {"returned", "threw"}
        /\ UNCHANGED <<state, recipe, handle, leases, alive, spared>>
    BY <1>1 DEF EvictionFires, Idle, instance, processes
  <2>2. NoStrayEngine'
    BY <1>0, <2>1 DEF NoStrayEngine
  <2>3. CASE UNCHANGED <<lockQ, waiters, call>>
    <3>1. Settings'
      BY <2>1, Unsettled DEF EngineInv, processes
    <3>2. EvictorInv'
      BY <2>1, <2>3 DEF EvictorInv
    <3>3. ASSUME lockQ # <<>> PROVE Underway(call[lockQ[1]].at)'
      <4>1. Underway(call[lockQ[1]].at)
        BY <3>3 DEF EngineInv
      <4>. QED
        BY <2>1, <2>3, <4>1 DEF Underway
    <3>. QED
      BY <2>3, <3>1, <3>2, <3>3 DEF EngineInv
  <2>4. CASE leases = 0 /\ state = "READY" /\ Ask(Evictor, c)
    <3>1. c.at = "stop"
      BY DEF Returned
    <3>. HIDE DEF c
    <3>2. call[Evictor].at \notin LockAwaits \cup IoAwaits /\ c.at \in LockAwaits
      BY <2>1, <3>1 DEF LockAwaits, IoAwaits
    <3>3. lockQ = <<>>
      BY <2>1 DEF EngineInv, Underway, Drained
    <3>4. Evictor \in Callers /\ UNCHANGED <<instance, processes>>
      BY <2>1 DEF Callers, instance, processes
    <3>. QED
      BY <2>1, <2>4, <3>2, <3>3, <3>4, Asks
  <2>. QED
    BY <1>1, <2>3, <2>4 DEF EvictionFires
<1>2. ASSUME NEW r \in Defaults, Pin(r) PROVE EngineInv'
  <2>1. NoStrayEngine'
    BY <1>0, <1>2 DEF Pin, instance, processes, NoStrayEngine
  <2>. QED
    BY <1>2, <2>1, Unmoved DEF Pin
<1>3. ASSUME NEW e \in Engines, EngineDies(e) PROVE EngineInv'
  <2>1. NoStrayEngine'
    BY <1>0, <1>3 DEF EngineDies, instance, NoStrayEngine
  <2>. QED
    BY <1>3, <2>1, Unmoved DEF EngineDies
<1>4. ASSUME UNCHANGED vars PROVE EngineInv'
  <2>1. NoStrayEngine'
    BY <1>0, <1>4 DEF vars, NoStrayEngine
  <2>. QED
    BY <1>4, <2>1, Unmoved DEF vars, instance
<1>. QED
  BY <1>1, <1>2, <1>3, <1>4

LEMMA KnownInit == Begins => EngineInv
<1>. SUFFICES ASSUME Begins PROVE EngineInv
  OBVIOUS
<1>1. /\ state = "UNLOADED" /\ recipe = NoRecipe /\ handle = NoEngine /\ timer = FALSE
      /\ lockQ = <<>> /\ alive = {} /\ call[Evictor] = Returned
  BY DEF Begins, Fresh, Callers
<1>2. Returned.at = "returned"
  BY DEF Returned
<1>3. Settings
  BY <1>1 DEF Settings, EnginesAreKnown, NoStrayEngine, StateMatchesEngine, TimerInv
<1>. QED
  BY <1>1, <1>2, <1>3 DEF EngineInv, EvictorInv

LEMMA OrdinaryKnown ==
  ASSUME Basics, EngineInv, NEW p \in Callers, Ordinary(p)
  PROVE  EngineInv'
<1>0. TypeOK'
  BY TypeStep DEF Basics, Ordinary, Next, Progress
<1>1. CASE Acquire(p) \/ EnsureReady(p) \/ Prepared(p) \/ Release(p) \/ StopUnlocked(p)
  BY <1>0, <1>1, AcquireKnown, PreparedKnown, ReleaseKnown, StopsKnown
<1>2. CASE \E ok \in BOOLEAN : Validated(p, ok) \/ Started(p, ok) \/ Probed(p, ok)
  BY <1>0, <1>2, ValidatedKnown, StartedKnown, ProbedKnown
<1>3. CASE \E how \in StopOutcomes : StopOldReturns(p, how) \/ CleanedUp(p, how) \/ StopReturns(p, how)
  BY <1>0, <1>3, StopOldKnown, CleanedUpKnown, StopsKnown
<1>4. CASE \E how \in {"completed", "rejected", "failed"} : EndGeneration(p, how)
  BY <1>4, EndsKnown
<1>. QED
  BY <1>1, <1>2, <1>3, <1>4 DEF Ordinary

LEMMA OutsideKnown ==
  ASSUME Basics, EngineInv, Outside
  PROVE  EngineInv'
<1>1. ASSUME NEW p \in Slots, Requests(p) \/ Abort(p) PROVE EngineInv'
  BY <1>1, RequestsKnown, AbortKnown
<1>2. CASE Stop(Admin) \/ (\E p \in Hosts : ForceStop(p))
  BY <1>2, RequestsKnown
<1>3. CASE EvictionFires
  BY <1>3, EnvironmentKnown
<1>4. CASE (\E r \in Defaults : Pin(r)) \/ (\E e \in Engines : EngineDies(e)) \/ UNCHANGED vars
  BY <1>4, EnvironmentKnown
<1>. QED
  BY <1>1, <1>2, <1>3, <1>4 DEF Outside

LEMMA KnownStep ==
  ASSUME ~ThermalTrips, IInv, EngineInv, [Next]_vars
  PROVE  EngineInv'
BY OrdinarySteps, IInvBasics, OrdinaryKnown, OutsideKnown

LEMMA EnginesKept == ~ThermalTrips /\ Spec => []EngineInv
<1>. DEFINE J == ~ThermalTrips /\ IInv /\ EngineInv
<1>1. ~ThermalTrips /\ Init => J
  BY InitBegins, InitInv, KnownInit
<1>2. J /\ [Next]_vars => J'
  BY StepInv, KnownStep
<1>3. J => EngineInv
  OBVIOUS
<1>. HIDE DEF J
<1>. QED
  BY <1>1, <1>2, <1>3, PTL DEF Spec

LEMMA EnginesFacts == EngineInv => EnginesAreKnown /\ EvictionFindsIdle
BY DEF EngineInv, Settings, TimerInv, EvictorInv, EvictionFindsIdle, At

\* No engine is lost and the state says what is there (#loadRecipe, #stopUnlocked,
\* #transition): for any number of executors, recipes and engines and whatever
\* stopping an engine does, every process is the one the manager knows of or one
\* whose stop was reported to have failed, on a machine whose thermal guard does
\* not fire.
THEOREM EnginesStayKnown == ~ThermalTrips /\ Spec => []EnginesAreKnown
BY EnginesFacts, EnginesKept, PTL

\* #scheduleEviction, #cancelEviction: the timer is armed only on an idle instance that
\* may be evicted, and its callback still finds it idle when its turn under the
\* lock comes, although it does not look again; with any Defaults, re-pinned at any
\* time.
THEOREM EvictionMeetsIdle == ~ThermalTrips /\ Spec => []EvictionFindsIdle
BY EnginesFacts, EnginesKept, PTL

-----------------------------------------------------------------------------
(* An idle instance is evicted                                             *)

\* One text recipe may be pinned, so a re-pin does not change the pin.
OneDefault == \A r, s \in Defaults : r = s

\* What a call is for: who restores, restores what is pinned.
Sensible(c) ==
  /\ c.at \notin {"returned", "threw", "stop", "stopping"} => c.op \in {"chat", "media", "warm", "restore"}
  /\ c.at = "ready" => c.op \in {"warm", "restore"}
  /\ c.op = "restore" => pinned # NoRecipe /\ c.want = pinned
CallsInv == \A p \in Callers : Sensible(call[p])

\* An idle instance that may be evicted has its timer armed, or the owner of the
\* lock is about to replace or to stop it.
TimelyInv ==
  state = "READY" /\ Evicts(recipe) /\ ~timer =>
    lockQ # <<>> /\ (call[lockQ[1]].at = "prepare" \/ lockQ[1] = Evictor)

\* The calls other than p's stay as they were or are woken.
Others(p) == \A q \in Callers \ {p} : call'[q] \in {call[q], Woken(call[q])}

LEMMA OthersUpdate ==
  ASSUME NEW p \in Callers, NEW c, NEW wake \in BOOLEAN, Update(p, c, wake)
  PROVE  call'[p] = c /\ Others(p)
  BY DEF Update, Others

LEMMA OthersAsk ==
  ASSUME TypeOK, NEW p \in Callers, NEW c, Ask(p, c)
  PROVE  call'[p] = c /\ Others(p)
  BY DEF Ask, Others, TypeOK

LEMMA WokenSensible ==
  ASSUME NEW c \in Calls, Sensible(c), c.at = "wait"
  PROVE  Sensible(Woken(c))
<1>1. c.op \in {"chat", "media", "warm", "restore"}
  BY DEF Sensible
<1>2. Woken(c).op = c.op /\ Woken(c).want = c.want
  BY WokenParts
<1>3. Woken(c).at = IF c.op \in {"chat", "media"} THEN "acquire" ELSE "ready"
  BY DEF Woken, Calls
<1>. QED
  BY <1>1, <1>2, <1>3 DEF Sensible

\* p goes on with what it is about, or its call ends.
Goes(p, c) ==
  \/ c \in {Returned, Threw}
  \/ /\ c.op = call[p].op /\ c.want = call[p].want /\ c.at # "ready"
     /\ \/ c.at \in {"returned", "threw", "stop", "stopping"}
        \/ call[p].at \notin {"returned", "threw", "stop", "stopping"}

LEMMA GoesSensible ==
  ASSUME NEW p \in Callers, NEW c, Sensible(call[p]), Goes(p, c)
  PROVE  Sensible(c)
<1>1. Returned.op = "none" /\ Threw.op = "none" /\ Returned.at = "returned" /\ Threw.at = "threw"
  BY DEF Returned, Threw
<1>. QED
  BY <1>1 DEF Goes, Sensible

\* Only waiting calls are woken.
LEMMA WokenWait ==
  ASSUME TypeOK, LockInv, NEW p \in Callers, NEW c, NEW wake \in BOOLEAN, Update(p, c, wake),
         NEW q \in Callers \ {p}, call'[q] # call[q]
  PROVE  call[q].at = "wait" /\ call'[q] = Woken(call[q])
<1>1. wake /\ q \in ToSet(waiters) /\ call'[q] = Woken(call[q])
  BY DEF Update
<1>. QED
  BY <1>1, LockFacts

\* A caller's step, under the lock or when it asks for it.
LEMMA SensibleStep ==
  ASSUME Basics, CallsInv, NEW p \in Callers, NEW c, NEW wake \in BOOLEAN,
         Update(p, c, wake) \/ Ask(p, c), Sensible(c), pinned' = pinned
  PROVE  CallsInv'
<1>. SUFFICES ASSUME NEW q \in Callers PROVE Sensible(call'[q])
  BY DEF CallsInv, Sensible
<1>0. call[q] \in Calls /\ Sensible(call[q])
  BY DEF CallsInv, Basics, TypeOK
<1>1. CASE q = p
  BY <1>1, OthersUpdate, OthersAsk DEF Basics
<1>2. CASE q # p /\ call'[q] = call[q]
  BY <1>0, <1>2
<1>3. CASE q # p /\ call'[q] # call[q]
  <2>1. Update(p, c, wake)
    <3>1. CASE Ask(p, c)
      BY <1>3, <3>1 DEF Ask, Basics, TypeOK
    <3>. QED
      BY <3>1
  <2>2. call[q].at = "wait" /\ call'[q] = Woken(call[q])
    BY <1>3, <2>1, WokenWait DEF Basics
  <2>. QED
    BY <1>0, <2>2, WokenSensible
<1>. QED
  BY <1>1, <1>2, <1>3

\* Every step of a call under way.
LEMMA UnderwayGoes ==
  ASSUME TypeOK, NEW p \in Callers, Ordinary(p)
  PROVE  /\ pinned' = pinned
         /\ \E c : \E wake \in BOOLEAN : Goes(p, c) /\ (Update(p, c, wake) \/ Ask(p, c))
<1>. DEFINE Over == {"returned", "threw", "stop", "stopping"}
           Done == \E c : \E wake \in BOOLEAN : Goes(p, c) /\ (Update(p, c, wake) \/ Ask(p, c))
<1>0. call[p] \in Calls
  BY DEF TypeOK
<1>1. \A c, w : Keep(p, c, w) \/ Leave(p, c, w) => Update(p, c, w)
  BY DEF Keep, Leave
<1>2. Goes(p, Returned) /\ Goes(p, Threw)
  BY DEF Goes
<1>3. \A pos : (pos # "ready" /\ (pos = "stopping" \/ call[p].at \notin Over)) => Goes(p, At1(p, pos))
  BY Written DEF Goes
<1>4. ASSUME WaitForLease(p), call[p].at \notin Over PROVE Done
  <2>1. \/ Update(p, Threw, FALSE) \/ Update(p, At1(p, "wait"), FALSE)
    BY <1>1, <1>4 DEF WaitForLease
  <2>2. Goes(p, At1(p, "wait"))
    BY <1>3, <1>4
  <2>. QED
    BY <1>2, <2>1, <2>2
<1>5. ASSUME NEW r, NEW h, Grant(p, r, h), call[p].at \notin Over PROVE Done
  <2>. DEFINE c1 == [call[p] EXCEPT !.held = h, !.at = "release", !.end = "rejected"]
             c2 == [call[p] EXCEPT !.held = h, !.at = "running"]
  <2>1. Update(p, c1, FALSE) \/ Update(p, c2, FALSE)
    BY <1>5 DEF Grant
  <2>2. /\ c1.op = call[p].op /\ c1.want = call[p].want /\ c1.at = "release"
        /\ c2.op = call[p].op /\ c2.want = call[p].want /\ c2.at = "running"
    BY <1>0 DEF Calls
  <2>. HIDE DEF c1, c2
  <2>3. Goes(p, c1) /\ Goes(p, c2)
    BY <1>5, <2>2 DEF Goes
  <2>. QED
    BY <2>1, <2>3
<1>6. ASSUME BeginLoad(p), call[p].at \notin Over PROVE Done
  <2>1. Update(p, At1(p, "prepare"), FALSE) /\ Goes(p, At1(p, "prepare"))
    BY <1>1, <1>3, <1>6 DEF BeginLoad
  <2>. QED
    BY <2>1
<1>7. ASSUME LoadFails(p) PROVE Done
  BY <1>1, <1>2, <1>7 DEF LoadFails
<1>8. CASE Acquire(p)
  <2>1. call[p].at \notin Over /\ pinned' = pinned
    BY <1>8 DEF Acquire, At, Grant, BeginLoad
  <2>2. \/ Leave(p, Threw, FALSE) \/ Grant(p, call[p].want, handle)
        \/ WaitForLease(p) \/ BeginLoad(p)
    BY <1>8 DEF Acquire
  <2>3. CASE Leave(p, Threw, FALSE)
    BY <1>1, <1>2, <2>1, <2>3
  <2>. QED
    BY <1>4, <1>5, <1>6, <2>1, <2>2, <2>3
<1>9. CASE EnsureReady(p)
  <2>1. call[p].at \notin Over /\ pinned' = pinned
    BY <1>9 DEF EnsureReady, At, BeginLoad
  <2>2. Leave(p, Returned, FALSE) \/ WaitForLease(p) \/ BeginLoad(p)
    BY <1>9 DEF EnsureReady
  <2>3. CASE Leave(p, Returned, FALSE)
    BY <1>1, <1>2, <2>1, <2>3
  <2>. QED
    BY <1>4, <1>6, <2>1, <2>2, <2>3
<1>10. CASE Prepared(p)
  <2>. DEFINE w == state \notin {"FAILED", "UNLOADED"}
  <2>1. call[p].at \notin Over /\ pinned' = pinned
    BY <1>10 DEF Prepared, At
  <2>2. w \in BOOLEAN /\ (Keep(p, At1(p, "stopOld"), FALSE) \/ Keep(p, At1(p, "validate"), w))
    BY <1>10 DEF Prepared
  <2>. HIDE DEF w
  <2>3. Goes(p, At1(p, "stopOld")) /\ Goes(p, At1(p, "validate"))
    BY <1>3, <2>1
  <2>. QED
    BY <1>1, <2>1, <2>2, <2>3
<1>11. CASE Release(p)
  <2>. DEFINE c == IF call[p].end = "completed" THEN Returned ELSE Threw
             w == (IF leases = 0 THEN 0 ELSE leases - 1) = 0
  <2>1. Leave(p, c, w) /\ pinned' = pinned
    BY <1>11 DEF Release
  <2>2. c \in {Returned, Threw} /\ w \in BOOLEAN
    OBVIOUS
  <2>. HIDE DEF c, w
  <2>. QED
    BY <1>1, <1>2, <2>1, <2>2
<1>12. CASE StopUnlocked(p)
  <2>1. pinned' = pinned
    BY <1>12 DEF StopUnlocked
  <2>2. \/ \E c \in {Returned, Threw} : Leave(p, c, FALSE)
        \/ Leave(p, Returned, TRUE)
        \/ Keep(p, At1(p, "stopping"), FALSE)
    BY <1>12 DEF StopUnlocked
  <2>3. Goes(p, At1(p, "stopping"))
    BY <1>3
  <2>. QED
    BY <1>1, <1>2, <2>1, <2>2, <2>3
<1>13. CASE \E ok \in BOOLEAN : Validated(p, ok)
  <2>1. call[p].at \notin Over /\ pinned' = pinned
        /\ (Keep(p, At1(p, "start"), FALSE) \/ LoadFails(p))
    BY <1>13 DEF Validated, At
  <2>2. Goes(p, At1(p, "start"))
    BY <1>3, <2>1
  <2>. QED
    BY <1>1, <1>7, <2>1, <2>2
<1>14. CASE \E ok \in BOOLEAN : Started(p, ok)
  <2>1. call[p].at \notin Over /\ pinned' = pinned
        /\ (Keep(p, At1(p, "probe"), FALSE) \/ LoadFails(p))
    BY <1>14 DEF Started, At
  <2>2. Goes(p, At1(p, "probe"))
    BY <1>3, <2>1
  <2>. QED
    BY <1>1, <1>7, <2>1, <2>2
<1>15. CASE \E ok \in BOOLEAN : Probed(p, ok)
  <2>1. call[p].at \notin Over /\ pinned' = pinned
        /\ \/ Grant(p, recipe, handle) \/ Leave(p, Returned, FALSE)
           \/ Keep(p, At1(p, "cleanup"), FALSE)
    BY <1>15 DEF Probed, At, Grant
  <2>2. Goes(p, At1(p, "cleanup"))
    BY <1>3, <2>1
  <2>. QED
    BY <1>1, <1>2, <1>5, <2>1, <2>2
<1>16. CASE \E how \in StopOutcomes : StopOldReturns(p, how)
  <2>. DEFINE w == state # "FAILED"
  <2>1. call[p].at \notin Over /\ pinned' = pinned /\ w \in BOOLEAN
        /\ (Leave(p, Threw, FALSE) \/ Keep(p, At1(p, "validate"), w))
    BY <1>16 DEF StopOldReturns, At
  <2>. HIDE DEF w
  <2>2. Goes(p, At1(p, "validate"))
    BY <1>3, <2>1
  <2>. QED
    BY <1>1, <1>2, <2>1, <2>2
<1>17. CASE \E how \in StopOutcomes : CleanedUp(p, how)
  BY <1>7, <1>17 DEF CleanedUp
<1>18. CASE \E how \in StopOutcomes : StopReturns(p, how)
  <2>1. pinned' = pinned /\ (Leave(p, Threw, FALSE) \/ Leave(p, Returned, TRUE))
    BY <1>18 DEF StopReturns
  <2>. QED
    BY <1>1, <1>2, <2>1
<1>19. CASE \E how \in {"completed", "rejected", "failed"} : EndGeneration(p, how)
  <2>1. PICK how \in {"completed", "rejected", "failed"} : EndGeneration(p, how)
    BY <1>19
  <2>. DEFINE c == [call[p] EXCEPT !.at = "release", !.end = how]
  <2>2. Ask(p, c) /\ pinned' = pinned /\ call[p].at = "running"
    BY <2>1 DEF EndGeneration
  <2>3. c.op = call[p].op /\ c.want = call[p].want /\ c.at = "release"
    BY <1>0 DEF Calls
  <2>. HIDE DEF c
  <2>4. Goes(p, c)
    BY <2>2, <2>3 DEF Goes
  <2>. QED
    BY <2>2, <2>4
<1>. QED
  BY <1>8, <1>9, <1>10, <1>11, <1>12, <1>13, <1>14, <1>15, <1>16, <1>17, <1>18, <1>19 DEF Ordinary

\* A call that begins is for what it says.
LEMMA BeginSensible ==
  ASSUME Basics, CallsInv, NEW p \in Callers, NEW op, NEW r,
         NEW pos \in {"acquire", "ready", "stop"}, Begin(p, op, r, pos),
         pos = "acquire" => op \in {"chat", "media"},
         pos = "ready" => op = "warm" \/ (op = "restore" /\ r = pinned /\ pinned # NoRecipe),
         pos = "stop" => op \in {"graceful", "force"}
  PROVE  CallsInv'
<1>. DEFINE c == [Returned EXCEPT !.op = op, !.want = r, !.at = pos]
<1>1. Ask(p, c) /\ pinned' = pinned
  BY DEF Begin
<1>2. c.op = op /\ c.want = r /\ c.at = pos
  BY DEF Returned
<1>. HIDE DEF c
<1>3. Sensible(c)
  BY <1>2 DEF Sensible
<1>. QED
  BY <1>1, <1>3, SensibleStep

LEMMA RequestsSensible ==
  ASSUME Basics, CallsInv
  PROVE  /\ \A p \in Slots : Requests(p) => CallsInv'
         /\ Stop(Admin) \/ (\E p \in Hosts : ForceStop(p)) => CallsInv'
<1>1. Slots \cup Hosts \cup {Admin} \subseteq Callers
  BY DEF Callers
<1>2. ASSUME NEW p \in Slots, Requests(p) PROVE CallsInv'
  BY <1>1, <1>2, BeginSensible DEF Requests, Warm, Chat, Media, Restore, Stop
<1>3. ASSUME Stop(Admin) \/ (\E p \in Hosts : ForceStop(p)) PROVE CallsInv'
  BY <1>1, <1>3, BeginSensible DEF Stop, ForceStop
<1>. QED
  BY <1>2, <1>3

\* An abort changes nothing of what a call is for.
LEMMA AbortSensible ==
  ASSUME Basics, CallsInv, NEW p \in Slots, Abort(p)
  PROVE  CallsInv'
<1>1. /\ p \in Callers /\ call' = [call EXCEPT ![p] = Aborted(p)] /\ pinned' = pinned
      /\ call \in [Callers -> Calls] /\ call[p] \in Calls
  BY DEF Abort, Callers, Basics, TypeOK
<1>2. Sensible(Aborted(p))
  <2>1. CASE call[p].at = "wait"
    <3>1. Aborted(p) = Threw /\ Threw.at = "threw" /\ Threw.op = "none"
      BY <2>1 DEF Aborted, Threw, Returned
    <3>. QED
      BY <3>1 DEF Sensible
  <2>2. CASE call[p].at # "wait"
    <3>. DEFINE c == [call[p] EXCEPT !.aborted = TRUE]
    <3>1. c.at = call[p].at /\ c.op = call[p].op /\ c.want = call[p].want
      BY <1>1 DEF Calls
    <3>2. Aborted(p) = c
      BY <2>2 DEF Aborted
    <3>. HIDE DEF c
    <3>. QED
      BY <1>1, <3>1, <3>2 DEF CallsInv, Sensible
  <2>. QED
    BY <2>1, <2>2
<1>3. \A q \in Callers : call'[q] = IF q = p THEN Aborted(p) ELSE call[q]
  BY <1>1
<1>. QED
  BY <1>1, <1>2, <1>3 DEF CallsInv, Sensible

\* With one Default the pin changes once at most, and not for who restores.
LEMMA EnvironmentSensible ==
  ASSUME OneDefault, Basics, CallsInv
  PROVE  /\ EvictionFires => CallsInv'
         /\ (\E r \in Defaults : Pin(r)) \/ (\E e \in Engines : EngineDies(e)) \/ UNCHANGED vars
              => CallsInv'
<1>1. ASSUME EvictionFires PROVE CallsInv'
  <2>. DEFINE c == [Returned EXCEPT !.op = "graceful", !.at = "stop"]
  <2>1. pinned' = pinned /\ Evictor \in Callers
    BY <1>1 DEF EvictionFires, Callers
  <2>2. CASE Ask(Evictor, c)
    <3>1. c.at = "stop" /\ c.op = "graceful"
      BY DEF Returned
    <3>. HIDE DEF c
    <3>2. Sensible(c)
      BY <3>1 DEF Sensible
    <3>. QED
      BY <2>1, <2>2, <3>2, SensibleStep
  <2>3. CASE UNCHANGED <<lockQ, waiters, call>>
    BY <2>1, <2>3 DEF CallsInv, Sensible
  <2>. QED
    BY <1>1, <2>2, <2>3 DEF EvictionFires
<1>2. ASSUME NEW r \in Defaults, Pin(r) PROVE CallsInv'
  <2>1. call' = call /\ (pinned # NoRecipe => pinned' = pinned)
    BY <1>2 DEF Pin, OneDefault, Basics, TypeOK
  <2>. QED
    BY <2>1 DEF CallsInv, Sensible
<1>3. ASSUME (\E e \in Engines : EngineDies(e)) \/ UNCHANGED vars PROVE CallsInv'
  <2>1. call' = call /\ pinned' = pinned
    BY <1>3 DEF EngineDies, vars
  <2>. QED
    BY <2>1 DEF CallsInv, Sensible
<1>. QED
  BY <1>1, <1>2, <1>3

\* The steps of the calls under way.
LEMMA UnderwaySensible ==
  ASSUME Basics, CallsInv, NEW p \in Callers, Ordinary(p)
  PROVE  CallsInv'
<1>1. pinned' = pinned
  BY UnderwayGoes DEF Basics
<1>2. PICK c : \E wake \in BOOLEAN : Goes(p, c) /\ (Update(p, c, wake) \/ Ask(p, c))
  BY UnderwayGoes DEF Basics
<1>3. Sensible(c)
  BY <1>2, GoesSensible DEF CallsInv
<1>. QED
  BY <1>1, <1>2, <1>3, SensibleStep

-----------------------------------------------------------------------------
\* A step that does not leave an idle instance.
LEMMA NotIdle ==
  ASSUME state' # "READY" \/ timer'
  PROVE  TimelyInv'
  BY DEF TimelyInv

\* An executor's step under the lock may not leave it with its timer disarmed.
LEMMA TimelyHead ==
  ASSUME Basics, TimelyInv, NEW p \in Slots, Owns(p), call[p].at # "prepare",
         state = "READY", Evicts(recipe)
  PROVE  timer
<1>1. p # Evictor
  BY CallersAssumption
<1>. QED
  BY <1>1, HeadFacts DEF TimelyInv, Basics

\* The head of the chain stays, and what it awaits.
LEMMA HeadStays ==
  ASSUME TimelyInv, UNCHANGED <<state, recipe>>, timer => timer',
         Evicts(recipe)' => Evicts(recipe),
         lockQ # <<>> => /\ lockQ' # <<>> /\ lockQ'[1] = lockQ[1]
                         /\ call'[lockQ[1]].at = call[lockQ[1]].at
  PROVE  TimelyInv'
  BY DEF TimelyInv

\* #loadRecipe() begins on an idle instance, to replace it.
LEMMA LoadTimely ==
  ASSUME Basics, NEW p \in Callers, Owns(p), BeginLoad(p)
  PROVE  TimelyInv'
<1>. DEFINE c == At1(p, "prepare")
<1>1. c.at = "prepare" /\ "prepare" \in IoAwaits
  BY Written DEF Basics, IoAwaits
<1>2. Keep(p, c, FALSE)
  BY DEF BeginLoad
<1>. HIDE DEF c
<1>3. lockQ' # <<>> /\ lockQ'[1] = p /\ call'[p] = c
  BY <1>1, <1>2, KeepLock DEF Basics
<1>. QED
  BY <1>1, <1>3 DEF TimelyInv

\* Who restores, restores the Default, which is not evicted.
LEMMA RestoredStays ==
  ASSUME Basics, CallsInv, NEW p \in Callers, call[p].at \in {"ready", "probe"},
         call[p].op \notin {"chat", "media", "warm"}
  PROVE  ~Evicts(call[p].want)
<1>1. call[p].want = pinned /\ pinned \in Defaults
  BY DEF CallsInv, Sensible, Basics, TypeOK
<1>. QED
  BY <1>1, RecipesAssumption DEF Evicts

LEMMA AcquireTimely ==
  ASSUME Basics, EngineInv, TimelyInv, NEW p \in Callers, Acquire(p)
  PROVE  TimelyInv'
<1>1. Owns(p) /\ p \in Slots /\ call[p].at = "acquire"
  BY Looks DEF Acquire, At
<1>2. state \in {"READY", "BUSY"} => handle # NoEngine
  BY DEF EngineInv, Settings, EnginesAreKnown, StateMatchesEngine
<1>3. \/ UNCHANGED <<state, recipe, timer, pinned>>
      \/ state' = "BUSY"
      \/ BeginLoad(p)
  BY <1>2 DEF Acquire, instance, Grant
<1>4. CASE UNCHANGED <<state, recipe, timer, pinned>>
  BY <1>1, <1>4, TimelyHead DEF TimelyInv, Evicts
<1>5. CASE state' = "BUSY"
  BY <1>5, NotIdle
<1>6. CASE BeginLoad(p)
  BY <1>1, <1>6, LoadTimely
<1>. QED
  BY <1>3, <1>4, <1>5, <1>6

LEMMA EnsureReadyTimely ==
  ASSUME Basics, EngineInv, CallsInv, TimelyInv, NEW p \in Callers, EnsureReady(p)
  PROVE  TimelyInv'
<1>1. Owns(p) /\ call[p].at = "ready"
  BY DEF EnsureReady, At
<1>2. \/ /\ UNCHANGED <<state, recipe, pinned>> /\ recipe = call[p].want
         /\ timer' = (call[p].op = "warm" /\ state = "READY" /\ Evicts(recipe))
      \/ state' = "BUSY"
      \/ BeginLoad(p)
  BY DEF EnsureReady, instance
<1>3. CASE /\ UNCHANGED <<state, recipe, pinned>> /\ recipe = call[p].want
           /\ timer' = (call[p].op = "warm" /\ state = "READY" /\ Evicts(recipe))
  <2>1. CASE call[p].op = "warm"
    BY <1>3, <2>1 DEF TimelyInv, Evicts
  <2>2. CASE call[p].op # "warm"
    <3>1. call[p].op \notin {"chat", "media", "warm"}
      BY <1>1, <2>2 DEF CallsInv, Sensible
    <3>2. ~Evicts(recipe)'
      BY <1>1, <1>3, <3>1, RestoredStays DEF Evicts
    <3>. QED
      BY <3>2 DEF TimelyInv
  <2>. QED
    BY <2>1, <2>2
<1>4. CASE state' = "BUSY"
  BY <1>4, NotIdle
<1>5. CASE BeginLoad(p)
  BY <1>1, <1>5, LoadTimely
<1>. QED
  BY <1>2, <1>3, <1>4, <1>5

\* The steps of a load and of a stop leave no idle instance, but for the one that
\* has just answered.
LEMMA LoadingTimely ==
  ASSUME Basics, EngineInv, CallsInv, TimelyInv, NEW p \in Callers,
         \/ Prepared(p) \/ Release(p) \/ StopUnlocked(p)
         \/ \E ok \in BOOLEAN : Validated(p, ok) \/ Started(p, ok) \/ Probed(p, ok)
         \/ \E how \in StopOutcomes : StopOldReturns(p, how) \/ CleanedUp(p, how) \/ StopReturns(p, how)
  PROVE  TimelyInv'
<1>0. {"stopOld", "start", "probe", "stopping"} \subseteq IoAwaits
  BY DEF IoAwaits
<1>1. \A pos \in {"stopOld", "start", "probe", "stopping"} : At(p, pos) => Underway(pos)
  BY <1>0, AtWork
<1>2. CASE Prepared(p)
  BY <1>2, NotIdle DEF Prepared
<1>3. CASE Release(p)
  <2>1. CASE state = "BUSY"
    <3>1. \/ state' # "READY"
          \/ /\ UNCHANGED <<recipe, pinned>> /\ ScheduleEviction("READY", recipe)
      BY <1>3, <2>1 DEF Release
    <3>. QED
      BY <3>1 DEF ScheduleEviction, TimelyInv, Evicts
  <2>2. CASE state # "BUSY"
    <3>1. Owns(p) /\ p \in Slots /\ call[p].at # "prepare"
      BY <1>3 DEF Release, At, Basics, Wants
    <3>2. UNCHANGED <<state, recipe, timer, pinned>>
      BY <1>3, <2>2 DEF Release
    <3>. QED
      BY <3>1, <3>2, TimelyHead DEF TimelyInv, Evicts
  <2>. QED
    BY <2>1, <2>2
<1>4. CASE StopUnlocked(p)
  <2>1. state' # "READY"
    BY <1>4 DEF StopUnlocked, ClearInstance, instance
  <2>. QED
    BY <2>1, NotIdle
<1>5. ASSUME NEW ok \in BOOLEAN, Validated(p, ok) PROVE TimelyInv'
  BY <1>5, NotIdle DEF Validated, LoadFails
<1>6. ASSUME NEW ok \in BOOLEAN, Started(p, ok) PROVE TimelyInv'
  <2>1. state = "LOADING"
    BY <1>1, <1>6 DEF Started, Underway
  <2>. QED
    BY <1>6, <2>1, NotIdle DEF Started, LoadFails
<1>7. ASSUME NEW ok \in BOOLEAN, Probed(p, ok) PROVE TimelyInv'
  <2>1. At(p, "probe") /\ state = "LOADING" /\ recipe = call[p].want
    BY <1>0, <1>1, <1>7, AtWork DEF Probed, Underway
  <2>2. \/ state' # "READY"
        \/ /\ UNCHANGED <<recipe, pinned>> /\ call[p].op \notin {"chat", "media"}
           /\ call[p].op = "warm" => ScheduleEviction("READY", recipe)
    BY <1>7, <2>1 DEF Probed, Grant, instance
  <2>3. CASE state' # "READY"
    BY <2>3, NotIdle
  <2>4. CASE /\ UNCHANGED <<recipe, pinned>> /\ call[p].op \notin {"chat", "media"}
             /\ call[p].op = "warm" => ScheduleEviction("READY", recipe)
    <3>1. CASE call[p].op = "warm"
      BY <2>4, <3>1 DEF ScheduleEviction, TimelyInv, Evicts
    <3>2. CASE call[p].op # "warm"
      <4>1. ~Evicts(recipe)
        BY <2>1, <2>4, <3>2, RestoredStays DEF At
      <4>. QED
        BY <2>4, <4>1 DEF TimelyInv, Evicts
    <3>. QED
      BY <3>1, <3>2
  <2>. QED
    BY <2>2, <2>3, <2>4
<1>8. ASSUME NEW how \in StopOutcomes, StopOldReturns(p, how) PROVE TimelyInv'
  <2>1. state \in {"FAILED", "EVICTING"}
    BY <1>1, <1>8 DEF StopOldReturns, Underway
  <2>. QED
    BY <1>8, <2>1, NotIdle DEF StopOldReturns, instance
<1>9. ASSUME NEW how \in StopOutcomes, CleanedUp(p, how) PROVE TimelyInv'
  BY <1>9, NotIdle DEF CleanedUp, LoadFails
<1>10. ASSUME NEW how \in StopOutcomes, StopReturns(p, how) PROVE TimelyInv'
  <2>1. state = "EVICTING"
    BY <1>1, <1>10 DEF StopReturns, Underway
  <2>. QED
    BY <1>10, <2>1, NotIdle DEF StopReturns, ClearInstance, instance
<1>. QED
  BY <1>2, <1>3, <1>4, <1>5, <1>6, <1>7, <1>8, <1>9, <1>10

\* A caller asks for the lock behind its owner.
LEMMA AskTimely ==
  ASSUME Basics, TimelyInv, NEW p \in Callers, NEW c, Ask(p, c),
         call[p].at \notin LockAwaits \cup IoAwaits \cup {"wait"},
         UNCHANGED <<instance, timer, pinned>>
  PROVE  TimelyInv'
<1>1. /\ call' = [call EXCEPT ![p] = c] /\ call \in [Callers -> Calls]
      /\ lockQ' = Append(lockQ, p) /\ lockQ \in Seq(Callers)
  BY DEF Ask, Basics, TypeOK
<1>2. ASSUME lockQ # <<>>
      PROVE  lockQ' # <<>> /\ lockQ'[1] = lockQ[1] /\ call'[lockQ[1]].at = call[lockQ[1]].at
  <2>1. 1 \in 1..Len(lockQ)
    BY <1>1, <1>2, EmptySeq, LenProperties
  <2>2. lockQ'[1] = lockQ[1] /\ lockQ' # <<>>
    BY <1>1, <2>1, AppendProperties
  <2>3. lockQ[1] \in Callers /\ call[lockQ[1]].at \in LockAwaits \cup IoAwaits
    BY <2>1, LockFacts DEF Basics, LockInv, Chain
  <2>. QED
    BY <1>1, <2>2, <2>3
<1>3. UNCHANGED <<state, recipe>> /\ (Evicts(recipe)' => Evicts(recipe))
  BY DEF instance, Evicts
<1>. QED
  BY <1>2, <1>3, HeadStays

LEMMA BeginTimely ==
  ASSUME Basics, TimelyInv, NEW p \in Callers, NEW op, NEW r, NEW pos, Begin(p, op, r, pos)
  PROVE  TimelyInv'
<1>. DEFINE c == [Returned EXCEPT !.op = op, !.want = r, !.at = pos]
<1>1. /\ call[p].at \in {"returned", "threw"} /\ Ask(p, c)
      /\ UNCHANGED <<instance, timer, pinned>>
  BY DEF Begin, Idle
<1>. HIDE DEF c
<1>2. call[p].at \notin LockAwaits \cup IoAwaits \cup {"wait"}
  BY <1>1 DEF LockAwaits, IoAwaits
<1>. QED
  BY <1>1, <1>2, AskTimely

\* Calls that begin, abort, or end their generation.
LEMMA CallersTimely ==
  ASSUME Basics, TimelyInv
  PROVE  /\ \A p \in Slots : Requests(p) \/ Abort(p) => TimelyInv'
         /\ Stop(Admin) \/ (\E p \in Hosts : ForceStop(p)) => TimelyInv'
         /\ \A p \in Callers, how \in {"completed", "rejected", "failed"} :
              EndGeneration(p, how) => TimelyInv'
<1>0. Slots \cup Hosts \cup {Admin} \subseteq Callers
  BY DEF Callers
<1>1. ASSUME NEW p \in Slots, Requests(p) PROVE TimelyInv'
  BY <1>0, <1>1, BeginTimely DEF Requests, Warm, Chat, Media, Restore, Stop
<1>2. ASSUME NEW p \in Slots, Abort(p) PROVE TimelyInv'
  <2>1. /\ call' = [call EXCEPT ![p] = Aborted(p)] /\ call \in [Callers -> Calls]
        /\ UNCHANGED <<instance, timer, lockQ, pinned>> /\ p \in Callers
    BY <1>0, <1>2 DEF Abort, Basics, TypeOK
  <2>2. call[p].at # "wait" => call'[p].at = call[p].at
    BY <2>1 DEF Aborted, Calls
  <2>3. ASSUME lockQ # <<>> PROVE call'[lockQ[1]].at = call[lockQ[1]].at
    <3>1. 1 \in 1..Len(lockQ)
      BY <2>3, LockFacts, EmptySeq DEF Basics
    <3>2. lockQ[1] \in Callers /\ call[lockQ[1]].at # "wait"
      BY <3>1, LockFacts DEF Basics
    <3>. QED
      BY <2>1, <2>2, <3>2
  <2>. QED
    BY <2>1, <2>3, HeadStays DEF instance, Evicts
<1>3. ASSUME Stop(Admin) \/ (\E p \in Hosts : ForceStop(p)) PROVE TimelyInv'
  BY <1>0, <1>3, BeginTimely DEF Stop, ForceStop
<1>4. ASSUME NEW p \in Callers, NEW how \in {"completed", "rejected", "failed"}, EndGeneration(p, how)
      PROVE  TimelyInv'
  <2>. DEFINE c == [call[p] EXCEPT !.at = "release", !.end = how]
  <2>1. call[p].at = "running" /\ Ask(p, c) /\ UNCHANGED <<instance, timer, pinned>>
    BY <1>4 DEF EndGeneration
  <2>. HIDE DEF c
  <2>2. call[p].at \notin LockAwaits \cup IoAwaits \cup {"wait"}
    BY <2>1 DEF LockAwaits, IoAwaits
  <2>. QED
    BY <2>1, <2>2, AskTimely
<1>. QED
  BY <1>1, <1>2, <1>3, <1>4

\* The timer's callback gets the lock at once; a re-pin does not change the pin.
LEMMA EnvironmentTimely ==
  ASSUME OneDefault, Basics, EngineInv, TimelyInv
  PROVE  /\ EvictionFires => TimelyInv'
         /\ (\E r \in Defaults : Pin(r)) \/ (\E e \in Engines : EngineDies(e)) \/ UNCHANGED vars
              => TimelyInv'
<1>1. ASSUME EvictionFires PROVE TimelyInv'
  <2>. DEFINE c == [Returned EXCEPT !.op = "graceful", !.at = "stop"]
  <2>1. timer /\ Drained /\ state = "READY"
    BY <1>1 DEF EvictionFires, EngineInv, Settings, TimerInv
  <2>2. leases = 0
    BY <2>1 DEF Basics, Unleased
  <2>3. Ask(Evictor, c)
    BY <1>1, <2>1, <2>2 DEF EvictionFires
  <2>4. lockQ = <<>>
    BY <2>1 DEF EngineInv, Underway, Drained
  <2>5. lockQ' # <<>> /\ lockQ'[1] = Evictor
    BY <2>3, <2>4 DEF Ask
  <2>. QED
    BY <2>5 DEF TimelyInv
<1>2. ASSUME NEW r \in Defaults, Pin(r) PROVE TimelyInv'
  <2>1. UNCHANGED <<state, recipe, timer, lockQ, call>> /\ pinned' = r
    BY <1>2 DEF Pin, instance
  <2>2. Evicts(recipe)' => Evicts(recipe)
    <3>1. CASE pinned = NoRecipe
      BY <2>1, <3>1, RecipesAssumption DEF Evicts, Recipes
    <3>2. CASE pinned # NoRecipe
      <4>1. pinned' = pinned
        BY <2>1, <3>2 DEF OneDefault, Basics, TypeOK
      <4>. QED
        BY <2>1, <4>1 DEF Evicts
    <3>. QED
      BY <3>1, <3>2
  <2>. QED
    BY <2>1, <2>2, HeadStays
<1>3. ASSUME (\E e \in Engines : EngineDies(e)) \/ UNCHANGED vars PROVE TimelyInv'
  <2>1. UNCHANGED <<state, recipe, timer, lockQ, call, pinned>>
    BY <1>3 DEF EngineDies, vars, instance
  <2>. QED
    BY <2>1, HeadStays DEF Evicts
<1>. QED
  BY <1>1, <1>2, <1>3

LEMMA TimelyInit == Init => CallsInv /\ TimelyInv
<1>. SUFFICES ASSUME Init PROVE CallsInv /\ TimelyInv
  OBVIOUS
<1>1. state = "UNLOADED" /\ \A p \in Callers : call[p] = Returned
  BY DEF Init, Fresh
<1>2. Returned.at = "returned" /\ Returned.op = "none"
  BY DEF Returned
<1>. QED
  BY <1>1, <1>2 DEF CallsInv, Sensible, TimelyInv

LEMMA OrdinaryTimely ==
  ASSUME Basics, EngineInv, CallsInv, TimelyInv, NEW p \in Callers, Ordinary(p)
  PROVE  CallsInv' /\ TimelyInv'
<1>1. CallsInv'
  BY UnderwaySensible
<1>2. TimelyInv'
  BY AcquireTimely, EnsureReadyTimely, LoadingTimely, CallersTimely DEF Ordinary
<1>. QED
  BY <1>1, <1>2

LEMMA OutsideTimely ==
  ASSUME OneDefault, Basics, EngineInv, CallsInv, TimelyInv, Outside
  PROVE  CallsInv' /\ TimelyInv'
<1>1. ASSUME NEW p \in Slots, Requests(p) \/ Abort(p) PROVE CallsInv' /\ TimelyInv'
  BY <1>1, RequestsSensible, AbortSensible, CallersTimely
<1>2. CASE Stop(Admin) \/ (\E p \in Hosts : ForceStop(p))
  BY <1>2, RequestsSensible, CallersTimely
<1>3. CASE EvictionFires
  BY <1>3, EnvironmentSensible, EnvironmentTimely
<1>4. CASE (\E r \in Defaults : Pin(r)) \/ (\E e \in Engines : EngineDies(e)) \/ UNCHANGED vars
  BY <1>4, EnvironmentSensible, EnvironmentTimely
<1>. QED
  BY <1>1, <1>2, <1>3, <1>4 DEF Outside

LEMMA TimelyStep ==
  ASSUME ~ThermalTrips, OneDefault, IInv, EngineInv, CallsInv, TimelyInv, [Next]_vars
  PROVE  CallsInv' /\ TimelyInv'
BY OrdinarySteps, IInvBasics, OrdinaryTimely, OutsideTimely

LEMMA TimelyFacts == TimelyInv /\ EvictionFindsIdle => EvictionIsTimely
BY DEF TimelyInv, IdleIsEvicted, EvictionIsTimely

\* lifecycle-manager.ts:177-179: "local media engines are evicted immediately after
\* the lease ends".  With one Default, pinned or not, and for any number of
\* executors, recipes and engines, an idle instance that may be evicted has its
\* timer armed while nobody owns the lock, whoever disarmed it in between, and the
\* eviction finds it idle; on a machine whose thermal guard does not fire.
THEOREM EvictionIsPrompt == ~ThermalTrips /\ OneDefault /\ Spec => []EvictionIsTimely
<1>. DEFINE J == ~ThermalTrips /\ OneDefault /\ IInv /\ EngineInv /\ CallsInv /\ TimelyInv
<1>1. ~ThermalTrips /\ OneDefault /\ Init => J
  BY InitBegins, InitInv, KnownInit, TimelyInit
<1>2. J /\ [Next]_vars => J'
  <2>. SUFFICES ASSUME J, [Next]_vars PROVE J'
    OBVIOUS
  <2>1. IInv' /\ EngineInv'
    BY StepInv, KnownStep
  <2>2. CallsInv' /\ TimelyInv'
    BY TimelyStep
  <2>. QED
    BY <2>1, <2>2 DEF OneDefault
<1>3. J => EvictionIsTimely
  BY EnginesFacts, TimelyFacts
<1>. HIDE DEF J
<1>. QED
  BY <1>1, <1>2, <1>3, PTL DEF Spec

-----------------------------------------------------------------------------
(* The manager as the scheduler drives it                                  *)

Roles == \A p \in Callers \ Slots : call[p].at \in {"returned", "threw", "stop", "stopping"}

Loads == {"validate", "start", "probe", "cleanup"}

\* An instance is being loaded only by the owner of the lock, what the owner stops
\* is EVICTING, and what it unloads for the guard is no longer BUSY.
HeadStands ==
  /\ state \in {"PREPARING", "LOADING"} => lockQ # <<>> /\ call[lockQ[1]].at \in Loads
  /\ lockQ # <<>> /\ call[lockQ[1]].at = "stopping" => state = "EVICTING"
  /\ lockQ # <<>> /\ call[lockQ[1]].at = "thermalStop" => state # "BUSY"

\* No more leases are counted than callers hold one.
Tally ==
  /\ leases <= Cardinality(Holders)
  /\ state = "BUSY" => leases > 0
  /\ state = "UNLOADED" => recipe = NoRecipe

\* What holds of the manager even if the thermal guard fires.
Served == TypeOK /\ LockInv /\ Roles /\ HeadStands /\ Tally

LEMMA RolesFacts ==
  ASSUME Roles
  PROVE  /\ Holders \subseteq Slots /\ IsFiniteSet(Holders) /\ Cardinality(Holders) \in Nat
         /\ \A p \in Callers : call[p].at \notin {"returned", "threw", "stop", "stopping"} => p \in Slots
<1>1. Holders \subseteq Slots
  BY DEF Roles, Holders, Holding
<1>2. IsFiniteSet(Holders)
  BY <1>1, CallersAssumption, FS_Subset
<1>. QED
  BY <1>1, <1>2, FS_CardinalityType DEF Roles

LEMMA RolesStep ==
  ASSUME Roles, NEW p \in Callers, Carried(p),
         p \notin Slots => call'[p].at \in {"returned", "threw", "stop", "stopping"}
  PROVE  Roles'
BY DEF Roles, Carried

\* A step of p that counts no lease more.
LEMMA TallyStep ==
  ASSUME TypeOK, Roles, Tally, Roles', NEW p \in Callers, Carried(p),
         \/ leases' = 0 /\ state' # "BUSY"
         \/ leases' = leases /\ (state' = "BUSY" => state = "BUSY") /\ (Holding(p) => Holding(p)'),
         state' = "UNLOADED" => recipe' = NoRecipe
  PROVE  Tally'
<1>1. Cardinality(Holders) \in Nat /\ Cardinality(Holders') \in Nat /\ IsFiniteSet(Holders')
  <2>1. IsFiniteSet(Holders) /\ Cardinality(Holders) \in Nat
    BY RolesFacts
  <2>2. Holders' \subseteq Holders \cup {p}
    BY HoldersStep
  <2>. QED
    BY <2>1, <2>2, FS_AddElement, FS_Subset, FS_CardinalityType
<1>2. leases \in Nat
  BY DEF TypeOK
<1>3. CASE leases' = 0 /\ state' # "BUSY"
  BY <1>1, <1>3 DEF Tally
<1>4. CASE leases' = leases /\ (state' = "BUSY" => state = "BUSY") /\ (Holding(p) => Holding(p)')
  <2>1. Holders \subseteq Holders'
    BY <1>4, HoldersStep DEF Holders
  <2>2. Cardinality(Holders) <= Cardinality(Holders')
    BY <1>1, <2>1, FS_Subset
  <2>. QED
    BY <1>1, <1>2, <1>4, <2>2 DEF Tally
<1>. QED
  BY <1>3, <1>4

\* The owner p leaves the lock, perhaps asking for it again.
LEMMA ServedHanded ==
  ASSUME Served, TypeOK', NEW p \in Callers, Carried(p), LockInv', Handed(lockQ', call'), Roles',
         state' \notin {"PREPARING", "LOADING"}, Tally'
  PROVE  Served'
<1>1. lockQ' # <<>> => call'[lockQ'[1]].at \in LockAwaits
  <2>1. lockQ' # <<>> => 1 \in 1..Len(lockQ')
    BY EmptySeq, LenProperties DEF TypeOK
  <2>. QED
    BY <2>1 DEF Handed
<1>2. HeadStands'
  BY <1>1 DEF HeadStands, LockAwaits
<1>. QED
  BY <1>2 DEF Served

LEMMA ServedLeave ==
  ASSUME Served, TypeOK', NEW p \in Callers, Owns(p), NEW c, NEW wake \in BOOLEAN, Leave(p, c, wake),
         p \notin Slots => c.at \in {"returned", "threw"},
         state' \notin {"PREPARING", "LOADING"},
         \/ leases' = 0 /\ state' # "BUSY"
         \/ leases' = leases /\ (state' = "BUSY" => state = "BUSY")
            /\ (~Holding(p) \/ c.at \in {"release", "closing"}),
         state' = "UNLOADED" => recipe' = NoRecipe
  PROVE  Served' /\ Carried(p)
<1>. USE DEF Served
<1>1. LockInv' /\ call'[p] = c /\ Carried(p) /\ Handed(lockQ', call')
  BY LeaveLock
<1>2. Roles'
  BY <1>1, RolesStep
<1>3. Tally'
  BY <1>1, <1>2, TallyStep DEF Holding
<1>. QED
  BY <1>1, <1>2, <1>3, ServedHanded

LEMMA ServedKeep ==
  ASSUME Served, TypeOK', NEW p \in Callers, Owns(p), NEW c, NEW wake \in BOOLEAN, Keep(p, c, wake),
         c.at \in IoAwaits, p \notin Slots => c.at = "stopping",
         state' \in {"PREPARING", "LOADING"} => c.at \in Loads,
         c.at = "stopping" => state' = "EVICTING",
         c.at = "thermalStop" => state' # "BUSY",
         \/ leases' = 0 /\ state' # "BUSY"
         \/ leases' = leases /\ (state' = "BUSY" => state = "BUSY")
            /\ (~Holding(p) \/ c.at = "thermalStop"),
         state' = "UNLOADED" => recipe' = NoRecipe
  PROVE  Served' /\ Carried(p)
<1>. USE DEF Served
<1>1. LockInv' /\ call'[p] = c /\ Carried(p) /\ lockQ' # <<>> /\ lockQ'[1] = p
  BY KeepLock
<1>2. Roles'
  BY <1>1, RolesStep
<1>3. Tally'
  BY <1>1, <1>2, TallyStep DEF Holding
<1>4. HeadStands'
  BY <1>1 DEF HeadStands
<1>. QED
  BY <1>1, <1>2, <1>3, <1>4

LEMMA ServedAsk ==
  ASSUME Served, TypeOK', NEW p \in Callers, NEW c, Ask(p, c), UNCHANGED instance,
         call[p].at \notin LockAwaits \cup IoAwaits \cup {"wait"}, c.at \in LockAwaits,
         p \notin Slots => c.at = "stop", Holding(p) => c.at \in {"release", "thermal"},
         Forced(c) => p \notin Slots /\ \A k \in 1..Len(lockQ) : lockQ[k] \notin Slots
  PROVE  Served' /\ Carried(p)
<1>. USE DEF Served, instance
<1>1. /\ LockInv' /\ call'[p] = c /\ Carried(p)
      /\ lockQ' # <<>> /\ lockQ'[1] = (IF lockQ = <<>> THEN p ELSE lockQ[1])
      /\ lockQ # <<>> => lockQ[1] # p
  BY AskLock
<1>2. Roles'
  BY <1>1, RolesStep
<1>3. Tally'
  BY <1>1, <1>2, TallyStep DEF Holding, Tally
<1>4. lockQ # <<>> => lockQ[1] \in Callers /\ call[lockQ[1]].at # "wait"
  <2>1. lockQ # <<>> => 1 \in 1..Len(lockQ)
    BY EmptySeq, LenProperties DEF TypeOK
  <2>. QED
    BY <2>1, LockFacts
<1>5. lockQ # <<>> => call'[lockQ'[1]].at = call[lockQ[1]].at
  BY <1>1, <1>4 DEF Carried
<1>6. HeadStands'
  BY <1>1, <1>5 DEF HeadStands, LockAwaits
<1>. QED
  BY <1>1, <1>2, <1>3, <1>6

\* The owner is granted a lease.
LEMMA ServedGrant ==
  ASSUME Served, TypeOK', NEW p \in Slots, Owns(p), ~Holding(p), NEW r, NEW h, Grant(p, r, h)
  PROVE  Served' /\ Carried(p)
<1>. USE DEF Served
<1>. DEFINE rejected == call[p].op = "chat" /\ r \in MediaRecipes
            c == IF rejected THEN [call[p] EXCEPT !.held = h, !.at = "release", !.end = "rejected"]
                 ELSE [call[p] EXCEPT !.held = h, !.at = "running"]
<1>0. p \in Callers /\ call[p] \in Calls
  BY DEF Callers, TypeOK
<1>1. /\ Update(p, c, FALSE) /\ UNCHANGED waiters
      /\ lockQ' = IF rejected THEN Append(Tail(lockQ), p) ELSE Tail(lockQ)
      /\ leases' = leases + 1 /\ state' = "BUSY"
  BY DEF Grant
<1>2. c.at = IF rejected THEN "release" ELSE "running"
  BY <1>0 DEF Calls
<1>3. c.op = call[p].op
  BY <1>0 DEF Calls
<1>. HIDE DEF c
<1>4. LockInv' /\ call'[p] = c /\ Carried(p) /\ Handed(lockQ', call')
  <2>1. CASE rejected
    <3>1. ~Forced(c) /\ c.at \in LockAwaits
      BY <1>2, <2>1 DEF Forced, LockAwaits
    <3>2. lockQ' = Append(Tail(lockQ), p)
      BY <1>1, <2>1
    <3>. QED
      BY <1>0, <1>1, <3>1, <3>2, RequeueLock
  <2>2. CASE ~rejected
    <3>1. Leave(p, c, FALSE)
      BY <1>1, <2>2 DEF Leave
    <3>. QED
      BY <1>0, <3>1, LeaveLock
  <2>. QED
    BY <2>1, <2>2
<1>5. Roles'
  BY <1>0, <1>4, RolesStep
<1>6. Holders' = Holders \cup {p} /\ p \notin Holders
  BY <1>0, <1>2, <1>4, HoldersStep DEF Holding, Holders
<1>7. Cardinality(Holders') = Cardinality(Holders) + 1 /\ Cardinality(Holders) \in Nat
  BY <1>6, RolesFacts, FS_AddElement
<1>8. Tally'
  BY <1>1, <1>7 DEF Tally, TypeOK
<1>. QED
  BY <1>0, <1>1, <1>4, <1>5, <1>8, ServedHanded

\* What the owner of the lock knows of the instance.
LEMMA ServedOwner ==
  ASSUME Served, NEW p \in Callers, NEW pos, At(p, pos)
  PROVE  /\ Owns(p) /\ call[p].at = pos /\ call[p] \in Calls /\ leases \in Nat
         /\ pos \notin {"returned", "threw", "stop", "stopping"} => p \in Slots
         /\ pos \notin Loads => state \notin {"PREPARING", "LOADING"}
         /\ pos = "stopping" => state = "EVICTING"
         /\ pos = "thermalStop" => state # "BUSY"
<1>. USE DEF Served
<1>1. Owns(p) /\ call[p].at = pos
  BY DEF At
<1>2. lockQ # <<>> /\ lockQ[1] = p
  BY <1>1, HeadFacts
<1>. QED
  BY <1>1, <1>2, RolesFacts DEF HeadStands, TypeOK

LEMMA ServedLooking ==
  ASSUME Served, TypeOK', NEW p \in Callers, Acquire(p) \/ EnsureReady(p)
  PROVE  Served' /\ Carried(p)
<1>1. /\ Owns(p) /\ p \in Slots /\ ~Holding(p) /\ state \notin {"PREPARING", "LOADING"}
      /\ call[p].at \in {"acquire", "ready"}
  BY ServedOwner DEF Acquire, EnsureReady, Holding, Loads, At
<1>2. Threw.at = "threw" /\ Returned.at = "returned" /\ At1(p, "prepare").at = "prepare"
      /\ At1(p, "wait").at = "wait"
  BY Written DEF Served
<1>3. CASE (Leave(p, Threw, FALSE) \/ Leave(p, Returned, FALSE)) /\ UNCHANGED instance
  BY <1>1, <1>2, <1>3, ServedLeave DEF instance, Served, Tally
<1>4. CASE Grant(p, call[p].want, handle)
  BY <1>1, <1>4, ServedGrant
<1>5. CASE WaitForLease(p) /\ UNCHANGED instance
  <2>1. LockInv' /\ Carried(p) /\ call'[p] \in {Threw, At1(p, "wait")} /\ Handed(lockQ', call')
    BY <1>1, <1>5, WaitLock DEF Served
  <2>2. Roles'
    BY <1>1, <2>1, RolesStep DEF Served
  <2>3. Tally'
    BY <1>1, <1>2, <1>5, <2>1, <2>2, TallyStep DEF instance, Served, Tally
  <2>. QED
    BY <1>1, <1>5, <2>1, <2>2, <2>3, ServedHanded DEF instance
<1>6. CASE BeginLoad(p)
  <2>1. Keep(p, At1(p, "prepare"), FALSE) /\ UNCHANGED instance
    BY <1>6 DEF BeginLoad
  <2>. QED
    BY <1>1, <1>2, <2>1, ServedKeep DEF instance, Served, Tally, IoAwaits
<1>. QED
  BY <1>3, <1>4, <1>5, <1>6 DEF Acquire, EnsureReady

LEMMA ServedLoading ==
  ASSUME Served, TypeOK', NEW p \in Callers,
         \/ Prepared(p)
         \/ \E ok \in BOOLEAN : Validated(p, ok) \/ Started(p, ok) \/ Probed(p, ok)
         \/ \E how \in StopOutcomes : StopOldReturns(p, how) \/ CleanedUp(p, how)
  PROVE  Served' /\ Carried(p)
<1>0. /\ \A pos : At1(p, pos).at = pos
      /\ Threw.at = "threw" /\ Returned.at = "returned"
  BY Written DEF Served
<1>a. {"stopOld", "validate", "start", "probe", "cleanup"} \subseteq IoAwaits
  BY DEF IoAwaits
<1>b. state = "UNLOADED" => recipe = NoRecipe
  BY DEF Served, Tally
<1>1. CASE Prepared(p)
  <2>1. Owns(p) /\ p \in Slots /\ ~Holding(p)
    BY <1>1, ServedOwner DEF Prepared, Holding, At
  <2>2. CASE handle # NoEngine
    <3>1. Keep(p, At1(p, "stopOld"), FALSE) /\ state' \in {"FAILED", "EVICTING"} /\ leases' = leases
      BY <1>1, <2>2 DEF Prepared
    <3>. QED
      BY <1>0, <1>a, <2>1, <3>1, ServedKeep
  <2>3. CASE handle = NoEngine
    <3>1. /\ Keep(p, At1(p, "validate"), state \notin {"FAILED", "UNLOADED"})
          /\ state' = "PREPARING" /\ leases' = 0
      BY <1>1, <2>3 DEF Prepared
    <3>. QED
      BY <1>0, <1>a, <2>1, <3>1, ServedKeep DEF Loads
  <2>. QED
    BY <2>2, <2>3
<1>2. ASSUME NEW ok \in BOOLEAN, Validated(p, ok) PROVE Served' /\ Carried(p)
  <2>1. Owns(p) /\ p \in Slots /\ ~Holding(p) /\ UNCHANGED <<leases, recipe>>
    BY <1>2, ServedOwner DEF Validated, Holding, At
  <2>2. CASE ok
    <3>1. Keep(p, At1(p, "start"), FALSE) /\ state' = "LOADING"
      BY <1>2, <2>2 DEF Validated
    <3>. QED
      BY <1>0, <1>a, <2>1, <3>1, ServedKeep DEF Loads
  <2>3. CASE ~ok
    BY <1>0, <1>2, <2>1, <2>3, ServedLeave DEF Validated, LoadFails
  <2>. QED
    BY <2>2, <2>3
<1>3. ASSUME NEW ok \in BOOLEAN, Started(p, ok) PROVE Served' /\ Carried(p)
  <2>1. Owns(p) /\ p \in Slots /\ ~Holding(p) /\ UNCHANGED <<leases, recipe>>
    BY <1>3, ServedOwner DEF Started, Holding, At
  <2>2. CASE ok
    <3>1. Keep(p, At1(p, "probe"), FALSE) /\ state' = state
      BY <1>3, <2>2 DEF Started
    <3>. QED
      BY <1>0, <1>a, <1>b, <2>1, <3>1, ServedKeep DEF Loads
  <2>3. CASE ~ok
    BY <1>0, <1>3, <2>1, <2>3, ServedLeave DEF Started, LoadFails
  <2>. QED
    BY <2>2, <2>3
<1>4. ASSUME NEW ok \in BOOLEAN, Probed(p, ok) PROVE Served' /\ Carried(p)
  <2>1. Owns(p) /\ p \in Slots /\ ~Holding(p)
    BY <1>4, ServedOwner DEF Probed, Holding, At
  <2>2. CASE ok /\ call[p].op \in {"chat", "media"}
    BY <1>4, <2>1, <2>2, ServedGrant DEF Probed
  <2>3. CASE ok /\ call[p].op \notin {"chat", "media"}
    BY <1>0, <1>4, <2>1, <2>3, ServedLeave DEF Probed
  <2>4. CASE ~ok
    <3>1. Keep(p, At1(p, "cleanup"), FALSE) /\ UNCHANGED instance
      BY <1>4, <2>4 DEF Probed
    <3>. QED
      BY <1>0, <1>a, <1>b, <2>1, <3>1, ServedKeep DEF Loads, instance
  <2>. QED
    BY <2>2, <2>3, <2>4
<1>5. ASSUME NEW how \in StopOutcomes, StopOldReturns(p, how) PROVE Served' /\ Carried(p)
  <2>1. Owns(p) /\ p \in Slots /\ ~Holding(p) /\ state \notin {"PREPARING", "LOADING"}
    BY <1>5, ServedOwner DEF StopOldReturns, Holding, At, Loads
  <2>2. CASE how = "threw"
    BY <1>0, <1>5, <1>b, <2>1, <2>2, ServedLeave DEF StopOldReturns, instance
  <2>3. CASE how # "threw"
    <3>1. Keep(p, At1(p, "validate"), state # "FAILED") /\ state' = "PREPARING" /\ leases' = 0
      BY <1>5, <2>3 DEF StopOldReturns
    <3>. QED
      BY <1>0, <1>a, <2>1, <3>1, ServedKeep DEF Loads
  <2>. QED
    BY <2>2, <2>3
<1>6. ASSUME NEW how \in StopOutcomes, CleanedUp(p, how) PROVE Served' /\ Carried(p)
  <2>1. Owns(p) /\ p \in Slots /\ ~Holding(p) /\ UNCHANGED <<leases, recipe>>
    BY <1>6, ServedOwner DEF CleanedUp, Holding, At
  <2>. QED
    BY <1>0, <1>6, <2>1, ServedLeave DEF CleanedUp, LoadFails
<1>. QED
  BY <1>1, <1>2, <1>3, <1>4, <1>5, <1>6

LEMMA ServedRelease ==
  ASSUME Served, TypeOK', NEW p \in Callers, Release(p)
  PROVE  Served' /\ Carried(p)
<1>. DEFINE left == IF leases = 0 THEN 0 ELSE leases - 1
            c == IF call[p].end = "completed" THEN Returned ELSE Threw
<1>. USE DEF Served
<1>1. /\ Owns(p) /\ p \in Slots /\ Holding(p) /\ state \notin {"PREPARING", "LOADING"}
      /\ leases \in Nat
  BY ServedOwner DEF Release, Holding, At, Loads
<1>2. /\ Leave(p, c, left = 0) /\ leases' = left /\ recipe' = recipe
      /\ state' \in {state, "FAILED", "READY"}
      /\ left = 0 => state' # "BUSY"
      /\ left # 0 => state' = state
  BY DEF Release
<1>3. c.at \in {"returned", "threw"}
  BY Written
<1>. HIDE DEF c
<1>4. LockInv' /\ call'[p] = c /\ Carried(p) /\ Handed(lockQ', call')
  BY <1>1, <1>2, LeaveLock
<1>5. Roles'
  BY <1>1, <1>4, RolesStep
<1>6. Holders' = Holders \ {p} /\ p \in Holders
  BY <1>1, <1>3, <1>4, HoldersStep DEF Holding, Holders
<1>7. Cardinality(Holders') = Cardinality(Holders) - 1 /\ Cardinality(Holders') \in Nat
      /\ Cardinality(Holders) \in Nat
  BY <1>5, <1>6, RolesFacts, FS_RemoveElement, FS_Subset, FS_CardinalityType
<1>8. Tally'
  BY <1>1, <1>2, <1>7 DEF Tally
<1>. QED
  BY <1>1, <1>2, <1>4, <1>5, <1>8, ServedHanded

LEMMA ServedStopping ==
  ASSUME Served, TypeOK', NEW p \in Callers,
         StopUnlocked(p) \/ \E how \in StopOutcomes : StopReturns(p, how)
  PROVE  Served' /\ Carried(p)
<1>0. /\ \A pos : At1(p, pos).at = pos
      /\ Threw.at = "threw" /\ Returned.at = "returned"
  BY Written DEF Served
<1>b. state = "UNLOADED" => recipe = NoRecipe
  BY DEF Served, Tally
<1>1. CASE StopUnlocked(p)
  <2>1. Owns(p) /\ ~Holding(p) /\ state \notin {"PREPARING", "LOADING"}
    BY <1>1, ServedOwner DEF StopUnlocked, Holding, At, Loads
  <2>2. CASE UNCHANGED instance /\ \E c \in {Returned, Threw} : Leave(p, c, FALSE)
    BY <1>0, <1>b, <2>1, <2>2, ServedLeave DEF instance
  <2>3. CASE ClearInstance("UNLOADED") /\ Leave(p, Returned, TRUE)
    BY <1>0, <2>1, <2>3, ServedLeave DEF ClearInstance
  <2>4. CASE state' = "EVICTING" /\ UNCHANGED leases /\ Keep(p, At1(p, "stopping"), FALSE)
    BY <1>0, <2>1, <2>4, ServedKeep DEF IoAwaits
  <2>. QED
    BY <1>1, <2>2, <2>3, <2>4 DEF StopUnlocked
<1>2. ASSUME NEW how \in StopOutcomes, StopReturns(p, how) PROVE Served' /\ Carried(p)
  <2>1. Owns(p) /\ ~Holding(p) /\ state \notin {"PREPARING", "LOADING"}
    BY <1>2, ServedOwner DEF StopReturns, Holding, At, Loads
  <2>2. CASE UNCHANGED instance /\ Leave(p, Threw, FALSE)
    BY <1>0, <1>b, <2>1, <2>2, ServedLeave DEF instance
  <2>3. CASE ClearInstance("UNLOADED") /\ Leave(p, Returned, TRUE)
    BY <1>0, <2>1, <2>3, ServedLeave DEF ClearInstance
  <2>. QED
    BY <1>2, <2>2, <2>3 DEF StopReturns
<1>. QED
  BY <1>1, <1>2

LEMMA ServedGeneration ==
  ASSUME Served, TypeOK', NEW p \in Callers,
         \/ \E how \in {"completed", "rejected", "failed"} : EndGeneration(p, how)
         \/ ThermalTrip(p) \/ CloseThermal(p) \/ UnloadAfterThermalFailure(p)
         \/ \E how \in StopOutcomes : ThermalStopReturns(p, how)
  PROVE  Served' /\ Carried(p)
<1>0. call[p] \in Calls /\ \A pos : At1(p, pos).at = pos /\ At1(p, pos).op = call[p].op
  BY Written DEF Served, TypeOK
<1>b. state = "UNLOADED" => recipe = NoRecipe
  BY DEF Served, Tally
<1>1. CASE \/ \E how \in {"completed", "rejected", "failed"} : EndGeneration(p, how)
           \/ ThermalTrip(p) \/ CloseThermal(p)
  <2>1. call[p].at \in {"running", "closing"} /\ Holding(p) /\ p \in Slots
    BY <1>1, RolesFacts DEF EndGeneration, ThermalTrip, CloseThermal, Holding, Served
  <2>2. PICK c : Ask(p, c) /\ c.at \in {"release", "thermal"} /\ UNCHANGED instance
    <3>1. \A how : [call[p] EXCEPT !.at = "release", !.end = how].at = "release"
      BY <1>0 DEF Calls
    <3>2. [call[p] EXCEPT !.at = "thermal", !.end = "failed"].at = "thermal"
      BY <1>0 DEF Calls
    <3>. QED
      BY <1>0, <1>1, <3>1, <3>2 DEF EndGeneration, ThermalTrip, CloseThermal
  <2>3. c.at \in LockAwaits /\ ~Forced(c) /\ call[p].at \notin LockAwaits \cup IoAwaits \cup {"wait"}
    BY <2>1, <2>2 DEF LockAwaits, IoAwaits, Forced
  <2>. QED
    BY <2>1, <2>2, <2>3, ServedAsk
<1>2. CASE UnloadAfterThermalFailure(p)
  <2>1. Owns(p) /\ p \in Slots /\ state \notin {"PREPARING", "LOADING"}
    BY <1>2, ServedOwner DEF UnloadAfterThermalFailure, At, Loads
  <2>2. /\ Keep(p, At1(p, "thermalStop"), FALSE) /\ UNCHANGED <<leases, recipe>>
        /\ state' = IF state = "BUSY" THEN "FAILED" ELSE state
    BY <1>2 DEF UnloadAfterThermalFailure
  <2>. QED
    BY <1>0, <1>b, <2>1, <2>2, ServedKeep DEF IoAwaits
<1>3. ASSUME NEW how \in StopOutcomes, ThermalStopReturns(p, how) PROVE Served' /\ Carried(p)
  <2>1. Owns(p) /\ p \in Slots /\ state \notin {"PREPARING", "LOADING"}
    BY <1>3, ServedOwner DEF ThermalStopReturns, At, Loads
  <2>2. CASE UNCHANGED instance /\ Leave(p, At1(p, "closing"), FALSE)
    BY <1>0, <1>b, <2>1, <2>2, ServedLeave DEF instance
  <2>3. CASE ClearInstance("UNLOADED") /\ Leave(p, At1(p, "closing"), TRUE)
    BY <1>0, <2>1, <2>3, ServedLeave DEF ClearInstance
  <2>4. CASE ClearInstance(state) /\ Leave(p, At1(p, "closing"), FALSE) /\ "UNLOADED" \notin Allowed[state]
    <3>1. state # "BUSY"
      BY <1>3, ServedOwner DEF ThermalStopReturns
    <3>. QED
      BY <1>0, <2>1, <2>4, <3>1, ServedLeave DEF ClearInstance
  <2>. QED
    BY <1>3, <2>2, <2>3, <2>4 DEF ThermalStopReturns
<1>. QED
  BY <1>1, <1>2, <1>3

LEMMA ServedProgress ==
  ASSUME Served, NEW p \in Callers, Progress(p)
  PROVE  Served' /\ Carried(p) /\ ~Idle(p)
<1>1. TypeOK'
  BY TypeStep DEF Next, Served
<1>2. Served' /\ Carried(p)
  BY <1>1, ServedLooking, ServedLoading, ServedRelease, ServedStopping, ServedGeneration DEF Progress
<1>3. ~Idle(p)
  BY DEF Progress, Idle, At, Acquire, EnsureReady, Prepared, Release, StopUnlocked, ThermalTrip,
         UnloadAfterThermalFailure, CloseThermal, Validated, Started, Probed, StopOldReturns,
         CleanedUp, ThermalStopReturns, StopReturns, EndGeneration
<1>. QED
  BY <1>2, <1>3

\* A new call; a forced one is made while no executor is under way.
LEMMA ServedBegin ==
  ASSUME Served, TypeOK', NEW p \in Callers, NEW op, NEW r, NEW pos \in {"acquire", "ready", "stop"},
         Begin(p, op, r, pos), p \notin Slots => pos = "stop", op = "force" => p \in Hosts /\ LanesIdle
  PROVE  Served' /\ Carried(p)
<1>. DEFINE c == [Returned EXCEPT !.op = op, !.want = r, !.at = pos]
<1>1. c.op = op /\ c.at = pos
  BY DEF Returned
<1>2. Ask(p, c) /\ UNCHANGED instance /\ Idle(p)
  BY DEF Begin
<1>. HIDE DEF c
<1>3. /\ call[p].at \notin LockAwaits \cup IoAwaits \cup {"wait"} /\ ~Holding(p)
      /\ c.at \in LockAwaits
  BY <1>1, <1>2 DEF Idle, LockAwaits, IoAwaits, Holding
<1>4. ASSUME Forced(c) PROVE p \notin Slots /\ \A k \in 1..Len(lockQ) : lockQ[k] \notin Slots
  <2>1. p \in Hosts /\ LanesIdle
    BY <1>1, <1>4 DEF Forced
  <2>2. \A k \in 1..Len(lockQ) : call[lockQ[k]].at \in LockAwaits \cup IoAwaits
    BY DEF Served, LockInv, Chain
  <2>3. \A s \in Slots : call[s].at \notin LockAwaits \cup IoAwaits
    BY <2>1 DEF LanesIdle, Idle, LockAwaits, IoAwaits
  <2>. QED
    BY <2>1, <2>2, <2>3, CallersAssumption
<1>. QED
  BY <1>1, <1>2, <1>3, <1>4, ServedAsk

\* What is called, aborted or happens from outside while the manager is at rest.
LEMMA ServedUnmoved ==
  ASSUME Served, TypeOK', UNCHANGED <<instance, lockQ>>, LockInv',
         \A q \in Callers : call'[q].at = call[q].at \/ (call[q].at = "wait" /\ call'[q].at = "threw")
  PROVE  Served'
<1>. USE DEF Served
<1>1. Roles' /\ Holders' = Holders
  BY DEF Roles, Holders, Holding
<1>2. lockQ # <<>> => lockQ[1] \in Callers /\ call[lockQ[1]].at # "wait"
  <2>1. lockQ # <<>> => 1 \in 1..Len(lockQ)
    BY EmptySeq, LenProperties DEF TypeOK
  <2>. QED
    BY <2>1, LockFacts
<1>3. HeadStands'
  BY <1>2 DEF HeadStands, instance
<1>4. Tally'
  BY <1>1 DEF Tally, instance
<1>. QED
  BY <1>1, <1>3, <1>4

LEMMA ServedEnvironment ==
  ASSUME Served
  PROVE  /\ EvictionFires => Served' /\ Carried(Evictor)
         /\ (\E r \in Defaults : Pin(r)) \/ (\E e \in Engines : EngineDies(e)) \/ UNCHANGED vars
              => Served' /\ UNCHANGED call
<1>1. ASSUME EvictionFires PROVE Served' /\ Carried(Evictor)
  <2>0. TypeOK' /\ Evictor \in Callers \ Slots
    BY <1>1, EvictionType, CallersAssumption DEF Served, Callers
  <2>1. CASE UNCHANGED <<lockQ, waiters, call>>
    <3>1. LockInv' /\ UNCHANGED instance
      BY <1>1, <2>1 DEF Served, LockInv, EvictionFires
    <3>. QED
      BY <2>0, <2>1, <3>1, ServedUnmoved DEF Carried
  <2>2. CASE Ask(Evictor, [Returned EXCEPT !.op = "graceful", !.at = "stop"])
    <3>. DEFINE c == [Returned EXCEPT !.op = "graceful", !.at = "stop"]
    <3>1. c.op = "graceful" /\ c.at = "stop"
      BY DEF Returned
    <3>2. Ask(Evictor, c) /\ UNCHANGED instance /\ Idle(Evictor)
      BY <1>1, <2>2 DEF EvictionFires
    <3>. HIDE DEF c
    <3>3. /\ call[Evictor].at \notin LockAwaits \cup IoAwaits \cup {"wait"} /\ ~Holding(Evictor)
          /\ c.at \in LockAwaits /\ ~Forced(c)
      BY <3>1, <3>2 DEF Idle, LockAwaits, IoAwaits, Holding, Forced
    <3>. QED
      BY <2>0, <3>1, <3>2, <3>3, ServedAsk
  <2>. QED
    BY <1>1, <2>1, <2>2 DEF EvictionFires
<1>2. ASSUME (\E r \in Defaults : Pin(r)) \/ (\E e \in Engines : EngineDies(e)) \/ UNCHANGED vars
      PROVE  Served' /\ UNCHANGED call
  <2>1. TypeOK' /\ UNCHANGED <<instance, lockQ, waiters, call>>
    BY <1>2, EnvironmentType DEF Served, Pin, EngineDies, vars, instance
  <2>2. LockInv'
    BY <2>1 DEF Served, LockInv
  <2>. QED
    BY <2>1, <2>2, ServedUnmoved
<1>. QED
  BY <1>1, <1>2

\* The callers that stay are a part of those that waited, each once.
LEMMA StillWaiting ==
  ASSUME TypeOK, LockInv, NEW S, StopWaiting(S)
  PROVE  /\ waiters' \in Seq(Callers) /\ IsInjective(waiters')
         /\ \A k \in 1..Len(waiters') : waiters'[k] \in ToSet(waiters) \ S
<1>. DEFINE R == ToSet(waiters) \ S
            n == Cardinality(R)
<1>1. R \subseteq Callers
  BY LockFacts
<1>2. IsFiniteSet(R)
  <2>1. IsFiniteSet((Slots \cup Hosts) \cup {Admin} \cup {Evictor})
    BY CallersAssumption, FS_Union, FS_AddElement
  <2>2. Callers = (Slots \cup Hosts) \cup {Admin} \cup {Evictor}
    BY DEF Callers
  <2>. HIDE DEF R
  <2>. QED
    BY <1>1, <2>1, <2>2, FS_Subset
<1>3. n \in Nat
  BY <1>2, FS_CardinalityType
<1>4. waiters' \in [1..n -> R] /\ \A i, j \in 1..n : i # j => waiters'[i] # waiters'[j]
  BY DEF StopWaiting, SetToSeqs
<1>. HIDE DEF R, n
<1>5. waiters' \in Seq(Callers) /\ Len(waiters') = n /\ DOMAIN waiters' = 1..n
  BY <1>1, <1>3, <1>4
<1>. QED
  BY <1>4, <1>5 DEF IsInjective, R

\* Callers in S stop waiting or have their signal set; nothing else happens.
LEMMA AbortAllEffect ==
  ASSUME TypeOK, LockInv, NEW S \in SUBSET Slots, AbortAll(S)
  PROVE  /\ TypeOK' /\ LockInv'
         /\ UNCHANGED <<instance, timer, pinned, lockQ, processes>>
         /\ \A q \in Callers :
              \/ call[q].at = "wait" /\ call'[q] = Threw /\ call[q].op \in {"chat", "media", "warm"}
              \/ /\ call'[q].at = call[q].at /\ call'[q].op = call[q].op
                 /\ call'[q].want = call[q].want /\ call'[q].held = call[q].held
         /\ \A q \in Callers : call[q].op \notin {"chat", "media", "warm"} => call'[q] = call[q]
         /\ waiters' # <<>> => waiters # <<>>
         /\ ForceIn(lockQ', call') => ForceIn(lockQ, call)
<1>. DEFINE hit == {p \in S : Abortable(p)}
<1>1. /\ call' = [p \in Callers |-> IF p \in hit THEN Aborted(p) ELSE call[p]]
      /\ StopWaiting(hit)
      /\ UNCHANGED <<instance, timer, pinned, lockQ, processes>>
  BY DEF AbortAll
<1>2. \A q \in Callers : call[q] \in Calls
  BY DEF TypeOK
<1>3. \A q \in Callers : Aborted(q) \in Calls
  BY <1>2, OverRecords, DerivedRecords DEF Aborted
<1>4. call' \in [Callers -> Calls]
  BY <1>1, <1>2, <1>3
<1>5. /\ waiters' \in Seq(Callers) /\ IsInjective(waiters')
      /\ \A k \in 1..Len(waiters') : waiters'[k] \in ToSet(waiters) \ hit
  BY <1>1, StillWaiting
<1>6. TypeOK'
  BY <1>1, <1>4, <1>5 DEF TypeOK, instance, processes
<1>7. ASSUME NEW q \in Callers
      PROVE  /\ \/ call[q].at = "wait" /\ call'[q] = Threw /\ call[q].op \in {"chat", "media", "warm"}
                \/ /\ call'[q].at = call[q].at /\ call'[q].op = call[q].op
                   /\ call'[q].want = call[q].want /\ call'[q].held = call[q].held
             /\ call[q].op \notin {"chat", "media", "warm"} => call'[q] = call[q]
             /\ q \notin hit => call'[q] = call[q]
  <2>1. CASE q \in hit
    <3>1. call'[q] = Aborted(q) /\ call[q].op \in {"chat", "media", "warm"}
      BY <1>1, <2>1 DEF Abortable
    <3>2. CASE call[q].at = "wait"
      BY <2>1, <3>1, <3>2 DEF Aborted
    <3>3. CASE call[q].at # "wait"
      <4>. DEFINE c == [call[q] EXCEPT !.aborted = TRUE]
      <4>1. c.at = call[q].at /\ c.op = call[q].op /\ c.want = call[q].want /\ c.held = call[q].held
        BY <1>2 DEF Calls
      <4>2. call'[q] = c
        BY <3>1, <3>3 DEF Aborted
      <4>. QED
        BY <2>1, <3>1, <4>1, <4>2
    <3>. QED
      BY <3>2, <3>3
  <2>2. CASE q \notin hit
    BY <1>1, <2>2
  <2>. QED
    BY <2>1, <2>2
<1>. HIDE DEF hit
<1>8. \A k \in 1..Len(lockQ) : /\ call'[lockQ[k]].at = call[lockQ[k]].at
                               /\ call'[lockQ[k]].op = call[lockQ[k]].op
  BY <1>7, LockFacts
<1>9. Chain(lockQ', call') /\ (ForceIn(lockQ', call') => ForceIn(lockQ, call))
  BY <1>1, <1>8 DEF LockInv, Chain, ForceIn, Forced
<1>10. \A k \in 1..Len(waiters') : call'[waiters'[k]].at = "wait"
  <2>. SUFFICES ASSUME NEW k \in 1..Len(waiters') PROVE call'[waiters'[k]].at = "wait"
    OBVIOUS
  <2>1. waiters'[k] \in ToSet(waiters) \ hit
    BY <1>5
  <2>2. waiters'[k] \in Callers /\ call[waiters'[k]].at = "wait"
    BY <2>1, LockFacts
  <2>. QED
    BY <1>7, <2>1, <2>2
<1>11. LockInv'
  BY <1>5, <1>9, <1>10 DEF LockInv, Waits
<1>12. waiters' # <<>> => waiters # <<>>
  <2>1. waiters' # <<>> => 1 \in 1..Len(waiters')
    BY <1>5, EmptySeq, LenProperties
  <2>2. waiters = <<>> => ToSet(waiters) = {}
    BY DEF ToSet
  <2>. QED
    BY <1>5, <2>1, <2>2
<1>. QED
  BY <1>1, <1>6, <1>7, <1>9, <1>11, <1>12

LEMMA ServedAbort ==
  ASSUME Served, NEW S \in SUBSET Slots, AbortAll(S)
  PROVE  Served'
<1>1. /\ TypeOK' /\ LockInv' /\ UNCHANGED <<instance, lockQ>>
      /\ \A q \in Callers : call'[q].at = call[q].at \/ (call[q].at = "wait" /\ call'[q] = Threw)
  BY AbortAllEffect DEF Served
<1>2. Threw.at = "threw"
  BY Written, AbortAllEffect DEF Served, Threw
<1>. QED
  BY <1>1, <1>2, ServedUnmoved

LEMMA AbortAllKeeps ==
  ASSUME IInv, EngineInv, NEW S \in SUBSET Slots, AbortAll(S)
  PROVE  IInv' /\ EngineInv'
<1>. USE DEF IInv
<1>1. /\ TypeOK' /\ LockInv'
      /\ UNCHANGED <<instance, timer, pinned, lockQ, processes>>
      /\ \A q \in Callers :
           \/ call[q].at = "wait" /\ call'[q] = Threw
           \/ /\ call'[q].at = call[q].at /\ call'[q].op = call[q].op
              /\ call'[q].want = call[q].want /\ call'[q].held = call[q].held
      /\ waiters' # <<>> => waiters # <<>>
      /\ ForceIn(lockQ', call') => ForceIn(lockQ, call)
  BY AbortAllEffect
<1>2. Threw.at = "threw"
  BY DEF Threw, Returned
<1>3. Holders' = Holders /\ \A p \in Holders : call'[p].held = call[p].held /\ call'[p].want = call[p].want
  BY <1>1, <1>2 DEF Holders, Holding
<1>4. CallInv'
  BY <1>1, <1>2 DEF CallInv
<1>5. lockQ # <<>> => /\ lockQ[1] \in Callers
                      /\ call'[lockQ[1]].at = call[lockQ[1]].at
                      /\ call'[lockQ[1]].want = call[lockQ[1]].want
  <2>1. lockQ # <<>> => 1 \in 1..Len(lockQ)
    BY LockFacts, EmptySeq
  <2>. QED
    BY <1>1, <2>1, LockFacts
<1>6. HeadInv'
  BY <1>1, <1>3, <1>5 DEF HeadInv, instance
<1>7. LeaseInv'
  BY <1>1, <1>3 DEF LeaseInv, instance
<1>8. IInv'
  BY <1>1, <1>4, <1>6, <1>7
<1>9. call'[Evictor].at = call[Evictor].at
  <2>1. Evictor \in Callers \ Slots
    BY CallersAssumption DEF Callers
  <2>2. call[Evictor].at # "wait"
    BY <2>1 DEF CallInv
  <2>. QED
    BY <1>1, <2>1, <2>2
<1>10. NoStrayEngine'
  BY <1>1 DEF instance, processes, EngineInv, Settings, EnginesAreKnown, NoStrayEngine
<1>11. EngineInv'
  BY <1>1, <1>5, <1>9, <1>10, IInvBasics, Unmoved
<1>. QED
  BY <1>8, <1>11

LEMMA ServedInit == Begins => Served
<1>. SUFFICES ASSUME Begins PROVE Served
  OBVIOUS
<1>1. TypeOK /\ LockInv
  BY InitInv DEF IInv
<1>2. /\ state = "UNLOADED" /\ recipe = NoRecipe /\ leases = 0 /\ lockQ = <<>>
      /\ \A p \in Callers : call[p].at = "returned"
  BY DEF Begins, Fresh, Returned
<1>3. Roles /\ HeadStands
  BY <1>2 DEF Roles, HeadStands
<1>4. Tally
  BY <1>2, <1>3, RolesFacts DEF Tally
<1>. QED
  BY <1>1, <1>3, <1>4 DEF Served

-----------------------------------------------------------------------------
(* The scheduler (packages/inference-core/src/scheduler.ts) over the manager *)

USE DEF Jobs

\* The steps of the scheduler in terms of the manager and of the lane.
LEMMA SubmitEffect ==
  ASSUME NEW j \in Slots, Submit(j)
  PROVE  /\ UNCHANGED <<vars, open, step, cancelled, barrier, closing>>
         /\ stage[j] = "new"
         /\ \E s \in {"refused", "waiting", "running"} :
              /\ stage' = [stage EXCEPT ![j] = s]
              /\ s # "refused" => open /\ barrier = "open"
<1>1. UNCHANGED <<vars, open, step, cancelled, barrier, closing>>
  BY DEF Submit, lifecycle, control, vars,
         Lane!Refuse, Lane!StartAtOnce, Lane!Wait
<1>. QED
  BY <1>1 DEF Submit, Quiescing, Lane!Refuse,
              Lane!StartAtOnce, Lane!Wait

LEMMA CancelEffect ==
  ASSUME NEW j \in Slots, Cancel(j)
  PROVE  /\ cancelled' = cancelled \cup {j} /\ UNCHANGED <<open, step, barrier, closing>>
         /\ \/ UNCHANGED vars /\ stage[j] = "waiting" /\ stage' = [stage EXCEPT ![j] = "cancelled"]
            \/ AbortAll({j}) /\ UNCHANGED stage
BY DEF Cancel, Lane!Drop, lifecycle, control, lane, vars

LEMMA ExecuteEffect ==
  ASSUME NEW j \in Slots, Execute(j)
  PROVE  /\ stage[j] = "running" /\ step[j] = "none" /\ step' = [step EXCEPT ![j] = "work"]
         /\ UNCHANGED <<stage, open, cancelled, barrier, closing>>
         /\ RecipeOf[j] \in Recipes
         /\ \/ KindOf[j] \in {"chat", "test"} /\ Chat(j, RecipeOf[j]) /\ RecipeOf[j] \in TextRecipes
            \/ KindOf[j] = "media" /\ Media(j, RecipeOf[j]) /\ RecipeOf[j] \in MediaRecipes
            \/ KindOf[j] = "warm" /\ Warm(j, RecipeOf[j]) /\ RecipeOf[j] \in TextRecipes
<1>1. /\ KindOf[j] \in {"chat", "test", "media", "warm"}
      /\ KindOf[j] = "media" => RecipeOf[j] \in MediaRecipes
      /\ KindOf[j] # "media" => RecipeOf[j] \in TextRecipes
  BY JobsAssumption
<1>2. RecipeOf[j] \in Recipes
  BY <1>1 DEF Recipes
<1>3. /\ stage[j] = "running" /\ step[j] = "none" /\ step' = [step EXCEPT ![j] = "work"]
      /\ UNCHANGED <<stage, open, cancelled, barrier, closing>>
  BY DEF Execute, lane, control
<1>4. CASE KindOf[j] \in {"chat", "test"}
  BY <1>1, <1>2, <1>3, <1>4 DEF Execute
<1>5. CASE KindOf[j] = "media"
  BY <1>1, <1>2, <1>3, <1>5 DEF Execute
<1>6. CASE KindOf[j] = "warm"
  BY <1>1, <1>2, <1>3, <1>6 DEF Execute
<1>. QED
  BY <1>1, <1>4, <1>5, <1>6

\* What the scheduler keeps of its own.
Control ==
  /\ stage \in [Slots -> Lane!Stages] /\ open \in BOOLEAN
  /\ step \in [Slots -> {"none", "work", "stop", "restore", "restoreAfterError", "done"}]
  /\ cancelled \subseteq Slots
  /\ barrier \in {"open", "draining", "stopping"}
  /\ closing \in {"open", "draining", "stopping", "closed"}

\* The job j settles: its slot is given on.
Settles(j) ==
  /\ UNCHANGED <<vars, open, cancelled, barrier, closing>>
  /\ step' = [step EXCEPT ![j] = "done"]
  /\ stage[j] = "running" /\ stage' \in [Slots -> Lane!Stages]
  /\ stage'[j] \in Lane!Ended
  /\ \A i \in Slots \ {j} : stage'[i] = stage[i] \/ (stage[i] = "waiting" /\ stage'[i] = "running")

LEMMA SettleEffect ==
  ASSUME Control, NEW j \in Slots, NEW ok, Settle(j, ok)
  PROVE  Settles(j)
<1>1. PICK how \in {"completed", "cancelled", "failed"} : Lane!End(j, how)
  BY DEF Settle
<1>2. /\ UNCHANGED <<vars, open, cancelled, barrier, closing>>
      /\ step' = [step EXCEPT ![j] = "done"]
  BY <1>1 DEF Settle, Lane!End, lifecycle, control, vars
<1>3. /\ stage[j] = "running"
      /\ \/ stage' = [stage EXCEPT ![j] = how]
         \/ \E w \in Slots : stage[w] = "waiting" /\ stage' = [stage EXCEPT ![j] = how, ![w] = "running"]
  BY <1>1 DEF Lane!End, Lane!In
<1>4. how \in Lane!Ended /\ {how, "running"} \subseteq Lane!Stages
  BY DEF Lane!Ended, Lane!Stages
<1>5. stage \in [Slots -> Lane!Stages]
  BY DEF Control
<1>6. CASE stage' = [stage EXCEPT ![j] = how]
  BY <1>2, <1>3, <1>4, <1>5, <1>6 DEF Settles
<1>7. CASE \E w \in Slots : stage[w] = "waiting" /\ stage' = [stage EXCEPT ![j] = how, ![w] = "running"]
  <2>1. PICK w \in Slots : stage[w] = "waiting" /\ stage' = [stage EXCEPT ![j] = how, ![w] = "running"]
    BY <1>7
  <2>2. w # j
    BY <1>3, <2>1
  <2>. QED
    BY <1>2, <1>3, <1>4, <1>5, <2>1, <2>2 DEF Settles
<1>. QED
  BY <1>3, <1>6, <1>7

\* What a job goes on to when its lifecycle call is over.
LEMMA AfterEffect ==
  ASSUME Control, NEW j \in Slots,
         AfterWork(j) \/ AfterStop(j) \/ AfterRestore(j)
  PROVE  /\ step[j] \in {"work", "stop", "restore", "restoreAfterError"} /\ Idle(j)
         /\ \/ /\ Stop(j) /\ step[j] = "work" /\ KindOf[j] = "test"
               /\ step' = [step EXCEPT ![j] = "stop"]
               /\ UNCHANGED <<stage, open, cancelled, barrier, closing>>
            \/ /\ Restore(j) /\ step[j] \in {"work", "stop"} /\ barrier = "open"
               /\ step' \in {[step EXCEPT ![j] = "restore"], [step EXCEPT ![j] = "restoreAfterError"]}
               /\ UNCHANGED <<stage, open, cancelled, barrier, closing>>
            \/ /\ Settles(j)
               /\ KindOf[j] = "media" /\ step[j] = "work" => barrier # "open" \/ pinned = NoRecipe
<1>1. CASE AfterWork(j)
  <2>1. step[j] = "work" /\ Idle(j)
    BY <1>1 DEF AfterWork
  <2>2. CASE Unloads(j) /\ Stop(j) /\ Call(j, "stop")
    BY <2>1, <2>2 DEF Unloads, Call, lane, control
  <2>3. CASE /\ Restores(j) /\ Restore(j)
             /\ Call(j, IF Fine(j) THEN "restore" ELSE "restoreAfterError")
    BY <2>1, <2>3 DEF Restores, Quiescing, Call, lane,
                            control
  <2>4. CASE ~Restores(j) /\ Settle(j, Fine(j))
    <3>1. Settles(j)
      BY <2>4, SettleEffect
    <3>. QED
      BY <2>1, <2>4, <3>1 DEF Restores, Quiescing
  <2>. QED
    BY <1>1, <2>2, <2>3, <2>4 DEF AfterWork
<1>2. CASE AfterStop(j)
  <2>1. step[j] = "stop" /\ Idle(j)
    BY <1>2 DEF AfterStop
  <2>2. CASE ~Quiescing /\ Restore(j) /\ Call(j, "restore")
    BY <2>1, <2>2 DEF Quiescing, Call, lane, control
  <2>3. CASE Settle(j, Fine(j))
    BY <2>1, <2>3, SettleEffect
  <2>. QED
    BY <1>2, <2>2, <2>3 DEF AfterStop
<1>3. CASE AfterRestore(j)
  BY <1>3, SettleEffect DEF AfterRestore
<1>. QED
  BY <1>1, <1>2, <1>3

\* The two ways to a stop: everything admitted is cancelled or aborted, and when the
\* lanes are empty the instance is stopped by force.
LEMMA CancelAllEffect ==
  ASSUME Control, NEW stillOpen \in BOOLEAN, CancelAll(stillOpen)
  PROVE  /\ AbortAll({j \in Slots : stage[j] = "running"})
         /\ stage' = [j \in Slots |-> IF stage[j] = "waiting" THEN "cancelled" ELSE stage[j]]
         /\ open' = stillOpen /\ cancelled' \subseteq Slots
<1>1. Lane!In("running") = {j \in Slots : stage[j] = "running"}
      /\ Lane!In("waiting") \subseteq Slots
  BY DEF Lane!In
<1>. QED
  BY <1>1 DEF CancelAll, Lane!DropAll, Control

Admitted == {j \in Slots : stage[j] \in {"waiting", "running"}}

LEMMA DrainedLane ==
  Depth = 0 <=> Admitted = {}
<1>1. Lane!In("waiting") \cup Lane!In("running") = Admitted
  BY DEF Lane!In, Admitted
<1>2. IsFiniteSet(Admitted)
  BY CallersAssumption, FS_Subset DEF Admitted
<1>. QED
  BY <1>1, <1>2, FS_EmptySet DEF Depth

\* The two callers of the forced stop are no jobs.
LEMMA TwoStoppers ==
  /\ Hosts = {Quiescer, Closer} /\ Quiescer # Closer
  /\ Hosts \subseteq Callers \ (Slots \cup {Admin, Evictor})
BY StoppersAssumption, CallersAssumption DEF Callers

LEMMA StopEffect ==
  ASSUME NEW p \in Hosts, StopDrained(p)
  PROVE  /\ Admitted = {} /\ Begin(p, "force", NoRecipe, "stop")
         /\ UNCHANGED <<stage, open, step, cancelled>>
BY DrainedLane DEF StopDrained, lane

\* A job uses the manager only while it is in its execute() and so in its slot;
\* quiesce() and shutdown() only while they stop the instance, when nothing is
\* admitted any more.
Driving ==
  /\ \A j \in Slots : IF step[j] \in {"none", "done"} THEN Idle(j) ELSE stage[j] = "running"
  /\ ~Idle(Quiescer) => barrier = "stopping"
  /\ ~Idle(Closer) => closing = "stopping"
  /\ barrier = "stopping" \/ closing \in {"stopping", "closed"} => Admitted = {}
  /\ closing # "open" => ~open

SInv == Control /\ Served /\ pinned \in Defaults /\ Driving

Still == UNCHANGED <<stage, open, step, cancelled, barrier, closing>>

\* A call under way goes on, or nobody's does.
LEMMA DrivingOn ==
  ASSUME SInv, Still, Served', pinned' \in Defaults,
         \/ \E p \in Callers : Carried(p) /\ (Idle(p) => p \in {Admin, Evictor})
         \/ \A q \in Callers : call'[q].at = call[q].at
  PROVE  SInv'
<1>1. Control' /\ Admitted' = Admitted
  BY DEF SInv, Control, Still, Admitted
<1>2. ASSUME NEW q \in Slots \cup Hosts, Idle(q) PROVE Idle(q)'
  <2>1. q \in Callers /\ q \notin {Admin, Evictor}
    BY CallersAssumption, TwoStoppers DEF Callers
  <2>. QED
    BY <1>2, <2>1 DEF Idle, Carried
<1>3. Driving'
  BY <1>1, <1>2, TwoStoppers DEF SInv, Driving, Still
<1>. QED
  BY <1>1, <1>3 DEF SInv

LEMMA RestingIdle ==
  ASSUME SInv, barrier = "stopping" \/ closing \in {"stopping", "closed"}
  PROVE  LanesIdle
BY DEF SInv, Driving, Admitted, LanesIdle

\* The job j makes a call.
LEMMA CallStarts ==
  ASSUME SInv, NEW j \in Slots, Idle(j), stage[j] = "running",
         UNCHANGED <<stage, open, cancelled, barrier, closing>>,
         NEW s \in {"work", "stop", "restore", "restoreAfterError"}, step' = [step EXCEPT ![j] = s],
         NEW op \in Ops \ {"force"}, NEW r \in Recipes \cup {NoRecipe},
         NEW pos \in {"acquire", "ready", "stop"}, Begin(j, op, r, pos)
  PROVE  SInv' /\ Carried(j)
<1>1. j \in Callers /\ pos \in LockAwaits /\ {Quiescer, Closer} \subseteq Callers \ {j}
  BY TwoStoppers DEF Callers, LockAwaits
<1>2. TypeOK'
  BY <1>1, BeginType DEF SInv, Served
<1>3. Served' /\ Carried(j)
  BY <1>1, <1>2, ServedBegin DEF SInv
<1>4. Control' /\ pinned' \in Defaults /\ Admitted' = Admitted
  BY DEF SInv, Control, Admitted, Begin
<1>5. \A q \in Callers \ {j} : Idle(q) => Idle(q)'
  BY <1>3 DEF Carried, Idle
<1>6. \A i \in Slots : step'[i] = IF i = j THEN s ELSE step[i]
  BY DEF SInv, Control
<1>7. \A i \in Slots : i \in Callers
  BY DEF Callers
<1>8. Driving'
  BY <1>1, <1>4, <1>5, <1>6, <1>7 DEF SInv, Driving
<1>. QED
  BY <1>3, <1>4, <1>8 DEF SInv

\* A step of the lane that leaves the manager and the stops alone.
LEMMA LaneMoves ==
  ASSUME SInv, UNCHANGED <<vars, open, barrier, closing>>, Control',
         \A i \in Slots : IF step'[i] \in {"none", "done"} THEN Idle(i) ELSE stage'[i] = "running",
         barrier = "stopping" \/ closing \in {"stopping", "closed"} => Admitted' \subseteq Admitted
  PROVE  SInv'
<1>1. Served' /\ UNCHANGED call /\ pinned' = pinned
  BY ServedEnvironment DEF SInv, vars
<1>2. Driving'
  BY <1>1 DEF SInv, Driving, Idle, Admitted
<1>. QED
  BY <1>1, <1>2 DEF SInv

LEMMA SubmitStep ==
  ASSUME SInv, NEW j \in Slots, Submit(j)
  PROVE  SInv'
<1>1. /\ UNCHANGED <<vars, open, step, cancelled, barrier, closing>> /\ stage[j] = "new"
      /\ \E s \in {"refused", "waiting", "running"} :
           /\ stage' = [stage EXCEPT ![j] = s]
           /\ s # "refused" => open /\ barrier = "open"
  BY SubmitEffect
<1>2. PICK s \in {"refused", "waiting", "running"} :
        stage' = [stage EXCEPT ![j] = s] /\ (s # "refused" => open /\ barrier = "open")
  BY <1>1
<1>3. \A i \in Slots : stage'[i] = IF i = j THEN s ELSE stage[i]
  BY <1>2 DEF SInv, Control
<1>4. Control'
  BY <1>1, <1>2 DEF SInv, Control, Lane!Stages, Lane!Ended
<1>5. barrier = "stopping" \/ closing \in {"stopping", "closed"} => Admitted' \subseteq Admitted
  BY <1>1, <1>2, <1>3 DEF SInv, Driving, Admitted
<1>6. \A i \in Slots : IF step'[i] \in {"none", "done"} THEN Idle(i) ELSE stage'[i] = "running"
  BY <1>1, <1>3 DEF SInv, Driving
<1>. QED
  BY <1>1, <1>4, <1>5, <1>6, LaneMoves

LEMMA SettleStep ==
  ASSUME SInv, NEW j \in Slots, Idle(j), Settles(j)
  PROVE  SInv'
<1>1. /\ UNCHANGED <<vars, open, cancelled, barrier, closing>>
      /\ \A i \in Slots : step'[i] = IF i = j THEN "done" ELSE step[i]
      /\ \A i \in Slots : i # j /\ stage[i] = "running" => stage'[i] = "running"
  BY DEF SInv, Control, Settles
<1>2. Control'
  BY DEF SInv, Control, Settles
<1>3. Admitted' \subseteq Admitted
  BY DEF Settles, Admitted, Lane!Ended
<1>4. \A i \in Slots : IF step'[i] \in {"none", "done"} THEN Idle(i) ELSE stage'[i] = "running"
  BY <1>1 DEF SInv, Driving
<1>. QED
  BY <1>1, <1>2, <1>3, <1>4, LaneMoves

\* execute() of a job.
LEMMA AdvanceStep ==
  ASSUME SInv, NEW j \in Slots, Advance(j)
  PROVE  SInv'
<1>0. NoRecipe \in Recipes \cup {NoRecipe} /\ pinned \in Recipes \cup {NoRecipe}
      /\ {"chat", "media", "warm", "restore", "graceful"} \subseteq Ops \ {"force"}
  BY RecipesAssumption DEF SInv, Recipes, Ops
<1>1. CASE Execute(j)
  <2>1. /\ stage[j] = "running" /\ step[j] = "none" /\ step' = [step EXCEPT ![j] = "work"]
        /\ UNCHANGED <<stage, open, cancelled, barrier, closing>>
        /\ RecipeOf[j] \in Recipes
        /\ Chat(j, RecipeOf[j]) \/ Media(j, RecipeOf[j]) \/ Warm(j, RecipeOf[j])
    BY <1>1, ExecuteEffect
  <2>2. Idle(j)
    BY <2>1 DEF SInv, Driving
  <2>. QED
    BY <1>0, <2>1, <2>2, CallStarts DEF Chat, Media, Warm
<1>2. CASE AfterWork(j) \/ AfterStop(j) \/ AfterRestore(j)
  <2>1. step[j] \notin {"none", "done"} /\ Idle(j)
    BY <1>2, AfterEffect DEF SInv
  <2>2. stage[j] = "running"
    BY <2>1 DEF SInv, Driving
  <2>3. \/ /\ Stop(j) \/ Restore(j)
           /\ \E s \in {"stop", "restore", "restoreAfterError"} : step' = [step EXCEPT ![j] = s]
           /\ UNCHANGED <<stage, open, cancelled, barrier, closing>>
        \/ Settles(j)
    BY <1>2, AfterEffect DEF SInv
  <2>4. CASE Settles(j)
    BY <2>1, <2>4, SettleStep
  <2>5. CASE /\ Stop(j) \/ Restore(j)
             /\ \E s \in {"stop", "restore", "restoreAfterError"} : step' = [step EXCEPT ![j] = s]
             /\ UNCHANGED <<stage, open, cancelled, barrier, closing>>
    BY <1>0, <2>1, <2>2, <2>5, CallStarts DEF Stop, Restore
  <2>. QED
    BY <2>3, <2>4, <2>5
<1>. QED
  BY <1>1, <1>2 DEF Advance

\* Whatever is cancelled, what was admitted can only end, and the callers keep their
\* places.
LEMMA AbortStep ==
  ASSUME SInv, NEW S \in SUBSET Slots, AbortAll(S), Control', UNCHANGED step,
         stage' \in {stage, [j \in Slots |-> IF stage[j] = "waiting" THEN "cancelled" ELSE stage[j]]},
         barrier' = "stopping" <=> barrier = "stopping",
         closing' = closing \/ (closing = "open" /\ closing' = "draining"), closing' # "open" => ~open'
  PROVE  SInv'
<1>1. Served'
  BY ServedAbort DEF SInv
<1>2. /\ \A q \in Callers : Idle(q) => Idle(q)'
      /\ \A q \in Callers : call[q].op \notin {"chat", "media", "warm"} => call'[q] = call[q]
      /\ pinned' = pinned
      /\ \A q \in Callers \ Slots : call'[q] = call[q]
  <2>1. \A q \in Callers : q \notin S => call'[q] = call[q]
    BY DEF AbortAll
  <2>2. \A q \in Callers : call'[q].at = call[q].at \/ (call[q].at = "wait" /\ call'[q] = Threw)
    BY AbortAllEffect DEF SInv, Served
  <2>. QED
    BY <2>1, <2>2, AbortAllEffect DEF SInv, Served, Idle
<1>3. \A i \in Slots : i \in Callers /\ (stage[i] = "running" => stage'[i] = "running")
  BY DEF Callers
<1>4. {Quiescer, Closer} \subseteq Callers \ Slots
  BY TwoStoppers
<1>5. Admitted' \subseteq Admitted
  BY DEF Admitted
<1>6. \A j \in Slots : IF step'[j] \in {"none", "done"} THEN Idle(j)' ELSE stage'[j] = "running"
  BY <1>2, <1>3 DEF SInv, Driving
<1>7. Driving'
  BY <1>2, <1>4, <1>5, <1>6 DEF SInv, Driving, Idle, Control
<1>. QED
  BY <1>1, <1>2, <1>7 DEF SInv

LEMMA CancelStep ==
  ASSUME SInv,
         (\E j \in Slots : Cancel(j)) \/ Quiesce \/ Shutdown
  PROVE  SInv'
<1>1. ASSUME NEW j \in Slots, Cancel(j) PROVE SInv'
  <2>1. /\ cancelled' = cancelled \cup {j} /\ UNCHANGED <<open, step, barrier, closing>>
        /\ \/ UNCHANGED vars /\ stage[j] = "waiting" /\ stage' = [stage EXCEPT ![j] = "cancelled"]
           \/ AbortAll({j}) /\ UNCHANGED stage
    BY <1>1, CancelEffect
  <2>2. Control'
    BY <2>1 DEF SInv, Control, Lane!Stages, Lane!Ended
  <2>3. CASE UNCHANGED vars /\ stage[j] = "waiting" /\ stage' = [stage EXCEPT ![j] = "cancelled"]
    <3>1. \A i \in Slots : stage'[i] = IF i = j THEN "cancelled" ELSE stage[i]
      BY <2>3 DEF SInv, Control
    <3>2. Admitted' \subseteq Admitted
      BY <3>1 DEF Admitted
    <3>3. \A i \in Slots : IF step'[i] \in {"none", "done"} THEN Idle(i) ELSE stage'[i] = "running"
      BY <2>1, <2>3, <3>1 DEF SInv, Driving
    <3>. QED
      BY <2>1, <2>2, <2>3, <3>2, <3>3, LaneMoves
  <2>4. CASE AbortAll({j}) /\ UNCHANGED stage
    <3>1. {j} \in SUBSET Slots /\ (closing' # "open" => ~open')
      BY <2>1 DEF SInv, Driving
    <3>. QED
      BY <2>1, <2>2, <2>4, <3>1, AbortStep
  <2>. QED
    BY <2>1, <2>3, <2>4
<1>2. ASSUME NEW stillOpen \in BOOLEAN, CancelAll(stillOpen), UNCHANGED step,
             \/ barrier = "open" /\ barrier' = "draining" /\ closing' = closing /\ stillOpen = open
             \/ barrier' = barrier /\ closing = "open" /\ closing' = "draining" /\ stillOpen = FALSE
      PROVE  SInv'
  <2>. DEFINE S == {j \in Slots : stage[j] = "running"}
  <2>1. /\ AbortAll(S)
        /\ stage' = [j \in Slots |-> IF stage[j] = "waiting" THEN "cancelled" ELSE stage[j]]
        /\ open' = stillOpen /\ cancelled' \subseteq Slots
    BY <1>2, CancelAllEffect DEF SInv
  <2>2. Control'
    BY <1>2, <2>1 DEF SInv, Control, Lane!Stages, Lane!Ended
  <2>3. S \in SUBSET Slots /\ (closing' # "open" => ~open')
    BY <1>2, <2>1 DEF SInv, Driving
  <2>. HIDE DEF S
  <2>. QED
    BY <1>2, <2>1, <2>2, <2>3, AbortStep
<1>3. CASE Quiesce
  BY <1>2, <1>3 DEF Quiesce, SInv, Control
<1>4. CASE Shutdown
  BY <1>2, <1>4 DEF Shutdown
<1>. QED
  BY <1>1, <1>3, <1>4

\* The instance is stopped by force, and quiesce() or shutdown() is over when its own
\* call is, whatever the other one is doing.
LEMMA StopsStep ==
  ASSUME SInv, Stopping
  PROVE  SInv'
<1>1. ASSUME NEW p \in Hosts, StopDrained(p),
             \/ p = Quiescer /\ barrier' = "stopping" /\ UNCHANGED closing
             \/ p = Closer /\ closing = "draining" /\ closing' = "stopping" /\ UNCHANGED barrier
      PROVE  SInv'
  <2>1. /\ Admitted = {} /\ Begin(p, "force", NoRecipe, "stop")
        /\ UNCHANGED <<stage, open, step, cancelled>>
    BY <1>1, StopEffect
  <2>2. LanesIdle
    BY <2>1 DEF SInv, Driving, Admitted, LanesIdle
  <2>3. p \in Callers \ Slots /\ "force" \in Ops /\ "stop" \in LockAwaits
    BY TwoStoppers DEF Ops, LockAwaits
  <2>4. TypeOK'
    BY <2>1, <2>3, BeginType DEF SInv, Served
  <2>5. Served' /\ Carried(p)
    BY <2>1, <2>2, <2>3, <2>4, ServedBegin DEF SInv
  <2>6. Control' /\ Admitted' = {} /\ pinned' \in Defaults
    BY <1>1, <2>1 DEF SInv, Control, Admitted, Begin
  <2>7. \A q \in (Slots \cup Hosts) \ {p} : Idle(q) => Idle(q)'
    <3>1. \A q \in (Slots \cup Hosts) \ {p} : q \in Callers \ {p}
      BY TwoStoppers DEF Callers
    <3>. QED
      BY <2>5, <3>1 DEF Carried, Idle
  <2>8. Driving'
    BY <1>1, <2>1, <2>3, <2>6, <2>7, TwoStoppers DEF SInv, Driving
  <2>. QED
    BY <2>5, <2>6, <2>8 DEF SInv
<1>2. CASE QuiesceStops \/ ShutdownStops
  BY <1>1, <1>2, TwoStoppers DEF QuiesceStops, ShutdownStops
<1>3. CASE QuiesceEnds \/ ShutdownEnds
  <2>1. /\ UNCHANGED <<vars, stage, open, step, cancelled>>
        /\ \/ /\ barrier = "stopping" /\ Idle(Quiescer)
              /\ barrier' = "open" /\ closing' = closing
           \/ /\ closing = "stopping" /\ Idle(Closer)
              /\ closing' = "closed" /\ barrier' = barrier
    BY <1>3 DEF QuiesceEnds, ShutdownEnds, lane,
                      lifecycle, vars
  <2>2. Served' /\ pinned' = pinned /\ UNCHANGED call
    BY <2>1, ServedEnvironment DEF SInv, vars
  <2>3. Control'
    BY <2>1 DEF SInv, Control
  <2>4. Driving'
    BY <2>1, <2>2 DEF SInv, Driving, Idle, Admitted
  <2>. QED
    BY <2>2, <2>3, <2>4 DEF SInv
<1>. QED
  BY <1>2, <1>3 DEF Stopping

\* The manager moves while the scheduler stands still.
LEMMA ManagerEffect ==
  ASSUME \/ \E p \in Callers : Proceed(p)
         \/ LifecycleStep(EvictionFires)
         \/ Environment \/ AdminStop \/ UNCHANGED schedulerVars
  PROVE  /\ Still
         /\ \/ \E p \in Callers : Progress(p)
            \/ EvictionFires \/ Stop(Admin)
            \/ \E r \in Defaults : Pin(r)
            \/ \E e \in Engines : EngineDies(e)
            \/ UNCHANGED vars
<1>. USE DEF LifecycleStep, lane, control, Still
<1>1. ASSUME NEW p \in Callers, Proceed(p) PROVE Still /\ Progress(p)
  BY <1>1 DEF Proceed
<1>2. CASE LifecycleStep(EvictionFires)
  BY <1>2
<1>3. ASSUME NEW r \in Defaults, Repin(r) PROVE Still /\ Pin(r)
  BY <1>3 DEF Repin
<1>4. ASSUME NEW e \in Engines, LifecycleStep(EngineDies(e))
      PROVE  Still /\ EngineDies(e)
  BY <1>4
<1>5. CASE AdminStop
  BY <1>5 DEF AdminStop
<1>6. CASE UNCHANGED schedulerVars
  BY <1>6 DEF schedulerVars, lifecycle, vars
<1>. QED
  BY <1>1, <1>2, <1>3, <1>4, <1>5, <1>6 DEF Environment

LEMMA ManagerStep ==
  ASSUME SInv, Still,
         \/ \E p \in Callers : Progress(p)
         \/ EvictionFires \/ Stop(Admin)
         \/ \E r \in Defaults : Pin(r)
         \/ \E e \in Engines : EngineDies(e)
         \/ UNCHANGED vars
  PROVE  SInv'
<1>1. ASSUME NEW p \in Callers, Progress(p) PROVE SInv'
  <2>1. Served' /\ Carried(p) /\ ~Idle(p)
    BY <1>1, ServedProgress DEF SInv
  <2>2. pinned' = pinned
    BY <1>1 DEF Progress, Acquire, EnsureReady, Prepared, Release, StopUnlocked, ThermalTrip,
         UnloadAfterThermalFailure, CloseThermal, Validated, Started, Probed, StopOldReturns,
         CleanedUp, ThermalStopReturns, StopReturns, EndGeneration, Grant, BeginLoad
  <2>. QED
    BY <2>1, <2>2, DrivingOn DEF SInv
<1>2. CASE EvictionFires
  <2>1. Served' /\ Carried(Evictor) /\ pinned' = pinned /\ Evictor \in Callers
    BY <1>2, ServedEnvironment DEF SInv, EvictionFires, Callers
  <2>. QED
    BY <2>1, DrivingOn DEF SInv
<1>3. CASE Stop(Admin)
  <2>1. /\ Admin \in Callers /\ Admin \notin Slots /\ "graceful" \in Ops /\ "stop" \in LockAwaits
        /\ Begin(Admin, "graceful", NoRecipe, "stop") /\ pinned' = pinned
    BY <1>3, CallersAssumption DEF Callers, Ops, LockAwaits, Stop, Begin
  <2>2. TypeOK'
    BY <2>1, BeginType DEF SInv, Served
  <2>3. Served' /\ Carried(Admin)
    BY <2>1, <2>2, ServedBegin DEF SInv
  <2>. QED
    BY <2>1, <2>3, DrivingOn DEF SInv
<1>4. CASE (\E r \in Defaults : Pin(r)) \/ (\E e \in Engines : EngineDies(e)) \/ UNCHANGED vars
  <2>1. Served' /\ UNCHANGED call
    BY <1>4, ServedEnvironment DEF SInv
  <2>2. pinned' \in Defaults
    BY <1>4 DEF SInv, Pin, EngineDies, vars
  <2>. QED
    BY <2>1, <2>2, DrivingOn
<1>. QED
  BY <1>1, <1>2, <1>3, <1>4

LEMMA DrivenInit == SchedulerInit => SInv
<1>. SUFFICES ASSUME SchedulerInit PROVE SInv
  OBVIOUS
<1>1. /\ Fresh /\ pinned \in Defaults
      /\ stage = [j \in Slots |-> "new"] /\ open = TRUE
      /\ step = [j \in Slots |-> "none"]
      /\ cancelled = {} /\ barrier = "open" /\ closing = "open"
  BY DEF SchedulerInit, Lane!Init
<1>2. Served
  BY <1>1, ServedInit DEF Begins
<1>3. Control
  BY <1>1 DEF Control, Lane!Stages
<1>4. \A p \in Callers : Idle(p)
  BY <1>1 DEF Fresh, Idle, Returned
<1>5. Driving
  BY <1>1, <1>4, TwoStoppers DEF Driving, Callers
<1>. QED
  BY <1>1, <1>2, <1>3, <1>5 DEF SInv

LEMMA DrivenStep ==
  ASSUME SInv, [SchedulerNext]_schedulerVars
  PROVE  SInv'
<1>1. ASSUME NEW j \in Slots, Submit(j) \/ Cancel(j) \/ Advance(j)
      PROVE  SInv'
  BY <1>1, SubmitStep, CancelStep, AdvanceStep
<1>2. CASE Quiesce \/ Shutdown
  BY <1>2, CancelStep
<1>3. CASE Stopping
  BY <1>3, StopsStep
<1>4. CASE \/ \E p \in Callers : Proceed(p)
           \/ LifecycleStep(EvictionFires)
           \/ Environment \/ AdminStop \/ UNCHANGED schedulerVars
  BY <1>4, ManagerEffect, ManagerStep DEF Callers
<1>. QED
  BY <1>1, <1>2, <1>3, <1>4 DEF SchedulerNext

\* For any number of jobs of any kinds, the lane of any width, whatever stopping an
\* engine does and whether or not the thermal guard fires, every reachable state
\* satisfies the invariant.
LEMMA DrivenInvariance == SchedulerSpec => []SInv
<1>. DEFINE J == SInv
<1>1. SchedulerInit => J
  BY DrivenInit
<1>2. J /\ [SchedulerNext]_schedulerVars => J'
  BY DrivenStep
<1>3. J => SInv
  OBVIOUS
<1>. HIDE DEF J
<1>. QED
  BY <1>1, <1>2, <1>3, PTL DEF SchedulerSpec

\* While no job uses the manager, it neither loads nor generates.
LEMMA NothingLoads ==
  ASSUME SInv, LanesIdle
  PROVE  state \notin {"PREPARING", "LOADING", "BUSY"} /\ leases = 0
<1>. USE DEF SInv, Served
<1>1. Holders = {}
  BY RolesFacts DEF Holders, Holding, LanesIdle, Idle
<1>2. leases = 0 /\ state # "BUSY"
  BY <1>1, FS_EmptySet DEF Tally, TypeOK
<1>3. state \notin {"PREPARING", "LOADING"}
  <2>1. lockQ # <<>> => lockQ[1] \in Callers
    BY LockFacts, EmptySeq
  <2>. QED
    BY <2>1, RolesFacts DEF HeadStands, Loads, LanesIdle, Idle
<1>. QED
  BY <1>2, <1>3

\* bounded-work-lane.ts:81-83: "no queued request may race the model stop and load
\* another runtime afterward".  For any number of jobs of any kinds, lanes of any
\* width, any recipes and engines, whatever the stops report and whether or not the
\* thermal guard fires: the forced stop of quiesce() and shutdown() meets no
\* generation, and until the two return nothing loads, prepares or generates.
THEOREM StopsRaceNothing ==
  SchedulerSpec => []BarrierHolds
<1>1. SInv => BarrierHolds
  <2>. SUFFICES ASSUME SInv PROVE BarrierHolds
    OBVIOUS
  <2>1. ASSUME NEW p \in Hosts, At(p, "stop")
        PROVE  state # "BUSY" /\ leases = 0 /\ Lane!In("running") = {}
    <3>1. barrier = "stopping" \/ closing = "stopping"
      BY <2>1, TwoStoppers DEF SInv, Driving, At, Idle
    <3>2. LanesIdle /\ Admitted = {}
      BY <3>1, RestingIdle DEF SInv, Driving
    <3>. QED
      BY <3>2, NothingLoads DEF Admitted, Lane!In
  <2>2. ASSUME barrier = "stopping" \/ closing = "stopping"
        PROVE  state \notin {"PREPARING", "LOADING", "BUSY"} /\ \A j \in Slots : Idle(j)
    BY <2>2, RestingIdle, NothingLoads DEF LanesIdle
  <2>. QED
    BY <2>1, <2>2 DEF BarrierHolds
<1>. QED
  BY <1>1, DrivenInvariance, PTL

\* execute() is awaited to its end (scheduler.ts:309-420): for any number of jobs,
\* one whose slot is free again holds no lease and no turn at the lock, nor waits
\* for one, and neither does one that never ran; every field keeps its type.
THEOREM SlotsOutliveTheirUse ==
  SchedulerSpec => []EndedMeansReleased
<1>1. SInv => EndedMeansReleased
  <2>. SUFFICES ASSUME SInv PROVE EndedMeansReleased
    OBVIOUS
  <2>1. SchedulerTypeOK
    BY DEF SchedulerTypeOK, SInv, Control, Served
  <2>2. ASSUME NEW j \in Slots, stage[j] \in Lane!Ended \cup {"new", "waiting"}
        PROVE  /\ Idle(j)
               /\ j \notin Range(lockQ) \cup Range(waiters)
    <3>1. Idle(j)
      BY <2>2 DEF SInv, Driving, Lane!Ended
    <3>2. /\ \A k \in 1..Len(lockQ) : lockQ[k] # j
          /\ \A k \in 1..Len(waiters) : waiters[k] # j
      BY <3>1 DEF SInv, Served, LockInv, Chain, Waits, Idle, LockAwaits, IoAwaits
    <3>3. DOMAIN lockQ = 1..Len(lockQ) /\ DOMAIN waiters = 1..Len(waiters)
      BY LenProperties DEF SInv, Served, TypeOK
    <3>. QED
      BY <3>1, <3>2, <3>3 DEF Range
  <2>. QED
    BY <2>1, <2>2 DEF EndedMeansReleased
<1>. QED
  BY <1>1, DrivenInvariance, PTL

-----------------------------------------------------------------------------
(* Default comes back                                                      *)

\* Every step of a call under way, the thermal guard's included.
LEMMA MovesOn ==
  ASSUME TypeOK, NEW p \in Callers, Progress(p)
  PROVE  \E c : \E wake \in BOOLEAN : Goes(p, c) /\ (Update(p, c, wake) \/ Ask(p, c))
<1>0. call[p] \in Calls /\ \A pos : /\ At1(p, pos).at = pos /\ At1(p, pos).op = call[p].op
                                    /\ At1(p, pos).want = call[p].want
  BY Written DEF TypeOK
<1>1. CASE \/ Acquire(p) \/ EnsureReady(p) \/ Prepared(p) \/ Release(p) \/ StopUnlocked(p)
           \/ \E ok \in BOOLEAN : Validated(p, ok) \/ Started(p, ok) \/ Probed(p, ok)
           \/ \E how \in StopOutcomes : StopOldReturns(p, how) \/ CleanedUp(p, how) \/ StopReturns(p, how)
           \/ \E how \in {"completed", "rejected", "failed"} : EndGeneration(p, how)
  BY <1>1, UnderwayGoes DEF Ordinary
<1>2. CASE ThermalTrip(p)
  <2>. DEFINE c == [call[p] EXCEPT !.at = "thermal", !.end = "failed"]
  <2>1. c.op = call[p].op /\ c.want = call[p].want /\ c.at = "thermal"
    BY <1>0 DEF Calls
  <2>2. Ask(p, c) /\ call[p].at = "running"
    BY <1>2 DEF ThermalTrip
  <2>. HIDE DEF c
  <2>. QED
    BY <2>1, <2>2 DEF Goes
<1>3. CASE UnloadAfterThermalFailure(p) \/ CloseThermal(p)
           \/ \E how \in StopOutcomes : ThermalStopReturns(p, how)
  <2>1. /\ call[p].at \in {"thermal", "closing", "thermalStop"}
        /\ \E pos \in {"thermalStop", "release", "closing"} :
             Update(p, At1(p, pos), FALSE) \/ Update(p, At1(p, pos), TRUE) \/ Ask(p, At1(p, pos))
    BY <1>3 DEF UnloadAfterThermalFailure, CloseThermal, ThermalStopReturns, At, Keep, Leave
  <2>2. PICK pos \in {"thermalStop", "release", "closing"} :
          Update(p, At1(p, pos), FALSE) \/ Update(p, At1(p, pos), TRUE) \/ Ask(p, At1(p, pos))
    BY <2>1
  <2>3. Goes(p, At1(p, pos))
    BY <1>0, <2>1, <2>2 DEF Goes
  <2>. QED
    BY <2>2, <2>3
<1>. QED
  BY <1>1, <1>2, <1>3 DEF Progress

\* Who is woken looks again for what it was about.
LEMMA WokenOn ==
  ASSUME TypeOK, LockInv, NEW p \in Callers, Progress(p)
  PROVE  /\ call'[p] \in {Returned, Threw} \/ (call'[p].op = call[p].op /\ call'[p].want = call[p].want)
         /\ \A q \in Callers \ {p} :
              \/ call'[q] = call[q]
              \/ call[q].at = "wait" /\ call'[q] = Woken(call[q])
<1>1. PICK c : \E wake \in BOOLEAN : Goes(p, c) /\ (Update(p, c, wake) \/ Ask(p, c))
  BY MovesOn
<1>2. call'[p] = c
  BY <1>1, OthersUpdate, OthersAsk
<1>3. ASSUME NEW q \in Callers \ {p}, call'[q] # call[q]
      PROVE  call[q].at = "wait" /\ call'[q] = Woken(call[q])
  <2>1. ~Ask(p, c)
    BY <1>3 DEF Ask, TypeOK
  <2>. QED
    BY <1>1, <1>3, <2>1, WokenWait
<1>. QED
  BY <1>1, <1>2, <1>3 DEF Goes

\* What the instance is about after a step of p.
LEMMA RecipeStep ==
  ASSUME NEW p \in Callers, Progress(p)
  PROVE  \/ recipe' \in {recipe, NoRecipe}
         \/ recipe' = call[p].want /\ call[p].at \in {"acquire", "prepare", "stopOld"}
<1>1. CASE Acquire(p) \/ EnsureReady(p) \/ Prepared(p) \/ Release(p) \/ StopUnlocked(p)
           \/ ThermalTrip(p) \/ UnloadAfterThermalFailure(p) \/ CloseThermal(p)
  BY <1>1 DEF Acquire, EnsureReady, Prepared, Release, StopUnlocked, ThermalTrip, At, Grant,
      UnloadAfterThermalFailure, CloseThermal, BeginLoad, instance, ClearInstance
<1>2. CASE \/ \E ok \in BOOLEAN : Validated(p, ok) \/ Started(p, ok) \/ Probed(p, ok)
           \/ \E how \in {"completed", "rejected", "failed"} : EndGeneration(p, how)
  BY <1>2 DEF Validated, Started, Probed, EndGeneration, Grant, instance
<1>3. CASE \E how \in StopOutcomes : \/ StopOldReturns(p, how) \/ CleanedUp(p, how)
                                     \/ ThermalStopReturns(p, how) \/ StopReturns(p, how)
  BY <1>3 DEF StopOldReturns, CleanedUp, ThermalStopReturns, StopReturns, instance, ClearInstance, At
<1>. QED
  BY <1>1, <1>2, <1>3 DEF Progress

\* A call that stops the instance, where stopping an engine does not throw.
LEMMA StopsOn ==
  ASSUME Served, NEW p \in Callers, Progress(p), call[p].at \in {"stop", "stopping"},
         "threw" \notin StopOutcomes
  PROVE  /\ \/ call'[p].at = "stopping"
            \/ call'[p].at \in {"returned", "threw"} /\ (state # "BUSY" => state' = "UNLOADED")
         /\ state = "UNLOADED" => state' = "UNLOADED"
<1>1. /\ At1(p, "stopping").at = "stopping"
      /\ Returned.at = "returned" /\ Threw.at = "threw"
  BY Written DEF Served
<1>2. \A c, wake : Keep(p, c, wake) \/ Leave(p, c, wake) => call'[p] = c
  BY DEF Keep, Leave, Update
<1>3. StopUnlocked(p) \/ \E how \in StopOutcomes : StopReturns(p, how)
  BY DEF Progress, Acquire, EnsureReady, Prepared, Release, ThermalTrip, At,
         UnloadAfterThermalFailure, CloseThermal, Validated, Started, Probed, StopOldReturns,
         CleanedUp, ThermalStopReturns, EndGeneration
<1>4. CASE StopUnlocked(p)
  BY <1>1, <1>2, <1>4 DEF StopUnlocked, ClearInstance, instance
<1>5. CASE \E how \in StopOutcomes : StopReturns(p, how)
  <2>1. state = "EVICTING"
    BY <1>5, ServedOwner DEF StopReturns
  <2>. QED
    BY <1>1, <1>2, <1>5, <2>1 DEF StopReturns, ClearInstance
<1>. QED
  BY <1>3, <1>4, <1>5

\* A call that restores what is pinned.
Restoring == {"ready", "wait", "prepare", "stopOld"}

LEMMA RestoresOn ==
  ASSUME Served, NEW p \in Callers, Progress(p), call[p].op = "restore",
         call[p].at \in Restoring \cup Loads, ~call[p].aborted, "threw" \notin StopOutcomes
  PROVE  /\ ~call'[p].aborted
         /\ call'[p].at \in {"returned", "threw", "wait", "prepare", "stopOld"} \cup Loads
         /\ call[p].at \in Restoring /\ recipe' # call[p].want => call'[p].at \in Restoring
<1>1. /\ \A pos : At1(p, pos).at = pos /\ ~At1(p, pos).aborted
      /\ Returned.at = "returned" /\ Threw.at = "threw" /\ ~Returned.aborted /\ ~Threw.aborted
  <2>1. call[p] \in Calls
    BY DEF Served, TypeOK
  <2>2. \A pos : At1(p, pos).aborted = call[p].aborted
    BY <2>1 DEF At1, Calls
  <2>. QED
    BY <2>2, Written DEF Served, Returned, Threw
<1>2. \A c, wake : Update(p, c, wake) \/ Keep(p, c, wake) \/ Leave(p, c, wake) => call'[p] = c
  BY DEF Keep, Leave, Update
<1>3. \/ EnsureReady(p) \/ Prepared(p)
      \/ \E ok \in BOOLEAN : Validated(p, ok) \/ Started(p, ok) \/ Probed(p, ok)
      \/ \E how \in StopOutcomes : StopOldReturns(p, how) \/ CleanedUp(p, how)
  BY DEF Progress, Acquire, Release, ThermalTrip, At, UnloadAfterThermalFailure, CloseThermal,
         ThermalStopReturns, StopUnlocked, StopReturns, EndGeneration, Restoring, Loads
<1>4. CASE EnsureReady(p)
  <2>1. \/ Leave(p, Returned, FALSE) /\ recipe' = call[p].want
        \/ Update(p, At1(p, "wait"), FALSE)
        \/ Keep(p, At1(p, "prepare"), FALSE)
    BY <1>4 DEF EnsureReady, WaitForLease, BeginLoad, instance
  <2>. QED
    BY <1>1, <1>2, <2>1 DEF Restoring, Loads
<1>5. CASE Prepared(p)
  BY <1>1, <1>2, <1>5 DEF Prepared, Restoring, Loads
<1>6. CASE \E ok \in BOOLEAN : Validated(p, ok) \/ Started(p, ok) \/ Probed(p, ok)
  <2>1. call[p].at \notin Restoring
    BY <1>6 DEF Validated, Started, Probed, At, Restoring
  <2>. QED
    BY <1>1, <1>2, <1>6, <2>1 DEF Validated, Started, Probed, LoadFails, Loads
<1>7. CASE \E how \in StopOutcomes : StopOldReturns(p, how) \/ CleanedUp(p, how)
  BY <1>1, <1>2, <1>7 DEF StopOldReturns, CleanedUp, LoadFails, At, Restoring, Loads
<1>. QED
  BY <1>3, <1>4, <1>5, <1>6, <1>7

\* What may stay loaded when nobody works: a Default, nothing, or what a job that is
\* no media job asked for.
Asked == {RecipeOf[i] : i \in {k \in Slots : KindOf[k] # "media"}}
Remains == Defaults \cup {NoRecipe} \cup Asked

\* Stopping an engine may fail, but does not throw.
StopsReturn == "threw" \notin StopOutcomes

\* Once quiesce() or shutdown() has stopped the instance, it is empty until somebody
\* is admitted.
Emptied ==
  /\ barrier = "stopping" /\ Idle(Quiescer) => state = "UNLOADED"
  /\ closing = "stopping" /\ Idle(Closer) => state = "UNLOADED"
  /\ closing = "closed" => state = "UNLOADED"

\* What the call of a job is for.
Fits(j) ==
  \/ Idle(j)
  \/ step[j] = "work" /\ call[j].want = RecipeOf[j]
  \/ step[j] = "stop" /\ call[j].at \in {"stop", "stopping"}
  \/ /\ step[j] \in {"restore", "restoreAfterError"}
     /\ call[j].op = "restore" /\ call[j].want \in Defaults /\ ~call[j].aborted
     /\ call[j].at \in Restoring \cup Loads
CallsFit == \A j \in Slots : Fits(j)

\* A media job that has still to replace its recipe.
Answers(j) ==
  /\ KindOf[j] = "media"
  /\ step[j] = "work" \/ (step[j] \in {"restore", "restoreAfterError"} /\ call[j].at \in Restoring)
Answered == recipe \in Remains \/ barrier # "open" \/ \E j \in Slots : Answers(j)

RInv == Emptied /\ CallsFit /\ Answered

\* The manager moves for nobody, or for a caller that is no job.
LEMMA RemainsStill ==
  ASSUME RInv, UNCHANGED <<step, state, recipe>>,
         Idle(Quiescer)' => Idle(Quiescer), Idle(Closer)' => Idle(Closer),
         \A j \in Slots : /\ call'[j].at = call[j].at /\ call'[j].op = call[j].op
                          /\ call'[j].want = call[j].want /\ call'[j].aborted = call[j].aborted,
         barrier' \in {barrier, "draining"}, closing' \in {closing, "draining"}
  PROVE  RInv'
<1>1. Emptied'
  BY DEF RInv, Emptied
<1>2. CallsFit'
  BY DEF RInv, CallsFit, Fits, Idle
<1>3. Answered'
  BY DEF RInv, Answered, Answers
<1>. QED
  BY <1>1, <1>2, <1>3 DEF RInv

\* The job j begins a call.
LEMMA RemainsCall ==
  ASSUME RInv, SInv, NEW j \in Slots, UNCHANGED <<barrier, closing>>,
         Idle(j), NEW op, NEW r, NEW pos, Begin(j, op, r, pos), Carried(j),
         NEW s, step' = [step EXCEPT ![j] = s], step[j] \in {"none", "work", "stop"},
         \/ s = "work" /\ r = RecipeOf[j]
         \/ s = "stop" /\ pos = "stop" /\ KindOf[j] = "test"
         \/ s \in {"restore", "restoreAfterError"} /\ op = "restore" /\ r \in Defaults /\ pos = "ready"
  PROVE  RInv'
<1>. DEFINE c == [Returned EXCEPT !.op = op, !.want = r, !.at = pos]
<1>0. j \in Callers /\ {Quiescer, Closer} \subseteq Callers \ {j} /\ Slots \subseteq Callers
  BY TwoStoppers DEF Callers
<1>1. c.op = op /\ c.want = r /\ c.at = pos /\ ~c.aborted
  BY DEF Returned
<1>2. call' = [call EXCEPT ![j] = c] /\ UNCHANGED <<state, recipe>>
  BY DEF Begin, Ask, instance
<1>. HIDE DEF c
<1>3. \A q \in Callers : call'[q] = IF q = j THEN c ELSE call[q]
  BY <1>2 DEF SInv, Served, TypeOK
<1>4. \A i \in Slots : step'[i] = IF i = j THEN s ELSE step[i]
  BY DEF SInv, Control
<1>5. Emptied'
  BY <1>0, <1>2, <1>3 DEF RInv, Emptied, Idle
<1>6. CallsFit'
  <2>1. Fits(j)'
    BY <1>0, <1>1, <1>3, <1>4 DEF Fits, Restoring
  <2>2. \A i \in Slots \ {j} : Fits(i)'
    BY <1>0, <1>3, <1>4 DEF RInv, CallsFit, Fits, Idle
  <2>. QED
    BY <2>1, <2>2 DEF CallsFit
<1>7. \A i \in Slots : Answers(i) => Answers(i)'
  <2>1. Answers(j) => Answers(j)'
    BY <1>0, <1>1, <1>3, <1>4 DEF Answers, Restoring
  <2>2. \A i \in Slots \ {j} : Answers(i) => Answers(i)'
    BY <1>0, <1>3, <1>4 DEF Answers
  <2>. QED
    BY <2>1, <2>2
<1>8. Answered'
  BY <1>2, <1>7 DEF RInv, Answered
<1>. QED
  BY <1>5, <1>6, <1>8 DEF RInv

\* A job settles; if it is a media job, behind quiesce() or with Default restored.
LEMMA RemainsSettle ==
  ASSUME RInv, SInv, NEW j \in Slots, Idle(j), Settles(j),
         KindOf[j] = "media" /\ step[j] = "work" => barrier # "open"
  PROVE  RInv'
<1>1. /\ UNCHANGED <<state, recipe, call, barrier, closing>>
      /\ \A i \in Slots : step'[i] = IF i = j THEN "done" ELSE step[i]
  BY DEF Settles, vars, SInv, Control
<1>2. Emptied'
  BY <1>1 DEF RInv, Emptied, Idle
<1>3. CallsFit'
  <2>1. Fits(j)'
    BY <1>1 DEF Fits, Idle
  <2>2. \A i \in Slots \ {j} : Fits(i)'
    BY <1>1 DEF RInv, CallsFit, Fits, Idle
  <2>. QED
    BY <2>1, <2>2 DEF CallsFit
<1>4. Answered'
  <2>1. Answers(j) => barrier # "open"
    BY DEF Answers, Idle, Restoring
  <2>2. \A i \in Slots \ {j} : Answers(i) => Answers(i)'
    BY <1>1 DEF Answers
  <2>. QED
    BY <1>1, <2>1, <2>2 DEF RInv, Answered
<1>. QED
  BY <1>2, <1>3, <1>4 DEF RInv

LEMMA RemainsAdvance ==
  ASSUME RInv, SInv, NEW j \in Slots, Advance(j)
  PROVE  RInv'
<1>0. pinned \in Defaults /\ pinned # NoRecipe /\ j \in Callers
  BY RecipesAssumption DEF SInv, Recipes, Callers
<1>1. SInv'
  BY AdvanceStep
<1>2. ASSUME NEW op, NEW r, NEW pos, Begin(j, op, r, pos) PROVE Carried(j)
  <2>1. Ask(j, [Returned EXCEPT !.op = op, !.want = r, !.at = pos])
    BY <1>2 DEF Begin
  <2>. QED
    BY <2>1 DEF Ask, Carried, SInv, Served, TypeOK
<1>3. CASE Execute(j)
  <2>1. /\ step[j] = "none" /\ step' = [step EXCEPT ![j] = "work"]
        /\ UNCHANGED <<barrier, closing>>
        /\ Chat(j, RecipeOf[j]) \/ Media(j, RecipeOf[j]) \/ Warm(j, RecipeOf[j])
    BY <1>3, ExecuteEffect
  <2>2. Idle(j)
    BY <2>1 DEF SInv, Driving
  <2>. QED
    BY <1>2, <2>1, <2>2, RemainsCall DEF Chat, Media, Warm
<1>4. CASE AfterWork(j) \/ AfterStop(j) \/ AfterRestore(j)
  <2>1. /\ Idle(j)
        /\ \/ /\ Stop(j) /\ step[j] = "work" /\ KindOf[j] = "test"
              /\ step' = [step EXCEPT ![j] = "stop"]
              /\ UNCHANGED <<barrier, closing>>
           \/ /\ Restore(j) /\ step[j] \in {"work", "stop"}
              /\ step' \in {[step EXCEPT ![j] = "restore"], [step EXCEPT ![j] = "restoreAfterError"]}
              /\ UNCHANGED <<barrier, closing>>
           \/ /\ Settles(j)
              /\ KindOf[j] = "media" /\ step[j] = "work" => barrier # "open" \/ pinned = NoRecipe
    BY <1>4, AfterEffect DEF SInv
  <2>2. CASE /\ Stop(j) /\ step[j] = "work" /\ KindOf[j] = "test"
             /\ step' = [step EXCEPT ![j] = "stop"]
             /\ UNCHANGED <<barrier, closing>>
    BY <1>2, <2>1, <2>2, RemainsCall DEF Stop
  <2>3. CASE /\ Restore(j) /\ step[j] \in {"work", "stop"}
             /\ step' \in {[step EXCEPT ![j] = "restore"], [step EXCEPT ![j] = "restoreAfterError"]}
             /\ UNCHANGED <<barrier, closing>>
    BY <1>0, <1>2, <2>1, <2>3, RemainsCall DEF Restore
  <2>4. CASE /\ Settles(j)
             /\ KindOf[j] = "media" /\ step[j] = "work" => barrier # "open" \/ pinned = NoRecipe
    BY <1>0, <2>1, <2>4, RemainsSettle
  <2>. QED
    BY <2>1, <2>2, <2>3, <2>4
<1>. QED
  BY <1>3, <1>4 DEF Advance

\* Whoever is aborted, no call that restores is.
LEMMA RemainsAbort ==
  ASSUME RInv, SInv, NEW S \in SUBSET Slots, AbortAll(S), UNCHANGED step,
         barrier' \in {barrier, "draining"}, closing' \in {closing, "draining"}
  PROVE  RInv'
<1>0. {Quiescer, Closer} \subseteq Callers \ Slots /\ Slots \subseteq Callers
  BY TwoStoppers DEF Callers
<1>1. /\ UNCHANGED <<state, recipe>>
      /\ \A q \in Callers :
           \/ call[q].at = "wait" /\ call'[q] = Threw /\ call[q].op \in {"chat", "media", "warm"}
           \/ /\ call'[q].at = call[q].at /\ call'[q].op = call[q].op
              /\ call'[q].want = call[q].want /\ call'[q].held = call[q].held
      /\ \A q \in Callers : call[q].op \notin {"chat", "media", "warm"} => call'[q] = call[q]
  BY AbortAllEffect DEF SInv, Served, instance
<1>2. (Idle(Quiescer)' => Idle(Quiescer)) /\ (Idle(Closer)' => Idle(Closer))
  <2>1. call'[Quiescer] = call[Quiescer] /\ call'[Closer] = call[Closer]
    BY <1>0 DEF AbortAll
  <2>. QED
    BY <2>1 DEF Idle
<1>3. Threw.at = "threw"
  BY DEF Threw, Returned
<1>4. ASSUME NEW j \in Slots PROVE Fits(j)' /\ (Answers(j) => Answers(j)')
  <2>1. Fits(j)
    BY DEF RInv, CallsFit
  <2>2. CASE call[j].at = "wait" /\ call'[j] = Threw /\ call[j].op \in {"chat", "media", "warm"}
    <3>1. Fits(j)'
      BY <1>3, <2>2 DEF Fits, Idle
    <3>2. step[j] = "work"
      BY <2>1, <2>2 DEF Fits, Idle
    <3>. QED
      BY <3>1, <3>2 DEF Answers
  <2>3. CASE /\ call'[j].at = call[j].at /\ call'[j].op = call[j].op /\ call'[j].want = call[j].want
    <3>1. Answers(j) => Answers(j)'
      BY <2>3 DEF Answers
    <3>2. call[j].op = "restore" => call'[j] = call[j]
      BY <1>0, <1>1
    <3>3. Fits(j)'
      BY <2>1, <2>3, <3>2 DEF Fits, Idle
    <3>. QED
      BY <3>1, <3>3
  <2>. QED
    BY <1>0, <1>1, <2>2, <2>3
<1>5. Emptied'
  BY <1>1, <1>2 DEF RInv, Emptied
<1>6. Answered'
  BY <1>1, <1>4 DEF RInv, Answered
<1>. QED
  BY <1>4, <1>5, <1>6 DEF RInv, CallsFit

LEMMA RemainsCancel ==
  ASSUME RInv, SInv,
         (\E j \in Slots : Submit(j) \/ Cancel(j))
         \/ Quiesce \/ Shutdown
  PROVE  RInv'
<1>1. CASE UNCHANGED <<vars, step, barrier, closing>>
  BY <1>1, RemainsStill DEF vars, Idle
<1>2. ASSUME NEW j \in Slots, Submit(j) PROVE RInv'
  BY <1>1, <1>2, SubmitEffect
<1>3. ASSUME NEW j \in Slots, Cancel(j) PROVE RInv'
  <2>1. UNCHANGED <<step, barrier, closing>> /\ (UNCHANGED vars \/ AbortAll({j}))
    BY <1>3, CancelEffect
  <2>2. {j} \in SUBSET Slots
    OBVIOUS
  <2>. QED
    BY <1>1, <2>1, <2>2, RemainsAbort
<1>4. ASSUME NEW stillOpen \in BOOLEAN, CancelAll(stillOpen), UNCHANGED step,
             barrier' \in {barrier, "draining"}, closing' \in {closing, "draining"}
      PROVE  RInv'
  <2>1. AbortAll({j \in Slots : stage[j] = "running"})
    BY <1>4, CancelAllEffect DEF SInv
  <2>2. {j \in Slots : stage[j] = "running"} \in SUBSET Slots
    OBVIOUS
  <2>. QED
    BY <1>4, <2>1, <2>2, RemainsAbort
<1>5. CASE Quiesce
  BY <1>4, <1>5 DEF Quiesce, SInv, Control
<1>6. CASE Shutdown
  BY <1>4, <1>6 DEF Shutdown
<1>. QED
  BY <1>2, <1>3, <1>5, <1>6

LEMMA RemainsStops ==
  ASSUME RInv, SInv, Stopping
  PROVE  RInv'
<1>0. {Quiescer, Closer} \subseteq Callers \ Slots /\ Slots \subseteq Callers
  BY TwoStoppers DEF Callers
<1>1. ASSUME NEW p \in Hosts, StopDrained(p), barrier' = "open" => barrier = "open",
             \/ p = Quiescer /\ barrier' = "stopping" /\ UNCHANGED closing
             \/ p = Closer /\ closing' = "stopping" /\ UNCHANGED barrier
      PROVE  RInv'
  <2>1. /\ Begin(p, "force", NoRecipe, "stop") /\ UNCHANGED step
    BY <1>1, StopEffect
  <2>. DEFINE c == [Returned EXCEPT !.op = "force", !.want = NoRecipe, !.at = "stop"]
  <2>2. c.at = "stop"
    BY DEF Returned
  <2>3. call' = [call EXCEPT ![p] = c] /\ UNCHANGED <<state, recipe>>
    BY <2>1 DEF Begin, Ask, instance
  <2>. HIDE DEF c
  <2>4. /\ p \in Callers \ Slots
        /\ \A q \in Callers : call'[q] = IF q = p THEN c ELSE call[q]
    BY <2>3, TwoStoppers DEF SInv, Served, TypeOK
  <2>5. Emptied'
    BY <1>0, <1>1, <2>2, <2>3, <2>4, TwoStoppers DEF RInv, Emptied, Idle
  <2>6. CallsFit'
    BY <1>0, <2>1, <2>4 DEF RInv, CallsFit, Fits, Idle
  <2>7. Answered'
    BY <1>0, <1>1, <2>1, <2>3, <2>4 DEF RInv, Answered, Answers
  <2>. QED
    BY <2>5, <2>6, <2>7 DEF RInv
<1>2. CASE QuiesceStops \/ ShutdownStops
  BY <1>1, <1>2, TwoStoppers DEF QuiesceStops, ShutdownStops
<1>3. CASE QuiesceEnds \/ ShutdownEnds
  <2>1. /\ UNCHANGED <<vars, step>>
        /\ \/ /\ barrier = "stopping" /\ Idle(Quiescer)
              /\ barrier' = "open" /\ closing' = closing
           \/ /\ closing = "stopping" /\ Idle(Closer)
              /\ closing' = "closed" /\ barrier' = barrier
    BY <1>3 DEF QuiesceEnds, ShutdownEnds, lifecycle, vars
  <2>2. state = "UNLOADED" /\ recipe = NoRecipe
    BY <2>1 DEF RInv, Emptied, SInv, Served, Tally
  <2>3. Emptied' /\ Answered'
    BY <2>1, <2>2 DEF Emptied, Answered, Remains, Idle, vars
  <2>4. CallsFit'
    BY <2>1 DEF RInv, CallsFit, Fits, Idle, vars
  <2>. QED
    BY <2>3, <2>4 DEF RInv
<1>. QED
  BY <1>2, <1>3 DEF Stopping

\* A call under way goes on.
LEMMA RemainsProgress ==
  ASSUME StopsReturn, RInv, SInv, Still, NEW p \in Callers, Progress(p)
  PROVE  RInv'
<1>. USE DEF Still
<1>0. /\ {Quiescer, Closer} \subseteq Callers \ Slots /\ Slots \subseteq Callers
      /\ TypeOK /\ LockInv /\ "threw" \notin StopOutcomes /\ Served
  BY TwoStoppers DEF Callers, SInv, Served, StopsReturn
<1>1. ~Idle(p) /\ Served'
  BY ServedProgress DEF SInv
<1>2. /\ call'[p] \in {Returned, Threw} \/ (call'[p].op = call[p].op /\ call'[p].want = call[p].want)
      /\ \A q \in Callers \ {p} :
           \/ call'[q] = call[q]
           \/ call[q].at = "wait" /\ call'[q] = Woken(call[q])
  BY <1>0, WokenOn
<1>3. Returned.at = "returned" /\ Threw.at = "threw"
  BY DEF Returned, Threw
<1>4. p \notin Slots => call[p].at \in {"stop", "stopping"}
  BY <1>1 DEF SInv, Served, Roles, Idle
<1>5. \A q \in Callers : call[q].at = "wait" =>
         /\ Woken(call[q]).op = call[q].op /\ Woken(call[q]).want = call[q].want
         /\ Woken(call[q]).aborted = call[q].aborted
         /\ Woken(call[q]).at = IF call[q].op \in {"chat", "media"} THEN "acquire" ELSE "ready"
  BY <1>0 DEF Woken, TypeOK, Calls
<1>6. Emptied'
  <2>1. ASSUME NEW q \in {Quiescer, Closer}, Idle(q)',
               q = Quiescer => barrier = "stopping", q = Closer => closing = "stopping"
        PROVE  state' = "UNLOADED"
    <3>1. LanesIdle /\ state # "BUSY"
      BY <2>1, RestingIdle, NothingLoads
    <3>2. call[p].at \in {"stop", "stopping"}
      BY <1>1, <1>4, <3>1 DEF LanesIdle
    <3>3. CASE p = q
      BY <1>0, <2>1, <3>1, <3>2, <3>3, StopsOn DEF Idle
    <3>4. CASE p # q
      <4>1. Idle(q)
        BY <1>0, <1>2, <1>5, <2>1, <3>4 DEF Idle
      <4>2. state = "UNLOADED"
        BY <2>1, <4>1 DEF RInv, Emptied
      <4>. QED
        BY <1>0, <3>2, <4>2, StopsOn
    <3>. QED
      BY <3>3, <3>4
  <2>2. ASSUME closing = "closed" PROVE state' = "UNLOADED"
    <3>1. LanesIdle
      BY <2>2, RestingIdle
    <3>2. call[p].at \in {"stop", "stopping"}
      BY <1>1, <1>4, <3>1 DEF LanesIdle
    <3>. QED
      BY <1>0, <2>2, <3>2, StopsOn DEF RInv, Emptied
  <2>3. Idle(Quiescer)' /\ barrier = "stopping" => state' = "UNLOADED"
    BY <2>1, TwoStoppers
  <2>4. Idle(Closer)' /\ closing = "stopping" => state' = "UNLOADED"
    BY <2>1, TwoStoppers
  <2>. QED
    BY <2>2, <2>3, <2>4 DEF Emptied
<1>7. ASSUME NEW j \in Slots PROVE Fits(j)'
  <2>1. Fits(j)
    BY DEF RInv, CallsFit
  <2>2. CASE j # p
    <3>1. CASE call'[j] = call[j]
      BY <2>1, <3>1 DEF Fits, Idle
    <3>2. CASE call[j].at = "wait" /\ call'[j] = Woken(call[j])
      BY <1>0, <1>5, <2>1, <3>2 DEF Fits, Idle, Restoring
    <3>. QED
      BY <1>0, <1>2, <2>2, <3>1, <3>2
  <2>3. CASE j = p /\ call'[p] \in {Returned, Threw}
    BY <1>3, <2>3 DEF Fits, Idle
  <2>4. CASE j = p /\ call'[p].op = call[p].op /\ call'[p].want = call[p].want
    <3>1. CASE step[j] = "work" /\ call[j].want = RecipeOf[j]
      BY <2>4, <3>1 DEF Fits
    <3>2. CASE step[j] = "stop" /\ call[j].at \in {"stop", "stopping"}
      BY <1>0, <2>4, <3>2, StopsOn DEF Fits, Idle
    <3>3. CASE /\ step[j] \in {"restore", "restoreAfterError"}
               /\ call[j].op = "restore" /\ call[j].want \in Defaults /\ ~call[j].aborted
               /\ call[j].at \in Restoring \cup Loads
      <4>1. /\ ~call'[p].aborted
            /\ call'[p].at \in {"returned", "threw", "wait", "prepare", "stopOld"} \cup Loads
        BY <1>0, <2>4, <3>3, RestoresOn
      <4>2. \/ call'[p].at \in {"returned", "threw"}
            \/ call'[p].at \in Restoring \cup Loads
        BY <4>1 DEF Restoring
      <4>. QED
        BY <2>4, <3>3, <4>1, <4>2 DEF Fits, Idle
    <3>. QED
      BY <1>1, <2>1, <2>4, <3>1, <3>2, <3>3 DEF Fits
  <2>. QED
    BY <1>2, <2>2, <2>3, <2>4
<1>8. Answered'
  <2>. SUFFICES ASSUME recipe' \notin Remains, barrier = "open" PROVE \E j \in Slots : Answers(j)'
    BY DEF Answered, Remains, Asked
  <2>1. recipe' # NoRecipe
    BY DEF Remains
  <2>2. CASE recipe' = call[p].want /\ call[p].at \in {"acquire", "prepare", "stopOld"}
    <3>1. p \in Slots
      BY <1>4, <2>2
    <3>2. step[p] = "work" /\ call[p].want = RecipeOf[p]
      BY <1>1, <2>2, <3>1 DEF RInv, CallsFit, Fits, Remains
    <3>3. KindOf[p] = "media"
      BY <2>2, <3>1, <3>2 DEF Remains, Asked
    <3>. QED
      BY <3>1, <3>2, <3>3 DEF Answers
  <2>3. CASE recipe' = recipe
    <3>1. PICK j \in Slots : Answers(j)
      BY <2>3 DEF RInv, Answered
    <3>2. CASE step[j] = "work"
      BY <3>1, <3>2 DEF Answers
    <3>3. CASE step[j] \in {"restore", "restoreAfterError"} /\ call[j].at \in Restoring
      <4>0. /\ call[j].op = "restore" /\ call[j].want \in Defaults /\ ~call[j].aborted
        BY <3>3 DEF RInv, CallsFit, Fits, Idle, Restoring
      <4>1. CASE j = p
        <5>1. recipe' # call[p].want
          BY <4>0, <4>1 DEF Remains
        <5>2. call'[p].at \in Restoring
          BY <1>0, <3>3, <4>0, <4>1, <5>1, RestoresOn
        <5>. QED
          BY <3>1, <3>3, <4>1, <5>2 DEF Answers
      <4>2. CASE j # p
        <5>1. call'[j].at \in Restoring
          BY <1>0, <1>2, <1>5, <3>3, <4>0, <4>2 DEF Restoring
        <5>. QED
          BY <3>1, <3>3, <5>1 DEF Answers
      <4>. QED
        BY <4>1, <4>2
    <3>. QED
      BY <3>1, <3>2, <3>3 DEF Answers
  <2>. QED
    BY <2>1, <2>2, <2>3, RecipeStep
<1>. QED
  BY <1>6, <1>7, <1>8 DEF RInv, CallsFit

LEMMA RemainsManager ==
  ASSUME StopsReturn, RInv, SInv, Still,
         \/ \E p \in Callers : Progress(p)
         \/ EvictionFires \/ Stop(Admin)
         \/ \E r \in Defaults : Pin(r)
         \/ \E e \in Engines : EngineDies(e)
         \/ UNCHANGED vars
  PROVE  RInv'
<1>0. /\ {Quiescer, Closer} = Hosts /\ Slots \cup Hosts \subseteq Callers
      /\ call \in [Callers -> Calls] /\ {Admin, Evictor} \cap (Slots \cup Hosts) = {}
  BY CallersAssumption, TwoStoppers DEF Callers, SInv, Served, TypeOK
<1>1. CASE \E p \in Callers : Progress(p)
  BY <1>1, RemainsProgress
<1>2. ASSUME NEW p \in {Admin, Evictor}, NEW c, Ask(p, c), UNCHANGED instance PROVE RInv'
  <2>1. \A q \in Slots \cup Hosts : call'[q] = call[q]
    BY <1>0, <1>2 DEF Ask
  <2>. QED
    BY <1>0, <1>2, <2>1, RemainsStill DEF Still, instance, Idle
<1>3. CASE UNCHANGED <<instance, call>>
  BY <1>3, RemainsStill DEF Still, instance, Idle
<1>4. CASE EvictionFires \/ Stop(Admin)
  BY <1>2, <1>3, <1>4 DEF EvictionFires, Stop, Begin
<1>5. CASE (\E r \in Defaults : Pin(r)) \/ (\E e \in Engines : EngineDies(e)) \/ UNCHANGED vars
  BY <1>3, <1>5 DEF Pin, EngineDies, vars, instance
<1>. QED
  BY <1>1, <1>4, <1>5

LEMMA RemainsInit == SchedulerInit => RInv
<1>. SUFFICES ASSUME SchedulerInit PROVE RInv
  OBVIOUS
<1>1. /\ Fresh /\ barrier = "open" /\ closing = "open"
  BY DEF SchedulerInit
<1>2. \A j \in Slots : Idle(j)
  BY <1>1 DEF Fresh, Idle, Returned, Callers
<1>. QED
  BY <1>1, <1>2 DEF RInv, Emptied, CallsFit, Fits, Answered, Remains, Fresh

LEMMA RemainsStep ==
  ASSUME StopsReturn, SInv, RInv, [SchedulerNext]_schedulerVars
  PROVE  RInv'
<1>1. ASSUME NEW j \in Slots, Submit(j) \/ Cancel(j) \/ Advance(j)
      PROVE  RInv'
  BY <1>1, RemainsCancel, RemainsAdvance
<1>2. CASE Quiesce \/ Shutdown
  BY <1>2, RemainsCancel
<1>3. CASE Stopping
  BY <1>3, RemainsStops
<1>4. CASE \/ \E p \in Callers : Proceed(p)
           \/ LifecycleStep(EvictionFires)
           \/ Environment \/ AdminStop \/ UNCHANGED schedulerVars
  BY <1>4, ManagerEffect, RemainsManager DEF Callers
<1>. QED
  BY <1>1, <1>2, <1>3, <1>4 DEF SchedulerNext

\* Chats and warm-ups are for a Default.
OrdinaryJobs == \A j \in Slots : KindOf[j] \in {"chat", "warm"} => RecipeOf[j] \in Defaults

\* docs/model-residency.md: "Local media restores Default before later local text
\* work starts".  For any number of jobs in any order, lanes of any width and whether
\* or not the thermal guard fires: when the lane is empty and no quiesce() is under
\* way, what is loaded or was the last to be tried is a Default, nothing, or what an
\* exact recipe test tried; no order leaves a media model behind (restorePinned() in
\* the finally of execute(), scheduler.ts:343-345).  The chats and warm-ups are for a
\* Default, and stopping an engine may fail but not throw.
THEOREM NoMediaIsLeftBehind ==
  StopsReturn /\ OrdinaryJobs /\ SchedulerSpec => []DefaultComesBack
<1>. DEFINE H == StopsReturn /\ OrdinaryJobs
            J == H /\ SInv /\ RInv
<1>1. H /\ SchedulerInit => J
  BY DrivenInit, RemainsInit
<1>2. J /\ [SchedulerNext]_schedulerVars => J'
  <2>. SUFFICES ASSUME J, [SchedulerNext]_schedulerVars PROVE J'
    OBVIOUS
  <2>1. SInv' /\ RInv'
    BY DrivenStep, RemainsStep
  <2>. QED
    BY <2>1 DEF StopsReturn, OrdinaryJobs
<1>3. J => DefaultComesBack
  <2>. DEFINE Tested == {RecipeOf[j] : j \in {i \in Slots : KindOf[i] = "test"}}
  <2>. SUFFICES ASSUME J, Depth = 0, barrier = "open"
                PROVE  recipe \in Defaults \cup {NoRecipe} \cup Tested
    BY DEF DefaultComesBack, Quiescing
  <2>1. Admitted = {}
    BY DrainedLane
  <2>2. \A j \in Slots : ~Answers(j)
    BY <2>1 DEF SInv, Driving, Admitted, Answers
  <2>3. recipe \in Remains
    BY <2>2 DEF RInv, Answered
  <2>4. Asked \subseteq Defaults \cup Tested
    BY JobsAssumption DEF Asked, OrdinaryJobs
  <2>. QED
    BY <2>3, <2>4 DEF Remains
<1>. HIDE DEF J
<1>. QED
  BY <1>1, <1>2, <1>3, PTL DEF SchedulerSpec

-----------------------------------------------------------------------------
(* The thermal guard, with one executor at a time                          *)

\* One executor at a time is under way: the lane that feeds the manager is one job
\* wide, which is its default (scheduler.ts:129).  With two, a job that loads while
\* the guard unloads is counted out by the lease of the other.
Alone == \A s, t \in Slots : ~Idle(s) /\ ~Idle(t) => s = t

\* Who generates, or is about to unload for the guard, does so on the BUSY instance it
\* was granted; for who has unloaded its engine the instance is not BUSY any more.
Generates ==
  \A s \in Slots : Holding(s) =>
    /\ call[s].at \in {"running", "thermal"} => state = "BUSY"
    /\ state = "BUSY" =>
         /\ call[s].at \in {"running", "thermal", "release"}
         /\ handle = call[s].held /\ recipe = call[s].want

\* What the guard stops is the engine the manager knows of.
UnloadsItsOwn ==
  lockQ # <<>> /\ call[lockQ[1]].at = "thermalStop" =>
    state = "FAILED" /\ handle = call[lockQ[1]].held

ForcedAlone == ForceIn(lockQ, call) => Holders = {}

\* What survives the guard however many executors there are, if it unloads its own
\* engine (TripsOwn) ...
Intact == Served /\ Basics /\ EngineInv /\ UnloadsItsOwn
TripsOwn ==
  \A s \in Slots : call[s].at = "thermal" => state = "BUSY" /\ handle = call[s].held

\* ... and what holds with one executor at a time.
Guarded == Intact /\ Generates /\ ForcedAlone
StillGuarded ==
  /\ Intact'
  /\ Generates => Generates'
  /\ ForcedAlone => ForcedAlone'

LEMMA GuardedTrips == Guarded => TripsOwn
BY DEF Guarded, Generates, TripsOwn, Holding

\* The ways in which a step of p moves the lock.
Moves(p) ==
  \/ Owns(p) /\ \E c : \E wake \in BOOLEAN : Leave(p, c, wake)
  \/ Owns(p) /\ \E c : \E wake \in BOOLEAN : c.at \in IoAwaits /\ Keep(p, c, wake)
  \/ Owns(p) /\ WaitForLease(p)
  \/ Owns(p) /\ \E c : /\ c.at = "release" /\ Update(p, c, FALSE)
                       /\ lockQ' = Append(Tail(lockQ), p) /\ UNCHANGED waiters
  \/ /\ call[p].at \in {"running", "closing"} /\ UNCHANGED instance
     /\ \E c : /\ Ask(p, c) /\ c.at \in {"release", "thermal"}
               /\ c.held = call[p].held /\ c.want = call[p].want

LEMMA ProgressMoves ==
  ASSUME TypeOK, NEW p \in Callers, Progress(p)
  PROVE  Moves(p)
<1>0. call[p] \in Calls /\ \A pos : /\ At1(p, pos).at = pos /\ At1(p, pos).held = call[p].held
                                    /\ At1(p, pos).want = call[p].want
  BY Written DEF TypeOK
<1>a. {"prepare", "stopOld", "validate", "start", "probe", "cleanup", "stopping", "thermalStop"}
        \subseteq IoAwaits
  BY DEF IoAwaits
<1>b. ASSUME Owns(p), NEW pos \in IoAwaits, NEW wake \in BOOLEAN, Keep(p, At1(p, pos), wake)
      PROVE  Moves(p)
  <2>. DEFINE c == At1(p, pos)
  <2>1. c.at \in IoAwaits /\ Keep(p, c, wake)
    BY <1>0, <1>b
  <2>. HIDE DEF c
  <2>. QED
    BY <1>b, <2>1 DEF Moves
<1>c. ASSUME Owns(p), NEW c, NEW wake \in BOOLEAN, Leave(p, c, wake) PROVE Moves(p)
  BY <1>c DEF Moves
<1>d. ASSUME Owns(p), NEW r, NEW h, Grant(p, r, h) PROVE Moves(p)
  <2>. DEFINE c1 == [call[p] EXCEPT !.held = h, !.at = "release", !.end = "rejected"]
              c2 == [call[p] EXCEPT !.held = h, !.at = "running"]
  <2>1. /\ UNCHANGED waiters
        /\ \/ Update(p, c1, FALSE) /\ lockQ' = Append(Tail(lockQ), p)
           \/ Update(p, c2, FALSE) /\ lockQ' = Tail(lockQ)
    BY <1>d DEF Grant
  <2>2. c1.at = "release"
    BY <1>0 DEF Calls
  <2>. HIDE DEF c1, c2
  <2>3. CASE Update(p, c1, FALSE) /\ lockQ' = Append(Tail(lockQ), p)
    BY <1>d, <2>1, <2>2, <2>3 DEF Moves
  <2>4. CASE Update(p, c2, FALSE) /\ lockQ' = Tail(lockQ)
    <3>1. Leave(p, c2, FALSE)
      BY <2>1, <2>4 DEF Leave
    <3>. QED
      BY <1>c, <1>d, <3>1
  <2>. QED
    BY <2>1, <2>3, <2>4
<1>1. CASE Acquire(p)
  <2>1. /\ Owns(p)
        /\ \/ Leave(p, Threw, FALSE) \/ Grant(p, call[p].want, handle)
           \/ WaitForLease(p) \/ Keep(p, At1(p, "prepare"), FALSE)
    BY <1>1 DEF Acquire, At, BeginLoad
  <2>. QED
    BY <1>a, <1>b, <1>c, <1>d, <2>1 DEF Moves
<1>2. CASE EnsureReady(p)
  <2>1. /\ Owns(p)
        /\ \/ Leave(p, Returned, FALSE) \/ WaitForLease(p) \/ Keep(p, At1(p, "prepare"), FALSE)
    BY <1>2 DEF EnsureReady, At, BeginLoad
  <2>. QED
    BY <1>a, <1>b, <1>c, <2>1 DEF Moves
<1>3. CASE Prepared(p)
  <2>. DEFINE w == state \notin {"FAILED", "UNLOADED"}
  <2>1. Owns(p) /\ w \in BOOLEAN /\ (Keep(p, At1(p, "stopOld"), FALSE) \/ Keep(p, At1(p, "validate"), w))
    BY <1>3 DEF Prepared, At
  <2>. HIDE DEF w
  <2>. QED
    BY <1>a, <1>b, <2>1
<1>4. CASE Release(p)
  <2>. DEFINE c == IF call[p].end = "completed" THEN Returned ELSE Threw
              w == (IF leases = 0 THEN 0 ELSE leases - 1) = 0
  <2>1. Owns(p) /\ w \in BOOLEAN /\ Leave(p, c, w)
    BY <1>4 DEF Release, At
  <2>. HIDE DEF c, w
  <2>. QED
    BY <1>c, <2>1
<1>5. CASE StopUnlocked(p)
  <2>1. /\ Owns(p)
        /\ \/ \E c \in {Returned, Threw} : Leave(p, c, FALSE)
           \/ Leave(p, Returned, TRUE) \/ Keep(p, At1(p, "stopping"), FALSE)
    BY <1>5 DEF StopUnlocked, At
  <2>. QED
    BY <1>a, <1>b, <1>c, <2>1
<1>6. CASE \E how \in {"completed", "rejected", "failed"} : EndGeneration(p, how)
  <2>1. PICK how \in {"completed", "rejected", "failed"} : EndGeneration(p, how)
    BY <1>6
  <2>. DEFINE c == [call[p] EXCEPT !.at = "release", !.end = how]
  <2>2. Ask(p, c) /\ UNCHANGED instance /\ call[p].at = "running"
    BY <2>1 DEF EndGeneration
  <2>3. c.at = "release" /\ c.held = call[p].held /\ c.want = call[p].want
    BY <1>0 DEF Calls
  <2>. HIDE DEF c
  <2>. QED
    BY <2>2, <2>3 DEF Moves
<1>7. CASE ThermalTrip(p)
  <2>. DEFINE c == [call[p] EXCEPT !.at = "thermal", !.end = "failed"]
  <2>1. Ask(p, c) /\ UNCHANGED instance /\ call[p].at = "running"
    BY <1>7 DEF ThermalTrip
  <2>2. c.at = "thermal" /\ c.held = call[p].held /\ c.want = call[p].want
    BY <1>0 DEF Calls
  <2>. HIDE DEF c
  <2>. QED
    BY <2>1, <2>2 DEF Moves
<1>8. CASE CloseThermal(p)
  <2>. DEFINE c == At1(p, "release")
  <2>1. Ask(p, c) /\ UNCHANGED instance /\ call[p].at = "closing"
    BY <1>8 DEF CloseThermal
  <2>2. c.at = "release" /\ c.held = call[p].held /\ c.want = call[p].want
    BY <1>0
  <2>. HIDE DEF c
  <2>. QED
    BY <2>1, <2>2 DEF Moves
<1>9. CASE UnloadAfterThermalFailure(p) \/ \E how \in StopOutcomes : ThermalStopReturns(p, how)
  <2>1. /\ Owns(p)
        /\ \/ Keep(p, At1(p, "thermalStop"), FALSE)
           \/ \E wake \in BOOLEAN : Leave(p, At1(p, "closing"), wake)
    BY <1>9 DEF UnloadAfterThermalFailure, ThermalStopReturns, At
  <2>. QED
    BY <1>a, <1>b, <1>c, <2>1
<1>10. CASE \E ok \in BOOLEAN : Validated(p, ok) \/ Started(p, ok) \/ Probed(p, ok)
  <2>1. /\ Owns(p)
        /\ \/ \E pos \in {"start", "probe", "cleanup"} : Keep(p, At1(p, pos), FALSE)
           \/ Leave(p, Threw, FALSE) \/ Leave(p, Returned, FALSE) \/ Grant(p, recipe, handle)
    BY <1>10 DEF Validated, Started, Probed, At, LoadFails
  <2>. QED
    BY <1>a, <1>b, <1>c, <1>d, <2>1
<1>11. CASE \E how \in StopOutcomes : StopOldReturns(p, how) \/ CleanedUp(p, how) \/ StopReturns(p, how)
  <2>1. /\ Owns(p)
        /\ \/ \E wake \in BOOLEAN : Keep(p, At1(p, "validate"), wake)
           \/ Leave(p, Threw, FALSE) \/ Leave(p, Returned, TRUE)
    BY <1>11 DEF StopOldReturns, CleanedUp, StopReturns, At, LoadFails
  <2>. QED
    BY <1>a, <1>b, <1>c, <2>1
<1>. QED
  BY <1>1, <1>2, <1>3, <1>4, <1>5, <1>6, <1>7, <1>8, <1>9, <1>10, <1>11 DEF Progress

\* Where the lock is after a step of p.
LEMMA ChainMoves ==
  ASSUME Served, NEW p \in Callers, Progress(p)
  PROVE  /\ ForceIn(lockQ', call') => ForceIn(lockQ, call)
         /\ \/ Owns(p) /\ Handed(lockQ', call')
            \/ Owns(p) /\ lockQ' # <<>> /\ lockQ'[1] = p /\ call'[p].at \in IoAwaits
            \/ /\ call[p].at \in {"running", "closing"} /\ call'[p].at \in {"release", "thermal"}
               /\ UNCHANGED instance /\ lockQ' # <<>>
               /\ call'[p].held = call[p].held /\ call'[p].want = call[p].want
               /\ lockQ'[1] = (IF lockQ = <<>> THEN p ELSE lockQ[1])
               /\ lockQ # <<>> => lockQ[1] # p
<1>. USE DEF Served
<1>1. Moves(p)
  BY ProgressMoves
<1>2. CASE Owns(p) /\ \E c : \E wake \in BOOLEAN : Leave(p, c, wake)
  BY <1>2, LeaveLock
<1>3. CASE Owns(p) /\ \E c : \E wake \in BOOLEAN : c.at \in IoAwaits /\ Keep(p, c, wake)
  BY <1>3, KeepLock
<1>4. CASE Owns(p) /\ WaitForLease(p)
  BY <1>4, WaitLock
<1>5. CASE Owns(p) /\ \E c : /\ c.at = "release" /\ Update(p, c, FALSE)
                             /\ lockQ' = Append(Tail(lockQ), p) /\ UNCHANGED waiters
  <2>1. PICK c : /\ c.at = "release" /\ Update(p, c, FALSE)
                 /\ lockQ' = Append(Tail(lockQ), p) /\ UNCHANGED waiters
    BY <1>5
  <2>2. c.at \in LockAwaits /\ ~Forced(c)
    BY <2>1 DEF LockAwaits, Forced
  <2>. QED
    BY <1>5, <2>1, <2>2, RequeueLock
<1>6. CASE /\ call[p].at \in {"running", "closing"} /\ UNCHANGED instance
           /\ \E c : /\ Ask(p, c) /\ c.at \in {"release", "thermal"}
                     /\ c.held = call[p].held /\ c.want = call[p].want
  <2>1. PICK c : /\ Ask(p, c) /\ c.at \in {"release", "thermal"}
                 /\ c.held = call[p].held /\ c.want = call[p].want
    BY <1>6
  <2>2. c.at \in LockAwaits /\ ~Forced(c) /\ call[p].at \notin LockAwaits \cup IoAwaits \cup {"wait"}
    BY <1>6, <2>1 DEF LockAwaits, IoAwaits, Forced
  <2>3. /\ call'[p] = c /\ lockQ' # <<>> /\ lockQ'[1] = (IF lockQ = <<>> THEN p ELSE lockQ[1])
        /\ lockQ # <<>> => lockQ[1] # p
        /\ ForceIn(lockQ', call') => ForceIn(lockQ, call)
    BY <2>1, <2>2, AskLock
  <2>. QED
    BY <1>6, <2>1, <2>3
<1>. QED
  BY <1>1, <1>2, <1>3, <1>4, <1>5, <1>6 DEF Moves

\* What the head of the lock and the instance owe each other is left alone.
LEMMA HeadKept ==
  ASSUME TypeOK, LockInv, LoadsTheirs, UnloadsItsOwn, NEW p \in Callers, Carried(p), UNCHANGED instance,
         lockQ' # <<>>, call'[p].at \notin Loads \cup {"thermalStop"},
         lockQ'[1] = (IF lockQ = <<>> THEN p ELSE lockQ[1]),
         lockQ # <<>> => lockQ[1] # p
  PROVE  LoadsTheirs' /\ UnloadsItsOwn'
<1>1. UNCHANGED <<state, recipe, handle>>
  BY DEF instance
<1>2. CASE lockQ = <<>>
  BY <1>2 DEF LoadsTheirs, UnloadsItsOwn, Loads
<1>3. CASE lockQ # <<>>
  <2>1. 1 \in 1..Len(lockQ)
    BY <1>3, LockFacts, EmptySeq
  <2>2. lockQ[1] \in Callers \ {p} /\ call[lockQ[1]].at # "wait"
    BY <1>3, <2>1, LockFacts
  <2>3. /\ call'[lockQ[1]].at = call[lockQ[1]].at /\ call'[lockQ[1]].want = call[lockQ[1]].want
        /\ call'[lockQ[1]].held = call[lockQ[1]].held
    BY <2>2 DEF Carried
  <2>. QED
    BY <1>1, <1>3, <2>3 DEF LoadsTheirs, UnloadsItsOwn
<1>. QED
  BY <1>2, <1>3

\* What each step makes of the leases, and which recipe it loads.
LEMMA Counts ==
  ASSUME Basics, EngineInv, Served, NEW p \in Callers, Progress(p)
  PROVE  /\ Unleased'
         /\ call'[p].at \in Loads => recipe' = call'[p].want
         /\ call'[p].at = "thermalStop" => UnloadAfterThermalFailure(p)
         /\ call'[p].at = "thermal" => ThermalTrip(p)
         /\ call'[p].at = "closing" => \E how \in StopOutcomes : ThermalStopReturns(p, how)
<1>. USE DEF Basics
<1>a. call[p] \in Calls /\ leases \in Nat
  BY DEF TypeOK
<1>b. /\ \A pos : At1(p, pos).at = pos /\ At1(p, pos).want = call[p].want
      /\ Returned.at = "returned" /\ Threw.at = "threw"
  BY Written
<1>c. \A c, wake : Update(p, c, wake) => call'[p] = c
  BY DEF Update
<1>d. \A c, wake : Leave(p, c, wake) \/ Keep(p, c, wake) => call'[p] = c
  BY <1>c DEF Leave, Keep
<1>e. \A c : Ask(p, c) => call'[p] = c
  BY DEF Ask, TypeOK
<1>f. ASSUME NEW r, NEW h, Grant(p, r, h)
      PROVE  state' = "BUSY" /\ call'[p].at \in {"running", "release"}
  BY <1>a, <1>c, <1>f DEF Grant, Calls
<1>g. ASSUME WaitForLease(p) PROVE call'[p].at \in {"threw", "wait"}
  BY <1>b, <1>c, <1>d, <1>g DEF WaitForLease
<1>h. ASSUME UNCHANGED <<state, leases>> PROVE Unleased'
  BY <1>h DEF Unleased
<1>i. ASSUME LoadFails(p) PROVE state' = "FAILED" /\ call'[p].at = "threw"
  BY <1>b, <1>d, <1>i DEF LoadFails
<1>1. CASE Acquire(p) \/ EnsureReady(p)
  <2>1. \/ \E r, h : Grant(p, r, h)
        \/ /\ UNCHANGED instance
           /\ \/ Leave(p, Threw, FALSE) \/ Leave(p, Returned, FALSE)
              \/ WaitForLease(p) \/ Keep(p, At1(p, "prepare"), FALSE)
    BY <1>1 DEF Acquire, EnsureReady, BeginLoad
  <2>. QED
    BY <1>b, <1>d, <1>f, <1>g, <1>h, <2>1 DEF Unleased, Loads, instance
<1>2. CASE Prepared(p)
  <2>1. \/ state' \in {"FAILED", "EVICTING"} /\ call'[p].at = "stopOld"
        \/ leases' = 0 /\ recipe' = call[p].want /\ call'[p] = At1(p, "validate")
    BY <1>b, <1>d, <1>2 DEF Prepared
  <2>. QED
    BY <1>b, <2>1 DEF Unleased, Loads
<1>3. CASE \E how \in StopOutcomes : StopOldReturns(p, how)
  <2>1. \/ UNCHANGED instance /\ call'[p].at = "threw"
        \/ leases' = 0 /\ recipe' = call[p].want /\ call'[p] = At1(p, "validate")
    BY <1>b, <1>d, <1>3 DEF StopOldReturns
  <2>. QED
    BY <1>b, <1>h, <2>1 DEF Unleased, Loads, instance
<1>4. CASE \E ok \in BOOLEAN : Validated(p, ok) \/ Started(p, ok)
  <2>1. PICK pos \in {"validate", "start"} : At(p, pos)
    BY <1>4 DEF Validated, Started
  <2>2. pos \in IoAwaits
    BY DEF IoAwaits
  <2>3. Underway(pos) /\ recipe = call[p].want
    BY <2>1, <2>2, AtWork
  <2>4. state \in {"PREPARING", "LOADING"}
    BY <2>3 DEF Underway
  <2>5. /\ recipe' = recipe /\ leases' = leases
        /\ \/ call'[p] \in {At1(p, "start"), At1(p, "probe")}
           \/ state' = "FAILED" /\ call'[p].at = "threw"
    BY <1>d, <1>i, <1>4 DEF Validated, Started
  <2>. QED
    BY <1>b, <2>3, <2>4, <2>5 DEF Unleased, Loads
<1>5. CASE \E ok \in BOOLEAN : Probed(p, ok)
  <2>1. "probe" \in IoAwaits /\ At(p, "probe")
    BY <1>5 DEF IoAwaits, Probed
  <2>2. Underway("probe") /\ recipe = call[p].want
    BY <2>1, AtWork
  <2>3. state = "LOADING"
    BY <2>2 DEF Underway
  <2>4. \/ Grant(p, recipe, handle)
        \/ leases' = leases /\ call'[p].at = "returned"
        \/ UNCHANGED instance /\ call'[p] = At1(p, "cleanup")
    BY <1>b, <1>d, <1>5 DEF Probed
  <2>. QED
    BY <1>b, <1>f, <1>h, <2>2, <2>3, <2>4 DEF Unleased, Loads, instance
<1>6. CASE \E how \in StopOutcomes : CleanedUp(p, how)
  BY <1>i, <1>6 DEF CleanedUp, Unleased, Loads
<1>7. CASE Release(p)
  <2>1. /\ leases' = (IF leases = 0 THEN 0 ELSE leases - 1)
        /\ leases' # 0 => state' = state
        /\ call'[p] \in {Returned, Threw}
    BY <1>d, <1>7 DEF Release
  <2>. QED
    BY <1>a, <1>b, <2>1 DEF Unleased, Loads
<1>8. CASE StopUnlocked(p)
  <2>1. /\ UNCHANGED instance \/ leases' = 0 \/ state' = "EVICTING"
        /\ call'[p] \in {Returned, Threw, At1(p, "stopping")}
    BY <1>d, <1>8 DEF StopUnlocked, ClearInstance
  <2>. QED
    BY <1>b, <1>h, <2>1 DEF Unleased, Loads, instance
<1>9. CASE \E how \in StopOutcomes : StopReturns(p, how)
  <2>1. (UNCHANGED instance \/ leases' = 0) /\ call'[p] \in {Returned, Threw}
    BY <1>d, <1>9 DEF StopReturns, ClearInstance
  <2>. QED
    BY <1>b, <1>h, <2>1 DEF Unleased, Loads, instance
<1>10. CASE \/ \E how \in {"completed", "rejected", "failed"} : EndGeneration(p, how)
            \/ ThermalTrip(p) \/ CloseThermal(p)
  <2>1. UNCHANGED instance /\ call'[p].at \in {"release", "thermal"}
    BY <1>a, <1>b, <1>e, <1>10 DEF EndGeneration, ThermalTrip, CloseThermal, Calls
  <2>2. ASSUME ~ThermalTrip(p) PROVE call'[p].at = "release"
    BY <1>a, <1>b, <1>e, <1>10, <2>2 DEF EndGeneration, CloseThermal, Calls
  <2>. QED
    BY <1>h, <2>1, <2>2 DEF Loads, instance
<1>11. CASE UnloadAfterThermalFailure(p)
  <2>1. leases' = leases /\ state' \in {state, "FAILED"} /\ call'[p].at = "thermalStop"
    BY <1>b, <1>d, <1>11 DEF UnloadAfterThermalFailure
  <2>. QED
    BY <1>11, <2>1 DEF Unleased, Loads
<1>12. CASE \E how \in StopOutcomes : ThermalStopReturns(p, how)
  <2>1. (UNCHANGED instance \/ leases' = 0) /\ call'[p].at = "closing"
    BY <1>b, <1>d, <1>12 DEF ThermalStopReturns, ClearInstance
  <2>. QED
    BY <1>h, <1>12, <2>1 DEF Unleased, Loads, instance
<1>. QED
  BY <1>1, <1>2, <1>3, <1>4, <1>5, <1>6, <1>7, <1>8, <1>9, <1>10, <1>11, <1>12 DEF Progress

\* Who is at work is a slot and wants a recipe.
LEMMA WantsStep ==
  ASSUME Basics, Served', NEW p \in Callers, Progress(p)
  PROVE  Wants'
<1>. USE DEF Basics
<1>1. PICK c : \E wake \in BOOLEAN : Goes(p, c) /\ (Update(p, c, wake) \/ Ask(p, c))
  BY MovesOn
<1>2. call'[p] = c
  BY <1>1 DEF Update, Ask, TypeOK
<1>3. Returned.at = "returned" /\ Threw.at = "threw"
  BY Written
<1>4. c.at \notin {"returned", "threw", "stop", "stopping"} => p \in Slots /\ c.want \in Recipes
  <2>1. c.at \notin {"returned", "threw", "stop", "stopping"} => p \in Slots
    BY <1>2 DEF Served, Roles
  <2>. QED
    BY <1>1, <1>3, <2>1 DEF Goes, Wants
<1>5. ASSUME NEW q \in Callers \ {p}, call'[q].at \notin {"returned", "threw", "stop", "stopping"}
      PROVE  q \in Slots /\ call'[q].want \in Recipes
  <2>1. CASE call'[q] = call[q]
    BY <1>5, <2>1 DEF Wants
  <2>2. CASE call[q].at = "wait" /\ call'[q] = Woken(call[q])
    <3>1. call[q] \in Calls
      BY DEF TypeOK
    <3>2. call'[q].want = call[q].want
      BY <2>2, <3>1, WokenParts
    <3>. QED
      BY <2>2, <3>2 DEF Wants
  <2>. QED
    BY <2>1, <2>2, WokenOn
<1>. QED
  BY <1>2, <1>4, <1>5 DEF Wants

\* The lock, the recipes and the leases keep together, and what the guard stops is
\* the engine that is there.
LEMMA BasicsStep ==
  ASSUME Intact, TripsOwn, NEW p \in Callers, Progress(p)
  PROVE  Basics' /\ UnloadsItsOwn'
<1>. USE DEF Intact
<1>1. Served' /\ Carried(p)
  BY ServedProgress
<1>2. /\ Unleased'
      /\ call'[p].at \in Loads => recipe' = call'[p].want
      /\ call'[p].at = "thermalStop" => UnloadAfterThermalFailure(p)
  BY Counts
<1>3. Wants'
  BY <1>1, WantsStep
<1>4. LoadsTheirs' /\ UnloadsItsOwn'
  <2>1. CASE Handed(lockQ', call')
    <3>1. lockQ' # <<>> => 1 \in 1..Len(lockQ')
      BY <1>1, EmptySeq, LenProperties DEF Served, TypeOK
    <3>2. lockQ' # <<>> => call'[lockQ'[1]].at \notin Loads \cup {"thermalStop"}
      BY <2>1, <3>1 DEF Handed, LockAwaits, Loads
    <3>. QED
      BY <3>2 DEF LoadsTheirs, UnloadsItsOwn, Loads
  <2>2. CASE Owns(p) /\ lockQ' # <<>> /\ lockQ'[1] = p /\ call'[p].at \in IoAwaits
    <3>1. LoadsTheirs'
      BY <1>2, <2>2 DEF LoadsTheirs, Loads
    <3>2. ASSUME call'[p].at = "thermalStop"
          PROVE  state' = "FAILED" /\ handle' = call'[p].held
      <4>1. UnloadAfterThermalFailure(p)
        BY <1>2, <3>2
      <4>2. call[p].at = "thermal" /\ p \in Slots
        BY <4>1 DEF UnloadAfterThermalFailure, At, Basics, Wants
      <4>3. state = "BUSY" /\ handle = call[p].held
        BY <4>2 DEF TripsOwn
      <4>4. call'[p] = At1(p, "thermalStop")
        BY <4>1 DEF UnloadAfterThermalFailure, Keep, Update
      <4>5. call'[p].held = call[p].held
        BY <4>4, Written DEF Basics
      <4>. QED
        BY <4>1, <4>3, <4>5 DEF UnloadAfterThermalFailure
    <3>. QED
      BY <2>2, <3>1, <3>2 DEF UnloadsItsOwn
  <2>3. CASE /\ call'[p].at \in {"release", "thermal"}
             /\ UNCHANGED instance /\ lockQ' # <<>>
             /\ lockQ'[1] = (IF lockQ = <<>> THEN p ELSE lockQ[1])
             /\ lockQ # <<>> => lockQ[1] # p
    <3>1. call'[p].at \notin Loads \cup {"thermalStop"}
      BY <2>3 DEF Loads
    <3>. QED
      BY <1>1, <2>3, <3>1, HeadKept DEF Basics
  <2>. QED
    BY <2>1, <2>2, <2>3, ChainMoves
<1>. QED
  BY <1>1, <1>2, <1>3, <1>4 DEF Basics, Served

\* How a slot comes to hold a lease, and what becomes of the instance while it does.
LEMMA GuardMoves ==
  ASSUME Guarded, NEW p \in Slots, Progress(p)
  PROVE  \/ ~Holding(p)'
         \/ /\ state' = "BUSY" /\ call'[p].at \in {"running", "release"}
            /\ handle' = call'[p].held /\ recipe' = call'[p].want
         \/ /\ call[p].at = "running" /\ call'[p].at \in {"release", "thermal"} /\ UNCHANGED instance
            /\ call'[p].held = call[p].held /\ call'[p].want = call[p].want
         \/ state' # "BUSY" /\ call'[p].at \in {"thermalStop", "closing", "release"}
<1>. USE DEF Guarded, Intact, Basics
<1>a. p \in Callers /\ call[p] \in Calls
  BY DEF TypeOK, Callers
<1>b. /\ \A pos : At1(p, pos).at = pos
      /\ Returned.at = "returned" /\ Threw.at = "threw"
  BY <1>a, Written
<1>c. \A c, wake : Update(p, c, wake) => call'[p] = c
  BY <1>a DEF Update
<1>d. \A c, wake : Leave(p, c, wake) \/ Keep(p, c, wake) => call'[p] = c
  BY <1>c DEF Leave, Keep
<1>e. \A c : Ask(p, c) => call'[p] = c
  BY <1>a DEF Ask, TypeOK
<1>f. ASSUME NEW h, Grant(p, call[p].want, h)
      PROVE  /\ state' = "BUSY" /\ call'[p].at \in {"running", "release"}
             /\ handle' = call'[p].held /\ recipe' = call'[p].want
  BY <1>a, <1>c, <1>f DEF Grant, Calls
<1>g. ASSUME WaitForLease(p) PROVE call'[p].at \in {"threw", "wait"}
  BY <1>b, <1>c, <1>d, <1>g DEF WaitForLease
<1>h. ASSUME LoadFails(p) PROVE call'[p].at = "threw"
  BY <1>b, <1>d, <1>h DEF LoadFails
<1>i. call'[p].at \in {"returned", "threw", "wait", "prepare", "stopOld", "stopping"} \cup Loads => ~Holding(p)'
  BY DEF Holding, Loads
<1>1. CASE Acquire(p) \/ EnsureReady(p)
  <2>1. \/ Grant(p, call[p].want, handle)
        \/ Leave(p, Threw, FALSE) \/ Leave(p, Returned, FALSE)
        \/ WaitForLease(p) \/ Keep(p, At1(p, "prepare"), FALSE)
    BY <1>1 DEF Acquire, EnsureReady, BeginLoad
  <2>2. CASE Grant(p, call[p].want, handle)
    BY <1>f, <2>2
  <2>. QED
    BY <1>b, <1>d, <1>g, <1>i, <2>1, <2>2
<1>2. CASE \E ok \in BOOLEAN : Probed(p, ok)
  <2>1. \/ Grant(p, recipe, handle)
        \/ Leave(p, Returned, FALSE) \/ Keep(p, At1(p, "cleanup"), FALSE)
    BY <1>2 DEF Probed
  <2>2. CASE Grant(p, recipe, handle)
    <3>1. Owns(p) /\ call[p].at = "probe"
      BY <1>2 DEF Probed, At
    <3>2. recipe = call[p].want
      BY <1>a, <3>1, HeadFacts DEF LoadsTheirs
    <3>. QED
      BY <1>f, <2>2, <3>2
  <2>. QED
    BY <1>b, <1>d, <1>i, <2>1, <2>2 DEF Loads
<1>3. CASE \/ Prepared(p) \/ Release(p) \/ StopUnlocked(p)
           \/ \E ok \in BOOLEAN : Validated(p, ok) \/ Started(p, ok)
           \/ \E how \in StopOutcomes : StopOldReturns(p, how) \/ CleanedUp(p, how) \/ StopReturns(p, how)
  <2>1. \/ \E pos \in {"stopOld", "validate", "start", "probe", "stopping"}, wake \in BOOLEAN :
             Keep(p, At1(p, pos), wake)
        \/ LoadFails(p)
        \/ \E c \in {Returned, Threw} : \E wake \in BOOLEAN : Leave(p, c, wake)
    BY <1>3 DEF Prepared, Release, StopUnlocked, Validated, Started, StopOldReturns, CleanedUp, StopReturns
  <2>. QED
    BY <1>b, <1>d, <1>h, <1>i, <2>1 DEF Loads
<1>4. CASE \/ \E how \in {"completed", "rejected", "failed"} : EndGeneration(p, how)
           \/ ThermalTrip(p)
  BY <1>a, <1>e, <1>4 DEF EndGeneration, ThermalTrip, Calls
<1>5. CASE CloseThermal(p)
  <2>1. call[p].at = "closing" /\ UNCHANGED instance /\ call'[p].at = "release"
    BY <1>b, <1>e, <1>5 DEF CloseThermal
  <2>2. state # "BUSY"
    BY <2>1 DEF Generates, Holding
  <2>. QED
    BY <2>1, <2>2 DEF instance
<1>6. CASE UnloadAfterThermalFailure(p)
  BY <1>b, <1>d, <1>6 DEF UnloadAfterThermalFailure
<1>7. CASE \E how \in StopOutcomes : ThermalStopReturns(p, how)
  <2>1. Owns(p) /\ call[p].at = "thermalStop" /\ call'[p].at = "closing"
    BY <1>b, <1>d, <1>7 DEF ThermalStopReturns, At
  <2>2. state # "BUSY"
    BY <1>a, <2>1, HeadFacts DEF Served, HeadStands
  <2>3. state' \in {state, "UNLOADED"}
    BY <1>7 DEF ThermalStopReturns, ClearInstance, instance
  <2>. QED
    BY <2>1, <2>2, <2>3
<1>. QED
  BY <1>1, <1>2, <1>3, <1>4, <1>5, <1>6, <1>7 DEF Progress

\* A stop takes the instance from nobody who generates.
LEMMA StopMoves ==
  ASSUME Guarded, NEW p \in Callers, Progress(p), call[p].at \in {"stop", "stopping"}
  PROVE  \/ UNCHANGED instance
         \/ state' # "BUSY" /\ (state = "BUSY" => Holders = {})
<1>. USE DEF Guarded, Intact
<1>1. CASE call[p].at = "stop"
  <2>1. StopUnlocked(p)
    BY <1>1 DEF Progress, Acquire, EnsureReady, Prepared, Release, ThermalTrip, UnloadAfterThermalFailure,
       CloseThermal, Validated, Started, Probed, StopOldReturns, CleanedUp, ThermalStopReturns, StopReturns,
       EndGeneration, At
  <2>2. \/ UNCHANGED instance
        \/ state' \in {"UNLOADED", "EVICTING"} /\ (state = "BUSY" => call[p].op = "force")
    BY <2>1 DEF StopUnlocked, ClearInstance
  <2>3. ASSUME call[p].op = "force" PROVE Holders = {}
    <3>1. Owns(p)
      BY <2>1 DEF StopUnlocked, At
    <3>2. 1 \in 1..Len(lockQ) /\ Forced(call[lockQ[1]])
      BY <1>1, <2>3, <3>1, HeadFacts DEF Served, Forced
    <3>. QED
      BY <3>2 DEF ForcedAlone, ForceIn
  <2>. QED
    BY <2>2, <2>3
<1>2. CASE call[p].at = "stopping"
  <2>1. PICK how \in StopOutcomes : StopReturns(p, how)
    BY <1>2 DEF Progress, Acquire, EnsureReady, Prepared, Release, StopUnlocked, ThermalTrip,
       UnloadAfterThermalFailure, CloseThermal, Validated, Started, Probed, StopOldReturns, CleanedUp,
       ThermalStopReturns, EndGeneration, At
  <2>2. state = "EVICTING"
    BY <2>1, ServedOwner DEF StopReturns
  <2>3. state' \in {state, "UNLOADED"}
    BY <2>1 DEF StopReturns, ClearInstance, instance
  <2>. QED
    BY <2>2, <2>3
<1>. QED
  BY <1>1, <1>2

\* Whoever generates does so on the instance it was granted.
LEMMA GeneratesStep ==
  ASSUME Alone, Guarded, NEW p \in Callers, Progress(p)
  PROVE  Generates'
<1>. USE DEF Guarded, Intact
<1>1. Served' /\ Carried(p) /\ ~Idle(p)
  BY ServedProgress
<1>2. CASE p \in Slots
  <2>1. \A s \in Slots \ {p} : ~Holding(s)'
    <3>. SUFFICES ASSUME NEW s \in Slots \ {p} PROVE ~Holding(s)'
      OBVIOUS
    <3>1. call[s].at \in {"returned", "threw"}
      BY <1>1, <1>2 DEF Alone, Idle
    <3>2. call'[s].at = call[s].at
      BY <1>1, <3>1 DEF Carried, Callers
    <3>. QED
      BY <3>1, <3>2 DEF Holding
  <2>2. \/ ~Holding(p)'
        \/ /\ state' = "BUSY" /\ call'[p].at \in {"running", "release"}
           /\ handle' = call'[p].held /\ recipe' = call'[p].want
        \/ /\ call[p].at = "running" /\ call'[p].at \in {"release", "thermal"} /\ UNCHANGED instance
           /\ call'[p].held = call[p].held /\ call'[p].want = call[p].want
        \/ state' # "BUSY" /\ call'[p].at \in {"thermalStop", "closing", "release"}
    BY <1>2, GuardMoves
  <2>3. CASE /\ call[p].at = "running" /\ call'[p].at \in {"release", "thermal"} /\ UNCHANGED instance
             /\ call'[p].held = call[p].held /\ call'[p].want = call[p].want
    <3>1. state = "BUSY" /\ handle = call[p].held /\ recipe = call[p].want
      BY <1>2, <2>3 DEF Generates, Holding
    <3>. QED
      BY <2>1, <2>3, <3>1 DEF Generates, instance
  <2>. QED
    BY <2>1, <2>2, <2>3 DEF Generates
<1>3. CASE p \notin Slots
  <2>1. call[p].at \in {"stop", "stopping"}
    BY <1>1, <1>3 DEF Served, Roles, Idle
  <2>2. \/ UNCHANGED instance
        \/ state' # "BUSY" /\ (state = "BUSY" => Holders = {})
    BY <1>3, <2>1, StopMoves
  <2>3. ASSUME NEW s \in Slots, Holding(s)'
        PROVE  /\ Holding(s) /\ call'[s].at = call[s].at
               /\ call'[s].held = call[s].held /\ call'[s].want = call[s].want
    <3>1. s \in Callers \ {p}
      BY <1>3 DEF Callers
    <3>. QED
      BY <1>1, <2>3, <3>1 DEF Carried, Holding
  <2>4. CASE UNCHANGED instance
    BY <2>3, <2>4 DEF Generates, instance
  <2>5. CASE state' # "BUSY" /\ (state = "BUSY" => Holders = {})
    <3>1. \A s \in Slots : Holding(s) => s \in Holders
      BY DEF Holders, Callers
    <3>. QED
      BY <2>3, <2>5, <3>1 DEF Generates
  <2>. QED
    BY <2>2, <2>4, <2>5
<1>. QED
  BY <1>2, <1>3

\* No stop by force is waiting for the lock while somebody holds a lease.
LEMMA ForcedStep ==
  ASSUME Guarded, NEW p \in Callers, Progress(p)
  PROVE  ForcedAlone'
<1>. USE DEF Guarded, Intact
<1>1. Served' /\ Carried(p) /\ ~Idle(p)
  BY ServedProgress
<1>. SUFFICES ASSUME ForceIn(lockQ', call') PROVE Holders' = {}
  BY DEF ForcedAlone
<1>2. ForceIn(lockQ, call) /\ Holders = {}
  BY ChainMoves DEF ForcedAlone
<1>3. ~Holding(p)'
  <2>1. CASE Owns(p)
    <3>1. lockQ # <<>> /\ lockQ[1] = p
      BY <2>1, HeadFacts DEF Served
    <3>2. PICK k \in 1..Len(lockQ) : Forced(call[lockQ[k]])
      BY <1>2 DEF ForceIn
    <3>3. Len(lockQ) \in Nat
      BY LockFacts DEF Served
    <3>4. 1 \in 1..k
      BY <3>2, <3>3
    <3>5. p \notin Slots
      BY <3>1, <3>2, <3>4 DEF Served, LockInv, Chain
    <3>. QED
      BY <1>1, <3>5 DEF Served, Roles, Holding
  <2>2. CASE call[p].at \in {"running", "closing"}
    BY <1>2, <2>2 DEF Holders, Holding
  <2>. QED
    BY <2>1, <2>2, ChainMoves
<1>. QED
  BY <1>1, <1>2, <1>3, HoldersStep

\* Each process is still known while the guard unloads.
LEMMA GuardKnown ==
  ASSUME Intact, TripsOwn, NEW p \in Callers, Progress(p)
  PROVE  EngineInv'
<1>. USE DEF Intact
<1>1. Served' /\ Carried(p)
  BY ServedProgress
<1>2. TypeOK' /\ Settings /\ TypeOK
  BY <1>1 DEF Served, EngineInv
<1>3. NoStrayEngine /\ StateMatchesEngine /\ TimerInv
  BY <1>2 DEF Settings, EnginesAreKnown
<1>4. Returned.at = "returned" /\ \A pos : At1(p, pos).at = pos
  BY <1>2, Written
<1>5. CASE ThermalTrip(p) \/ CloseThermal(p)
  <2>1. call[p].at \in {"running", "closing"} /\ Drained /\ UNCHANGED <<instance, timer, processes>>
    BY <1>5 DEF ThermalTrip, CloseThermal
  <2>2. PICK c : Ask(p, c) /\ c.at \in {"thermal", "release"}
    <3>. DEFINE a == [call[p] EXCEPT !.at = "thermal", !.end = "failed"]
                b == At1(p, "release")
    <3>1. Ask(p, a) \/ Ask(p, b)
      BY <1>5 DEF ThermalTrip, CloseThermal
    <3>2. a.at = "thermal" /\ b.at = "release"
      BY <1>2, <1>4 DEF TypeOK, Calls
    <3>. HIDE DEF a, b
    <3>. QED
      BY <3>1, <3>2
  <2>3. p # Evictor
    BY <2>1, CallersAssumption DEF Served, Roles
  <2>4. call[p].at \notin LockAwaits \cup IoAwaits /\ c.at \in LockAwaits
    BY <2>1, <2>2 DEF LockAwaits, IoAwaits
  <2>. QED
    BY <2>1, <2>2, <2>3, <2>4, Asks
<1>6. CASE UnloadAfterThermalFailure(p)
  <2>1. /\ Owns(p) /\ call[p].at = "thermal" /\ Keep(p, At1(p, "thermalStop"), FALSE)
        /\ state' = (IF state = "BUSY" THEN "FAILED" ELSE state)
        /\ UNCHANGED <<recipe, handle, timer, processes>>
    BY <1>6 DEF UnloadAfterThermalFailure, At
  <2>2. p \in Slots
    BY <2>1 DEF Served, Roles
  <2>3. state = "BUSY"
    BY <2>1, <2>2 DEF TripsOwn
  <2>4. ~timer'
    BY <1>3, <2>1, <2>3 DEF TimerInv
  <2>5. NoStrayEngine' /\ StateMatchesEngine'
    BY <1>3, <2>1, <2>3 DEF NoStrayEngine, StateMatchesEngine, processes
  <2>6. Settings' /\ Underway("thermalStop")' /\ "thermalStop" \in IoAwaits
    BY <2>4, <2>5, Settled DEF Underway, IoAwaits
  <2>. QED
    BY <2>1, <2>6, Keeps
<1>7. CASE \E how \in StopOutcomes : ThermalStopReturns(p, how)
  <2>1. PICK how \in StopOutcomes : ThermalStopReturns(p, how)
    BY <1>7
  <2>2. "thermalStop" \in IoAwaits /\ At(p, "thermalStop")
    BY <2>1 DEF IoAwaits, ThermalStopReturns
  <2>3. Owns(p) /\ ~timer
    BY <2>2, AtWork
  <2>4. lockQ # <<>> /\ lockQ[1] = p
    BY <2>3, HeadFacts DEF Served
  <2>5. state = "FAILED" /\ handle = call[p].held
    BY <2>2, <2>4 DEF UnloadsItsOwn, At
  <2>6. NoStrayEngine' /\ alive' \subseteq spared'
    BY <1>3, <2>1, <2>5, StopKnown DEF ThermalStopReturns
  <2>7. "UNLOADED" \in Allowed["FAILED"]
    BY DEF Allowed
  <2>8. /\ ~timer'
        /\ UNCHANGED instance \/ (state' = "UNLOADED" /\ recipe' = NoRecipe /\ handle' = NoEngine)
        /\ \E wake \in BOOLEAN : Leave(p, At1(p, "closing"), wake)
    BY <2>1, <2>3, <2>5, <2>7 DEF ThermalStopReturns, ClearInstance
  <2>9. StateMatchesEngine'
    BY <1>3, <2>8 DEF StateMatchesEngine, instance
  <2>10. Settings'
    BY <2>6, <2>8, <2>9, Settled
  <2>. QED
    BY <1>2, <1>4, <2>3, <2>8, <2>10, Leaves
<1>8. CASE Ordinary(p)
  BY <1>8, OrdinaryKnown
<1>. QED
  BY <1>5, <1>6, <1>7, <1>8 DEF Progress, Ordinary

LEMMA IntactProgress ==
  ASSUME Intact, TripsOwn, NEW p \in Callers, Progress(p)
  PROVE  Intact'
BY ServedProgress, BasicsStep, GuardKnown DEF Intact

LEMMA GuardedProgress ==
  ASSUME Alone, Guarded, NEW p \in Callers, Progress(p)
  PROVE  Guarded'
<1>1. TripsOwn /\ Intact
  BY GuardedTrips DEF Guarded
<1>. QED
  BY <1>1, IntactProgress, GeneratesStep, ForcedStep DEF Guarded

\* A new call queues for the lock.
LEMMA GuardedJoin ==
  ASSUME Intact, Served', EngineInv', NEW p \in Callers, Idle(p), NEW c, Ask(p, c), UNCHANGED instance,
         c.at \in {"acquire", "ready", "stop"}, c.at # "stop" => p \in Slots /\ c.want \in Recipes,
         Forced(c) => p \notin Slots /\ LanesIdle
  PROVE  StillGuarded
<1>. USE DEF Intact
<1>1. /\ call[p].at \in {"returned", "threw"}
      /\ call[p].at \notin LockAwaits \cup IoAwaits \cup {"wait"} /\ c.at \in LockAwaits
  BY DEF Idle, LockAwaits, IoAwaits
<1>2. ASSUME Forced(c)
      PROVE  Holders = {} /\ \A k \in 1..Len(lockQ) : lockQ[k] \notin Slots
  <2>1. \A s \in Slots : call[s].at \in {"returned", "threw"}
    BY <1>2 DEF LanesIdle, Idle
  <2>2. Holders = {}
    BY <2>1, RolesFacts DEF Served, Holders, Holding
  <2>3. \A k \in 1..Len(lockQ) : call[lockQ[k]].at \in LockAwaits \cup IoAwaits
    BY DEF Served, LockInv, Chain
  <2>. QED
    BY <2>1, <2>2, <2>3 DEF LockAwaits, IoAwaits
<1>3. /\ call'[p] = c /\ Carried(p)
      /\ lockQ' # <<>> /\ lockQ'[1] = (IF lockQ = <<>> THEN p ELSE lockQ[1])
      /\ lockQ # <<>> => lockQ[1] # p
      /\ ForceIn(lockQ', call') => ForceIn(lockQ, call) \/ Forced(c)
  BY <1>1, <1>2, AskLock DEF Served
<1>4. LoadsTheirs' /\ UnloadsItsOwn'
  <2>1. call'[p].at \notin Loads \cup {"thermalStop"}
    BY <1>3 DEF Loads
  <2>. QED
    BY <1>3, <2>1, HeadKept DEF Served, Basics
<1>5. Wants'
  <2>1. \A q \in Callers \ {p} : call'[q].at \notin {"returned", "threw", "stop", "stopping"} =>
          call[q].at \notin {"returned", "threw", "stop", "stopping"} /\ call'[q].want = call[q].want
    BY <1>3 DEF Carried
  <2>. QED
    BY <1>3, <2>1 DEF Basics, Wants
<1>6. Unleased'
  BY DEF Basics, Unleased, instance
<1>7. /\ ~Holding(p) /\ ~Holding(p)' /\ Holders' = Holders
      /\ \A s \in Slots \ {p} :
           Holding(s)' => /\ Holding(s) /\ call'[s].at = call[s].at
                          /\ call'[s].held = call[s].held /\ call'[s].want = call[s].want
  <2>1. ~Holding(p) /\ ~Holding(p)'
    BY <1>1, <1>3 DEF Holding
  <2>2. Holders' = Holders
    BY <1>3, <2>1, HoldersStep DEF Holders
  <2>3. Slots \subseteq Callers
    BY DEF Callers
  <2>. QED
    BY <1>3, <2>1, <2>2, <2>3 DEF Carried, Holding
<1>8. Generates => Generates'
  BY <1>7 DEF Generates, instance
<1>9. ForcedAlone => ForcedAlone'
  BY <1>2, <1>3, <1>7 DEF ForcedAlone
<1>. QED
  BY <1>4, <1>5, <1>6, <1>8, <1>9 DEF StillGuarded, Basics, Served

\* A step that takes nobody's turn and nobody's lease.
LEMMA GuardedStill ==
  ASSUME Intact, TypeOK', LockInv', EngineInv', UNCHANGED <<instance, lockQ>>,
         ForceIn(lockQ', call') => ForceIn(lockQ, call),
         \A q \in Callers :
           \/ call[q].at = "wait" /\ call'[q].at = "threw"
           \/ /\ call'[q].at = call[q].at /\ call'[q].want = call[q].want
              /\ call'[q].held = call[q].held
  PROVE  StillGuarded
<1>. USE DEF Intact
<1>1. Served'
  BY ServedUnmoved
<1>2. UNCHANGED <<state, recipe, handle, leases>>
  BY DEF instance
<1>3. lockQ # <<>> => /\ call'[lockQ[1]].at = call[lockQ[1]].at
                      /\ call'[lockQ[1]].want = call[lockQ[1]].want
                      /\ call'[lockQ[1]].held = call[lockQ[1]].held
  <2>1. lockQ # <<>> => 1 \in 1..Len(lockQ)
    BY LockFacts, EmptySeq DEF Served
  <2>. QED
    BY <2>1, LockFacts DEF Served
<1>4. LoadsTheirs' /\ UnloadsItsOwn' /\ Unleased'
  BY <1>2, <1>3 DEF Basics, LoadsTheirs, UnloadsItsOwn, Unleased
<1>5. Wants'
  BY DEF Basics, Wants
<1>6. Holders' = Holders
  BY DEF Holders, Holding
<1>7. ForcedAlone => ForcedAlone'
  BY <1>6 DEF ForcedAlone
<1>8. Generates => Generates'
  <2>1. Slots \subseteq Callers
    BY DEF Callers
  <2>. QED
    BY <1>2, <2>1 DEF Generates, Holding
<1>. QED
  BY <1>1, <1>4, <1>5, <1>7, <1>8 DEF StillGuarded, Basics, Served

LEMMA GuardedBegin ==
  ASSUME Intact, TypeOK', EngineInv', NEW p \in Callers, NEW op, NEW r,
         NEW pos \in {"acquire", "ready", "stop"}, Begin(p, op, r, pos),
         pos # "stop" => p \in Slots /\ r \in Recipes, op = "force" => p \in Hosts /\ LanesIdle
  PROVE  StillGuarded
<1>. DEFINE c == [Returned EXCEPT !.op = op, !.want = r, !.at = pos]
<1>1. Idle(p) /\ Ask(p, c) /\ UNCHANGED instance
  BY DEF Begin
<1>2. c.at = pos /\ c.want = r /\ c.op = op
  BY DEF Returned
<1>3. Served'
  BY ServedBegin DEF Intact
<1>4. p \in Hosts => p \notin Slots
  BY CallersAssumption
<1>. HIDE DEF c
<1>. QED
  BY <1>1, <1>2, <1>3, <1>4, GuardedJoin DEF Forced

LEMMA GuardedOutside ==
  ASSUME Intact, TypeOK', Outside
  PROVE  StillGuarded
<1>1. EngineInv' /\ Slots \cup Hosts \cup {Admin, Evictor} \subseteq Callers
  BY OutsideKnown DEF Intact, Callers
<1>2. ASSUME NEW p \in Slots, Requests(p) PROVE StillGuarded
  <2>1. CASE \E r \in TextRecipes : Warm(p, r)
    BY <1>1, <2>1, GuardedBegin DEF Warm, Recipes
  <2>2. CASE \E r \in Recipes : Chat(p, r)
    BY <1>1, <2>2, GuardedBegin DEF Chat
  <2>3. CASE \E r \in MediaRecipes : Media(p, r)
    BY <1>1, <2>3, GuardedBegin DEF Media, Recipes
  <2>4. CASE Restore(p)
    <3>1. pinned \in Recipes
      BY <2>4, RecipesAssumption DEF Restore, Intact, Served, TypeOK, Recipes
    <3>. QED
      BY <1>1, <2>4, <3>1, GuardedBegin DEF Restore
  <2>5. CASE Stop(p)
    BY <1>1, <2>5, GuardedBegin DEF Stop
  <2>. QED
    BY <1>2, <2>1, <2>2, <2>3, <2>4, <2>5 DEF Requests
<1>3. CASE Stop(Admin)
  BY <1>1, <1>3, GuardedBegin DEF Stop
<1>4. CASE \E p \in Hosts : ForceStop(p)
  BY <1>1, <1>4, GuardedBegin DEF ForceStop
<1>5. ASSUME NEW p \in Slots, Abort(p) PROVE StillGuarded
  <2>1. /\ UNCHANGED <<instance, lockQ>> /\ LockInv'
        /\ ForceIn(lockQ', call') => ForceIn(lockQ, call)
        /\ \A q \in Callers :
             \/ call[q].at = "wait" /\ call'[q].at = "threw"
             \/ /\ call'[q].at = call[q].at /\ call'[q].want = call[q].want
                /\ call'[q].held = call[q].held
    BY <1>5, AbortLock DEF Intact, Served
  <2>. QED
    BY <1>1, <2>1, GuardedStill
<1>6. CASE EvictionFires
  <2>. DEFINE c == [Returned EXCEPT !.op = "graceful", !.at = "stop"]
  <2>1. CASE UNCHANGED <<lockQ, waiters, call>>
    <3>1. LockInv' /\ UNCHANGED instance /\ (ForceIn(lockQ', call') => ForceIn(lockQ, call))
      BY <1>6, <2>1 DEF EvictionFires, Intact, Served, LockInv
    <3>. QED
      BY <1>1, <2>1, <3>1, GuardedStill
  <2>2. CASE Ask(Evictor, c)
    <3>1. c.at = "stop" /\ c.op = "graceful"
      BY DEF Returned
    <3>2. Idle(Evictor) /\ UNCHANGED instance /\ Served'
      BY <1>6, ServedEnvironment DEF EvictionFires, Intact
    <3>. HIDE DEF c
    <3>. QED
      BY <1>1, <2>2, <3>1, <3>2, GuardedJoin DEF Forced
  <2>. QED
    BY <1>6, <2>1, <2>2 DEF EvictionFires
<1>7. CASE (\E r \in Defaults : Pin(r)) \/ (\E e \in Engines : EngineDies(e)) \/ UNCHANGED vars
  <2>1. UNCHANGED <<instance, lockQ, waiters, call>>
    BY <1>7 DEF Pin, EngineDies, vars, instance
  <2>2. LockInv' /\ (ForceIn(lockQ', call') => ForceIn(lockQ, call))
    BY <2>1 DEF Intact, Served, LockInv
  <2>. QED
    BY <1>1, <2>1, <2>2, GuardedStill
<1>. QED
  BY <1>2, <1>3, <1>4, <1>5, <1>6, <1>7 DEF Outside

LEMMA GuardedAbort ==
  ASSUME Intact, NEW S \in SUBSET Slots, AbortAll(S)
  PROVE  StillGuarded
<1>. USE DEF Intact
<1>1. /\ TypeOK' /\ LockInv'
      /\ UNCHANGED <<instance, timer, pinned, lockQ, processes>>
      /\ \A q \in Callers :
           \/ call[q].at = "wait" /\ call'[q] = Threw
           \/ /\ call'[q].at = call[q].at /\ call'[q].op = call[q].op
              /\ call'[q].want = call[q].want /\ call'[q].held = call[q].held
      /\ ForceIn(lockQ', call') => ForceIn(lockQ, call)
  BY AbortAllEffect DEF Served
<1>2. Threw.at = "threw"
  BY DEF Threw, Returned
<1>3. call'[Evictor].at = call[Evictor].at
  <2>1. Evictor \in Callers \ Slots
    BY CallersAssumption DEF Callers
  <2>2. call[Evictor].at # "wait"
    BY <2>1 DEF Served, Roles
  <2>. QED
    BY <1>1, <2>1, <2>2
<1>4. lockQ # <<>> => call'[lockQ[1]].at = call[lockQ[1]].at
  <2>1. lockQ # <<>> => 1 \in 1..Len(lockQ)
    BY LockFacts, EmptySeq DEF Served
  <2>. QED
    BY <1>1, <2>1, LockFacts DEF Served
<1>5. NoStrayEngine'
  BY <1>1 DEF instance, processes, EngineInv, Settings, EnginesAreKnown, NoStrayEngine
<1>6. EngineInv'
  BY <1>1, <1>3, <1>4, <1>5, Unmoved
<1>. QED
  BY <1>1, <1>2, <1>6, GuardedStill

LEMMA GuardedStep ==
  ASSUME Alone, Guarded, [Next]_vars \/ \E S \in SUBSET Slots : AbortAll(S)
  PROVE  Guarded'
<1>1. CASE \E p \in Callers : Progress(p)
  BY <1>1, GuardedProgress
<1>2. CASE [Next]_vars /\ Outside
  BY <1>2, TypeStep, GuardedOutside DEF StillGuarded, Guarded, Intact, Served
<1>3. CASE \E S \in SUBSET Slots : AbortAll(S)
  BY <1>3, GuardedAbort DEF StillGuarded, Guarded
<1>. QED
  BY <1>1, <1>2, <1>3 DEF Next, Outside

LEMMA GuardedInit == Begins => Guarded
<1>. SUFFICES ASSUME Begins PROVE Guarded
  OBVIOUS
<1>1. Served /\ EngineInv /\ Basics
  BY ServedInit, KnownInit, InitInv, IInvBasics
<1>2. lockQ = <<>> /\ \A p \in Callers : call[p].at = "returned"
  BY DEF Begins, Fresh, Returned
<1>3. \A p \in Callers : ~Holding(p)
  BY <1>2 DEF Holding
<1>4. Generates /\ UnloadsItsOwn /\ ForcedAlone
  BY <1>2, <1>3 DEF Generates, UnloadsItsOwn, ForcedAlone, Holders, Callers
<1>. QED
  BY <1>1, <1>4 DEF Guarded, Intact

-----------------------------------------------------------------------------
(* The next idle instance is still evicted                                 *)

\* The steps of the guard do not write what an eviction looks at.
LEMMA GuardTimely ==
  ASSUME Intact, TripsOwn, CallsInv, TimelyInv, NEW p \in Callers, Progress(p)
  PROVE  CallsInv' /\ TimelyInv'
<1>. USE DEF Intact
<1>1. CASE Ordinary(p)
  BY <1>1, OrdinaryTimely
<1>2. CASE \/ ThermalTrip(p) \/ CloseThermal(p) \/ UnloadAfterThermalFailure(p)
           \/ \E how \in StopOutcomes : ThermalStopReturns(p, how)
  <2>1. pinned' = pinned
    BY <1>2 DEF ThermalTrip, CloseThermal, UnloadAfterThermalFailure, ThermalStopReturns
  <2>2. PICK c : \E wake \in BOOLEAN : Goes(p, c) /\ (Update(p, c, wake) \/ Ask(p, c))
    BY MovesOn DEF Served
  <2>3. Sensible(c)
    BY <2>2, GoesSensible DEF CallsInv
  <2>4. CallsInv'
    BY <2>1, <2>2, <2>3, SensibleStep
  <2>5. CASE ThermalTrip(p) \/ CloseThermal(p)
    <3>1. /\ call[p].at \in {"running", "closing"} /\ UNCHANGED <<instance, timer, pinned>>
          /\ \E a : Ask(p, a)
      BY <2>5 DEF ThermalTrip, CloseThermal
    <3>2. call[p].at \notin LockAwaits \cup IoAwaits \cup {"wait"}
      BY <3>1 DEF LockAwaits, IoAwaits
    <3>. QED
      BY <2>4, <3>1, <3>2, AskTimely
  <2>6. CASE UnloadAfterThermalFailure(p)
    <3>1. call[p].at = "thermal" /\ p \in Slots
      BY <2>6 DEF UnloadAfterThermalFailure, At, Served, Roles
    <3>2. state = "BUSY"
      BY <3>1 DEF TripsOwn
    <3>3. state' = "FAILED"
      BY <2>6, <3>2 DEF UnloadAfterThermalFailure
    <3>. QED
      BY <2>4, <3>3, NotIdle
  <2>7. CASE \E how \in StopOutcomes : ThermalStopReturns(p, how)
    <3>1. Owns(p) /\ call[p].at = "thermalStop"
      BY <2>7 DEF ThermalStopReturns, At
    <3>2. state = "FAILED"
      BY <3>1, HeadFacts DEF UnloadsItsOwn, Served
    <3>3. state' \in {"FAILED", "UNLOADED"}
      BY <2>7, <3>2 DEF ThermalStopReturns, ClearInstance, instance
    <3>. QED
      BY <2>4, <3>3, NotIdle
  <2>. QED
    BY <1>2, <2>5, <2>6, <2>7
<1>. QED
  BY <1>1, <1>2 DEF Progress, Ordinary

LEMMA AbortTimely ==
  ASSUME TypeOK, LockInv, CallsInv, TimelyInv, NEW S \in SUBSET Slots, AbortAll(S)
  PROVE  CallsInv' /\ TimelyInv'
<1>1. /\ UNCHANGED <<instance, timer, pinned, lockQ, processes>>
      /\ \A q \in Callers :
           \/ call[q].at = "wait" /\ call'[q] = Threw
           \/ /\ call'[q].at = call[q].at /\ call'[q].op = call[q].op
              /\ call'[q].want = call[q].want
  BY AbortAllEffect
<1>2. Threw.at = "threw" /\ Threw.op = "none"
  BY DEF Threw, Returned
<1>3. CallsInv'
  <2>. SUFFICES ASSUME NEW q \in Callers PROVE Sensible(call[q])'
    BY DEF CallsInv
  <2>1. Sensible(call[q])
    BY DEF CallsInv
  <2>2. CASE call'[q] = Threw
    BY <1>2, <2>2 DEF Sensible
  <2>3. CASE call'[q].at = call[q].at /\ call'[q].op = call[q].op /\ call'[q].want = call[q].want
    BY <1>1, <2>1, <2>3 DEF Sensible
  <2>. QED
    BY <1>1, <2>2, <2>3
<1>4. lockQ # <<>> => call'[lockQ[1]].at = call[lockQ[1]].at
  <2>1. lockQ # <<>> => 1 \in 1..Len(lockQ)
    BY LockFacts, EmptySeq
  <2>. QED
    BY <1>1, <2>1, LockFacts
<1>5. TimelyInv'
  BY <1>1, <1>4, HeadStays DEF instance, Evicts
<1>. QED
  BY <1>3, <1>5

LEMMA GuardedTimely ==
  ASSUME OneDefault, Guarded, CallsInv, TimelyInv,
         [Next]_vars \/ \E S \in SUBSET Slots : AbortAll(S)
  PROVE  CallsInv' /\ TimelyInv'
<1>1. CASE \E p \in Callers : Progress(p)
  BY <1>1, GuardTimely, GuardedTrips DEF Guarded
<1>2. CASE Outside
  BY <1>2, OutsideTimely DEF Guarded, Intact
<1>3. CASE \E S \in SUBSET Slots : AbortAll(S)
  BY <1>3, AbortTimely DEF Guarded, Intact, Served
<1>. QED
  BY <1>1, <1>2, <1>3 DEF Next, Outside

LEMMA GuardedSafely ==
  ASSUME Guarded, TimelyInv
  PROVE  UnloadIsSafe /\ EvictionIsTimely
<1>. USE DEF Guarded, Intact
<1>1. NoStrayEngine /\ StateMatchesEngine
  BY DEF EngineInv, Settings, EnginesAreKnown
<1>2. GenerationOwnsInstance
  BY DEF GenerationOwnsInstance, Generates, Holding
<1>3. IdleIsEvicted
  BY DEF IdleIsEvicted, TimelyInv
<1>4. EvictionFindsIdle
  BY DEF EngineInv, Settings, TimerInv, EvictorInv, EvictionFindsIdle, At
<1>. QED
  BY <1>1, <1>2, <1>3, <1>4 DEF UnloadIsSafe, EvictionIsTimely

LEMMA CallsBegin == Begins => CallsInv /\ TimelyInv
<1>. SUFFICES ASSUME Begins PROVE CallsInv /\ TimelyInv
  OBVIOUS
<1>1. state = "UNLOADED" /\ \A p \in Callers : call[p] = Returned
  BY DEF Begins, Fresh
<1>2. Returned.at = "returned" /\ Returned.op = "none"
  BY DEF Returned
<1>. QED
  BY <1>1, <1>2 DEF CallsInv, Sensible, TimelyInv

\* Each step of the scheduler is one of the manager, none, or an abort of several.
LEMMA StepsOfManager ==
  ASSUME SInv, [SchedulerNext]_schedulerVars
  PROVE  [Next]_vars \/ \E S \in SUBSET Slots : AbortAll(S)
<1>1. ASSUME NEW j \in Slots, Submit(j) \/ Cancel(j)
      PROVE  UNCHANGED vars \/ AbortAll({j})
  BY <1>1, SubmitEffect, CancelEffect
<1>2. ASSUME NEW j \in Slots, Advance(j) PROVE Requests(j) \/ UNCHANGED vars
  <2>1. Execute(j) => Requests(j)
    <3>. SUFFICES ASSUME Execute(j) PROVE Requests(j)
      OBVIOUS
    <3>. QED
      BY ExecuteEffect DEF Requests
  <2>2. AfterWork(j) \/ AfterStop(j) \/ AfterRestore(j)
          => Stop(j) \/ Restore(j) \/ UNCHANGED vars
    BY AfterEffect DEF SInv, Settles
  <2>. QED
    BY <1>2, <2>1, <2>2 DEF Advance, Requests
<1>3. CASE Quiesce \/ Shutdown
  <2>1. CancelAll(open) \/ CancelAll(FALSE)
    BY <1>3 DEF Quiesce, Shutdown
  <2>2. AbortAll({j \in Slots : stage[j] = "running"})
    BY <2>1, CancelAllEffect DEF SInv, Control
  <2>3. {j \in Slots : stage[j] = "running"} \in SUBSET Slots
    OBVIOUS
  <2>. QED
    BY <2>2, <2>3
<1>4. CASE Stopping
  <2>1. CASE QuiesceStops \/ ShutdownStops
    <3>1. PICK p \in Hosts : Admitted = {} /\ Begin(p, "force", NoRecipe, "stop")
      BY <2>1, StopEffect, TwoStoppers DEF QuiesceStops, ShutdownStops
    <3>2. LanesIdle
      BY <3>1 DEF SInv, Driving, Admitted, LanesIdle
    <3>. QED
      BY <3>1, <3>2 DEF Next, ForceStop
  <2>2. CASE QuiesceEnds \/ ShutdownEnds
    BY <2>2 DEF QuiesceEnds, ShutdownEnds, lifecycle, vars
  <2>. QED
    BY <1>4, <2>1, <2>2 DEF Stopping
<1>5. CASE \/ \E p \in Callers : Proceed(p)
           \/ LifecycleStep(EvictionFires)
           \/ Environment \/ AdminStop \/ UNCHANGED schedulerVars
  BY <1>5, ManagerEffect DEF Callers, Next
<1>. QED
  BY <1>1, <1>2, <1>3, <1>4, <1>5 DEF SchedulerNext, Next


\* With one executor, or with a lane one job wide, it is always so.
OneSlot == \A s, t \in Slots : s = t

\* lifecycle-manager.ts:186-226: the guard unloads an image model it has just used
\* (#unloadAfterThermalFailure) before it gives back the lease.  Whatever adapter.stop()
\* then does, no engine is lost, none is taken from a generation, the state keeps to what
\* is there and the next idle instance is still evicted.  For one executor, with any
\* number of administrator's, host's and eviction's calls against it, any recipes,
\* engines and outcomes of a stop, and one Default.
THEOREM UnloadsSafely == OneSlot /\ OneDefault /\ Spec => []UnloadIsSafe
<1>. DEFINE J == OneSlot /\ OneDefault /\ Guarded /\ CallsInv /\ TimelyInv
<1>1. OneSlot /\ OneDefault /\ Init => J
  BY InitBegins, GuardedInit, CallsBegin
<1>2. J /\ [Next]_vars => J'
  <2>. SUFFICES ASSUME J, [Next]_vars PROVE J'
    OBVIOUS
  <2>1. Alone
    BY DEF OneSlot, Alone
  <2>2. Guarded' /\ CallsInv' /\ TimelyInv'
    BY <2>1, GuardedStep, GuardedTimely
  <2>. QED
    BY <2>2 DEF OneSlot, OneDefault
<1>3. J => UnloadIsSafe
  BY GuardedSafely
<1>. HIDE DEF J
<1>. QED
  BY <1>1, <1>2, <1>3, PTL DEF Spec

-----------------------------------------------------------------------------
(* The lane feeds the manager one job after the other                      *)

OneByOne == \A i, j \in Slots : stage[i] = "running" /\ stage[j] = "running" => i = j

\* The lane counts as the scheduler does.
LEMMA LaneCounts == \A S : Lane!Cardinality(S) = Cardinality(S)
BY DEF Lane!Cardinality, Cardinality

\* No job is started while another one runs.
LEMMA StartsAlone ==
  ASSUME Concurrency = 1, SInv, NEW j \in Slots, Submit(j), OneByOne
  PROVE  OneByOne'
<1>1. stage \in [Slots -> Lane!Stages]
  BY DEF SInv, Control
<1>2. CASE stage' = [stage EXCEPT ![j] = "refused"] \/ stage' = [stage EXCEPT ![j] = "waiting"]
  BY <1>1, <1>2 DEF OneByOne
<1>3. CASE Lane!StartAtOnce(j)
  <2>. DEFINE R == {i \in Slots : stage[i] = "running"}
  <2>1. Cardinality(R) < 1 /\ stage' = [stage EXCEPT ![j] = "running"]
    <3>1. Lane!In("running") = R
      BY DEF Lane!In
    <3>2. Cardinality(Lane!In("running")) < Concurrency /\ stage' = [stage EXCEPT ![j] = "running"]
      BY <1>3, LaneCounts DEF Lane!StartAtOnce
    <3>. HIDE DEF R
    <3>. QED
      BY <3>1, <3>2
  <2>2. IsFiniteSet(R)
    <3>1. R \subseteq Slots
      OBVIOUS
    <3>. HIDE DEF R
    <3>. QED
      BY <3>1, CallersAssumption, FS_Subset
  <2>3. Cardinality(R) \in Nat /\ (Cardinality(R) = 0 <=> R = {})
    BY <2>2, FS_CardinalityType, FS_EmptySet
  <2>4. R = {}
    <3>. HIDE DEF R
    <3>. QED
      BY <2>1, <2>3
  <2>. QED
    BY <1>1, <2>1, <2>4 DEF OneByOne
<1>. QED
  BY <1>2, <1>3 DEF Submit, Lane!Refuse, Lane!Wait

\* The slot of a job that ends goes to one other.
LEMMA SettlesAlone ==
  ASSUME SInv, NEW j \in Slots, NEW ok, Settle(j, ok), OneByOne
  PROVE  OneByOne'
<1>1. PICK how \in {"completed", "cancelled", "failed"} : Lane!End(j, how)
  BY DEF Settle
<1>2. /\ stage[j] = "running"
      /\ \/ stage' = [stage EXCEPT ![j] = how]
         \/ \E w \in Slots : stage[w] = "waiting" /\ stage' = [stage EXCEPT ![j] = how, ![w] = "running"]
  BY <1>1 DEF Lane!End, Lane!In
<1>3. stage \in [Slots -> Lane!Stages] /\ how # "running"
  BY DEF SInv, Control
<1>. QED
  BY <1>2, <1>3 DEF OneByOne

LEMMA AdvancesAlone ==
  ASSUME SInv, NEW j \in Slots, Advance(j), OneByOne
  PROVE  OneByOne'
<1>1. CASE Execute(j)
  BY <1>1 DEF Execute, lane, OneByOne
<1>2. CASE AfterWork(j) \/ AfterStop(j) \/ AfterRestore(j)
  <2>1. stage' = stage \/ \E ok : Settle(j, ok)
    BY <1>2 DEF AfterWork, AfterStop, AfterRestore, Call, lane
  <2>. QED
    BY <2>1, SettlesAlone DEF OneByOne
<1>. QED
  BY <1>1, <1>2 DEF Advance

LEMMA LaneStep ==
  ASSUME Concurrency = 1, SInv, OneByOne, [SchedulerNext]_schedulerVars
  PROVE  OneByOne'
<1>1. ASSUME NEW j \in Slots, Submit(j) \/ Cancel(j) \/ Advance(j) PROVE OneByOne'
  <2>1. CASE Cancel(j)
    <3>1. stage \in [Slots -> Lane!Stages]
      BY DEF SInv, Control
    <3>2. stage' \in {stage, [stage EXCEPT ![j] = "cancelled"]}
      BY <2>1, CancelEffect
    <3>. QED
      BY <3>1, <3>2 DEF OneByOne
  <2>. QED
    BY <1>1, <2>1, StartsAlone, AdvancesAlone
<1>2. CASE Quiesce \/ Shutdown
  <2>1. CancelAll(open) \/ CancelAll(FALSE)
    BY <1>2 DEF Quiesce, Shutdown
  <2>2. stage' = [j \in Slots |-> IF stage[j] = "waiting" THEN "cancelled" ELSE stage[j]]
    BY <2>1, CancelAllEffect DEF SInv, Control
  <2>. QED
    BY <2>2 DEF OneByOne
<1>3. CASE Stopping
  BY <1>3 DEF Stopping, QuiesceStops, ShutdownStops, QuiesceEnds, ShutdownEnds, StopDrained, lane, OneByOne
<1>4. CASE \/ \E p \in Callers : Proceed(p)
           \/ LifecycleStep(EvictionFires)
           \/ Environment \/ AdminStop \/ UNCHANGED schedulerVars
  BY <1>4, ManagerEffect DEF Callers, Still, OneByOne
<1>. QED
  BY <1>1, <1>2, <1>3, <1>4 DEF SchedulerNext

\* A job that is not in its slot asks nothing of the manager.
LEMMA OneByOneAlone ==
  ASSUME SInv, OneByOne
  PROVE  Alone
BY DEF SInv, Driving, OneByOne, Alone

\* Who the guard spares: see Guarded.
GuardedLane == SInv /\ OneByOne /\ Guarded

LEMMA GuardedLaneInit == SchedulerInit => GuardedLane
<1>. SUFFICES ASSUME SchedulerInit PROVE GuardedLane
  OBVIOUS
<1>1. Begins /\ SInv
  BY DrivenInit DEF SchedulerInit, Begins
<1>2. OneByOne
  BY DEF SchedulerInit, Lane!Init, OneByOne
<1>. QED
  BY <1>1, <1>2, GuardedInit DEF GuardedLane

LEMMA GuardedLaneStep ==
  ASSUME Concurrency = 1, GuardedLane, [SchedulerNext]_schedulerVars
  PROVE  GuardedLane'
BY DrivenStep, LaneStep, OneByOneAlone, StepsOfManager, GuardedStep DEF GuardedLane

\* lifecycle-manager.ts:186-226 behind scheduler.ts:129, where a lane is one job wide
\* unless it is told otherwise.  The guard unloads safely whatever the other jobs do: any
\* number of them, of any kinds, admitted, cancelled, quiesced or shut down at any time.
\* Its callbacks of the eviction timer find the instance idle, too.  The width matters:
\* the run lifecycle_thermal shows what a second executor does.
THEOREM LaneOfOneUnloadsSafely ==
  Concurrency = 1 /\ OneDefault /\ SchedulerSpec => []UnloadIsSafe /\ []EvictionIsTimely
<1>. DEFINE J == Concurrency = 1 /\ OneDefault /\ GuardedLane /\ CallsInv /\ TimelyInv
<1>1. Concurrency = 1 /\ OneDefault /\ SchedulerInit => J
  <2>1. SchedulerInit => Begins
    BY DEF SchedulerInit, Begins
  <2>. QED
    BY <2>1, GuardedLaneInit, CallsBegin
<1>2. J /\ [SchedulerNext]_schedulerVars => J'
  <2>. SUFFICES ASSUME J, [SchedulerNext]_schedulerVars PROVE J'
    OBVIOUS
  <2>1. [Next]_vars \/ \E S \in SUBSET Slots : AbortAll(S)
    BY StepsOfManager DEF GuardedLane
  <2>2. GuardedLane' /\ CallsInv' /\ TimelyInv'
    BY <2>1, GuardedLaneStep, GuardedTimely DEF GuardedLane
  <2>. QED
    BY <2>2 DEF OneDefault
<1>3. J => UnloadIsSafe /\ EvictionIsTimely
  BY GuardedSafely DEF GuardedLane
<1>. HIDE DEF J
<1>. QED
  BY <1>1, <1>2, <1>3, PTL DEF SchedulerSpec

-----------------------------------------------------------------------------
(* The manager's promises behind the lane                                  *)

LEMMA ComposedStep ==
  ASSUME ~ThermalTrips, SInv, IInv, EngineInv, [SchedulerNext]_schedulerVars
  PROVE  IInv' /\ EngineInv'
BY StepsOfManager, StepInv, KnownStep, AbortAllKeeps

LEMMA ComposedBegins ==
  ASSUME SchedulerInit
  PROVE  SInv /\ IInv /\ EngineInv /\ CallsInv /\ TimelyInv
<1>1. Begins
  BY DEF SchedulerInit, Begins
<1>. QED
  BY <1>1, DrivenInit, InitInv, KnownInit, CallsBegin

\* scheduler.ts, over lifecycle-manager.ts: what the manager promises whoever calls it,
\* it keeps for the lane's jobs, for lanes of any width and any jobs, although a
\* quiesce, a shutdown or a cancellation aborts several of them at once, also
\* while they wait for a lease or load.  Generations run on the engine the manager
\* holds, at most as many as the recipe allows, the leases are counted, no waiter is
\* left without a waker, no engine is lost but one whose stop failed, and an eviction
\* finds the instance idle; on a machine whose thermal guard does not fire.
THEOREM LaneKeepsLeases ==
  ~ThermalTrips /\ SchedulerSpec =>
    [](/\ GenerationOwnsInstance /\ LeasesCountHolders /\ GenerationLimit
       /\ WaitersHaveWaker /\ EnginesAreKnown /\ EvictionFindsIdle)
<1>. DEFINE J == ~ThermalTrips /\ SInv /\ IInv /\ EngineInv
<1>1. ~ThermalTrips /\ SchedulerInit => J
  BY ComposedBegins
<1>2. J /\ [SchedulerNext]_schedulerVars => J'
  BY DrivenStep, ComposedStep
<1>3. J => /\ GenerationOwnsInstance /\ LeasesCountHolders /\ GenerationLimit
           /\ WaitersHaveWaker /\ EnginesAreKnown /\ EvictionFindsIdle
  BY IInvOwns, IInvCounts, IInvLimits, IInvWakes, EnginesFacts
<1>. HIDE DEF J
<1>. QED
  BY <1>1, <1>2, <1>3, PTL DEF SchedulerSpec

\* lifecycle-manager.ts:177-179 behind the lane: with one Default, an idle instance that
\* may be evicted has its timer armed while nobody owns the lock, whichever jobs
\* came, ended or were aborted in between; for lanes of any width, on a machine whose
\* thermal guard does not fire.
THEOREM LaneEvictsPromptly ==
  ~ThermalTrips /\ OneDefault /\ SchedulerSpec => []EvictionIsTimely
<1>. DEFINE J == ~ThermalTrips /\ OneDefault /\ SInv /\ IInv /\ EngineInv /\ CallsInv /\ TimelyInv
<1>1. ~ThermalTrips /\ OneDefault /\ SchedulerInit => J
  BY ComposedBegins
<1>2. J /\ [SchedulerNext]_schedulerVars => J'
  <2>. SUFFICES ASSUME J, [SchedulerNext]_schedulerVars PROVE J'
    OBVIOUS
  <2>1. SInv' /\ IInv' /\ EngineInv'
    BY DrivenStep, ComposedStep
  <2>2. CallsInv' /\ TimelyInv'
    BY StepsOfManager, TimelyStep, AbortTimely DEF IInv
  <2>. QED
    BY <2>1, <2>2 DEF OneDefault
<1>3. J => EvictionIsTimely
  BY EnginesFacts, TimelyFacts
<1>. HIDE DEF J
<1>. QED
  BY <1>1, <1>2, <1>3, PTL DEF SchedulerSpec

-----------------------------------------------------------------------------
(* The thermal guard, with one image job                                   *)

\* At most one job is an image job, so the guard fires at most once.
OneImage == \A i, j \in Slots : KindOf[i] = "media" /\ KindOf[j] = "media" => i = j

\* Only an image job makes the call that the guard may end.
Imaging ==
  \A j \in Slots :
    /\ call[j].op = "media" => KindOf[j] = "media"
    /\ call[j].at \in {"thermal", "thermalStop", "closing"} => call[j].op = "media"

\* That call has ended its generation, or is over; a job makes it once.
Over == {"thermalStop", "closing", "release", "returned", "threw"}
Past ==
  \A j \in Slots : KindOf[j] = "media" =>
    step[j] # "none" /\ (call[j].op = "media" => call[j].at \in Over)

\* Where a step leads the call of p.
LEMMA CallLeads ==
  ASSUME Basics, EngineInv, Served, NEW p \in Callers, Progress(p)
  PROVE  /\ call'[p].at \in {"thermal", "thermalStop", "closing"} =>
              \/ call[p].at \in {"thermal", "thermalStop", "closing"}
              \/ call[p].op = "media"
         /\ call[p].at \in Over => call'[p].at \in Over
<1>1. call'[p].at \in {"thermal", "thermalStop", "closing"} =>
        call[p].at \in {"thermal", "thermalStop", "closing"} \/ call[p].op = "media"
  BY Counts DEF ThermalTrip, UnloadAfterThermalFailure, ThermalStopReturns, At
<1>2. ASSUME call[p].at \in Over PROVE call'[p].at \in Over
  <2>1. \A pos : At1(p, pos).at = pos
    BY Written DEF Served
  <2>2. Returned.at = "returned" /\ Threw.at = "threw"
    BY Written DEF Served
  <2>3. \/ Release(p) \/ CloseThermal(p)
        \/ \E how \in StopOutcomes : ThermalStopReturns(p, how)
    BY <1>2 DEF Over, Progress, Acquire, EnsureReady, Prepared, StopUnlocked, ThermalTrip,
       UnloadAfterThermalFailure, Validated, Started, Probed, StopOldReturns, CleanedUp,
       StopReturns, EndGeneration, At
  <2>4. CASE Release(p)
    <3>1. call'[p] \in {Returned, Threw}
      BY <2>4 DEF Release, Leave, Update
    <3>. QED
      BY <2>2, <3>1 DEF Over
  <2>5. CASE CloseThermal(p)
    <3>1. call'[p] = At1(p, "release")
      BY <2>5 DEF CloseThermal, Ask, Served, TypeOK
    <3>. QED
      BY <2>1, <3>1 DEF Over
  <2>6. CASE \E how \in StopOutcomes : ThermalStopReturns(p, how)
    <3>1. call'[p] = At1(p, "closing")
      BY <2>6 DEF ThermalStopReturns, Leave, Update
    <3>. QED
      BY <2>1, <3>1 DEF Over
  <2>. QED
    BY <2>3, <2>4, <2>5, <2>6
<1>. QED
  BY <1>1, <1>2

\* The call of j after a step of the manager.
LEMMA ImagingProgress ==
  ASSUME Intact, Imaging, Still, NEW p \in Callers, Progress(p)
  PROVE  Imaging' /\ (Past => Past')
<1>. USE DEF Intact
<1>0. Slots \subseteq Callers /\ Returned.op = "none" /\ Threw.op = "none" /\ step' = step
      /\ Returned.at = "returned" /\ Threw.at = "threw"
  BY DEF Callers, Returned, Threw, Still
<1>1. ASSUME NEW j \in Slots
      PROVE  /\ call'[j].op = "media" => call[j].op = "media"
             /\ call'[j].at \in {"thermal", "thermalStop", "closing"} =>
                  call[j].op = "media" /\ call'[j].op = "media"
             /\ call[j].at \in Over => call'[j].at \in Over
  <2>1. CASE j = p
    <3>1. call'[p] \in {Returned, Threw} \/ call'[p].op = call[p].op
      BY WokenOn DEF Served
    <3>2. /\ call'[p].at \in {"thermal", "thermalStop", "closing"} =>
               \/ call[p].at \in {"thermal", "thermalStop", "closing"}
               \/ call[p].op = "media"
          /\ call[p].at \in Over => call'[p].at \in Over
      BY CallLeads
    <3>. QED
      BY <1>0, <2>1, <3>1, <3>2 DEF Imaging
  <2>2. CASE j # p
    <3>1. call'[j] = call[j] \/ (call[j].at = "wait" /\ call'[j] = Woken(call[j]))
      BY <1>0, <2>2, WokenOn DEF Served
    <3>2. /\ Woken(call[j]).at \in {"acquire", "ready"} /\ Woken(call[j]).op = call[j].op
      BY <1>0, WokenParts DEF Served, TypeOK
    <3>. QED
      BY <3>1, <3>2 DEF Imaging, Over
  <2>. QED
    BY <2>1, <2>2
<1>2. Imaging'
  BY <1>1 DEF Imaging
<1>3. Past => Past'
  BY <1>0, <1>1 DEF Past
<1>. QED
  BY <1>2, <1>3

\* j begins a call, is told to stop, or is left alone.
Turns(j) ==
  /\ step[j] # "none" => step'[j] # "none"
  /\ \/ call'[j].op = call[j].op /\ call'[j].at = call[j].at
     \/ /\ call'[j].at \in {"acquire", "ready", "stop", "threw"}
        /\ call'[j].op = "media" => KindOf[j] = "media" /\ step[j] = "none"

LEMMA ImagingTurns ==
  ASSUME Imaging, \A j \in Slots : Turns(j)
  PROVE  Imaging' /\ (Past => Past')
BY DEF Imaging, Past, Turns

\* Beginning a call leaves the others alone.
LEMMA BeginTurns ==
  ASSUME TypeOK, NEW p \in Callers, NEW op, NEW r, NEW pos, Begin(p, op, r, pos)
  PROVE  /\ call'[p].op = op /\ call'[p].at = pos
         /\ \A q \in Callers \ {p} : call'[q] = call[q]
<1>. DEFINE c == [Returned EXCEPT !.op = op, !.want = r, !.at = pos]
<1>1. c.op = op /\ c.at = pos
  BY DEF Returned
<1>2. call' = [call EXCEPT ![p] = c]
  BY DEF Begin, Ask
<1>. HIDE DEF c
<1>. QED
  BY <1>1, <1>2 DEF TypeOK

\* Several calls are aborted at once.
LEMMA AbortTurns ==
  ASSUME SInv, NEW S \in SUBSET Slots, AbortAll(S), UNCHANGED step
  PROVE  \A j \in Slots : Turns(j)
<1>1. \A q \in Callers : \/ call'[q] = Threw
                         \/ call'[q].at = call[q].at /\ call'[q].op = call[q].op
  BY AbortAllEffect DEF SInv, Served
<1>2. Slots \subseteq Callers /\ Threw.at = "threw" /\ Threw.op = "none"
  BY DEF Callers, Threw, Returned
<1>. QED
  BY <1>1, <1>2 DEF Turns

\* A job goes on to its next call, or to its end.
LEMMA AdvanceTurns ==
  ASSUME SInv, NEW i \in Slots, Advance(i)
  PROVE  \A j \in Slots : Turns(j)
<1>0. i \in Callers /\ Slots \subseteq Callers /\ TypeOK
      /\ step \in [Slots -> {"none", "work", "stop", "restore", "restoreAfterError", "done"}]
  BY DEF Callers, SInv, Served, Control
<1>1. ASSUME NEW op, NEW r, NEW pos \in {"acquire", "ready", "stop"}, Begin(i, op, r, pos),
             op = "media" => KindOf[i] = "media" /\ step[i] = "none",
             \A j \in Slots : step[j] # "none" => step'[j] # "none"
      PROVE  \A j \in Slots : Turns(j)
  <2>1. /\ call'[i].op = op /\ call'[i].at = pos
        /\ \A q \in Callers \ {i} : call'[q] = call[q]
    BY <1>0, <1>1, BeginTurns
  <2>. QED
    BY <1>0, <1>1, <2>1 DEF Turns
<1>2. CASE Execute(i)
  <2>1. /\ step[i] = "none" /\ \A j \in Slots : step[j] # "none" => step'[j] # "none"
        /\ \/ Chat(i, RecipeOf[i]) \/ Warm(i, RecipeOf[i])
           \/ KindOf[i] = "media" /\ Media(i, RecipeOf[i])
    BY <1>0, <1>2, ExecuteEffect
  <2>. QED
    BY <1>1, <2>1 DEF Chat, Warm, Media
<1>3. CASE AfterWork(i) \/ AfterStop(i) \/ AfterRestore(i)
  <2>1. /\ \A j \in Slots : step[j] # "none" => step'[j] # "none"
        /\ Stop(i) \/ Restore(i) \/ UNCHANGED call
    BY <1>0, <1>3, AfterEffect DEF SInv, Settles, vars
  <2>2. CASE Stop(i) \/ Restore(i)
    BY <1>1, <2>1, <2>2 DEF Stop, Restore
  <2>3. CASE UNCHANGED call
    BY <2>1, <2>3 DEF Turns
  <2>. QED
    BY <2>1, <2>2, <2>3
<1>. QED
  BY <1>2, <1>3 DEF Advance

LEMMA ImagingStep ==
  ASSUME SInv, Intact, Imaging, [SchedulerNext]_schedulerVars
  PROVE  Imaging' /\ (Past => Past')
<1>0. TypeOK /\ \A j \in Slots : j \in Callers /\ j \notin Hosts \cup {Admin, Evictor}
  BY CallersAssumption DEF SInv, Served, Callers
<1>1. ASSUME UNCHANGED step, \A j \in Slots : call'[j] = call[j]
      PROVE  \A j \in Slots : Turns(j)
  BY <1>1 DEF Turns
<1>2. ASSUME NEW j \in Slots, Submit(j) \/ Cancel(j) \/ Advance(j)
      PROVE  \A i \in Slots : Turns(i)
  <2>1. CASE Submit(j)
    BY <1>1, <2>1, SubmitEffect DEF vars
  <2>2. CASE Cancel(j)
    BY <1>1, <2>2, CancelEffect, AbortTurns DEF vars
  <2>. QED
    BY <1>2, <2>1, <2>2, AdvanceTurns
<1>3. CASE Quiesce \/ Shutdown
  <2>1. (CancelAll(open) \/ CancelAll(FALSE)) /\ UNCHANGED step
    BY <1>3 DEF Quiesce, Shutdown
  <2>2. AbortAll({j \in Slots : stage[j] = "running"})
    BY <2>1, CancelAllEffect DEF SInv, Control
  <2>3. {j \in Slots : stage[j] = "running"} \in SUBSET Slots
    OBVIOUS
  <2>4. \A j \in Slots : Turns(j)
    BY <2>1, <2>2, <2>3, AbortTurns
  <2>. QED
    BY <2>4, ImagingTurns
<1>4. CASE Stopping
  <2>1. CASE QuiesceStops \/ ShutdownStops
    <3>1. PICK p \in Hosts : Begin(p, "force", NoRecipe, "stop") /\ UNCHANGED step
      BY <2>1, StopEffect, TwoStoppers DEF QuiesceStops, ShutdownStops
    <3>2. \A q \in Callers \ {p} : call'[q] = call[q]
      BY <1>0, <3>1, BeginTurns, TwoStoppers
    <3>. QED
      BY <1>0, <1>1, <3>1, <3>2, ImagingTurns
  <2>2. CASE QuiesceEnds \/ ShutdownEnds
    <3>1. UNCHANGED <<step, call>>
      BY <2>2 DEF QuiesceEnds, ShutdownEnds, lifecycle, vars
    <3>. QED
      BY <1>1, <3>1, ImagingTurns
  <2>. QED
    BY <1>4, <2>1, <2>2 DEF Stopping
<1>5. CASE \/ \E p \in Callers : Proceed(p)
           \/ LifecycleStep(EvictionFires)
           \/ Environment \/ AdminStop \/ UNCHANGED schedulerVars
  <2>1. /\ Still
        /\ \/ \E p \in Callers : Progress(p)
           \/ EvictionFires \/ Stop(Admin)
           \/ \E r \in Defaults : Pin(r)
           \/ \E e \in Engines : EngineDies(e)
           \/ UNCHANGED vars
    BY <1>5, ManagerEffect DEF Callers
  <2>2. CASE \E p \in Callers : Progress(p)
    BY <2>1, <2>2, ImagingProgress
  <2>3. CASE EvictionFires \/ Stop(Admin)
    <3>1. CASE Stop(Admin)
      <4>1. \A q \in Callers \ {Admin} : call'[q] = call[q]
        BY <1>0, <3>1, BeginTurns DEF Stop, Callers
      <4>. QED
        BY <1>0, <1>1, <2>1, <4>1, ImagingTurns DEF Still
    <3>2. CASE EvictionFires
      <4>1. \A q \in Callers \ {Evictor} : call'[q] = call[q]
        BY <1>0, <3>2 DEF EvictionFires, Ask, TypeOK
      <4>. QED
        BY <1>0, <1>1, <2>1, <4>1, ImagingTurns DEF Still
    <3>. QED
      BY <2>3, <3>1, <3>2
  <2>4. CASE (\E r \in Defaults : Pin(r)) \/ (\E e \in Engines : EngineDies(e)) \/ UNCHANGED vars
    BY <1>1, <2>1, <2>4, ImagingTurns DEF Still, Pin, EngineDies, vars
  <2>. QED
    BY <2>1, <2>2, <2>3, <2>4
<1>. QED
  BY <1>2, <1>3, <1>4, <1>5, ImagingTurns DEF SchedulerNext

\* Until the guard unloads, the manager's own invariant holds; afterwards no job is left
\* that it could stop.
Once == SInv /\ Imaging /\ Intact /\ (Past \/ IInv)

LEMMA OnceTrips == Once => TripsOwn
<1>. SUFFICES ASSUME Once, NEW s \in Slots, call[s].at = "thermal"
              PROVE  state = "BUSY" /\ handle = call[s].held
  BY DEF TripsOwn
<1>1. KindOf[s] = "media" /\ call[s].op = "media"
  BY DEF Once, Imaging
<1>2. ~Past
  BY <1>1 DEF Past, Over
<1>3. IInv
  BY <1>2 DEF Once
<1>4. s \in Holders
  BY DEF Holders, Holding, Callers
<1>. QED
  BY <1>3, <1>4, Unheld DEF IInv, LeaseInv

\* What the unload makes of the call it is for.
LEMMA UnloadLeads ==
  ASSUME IInv, NEW p \in Callers, UnloadAfterThermalFailure(p)
  PROVE  p \in Slots /\ call'[p].at = "thermalStop"
<1>1. call[p].at = "thermal" /\ call'[p] = At1(p, "thermalStop")
  BY DEF UnloadAfterThermalFailure, At, Keep, Update
<1>2. p \in Slots
  BY <1>1 DEF IInv, CallInv
<1>3. At1(p, "thermalStop").at = "thermalStop"
  BY Written DEF IInv
<1>. QED
  BY <1>1, <1>2, <1>3

LEMMA OnceInit == SchedulerInit => Once
<1>. SUFFICES ASSUME SchedulerInit PROVE Once
  OBVIOUS
<1>1. Begins /\ SInv
  BY DrivenInit DEF SchedulerInit, Begins
<1>2. IInv /\ Intact
  BY <1>1, InitInv, GuardedInit DEF Guarded
<1>3. \A j \in Slots : call[j] = Returned
  BY <1>1 DEF Begins, Fresh, Callers
<1>4. Returned.op = "none" /\ Returned.at = "returned"
  BY DEF Returned
<1>. QED
  BY <1>1, <1>2, <1>3, <1>4 DEF Once, Imaging

LEMMA OnceStep ==
  ASSUME OneImage, Once, [SchedulerNext]_schedulerVars
  PROVE  Once'
<1>. USE DEF Once
<1>1. SInv' /\ Imaging' /\ (Past => Past')
  BY DrivenStep, ImagingStep
<1>2. [Next]_vars \/ \E S \in SUBSET Slots : AbortAll(S)
  BY StepsOfManager
<1>3. Intact'
  <2>1. CASE \E p \in Callers : Progress(p)
    BY <2>1, OnceTrips, IntactProgress
  <2>2. CASE [Next]_vars /\ Outside
    BY <2>2, TypeStep, GuardedOutside DEF StillGuarded, Intact, Served
  <2>3. CASE \E S \in SUBSET Slots : AbortAll(S)
    BY <2>3, GuardedAbort DEF StillGuarded
  <2>. QED
    BY <1>2, <2>1, <2>2, <2>3 DEF Next, Outside
<1>4. ASSUME IInv, ~Past PROVE Past' \/ IInv'
  <2>1. CASE Unloading
    <3>1. PICK p \in Callers : UnloadAfterThermalFailure(p)
      BY <2>1 DEF Unloading
    <3>2. call'[p].at = "thermalStop"
      BY <1>4, <3>1, UnloadLeads
    <3>3. p \in Slots
      BY <1>4, <3>1, UnloadLeads
    <3>4. KindOf[p] = "media"
      BY <1>1, <3>2, <3>3 DEF Imaging
    <3>5. step'[p] # "none"
      BY <1>1, <3>2, <3>3 DEF SInv, Driving, Idle
    <3>6. \A j \in Slots : KindOf[j] = "media" => j = p
      BY <3>3, <3>4 DEF OneImage
    <3>. QED
      BY <3>2, <3>5, <3>6 DEF Past, Over
  <2>2. CASE ~Unloading
    <3>1. CASE [Next]_vars
      BY <1>4, <2>2, <3>1, StepButUnloading
    <3>2. CASE \E S \in SUBSET Slots : AbortAll(S)
      BY <1>4, <3>2, AbortAllKeeps DEF Intact
    <3>. QED
      BY <1>2, <3>1, <3>2
  <2>. QED
    BY <2>1, <2>2
<1>. QED
  BY <1>1, <1>3, <1>4

\* lifecycle-manager.ts:186-226 behind lanes of any width: as long as there is but one
\* image job, whatever else runs beside it, no engine is lost when the guard unloads,
\* the state keeps to what is there, and evictions find the instance idle and happen in
\* time.  Generations that the unload cuts short are lost: see the run
\* lifecycle_thermal.
THEOREM OneImageKeepsEngines ==
  OneImage /\ OneDefault /\ SchedulerSpec => []EnginesAreKnown /\ []EvictionIsTimely
<1>. DEFINE J == OneImage /\ OneDefault /\ Once /\ CallsInv /\ TimelyInv
<1>1. OneImage /\ OneDefault /\ SchedulerInit => J
  BY OnceInit, ComposedBegins
<1>2. J /\ [SchedulerNext]_schedulerVars => J'
  <2>. SUFFICES ASSUME J, [SchedulerNext]_schedulerVars PROVE J'
    OBVIOUS
  <2>1. Once'
    BY OnceStep
  <2>2. [Next]_vars \/ \E S \in SUBSET Slots : AbortAll(S)
    BY StepsOfManager DEF Once
  <2>3. CallsInv' /\ TimelyInv'
    <3>1. CASE \E p \in Callers : Progress(p)
      BY <3>1, OnceTrips, GuardTimely DEF Once
    <3>2. CASE Outside
      BY <3>2, OutsideTimely DEF Once, Intact
    <3>3. CASE \E S \in SUBSET Slots : AbortAll(S)
      BY <3>3, AbortTimely DEF Once, Intact, Served
    <3>. QED
      BY <2>2, <3>1, <3>2, <3>3 DEF Next, Outside
  <2>. QED
    BY <2>1, <2>3 DEF OneImage, OneDefault
<1>3. J => EnginesAreKnown /\ EvictionIsTimely
  BY EnginesFacts, TimelyFacts DEF Once, Intact
<1>. HIDE DEF J
<1>. QED
  BY <1>1, <1>2, <1>3, PTL DEF SchedulerSpec

-----------------------------------------------------------------------------
(* A stop leaves nothing behind                                            *)

\* Every engine stops when told to, and the thermal guard, if it may fire, does so
\* behind a lane one job wide, or there is one image job to fire for.
StopsWork == (ThermalTrips => Concurrency = 1 \/ OneImage) /\ StopOutcomes \subseteq {"stopped"}

EInv ==
  /\ TypeOK /\ EngineInv /\ spared = {}
  /\ Concurrency = 1 => GuardedLane
  /\ OneImage => Once
  /\ ~ThermalTrips => IInv

\* No stop is reported to have failed.
LEMMA NoneSpared ==
  ASSUME StopsWork, spared = {}, [Next]_vars
  PROVE  spared' = {}
<1>1. ASSUME NEW e, NEW how \in StopOutcomes, StopReports(e, how) PROVE spared' = {}
  BY <1>1 DEF StopsWork, StopReports
<1>2. ASSUME NEW p \in Callers, Progress(p) PROVE spared' = {}
  <2>1. CASE \E how \in StopOutcomes : \/ StopOldReturns(p, how) \/ CleanedUp(p, how)
                                       \/ ThermalStopReturns(p, how) \/ StopReturns(p, how)
    BY <1>1, <2>1 DEF StopOldReturns, CleanedUp, ThermalStopReturns, StopReturns
  <2>2. CASE ~\E how \in StopOutcomes : \/ StopOldReturns(p, how) \/ CleanedUp(p, how)
                                        \/ ThermalStopReturns(p, how) \/ StopReturns(p, how)
    BY <1>2, <2>2 DEF Progress, Acquire, EnsureReady, Prepared, Release, StopUnlocked, ThermalTrip,
       UnloadAfterThermalFailure, CloseThermal, Validated, Started, Probed, EndGeneration, Grant,
       BeginLoad, processes
  <2>. QED
    BY <2>1, <2>2
<1>3. ASSUME NEW p \in Slots, Requests(p) \/ Abort(p) PROVE spared' = {}
  BY <1>3 DEF Requests, Warm, Chat, Media, Restore, Stop, Begin, Abort, processes
<1>4. CASE \/ Stop(Admin) \/ (\E p \in Hosts : ForceStop(p)) \/ EvictionFires
           \/ \E r \in Defaults : Pin(r)
           \/ \E e \in Engines : EngineDies(e)
           \/ UNCHANGED vars
  BY <1>4 DEF Stop, ForceStop, Begin, EvictionFires, Pin, EngineDies, processes, vars
<1>. QED
  BY <1>2, <1>3, <1>4 DEF Next

LEMMA EnginesStep ==
  ASSUME StopsWork, SInv, EInv, [SchedulerNext]_schedulerVars
  PROVE  EInv'
<1>1. [Next]_vars \/ \E S \in SUBSET Slots : AbortAll(S)
  BY StepsOfManager
<1>2. spared' = {}
  BY <1>1, NoneSpared DEF EInv, AbortAll, processes
<1>3. /\ Concurrency = 1 => GuardedLane'
      /\ OneImage => Once'
      /\ ~ThermalTrips => IInv' /\ EngineInv'
  BY GuardedLaneStep, OnceStep, ComposedStep DEF EInv
<1>4. TypeOK' /\ EngineInv'
  BY <1>3 DEF StopsWork, GuardedLane, Guarded, Once, Intact, Served, IInv
<1>5. OneImage' <=> OneImage
  BY DEF OneImage
<1>. QED
  BY <1>2, <1>3, <1>4, <1>5 DEF EInv

LEMMA EnginesInit == SchedulerInit => EInv
<1>. SUFFICES ASSUME SchedulerInit PROVE EInv
  OBVIOUS
<1>1. Begins /\ spared = {}
  BY DEF SchedulerInit, Begins, Fresh
<1>. QED
  BY <1>1, InitInv, KnownInit, GuardedLaneInit, OnceInit DEF EInv, IInv

\* An instance that is UNLOADED has left no engine behind.
LEMMA UnloadedMeansGone ==
  ASSUME EInv, state = "UNLOADED"
  PROVE  alive = {} /\ ~timer
<1>1. handle = NoEngine /\ alive \subseteq {handle} \cup spared /\ ~timer
  BY DEF EInv, EngineInv, Settings, EnginesAreKnown, NoStrayEngine, StateMatchesEngine, TimerInv
<1>2. alive \subseteq Engines /\ NoEngine \notin Engines
  BY EnginesAssumption DEF EInv, TypeOK
<1>. QED
  BY <1>1, <1>2 DEF EInv

\* docs/model-residency.md: "Desktop shutdown ends with no Fitz-owned model in VRAM".
\* For any number of jobs of any kinds, any recipes and engines, lanes of any width:
\* quiesce() returns with the engine gone and nothing admitted, and after shutdown()
\* it stays so, whatever was under way when it was called (quiesce, shutdown,
\* #stopUnlocked).  Engines stop when told to; with the thermal guard, whose unload may
\* be under way as well, for a lane one job wide or with a single image job.
THEOREM NothingIsLeftLoaded ==
  StopsWork /\ SchedulerSpec => StoppedMeansEmpty
<1>. DEFINE J == StopsWork /\ SInv /\ RInv /\ EInv
            Q == QuiesceEnds => state = "UNLOADED" /\ alive = {} /\ Depth = 0
            P == closing = "closed" =>
                   /\ state = "UNLOADED" /\ alive = {} /\ ~timer
                   /\ Lane!In("waiting") \cup Lane!In("running") = {}
<1>1. StopsWork /\ SchedulerInit => J
  BY DrivenInit, RemainsInit, EnginesInit
<1>2. J /\ [SchedulerNext]_schedulerVars => J'
  <2>. SUFFICES ASSUME J, [SchedulerNext]_schedulerVars PROVE J'
    OBVIOUS
  <2>1. StopsReturn
    BY DEF StopsWork, StopsReturn
  <2>2. SInv' /\ RInv' /\ EInv'
    BY <2>1, DrivenStep, RemainsStep, EnginesStep
  <2>. QED
    BY <2>2 DEF StopsWork, OneImage
<1>3. J => Q
  <2>. SUFFICES ASSUME J, QuiesceEnds
                PROVE  state = "UNLOADED" /\ alive = {} /\ Depth = 0
    OBVIOUS
  <2>1. barrier = "stopping" /\ Idle(Quiescer)
    BY DEF QuiesceEnds
  <2>2. state = "UNLOADED" /\ Admitted = {}
    BY <2>1 DEF RInv, Emptied, SInv, Driving
  <2>. QED
    BY <2>2, UnloadedMeansGone, DrainedLane
<1>4. J => P
  <2>. SUFFICES ASSUME J, closing = "closed"
                PROVE  /\ state = "UNLOADED" /\ alive = {} /\ ~timer
                       /\ Lane!In("waiting") \cup Lane!In("running") = {}
    OBVIOUS
  <2>1. state = "UNLOADED" /\ Admitted = {}
    BY DEF RInv, Emptied, SInv, Driving
  <2>2. Lane!In("waiting") \cup Lane!In("running") = {}
    BY <2>1 DEF Admitted, Lane!In
  <2>. QED
    BY <2>1, <2>2, UnloadedMeansGone
<1>5. StoppedMeansEmpty <=> [][Q]_schedulerVars /\ []P
  BY DEF StoppedMeansEmpty
<1>. HIDE DEF J, Q, P
<1>. QED
  BY <1>1, <1>2, <1>3, <1>4, <1>5, PTL DEF SchedulerSpec

=============================================================================

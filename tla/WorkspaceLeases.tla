--------------------------- MODULE WorkspaceLeases ---------------------------
(***************************************************************************)
(* WorkspaceMutationLeaseManager                                           *)
(* (packages/agent-pi/src/workspace-mutation-leases.ts): the exclusive     *)
(* lease a tool call takes before it may change a workspace.               *)
(*                                                                         *)
(* The map #locks has a lock object for a workspace somebody holds or      *)
(* waits for.  Closures keep the object itself: release() and abort()      *)
(* look at the object they were made with, and delete the map's entry by   *)
(* its key.  So objects have an identity here, and one that is made anew   *)
(* is any that nobody refers to.                                           *)
(*                                                                         *)
(* A run has one mutating call at a time (serializeWorkspaceMutationTools, *)
(* lines 102-106).  That a waiter's signal is aborted while its listener   *)
(* has not run yet (line 79) needs a release inside the same dispatch; the *)
(* signals of two runs are never dispatched together.                      *)
(***************************************************************************)
EXTENDS Integers, Sequences, SequencesExt, FiniteSets

CONSTANTS Runs,         \* the runs whose tool calls take leases
          Workspaces,   \* workspaceKey(cwd)
          WorkspaceOf,  \* the workspace of every run
          Locks,        \* the identities of lock objects
          NoLock

ASSUME WorkspacesAssumption == WorkspaceOf \in [Runs -> Workspaces]
ASSUME NoLockAssumption == NoLock \notin Locks

VARIABLES table,    \* #locks
          held,     \* lock.held
          waiters,  \* lock.waiters, the runs in order
          lease     \* what the call of a run has: nothing, a place, the lease

leaseVars == <<table, held, waiters, lease>>

None == [at |-> "none", lock |-> NoLock]

LeasesInit ==
  /\ table = [w \in Workspaces |-> NoLock]
  /\ held = [l \in Locks |-> FALSE]
  /\ waiters = [l \in Locks |-> <<>>]
  /\ lease = [r \in Runs |-> None]

LeasesType ==
  /\ table \in [Workspaces -> Locks \cup {NoLock}]
  /\ held \in [Locks -> BOOLEAN]
  /\ waiters \in [Locks -> Seq(Runs)]
  /\ lease \in [Runs -> [at : {"none", "waiting", "holding"}, lock : Locks \cup {NoLock}]]

\* An object nobody refers to.
Unreferenced(l) ==
  /\ \A w \in Workspaces : table[w] # l
  /\ \A r \in Runs : lease[r].lock # l

\* Seeded fault: the entry goes when nobody waits, held or not.
DeleteIfUnwanted(w, l) ==
  table' = IF waiters'[l] = <<>> THEN [table EXCEPT ![w] = NoLock] ELSE table

\* #deleteIfIdle(key, lock), after the object has changed.
DeleteIfIdle(w, l) ==
  table' = IF ~held'[l] /\ waiters'[l] = <<>> THEN [table EXCEPT ![w] = NoLock] ELSE table

\* acquire(): the lock of the workspace, or a new one; the lease at once when it
\* is free, a place at the end otherwise.
AcquireLease(r) ==
  /\ lease[r] = None
  /\ \E l \in Locks :
       LET w     == WorkspaceOf[r]
           isNew == table[w] = NoLock
       IN /\ IF isNew THEN Unreferenced(l) ELSE table[w] = l
          /\ table' = [table EXCEPT ![w] = l]
          /\ IF ~isNew /\ held[l]
             THEN /\ waiters' = [waiters EXCEPT ![l] = Append(@, r)]
                  /\ lease' = [lease EXCEPT ![r] = [at |-> "waiting", lock |-> l]]
                  /\ UNCHANGED held
             ELSE /\ waiters' = IF isNew THEN [waiters EXCEPT ![l] = <<>>] ELSE waiters
                  /\ lease' = [lease EXCEPT ![r] = [at |-> "holding", lock |-> l]]
                  /\ held' = [held EXCEPT ![l] = TRUE]

\* abort() of a waiter: it leaves the line, and the lock goes when it is idle.
AbandonLease(r) ==
  /\ lease[r].at = "waiting"
  /\ LET l == lease[r].lock IN
     /\ \E k \in DOMAIN waiters[l] :
          waiters[l][k] = r /\ waiters' = [waiters EXCEPT ![l] = RemoveAt(@, k)]
     /\ UNCHANGED held
     /\ DeleteIfIdle(WorkspaceOf[r], l)
  /\ lease' = [lease EXCEPT ![r] = None]

\* The release closure: the first waiter holds the lease now, or the lock is
\* free and its entry goes.
ReleaseLease(r) ==
  /\ lease[r].at = "holding"
  /\ LET l == lease[r].lock IN
     IF waiters[l] # <<>>
     THEN /\ waiters' = [waiters EXCEPT ![l] = Tail(@)]
          /\ lease' = [lease EXCEPT ![r] = None,
                                    ![Head(waiters[l])] = [at |-> "holding", lock |-> l]]
          /\ UNCHANGED <<table, held>>
     ELSE /\ held' = [held EXCEPT ![l] = FALSE]
          /\ lease' = [lease EXCEPT ![r] = None]
          /\ UNCHANGED waiters
          /\ DeleteIfIdle(WorkspaceOf[r], l)

\* The process ends: the manager is made anew.
ForgetLeases ==
  /\ table' = [w \in Workspaces |-> NoLock]
  /\ held' = [l \in Locks |-> FALSE]
  /\ waiters' = [l \in Locks |-> <<>>]
  /\ lease' = [r \in Runs |-> None]

LeasesNext ==
  \/ \E r \in Runs : AcquireLease(r) \/ AbandonLease(r) \/ ReleaseLease(r)
  \/ ForgetLeases

LeasesSpec == LeasesInit /\ [][LeasesNext]_leaseVars

-----------------------------------------------------------------------------
\* No two runs change one workspace at the same time, whichever locks were made
\* and thrown away before ("cannot mutate the same workspace at the same time",
\* workspace-mutation-leases.ts:32).
MutualExclusion ==
  \A r, s \in Runs :
    lease[r].at = "holding" /\ lease[s].at = "holding" /\ WorkspaceOf[r] = WorkspaceOf[s]
      => r = s

\* Whoever waits stands once in the line of the lock the map still has, and
\* somebody of its workspace holds that lock and will hand it on: no entry is
\* deleted under a waiter (workspace-mutation-leases.ts:57, 87).
WaitsBehindHolder ==
  \A r \in Runs :
    lease[r].at = "waiting" =>
      /\ table[WorkspaceOf[r]] = lease[r].lock
      /\ Cardinality({k \in DOMAIN waiters[lease[r].lock] : waiters[lease[r].lock][k] = r}) = 1
      /\ \E s \in Runs : lease[s] = [at |-> "holding", lock |-> lease[r].lock]
=============================================================================

-------------------------- MODULE AgentRuns_proofs --------------------------
(***************************************************************************)
(* For any runs, owners, limits, workspaces and lock objects, and any      *)
(* number of crashes:                                                      *)
(*   - the lease of a workspace is exclusive and nobody waits for one that *)
(*     is free (packages/agent-pi/src/workspace-mutation-leases.ts);       *)
(*   - the coordinator and its store agree: what waits or works is what    *)
(*     the records say is alive, places are not left empty, outcomes are   *)
(*     final, text is saved, a broken run is continued once, nothing       *)
(*     outlives the call it was asked for or the shutdown                  *)
(*     (apps/host/src/agent-runs.ts, storage/src/sqlite-agent-run-store.ts).*)
(*                                                                         *)
(* The first part is about the leases alone.  The rest is one inductive    *)
(* invariant, RunInv: what memory, the records and the transactions still  *)
(* to be committed say of each other.  Its proof needs what the queue's    *)
(* methods do (OwnerFairQueue_proofs) and what the pump's loop does to     *)
(* them, by induction on its rounds.                                       *)
(***************************************************************************)
EXTENDS AgentRuns, OnceSequences, FiniteSetTheorems

-----------------------------------------------------------------------------
(* The invariant of the lease manager                                      *)

Lease == [at : {"none", "waiting", "holding"}, lock : Locks \cup {NoLock}]

InLine(l)  == {r \in Runs : lease[r].at = "waiting" /\ lease[r].lock = l}
Holders(l) == {r \in Runs : lease[r].at = "holding" /\ lease[r].lock = l}

\* Every lock object: its line is the runs that wait for it, and one run holds
\* it, or none and then nobody waits.
LineInv(l) ==
  /\ IsInjective(waiters[l])
  /\ ToSet(waiters[l]) = InLine(l)
OwnerInv(l) ==
  /\ held[l] => \E r \in Runs : Holders(l) = {r}
  /\ ~held[l] => Holders(l) = {} /\ InLine(l) = {}

\* The map: no object is entered twice, and whoever has a place or the lease has
\* it with the object of his workspace.
MapInv ==
  /\ \A v, w \in Workspaces : table[v] = table[w] /\ table[v] # NoLock => v = w
  /\ \A r \in Runs : /\ lease[r].at = "none" => lease[r] = None
                     /\ lease[r].at # "none" => /\ lease[r].lock \in Locks
                                                /\ table[WorkspaceOf[r]] = lease[r].lock

LeaseInv ==
  /\ LeasesType
  /\ \A l \in Locks : LineInv(l) /\ OwnerInv(l)
  /\ MapInv

-----------------------------------------------------------------------------
LEMMA LeaseInit == LeasesInit => LeaseInv
<1> SUFFICES ASSUME LeasesInit PROVE LeaseInv
  OBVIOUS
<1>1. LeasesType
  <2>1. <<>> \in Seq(Runs)
    OBVIOUS
  <2> QED BY <2>1 DEF LeasesInit, LeasesType, None
<1>2. \A l \in Locks : InLine(l) = {} /\ Holders(l) = {} /\ waiters[l] = <<>> /\ ~held[l]
  BY DEF LeasesInit, InLine, Holders, None
<1>3. MapInv
  BY WorkspacesAssumption DEF LeasesInit, MapInv, None
<1> QED BY <1>1, <1>2, <1>3, EmptyOnce DEF LeaseInv, LineInv, OwnerInv

\* Nothing changes.
LEMMA LeaseStutter == LeaseInv /\ UNCHANGED leaseVars => LeaseInv'
<1> SUFFICES ASSUME LeaseInv, UNCHANGED leaseVars PROVE LeaseInv'
  OBVIOUS
<1>1. table' = table /\ held' = held /\ waiters' = waiters /\ lease' = lease
  BY DEF leaseVars
<1> QED BY <1>1 DEF LeaseInv, LeasesType, LineInv, OwnerInv, InLine, Holders, MapInv

\* The manager is made anew.
LEMMA LeaseForget == ForgetLeases => LeaseInv'
<1> SUFFICES ASSUME ForgetLeases PROVE LeaseInv'
  OBVIOUS
<1>1. LeasesType'
  <2>1. <<>> \in Seq(Runs)
    OBVIOUS
  <2> QED BY <2>1 DEF ForgetLeases, LeasesType, None
<1>2. \A l \in Locks : InLine(l)' = {} /\ Holders(l)' = {} /\ waiters'[l] = <<>> /\ ~held'[l]
  BY DEF ForgetLeases, InLine, Holders, None
<1>3. MapInv'
  BY WorkspacesAssumption DEF ForgetLeases, MapInv, None
<1> QED BY <1>1, <1>2, <1>3, EmptyOnce DEF LeaseInv, LineInv, OwnerInv

\* What one new lease does to lines and holders.
LEMMA NewLease ==
  ASSUME LeasesType, NEW r \in Runs, NEW x \in Lease, lease' = [lease EXCEPT ![r] = x]
  PROVE  \A l \in Locks :
           /\ InLine(l)' = IF x.at = "waiting" /\ x.lock = l
                           THEN InLine(l) \cup {r} ELSE InLine(l) \ {r}
           /\ Holders(l)' = IF x.at = "holding" /\ x.lock = l
                            THEN Holders(l) \cup {r} ELSE Holders(l) \ {r}
<1>1. lease'[r] = x /\ \A s \in Runs \ {r} : lease'[s] = lease[s]
  BY DEF LeasesType
<1> QED BY <1>1 DEF InLine, Holders

-----------------------------------------------------------------------------
LEMMA AcquireStep ==
  ASSUME LeaseInv, NEW r \in Runs, AcquireLease(r)
  PROVE  LeaseInv'
<1> DEFINE w == WorkspaceOf[r]
           isNew == table[w] = NoLock
<1>0. w \in Workspaces /\ lease[r] = None /\ lease[r].at = "none" /\ LeasesType
  BY WorkspacesAssumption DEF AcquireLease, LeaseInv, None
<1>1. PICK l \in Locks :
        /\ IF isNew THEN Unreferenced(l) ELSE table[w] = l
        /\ table' = [table EXCEPT ![w] = l]
        /\ IF ~isNew /\ held[l]
           THEN /\ waiters' = [waiters EXCEPT ![l] = Append(@, r)]
                /\ lease' = [lease EXCEPT ![r] = [at |-> "waiting", lock |-> l]]
                /\ UNCHANGED held
           ELSE /\ waiters' = IF isNew THEN [waiters EXCEPT ![l] = <<>>] ELSE waiters
                /\ lease' = [lease EXCEPT ![r] = [at |-> "holding", lock |-> l]]
                /\ held' = [held EXCEPT ![l] = TRUE]
  BY DEF AcquireLease
<1>2. l # NoLock
  BY NoLockAssumption
<1>3. /\ table \in [Workspaces -> Locks \cup {NoLock}] /\ held \in [Locks -> BOOLEAN]
      /\ waiters \in [Locks -> Seq(Runs)] /\ lease \in [Runs -> Lease]
  BY <1>0 DEF LeasesType, Lease
<1>4. PICK x \in Lease : /\ lease' = [lease EXCEPT ![r] = x] /\ x.lock = l
                         /\ x.at = IF ~isNew /\ held[l] THEN "waiting" ELSE "holding"
  <2>1. CASE ~isNew /\ held[l]
    <3>1. lease' = [lease EXCEPT ![r] = [at |-> "waiting", lock |-> l]]
      BY <1>1, <2>1
    <3>2. [at |-> "waiting", lock |-> l] \in Lease
      BY DEF Lease
    <3> QED BY <3>1, <3>2, <2>1
  <2>2. CASE ~(~isNew /\ held[l])
    <3>1. lease' = [lease EXCEPT ![r] = [at |-> "holding", lock |-> l]]
      BY <1>1, <2>2
    <3>2. [at |-> "holding", lock |-> l] \in Lease
      BY DEF Lease
    <3> QED BY <3>1, <3>2, <2>2
  <2> QED BY <2>1, <2>2
<1>a. lease' = [lease EXCEPT ![r] = x] /\ x.lock = l /\ x.at \in {"waiting", "holding"}
  BY <1>4
<1>b. \A m \in Locks :
           /\ InLine(m)' = IF x.at = "waiting" /\ x.lock = m
                           THEN InLine(m) \cup {r} ELSE InLine(m) \ {r}
           /\ Holders(m)' = IF x.at = "holding" /\ x.lock = m
                            THEN Holders(m) \cup {r} ELSE Holders(m) \ {r}
  BY <1>0, <1>a, NewLease
<1>5. /\ lease'[r] = x /\ x.at # "none"
      /\ \A s \in Runs \ {r} : lease'[s] = lease[s]
  BY <1>3, <1>4
<1>6. table'[w] = l /\ \A v \in Workspaces \ {w} : table'[v] = table[v]
  BY <1>0, <1>1, <1>3
<1>7. \A m \in Locks : r \notin InLine(m) /\ r \notin Holders(m)
  BY <1>0 DEF InLine, Holders
<1>8. \A m \in Locks : LineInv(m) /\ OwnerInv(m)
  BY DEF LeaseInv
<1>9. \A m \in Locks \ {l} : /\ InLine(m)' = InLine(m) /\ Holders(m)' = Holders(m)
                             /\ waiters'[m] = waiters[m] /\ held'[m] = held[m]
  <2>1. ASSUME NEW m \in Locks \ {l} PROVE InLine(m)' = InLine(m) /\ Holders(m)' = Holders(m)
    <3>1. InLine(m)' = InLine(m) \ {r} /\ Holders(m)' = Holders(m) \ {r}
      BY <1>a, <1>b
    <3>2. r \notin InLine(m) /\ r \notin Holders(m)
      BY <1>7
    <3> QED BY <3>1, <3>2
  <2>2. \A m \in Locks \ {l} : waiters'[m] = waiters[m] /\ held'[m] = held[m]
    BY <1>1, <1>3
  <2> QED BY <2>1, <2>2
<1>10. isNew => InLine(l) = {} /\ Holders(l) = {}
  BY <1>1 DEF Unreferenced, InLine, Holders
<1>11. waiters'[l] \in Seq(Runs) /\ LineInv(l)' /\ OwnerInv(l)'
  <2>1. CASE ~isNew /\ held[l]
    <3>1. waiters'[l] = Append(waiters[l], r) /\ held'[l] = held[l] /\ waiters[l] \in Seq(Runs)
      BY <1>1, <1>3, <2>1
    <3>2. InLine(l)' = InLine(l) \cup {r} /\ Holders(l)' = Holders(l)
      <4>1. x.at = "waiting" /\ x.lock = l
        BY <1>4, <2>1
      <4>2. InLine(l)' = InLine(l) \cup {r} /\ Holders(l)' = Holders(l) \ {r}
        BY <1>b, <4>1
      <4> QED BY <1>7, <4>2
    <3>3. IsInjective(waiters[l]) /\ ToSet(waiters[l]) = InLine(l)
      BY <1>8 DEF LineInv
    <3>4. IsInjective(waiters'[l]) /\ ToSet(waiters'[l]) = InLine(l) \cup {r}
      BY <1>7, <3>1, <3>3, AppendOnce, AppendSet
    <3>5. Append(waiters[l], r) \in Seq(Runs)
      BY <3>1
    <3>6. OwnerInv(l)'
      BY <1>8, <2>1, <3>1, <3>2 DEF OwnerInv
    <3> QED BY <3>1, <3>2, <3>4, <3>5, <3>6 DEF LineInv
  <2>2. CASE isNew
    <3>1. waiters'[l] = <<>> /\ held'[l]
      BY <1>1, <1>3, <2>2
    <3>2. InLine(l)' = {} /\ Holders(l)' = {r}
      BY <1>4, <1>10, <1>a, <1>b, <2>2
    <3>3. waiters'[l] \in Seq(Runs)
      BY <3>1
    <3> QED BY <3>1, <3>2, <3>3, EmptyOnce DEF LineInv, OwnerInv
  <2>3. CASE ~isNew /\ ~held[l]
    <3>1. waiters'[l] = waiters[l] /\ held'[l] /\ waiters[l] \in Seq(Runs)
      BY <1>1, <1>3, <2>3
    <3>2. InLine(l) = {} /\ Holders(l) = {}
      BY <1>8, <2>3 DEF OwnerInv
    <3>3. InLine(l)' = {} /\ Holders(l)' = {r}
      BY <1>4, <1>a, <1>b, <2>3, <3>2
    <3> QED BY <1>8, <3>1, <3>2, <3>3 DEF LineInv, OwnerInv
  <2> QED BY <2>1, <2>2, <2>3
<1>12. \A m \in Locks : LineInv(m)' /\ OwnerInv(m)'
  BY <1>8, <1>9, <1>11 DEF LineInv, OwnerInv
<1>13. LeasesType'
  <2>1. table' \in [Workspaces -> Locks \cup {NoLock}] /\ lease' \in [Runs -> Lease]
    BY <1>1, <1>3, <1>4
  <2>2. held' \in [Locks -> BOOLEAN]
    BY <1>1, <1>3
  <2>3. \A m \in Locks : waiters'[m] \in Seq(Runs)
    BY <1>3, <1>9, <1>11
  <2>4. waiters' = [m \in Locks |-> waiters'[m]]
    BY <1>1, <1>3
  <2>5. waiters' \in [Locks -> Seq(Runs)]
    BY <2>3, <2>4
  <2> QED BY <2>1, <2>2, <2>5 DEF LeasesType, Lease
<1>14. MapInv'
  <2>1. \A v \in Workspaces \ {w} : table[v] # l
    BY <1>0, <1>1, <1>2 DEF Unreferenced, LeaseInv, MapInv
  <2>2. \A u, v \in Workspaces : table'[u] = table'[v] /\ table'[u] # NoLock => u = v
    BY <1>6, <2>1 DEF LeaseInv, MapInv
  <2>3. \A s \in Runs \ {r} : lease[s].at # "none" =>
          lease[s].lock \in Locks /\ table'[WorkspaceOf[s]] = lease[s].lock
    <3> SUFFICES ASSUME NEW s \in Runs \ {r}, lease[s].at # "none"
                 PROVE  lease[s].lock \in Locks /\ table'[WorkspaceOf[s]] = lease[s].lock
      OBVIOUS
    <3>1. WorkspaceOf[s] \in Workspaces
      BY WorkspacesAssumption
    <3>2. lease[s].lock \in Locks /\ table[WorkspaceOf[s]] = lease[s].lock
      BY DEF LeaseInv, MapInv
    <3>3. WorkspaceOf[s] = w => table[w] = l
      BY <1>1, <3>2, NoLockAssumption
    <3> QED BY <1>6, <3>1, <3>2, <3>3
  <2>4. \A s \in Runs \ {r} : lease'[s].at = "none" => lease'[s] = None
    BY <1>5 DEF LeaseInv, MapInv
  <2> QED BY <1>4, <1>5, <1>6, <2>2, <2>3, <2>4 DEF MapInv
<1> QED BY <1>12, <1>13, <1>14 DEF LeaseInv

\* The fields of one run and one lock change, and the run gives up its place or
\* the lease: what is left to show is the line and the owner of that lock, and
\* that its entry stays while somebody needs it.
LEMMA LeaveStep ==
  ASSUME LeaseInv, NEW r \in Runs, NEW l \in Locks, lease[r].lock = l,
         lease' = [lease EXCEPT ![r] = None],
         waiters' = waiters \/ \E q \in Seq(Runs) : waiters' = [waiters EXCEPT ![l] = q],
         held' = held \/ \E b \in BOOLEAN : held' = [held EXCEPT ![l] = b],
         LineInv(l)', OwnerInv(l)',
         \/ table' = table
         \/ /\ table' = [table EXCEPT ![WorkspaceOf[r]] = NoLock]
            /\ \A s \in Runs \ {r} : lease[s].lock # l
  PROVE  LeaseInv'
<1>0. LeasesType /\ MapInv /\ WorkspaceOf[r] \in Workspaces /\ None \in Lease
  BY WorkspacesAssumption DEF LeaseInv, None, Lease
<1>1. /\ table \in [Workspaces -> Locks \cup {NoLock}] /\ held \in [Locks -> BOOLEAN]
      /\ waiters \in [Locks -> Seq(Runs)] /\ lease \in [Runs -> Lease]
  BY <1>0 DEF LeasesType, Lease
<1>2. lease'[r] = None /\ \A s \in Runs \ {r} : lease'[s] = lease[s]
  BY <1>1
<1>3. LeasesType'
  <2>1. lease' \in [Runs -> Lease]
    BY <1>0, <1>1
  <2>2. table' \in [Workspaces -> Locks \cup {NoLock}]
    BY <1>1
  <2>3. held' \in [Locks -> BOOLEAN]
    BY <1>1
  <2>4. waiters' \in [Locks -> Seq(Runs)]
    BY <1>1
  <2> QED BY <2>1, <2>2, <2>3, <2>4 DEF LeasesType, Lease
<1>4. ASSUME NEW m \in Locks \ {l} PROVE LineInv(m)' /\ OwnerInv(m)'
  <2>1. waiters'[m] = waiters[m] /\ held'[m] = held[m]
    BY <1>1
  <2>2. r \notin InLine(m) /\ r \notin Holders(m)
    BY DEF InLine, Holders
  <2>3. InLine(m)' = InLine(m) /\ Holders(m)' = Holders(m)
    BY <1>2, <2>2, NoLockAssumption DEF InLine, Holders, None
  <2> QED BY <2>1, <2>3 DEF LeaseInv, LineInv, OwnerInv
<1>5. MapInv'
  <2>1. \A v, w \in Workspaces : table'[v] = table'[w] /\ table'[v] # NoLock => v = w
    <3>1. \A v, w \in Workspaces : table[v] = table[w] /\ table[v] # NoLock => v = w
      BY <1>0 DEF MapInv
    <3>2. CASE table' = table
      BY <3>1, <3>2
    <3>3. CASE table' = [table EXCEPT ![WorkspaceOf[r]] = NoLock]
      <4>1. \A v \in Workspaces : table'[v] = NoLock \/ table'[v] = table[v]
        BY <1>1, <3>3
      <4>2. \A v \in Workspaces : table'[v] # NoLock => table'[v] = table[v]
        BY <4>1
      <4> QED BY <3>1, <4>2
    <3> QED BY <3>2, <3>3
  <2>2. ASSUME NEW s \in Runs \ {r}, lease[s].at # "none" PROVE table'[WorkspaceOf[s]] = lease[s].lock
    <3>1. /\ WorkspaceOf[s] \in Workspaces /\ lease[s].lock \in Locks
          /\ table[WorkspaceOf[s]] = lease[s].lock
      BY <1>0, <2>2, WorkspacesAssumption DEF MapInv
    <3>2. CASE table' = table
      BY <3>1, <3>2
    <3>3. CASE /\ table' = [table EXCEPT ![WorkspaceOf[r]] = NoLock]
               /\ \A q \in Runs \ {r} : lease[q].lock # l
      <4>1. table[WorkspaceOf[r]] = l
        <5>1. lease[r].at # "none"
          BY <1>0, NoLockAssumption DEF MapInv, None
        <5> QED BY <1>0, <5>1 DEF MapInv
      <4>2. WorkspaceOf[s] # WorkspaceOf[r]
        BY <3>1, <3>3, <4>1
      <4> QED BY <1>0, <1>1, <3>1, <3>3, <4>2
    <3> QED BY <3>2, <3>3
  <2> QED BY <1>0, <1>2, <2>1, <2>2 DEF MapInv, None
<1> QED BY <1>3, <1>4, <1>5 DEF LeaseInv

LEMMA AbandonStep ==
  ASSUME LeaseInv, NEW r \in Runs, AbandonLease(r)
  PROVE  LeaseInv'
<1>0. PICK l \in Locks : lease[r].lock = l
  BY DEF AbandonLease, LeaseInv, MapInv
<1>1. /\ lease[r].at = "waiting" /\ l \in Locks /\ table[WorkspaceOf[r]] = l
      /\ LineInv(l) /\ OwnerInv(l) /\ LeasesType /\ waiters[l] \in Seq(Runs)
  BY <1>0 DEF AbandonLease, LeaseInv, MapInv, LeasesType
<1>2. /\ held' = held /\ DeleteIfIdle(WorkspaceOf[r], l)
      /\ lease' = [lease EXCEPT ![r] = None]
  BY <1>0 DEF AbandonLease
<1>3. PICK k \in DOMAIN waiters[l] :
        waiters[l][k] = r /\ waiters' = [waiters EXCEPT ![l] = RemoveAt(@, k)]
  BY <1>0 DEF AbandonLease
<1>4. /\ RemoveAt(waiters[l], k) \in Seq(Runs) /\ IsInjective(RemoveAt(waiters[l], k))
      /\ ToSet(RemoveAt(waiters[l], k)) = InLine(l) \ {r}
  BY <1>1, <1>3, Without DEF LineInv
<1>5. waiters'[l] = RemoveAt(waiters[l], k)
  BY <1>1, <1>3 DEF LeasesType
<1>6. lease'[r] = None /\ \A s \in Runs \ {r} : lease'[s] = lease[s]
  BY <1>1, <1>2 DEF LeasesType
<1>7. InLine(l)' = InLine(l) \ {r} /\ Holders(l)' = Holders(l)
  BY <1>0, <1>1, <1>6 DEF InLine, Holders, None
<1>8. held[l] /\ held'[l]
  BY <1>0, <1>1, <1>2 DEF OwnerInv, InLine
<1>9. LineInv(l)' /\ OwnerInv(l)'
  BY <1>1, <1>4, <1>5, <1>7, <1>8 DEF LineInv, OwnerInv
<1>10. table' = table
  BY <1>2, <1>8 DEF DeleteIfIdle
<1>11. \E q \in Seq(Runs) : waiters' = [waiters EXCEPT ![l] = q]
  BY <1>3, <1>4
<1> QED BY <1>0, <1>2, <1>9, <1>10, <1>11, LeaveStep

LEMMA ReleaseStep ==
  ASSUME LeaseInv, NEW r \in Runs, ReleaseLease(r)
  PROVE  LeaseInv'
<1>0. PICK l \in Locks : lease[r].lock = l
  BY DEF ReleaseLease, LeaseInv, MapInv
<1>1. /\ lease[r].at = "holding" /\ l \in Locks /\ table[WorkspaceOf[r]] = l
      /\ LineInv(l) /\ OwnerInv(l) /\ LeasesType /\ MapInv /\ waiters[l] \in Seq(Runs)
      /\ lease \in [Runs -> Lease]
  BY <1>0 DEF ReleaseLease, LeaseInv, MapInv, LeasesType, Lease
<1>2. Holders(l) = {r} /\ held[l]
  BY <1>0, <1>1 DEF OwnerInv, Holders
<1>3. CASE waiters[l] = <<>>
  <2>1. /\ held' = [held EXCEPT ![l] = FALSE] /\ lease' = [lease EXCEPT ![r] = None]
        /\ waiters' = waiters /\ DeleteIfIdle(WorkspaceOf[r], l)
    BY <1>0, <1>3 DEF ReleaseLease
  <2>2. InLine(l) = {}
    BY <1>1, <1>3, EmptyOnce DEF LineInv
  <2>3. lease'[r] = None /\ \A s \in Runs \ {r} : lease'[s] = lease[s]
    BY <1>1, <2>1
  <2>4. InLine(l)' = {} /\ Holders(l)' = {}
    BY <1>2, <2>2, <2>3 DEF InLine, Holders, None
  <2>5. ~held'[l]
    BY <1>1, <2>1 DEF LeasesType
  <2>6. LineInv(l)' /\ OwnerInv(l)'
    BY <1>1, <2>1, <2>2, <2>4, <2>5 DEF LineInv, OwnerInv
  <2>7. \A s \in Runs \ {r} : lease[s].lock # l
    BY <1>1, <1>2, <2>2, NoLockAssumption DEF InLine, Holders, Lease, MapInv, None
  <2>8. table' = [table EXCEPT ![WorkspaceOf[r]] = NoLock]
    BY <1>3, <2>1, <2>5 DEF DeleteIfIdle
  <2>9. \E b \in BOOLEAN : held' = [held EXCEPT ![l] = b]
    BY <2>1
  <2> QED BY <1>0, <2>1, <2>6, <2>7, <2>8, <2>9, LeaveStep
<1>4. CASE waiters[l] # <<>>
  <2>0. PICK h \in Runs : h = Head(waiters[l])
    BY <1>1, <1>4, NothingIn
  <2>1. /\ waiters' = [waiters EXCEPT ![l] = Tail(@)]
        /\ lease' = [lease EXCEPT ![r] = None, ![h] = [at |-> "holding", lock |-> l]]
        /\ table' = table /\ held' = held
    BY <1>0, <1>4, <2>0 DEF ReleaseLease
  <2>2. /\ h \in Runs /\ h \in InLine(l)
        /\ Tail(waiters[l]) \in Seq(Runs) /\ IsInjective(Tail(waiters[l]))
        /\ ToSet(Tail(waiters[l])) = InLine(l) \ {h}
    BY <1>1, <1>4, <2>0, Behead DEF LineInv
  <2>3. h # r /\ lease[h].at = "waiting" /\ lease[h].lock = l
    BY <1>1, <2>2 DEF InLine
  <2>4. /\ lease'[r] = None /\ lease'[h] = [at |-> "holding", lock |-> l]
        /\ \A s \in Runs \ {r, h} : lease'[s] = lease[s]
    BY <1>1, <2>1, <2>2, <2>3
  <2>5. lease'[h].at = "holding" /\ lease'[h].lock = l /\ lease'[h] \in Lease
    BY <1>1, <2>4 DEF Lease
  <2>6. InLine(l)' = InLine(l) \ {h} /\ Holders(l)' = {h}
    BY <1>1, <1>2, <2>2, <2>3, <2>4, <2>5, NoLockAssumption DEF InLine, Holders, None
  <2>7. waiters'[l] = Tail(waiters[l]) /\ held'[l]
    BY <1>1, <1>2, <2>1 DEF LeasesType
  <2>8. LineInv(l)' /\ OwnerInv(l)'
    BY <2>2, <2>6, <2>7 DEF LineInv, OwnerInv
  <2>9. ASSUME NEW m \in Locks \ {l} PROVE LineInv(m)' /\ OwnerInv(m)'
    <3>1. InLine(m)' = InLine(m) /\ Holders(m)' = Holders(m)
      BY <1>0, <2>3, <2>4, NoLockAssumption DEF InLine, Holders, None
    <3>2. waiters'[m] = waiters[m] /\ held'[m] = held[m]
      BY <1>1, <2>1 DEF LeasesType
    <3> QED BY <3>1, <3>2 DEF LeaseInv, LineInv, OwnerInv
  <2>10. LeasesType'
    <3>1. lease' \in [Runs -> Lease]
      <4>1. None \in Lease
        BY DEF None, Lease
      <4>2. \A s \in Runs : lease'[s] \in Lease
        BY <1>1, <2>4, <2>5, <4>1
      <4>3. lease' = [s \in Runs |-> lease'[s]]
        BY <1>1, <2>1
      <4> QED BY <4>2, <4>3
    <3>2. waiters' \in [Locks -> Seq(Runs)]
      BY <1>1, <2>1, <2>2 DEF LeasesType
    <3> QED BY <1>1, <2>1, <3>1, <3>2 DEF LeasesType, Lease
  <2>11. MapInv'
    <3>1. table[WorkspaceOf[h]] = l
      BY <1>1, <2>2, <2>3 DEF MapInv
    <3>2. \A s \in Runs : lease'[s].at # "none" =>
            lease'[s].lock \in Locks /\ table[WorkspaceOf[s]] = lease'[s].lock
      BY <1>1, <2>2, <2>4, <2>5, <3>1 DEF MapInv, None
    <3>3. \A s \in Runs : lease'[s].at = "none" => lease'[s] = None
      BY <1>1, <2>2, <2>4, <2>5 DEF MapInv
    <3>4. \A v, w \in Workspaces : table'[v] = table'[w] /\ table'[v] # NoLock => v = w
      BY <1>1, <2>1 DEF MapInv
    <3>5. table' = table
      BY <2>1
    <3> QED BY <3>2, <3>3, <3>4, <3>5 DEF MapInv, None
  <2> QED BY <2>8, <2>9, <2>10, <2>11 DEF LeaseInv
<1> QED BY <1>3, <1>4

-----------------------------------------------------------------------------
(* What follows from the invariant                                         *)

LEMMA LeaseExclusive == LeaseInv => MutualExclusion
<1> SUFFICES ASSUME LeaseInv, NEW r \in Runs, NEW s \in Runs,
                    lease[r].at = "holding", lease[s].at = "holding",
                    WorkspaceOf[r] = WorkspaceOf[s]
             PROVE  r = s
  BY DEF MutualExclusion
<1>1. lease[r].lock \in Locks /\ lease[r].lock = lease[s].lock
  BY DEF LeaseInv, MapInv
<1>2. r \in Holders(lease[r].lock) /\ s \in Holders(lease[r].lock)
  BY <1>1 DEF Holders
<1> QED BY <1>1, <1>2 DEF LeaseInv, OwnerInv

LEMMA LeaseLine == LeaseInv => WaitsBehindHolder
<1> SUFFICES ASSUME LeaseInv, NEW r \in Runs, lease[r].at = "waiting"
             PROVE  /\ table[WorkspaceOf[r]] = lease[r].lock
                    /\ Cardinality({k \in DOMAIN waiters[lease[r].lock] :
                                      waiters[lease[r].lock][k] = r}) = 1
                    /\ \E s \in Runs : lease[s] = [at |-> "holding", lock |-> lease[r].lock]
  BY DEF WaitsBehindHolder
<1> DEFINE l == lease[r].lock
           places == {k \in DOMAIN waiters[l] : waiters[l][k] = r}
<1>1. /\ l \in Locks /\ table[WorkspaceOf[r]] = l /\ LineInv(l) /\ OwnerInv(l)
      /\ lease \in [Runs -> Lease]
  BY DEF LeaseInv, MapInv, LeasesType, Lease
<1>2. r \in InLine(l)
  BY DEF InLine
<1>3. Cardinality(places) = 1
  <2>1. PICK k \in DOMAIN waiters[l] : waiters[l][k] = r
    BY <1>1, <1>2 DEF LineInv, ToSet
  <2>2. places = {k}
    BY <1>1, <2>1 DEF LineInv, IsInjective
  <2> QED BY <2>2, FS_Singleton
<1>4. \E s \in Runs : lease[s] = [at |-> "holding", lock |-> l]
  <2>1. PICK s \in Runs : s \in Holders(l)
    BY <1>1, <1>2 DEF OwnerInv
  <2>2. lease[s].at = "holding" /\ lease[s].lock = l /\ lease[s] \in Lease
    BY <1>1, <2>1 DEF Holders
  <2>3. lease[s] = [at |-> "holding", lock |-> l]
    BY <2>2 DEF Lease
  <2> QED BY <2>3
<1> QED BY <1>1, <1>3, <1>4

-----------------------------------------------------------------------------
(* Agent runs                                                              *)

\* A step of the whole is a step of the lease manager or leaves it alone.
LEMMA LeaseSteps == [Next]_vars => [LeasesNext]_leaseVars
<1> SUFFICES ASSUME [Next]_vars PROVE [LeasesNext]_leaseVars
  OBVIOUS
<1> USE DEF LeasesNext
<1>1. CASE UNCHANGED vars
  BY <1>1 DEF vars
<1>2. CASE Commit
  BY <1>2 DEF Commit
<1>3. CASE Shutdown \/ ShutdownReturns
  BY <1>3 DEF Shutdown, ShutdownReturns
<1>4. CASE Restart
  BY <1>4 DEF Restart
<1>5. CASE Startup
  BY <1>5 DEF Startup, Repair, Serve
<1>6. CASE \E r \in Runs : Request(r) \/ Cancel(r)
  BY <1>6 DEF Request, Start, Cancel
<1>7. CASE \E r, s \in Runs : Resume(s, r) \/ LaunchSubagent(s, r)
  BY <1>7 DEF Resume, Start, LaunchSubagent
<1>8. ASSUME NEW r \in Runs, Says(r) \/ CallsTool(r) \/ AsksUser(r) \/ Answers(r) \/ Breaks(r)
      PROVE  UNCHANGED leaseVars
  BY <1>8 DEF Says, CallsTool, AsksUser, Answers, Breaks
<1>9. ASSUME NEW r \in Runs, \E d \in {"approved", "denied"} : Decides(r, d)
      PROVE  UNCHANGED leaseVars
  BY <1>9 DEF Decides
<1>10. ASSUME NEW r \in Runs, Coordinator(r)
       PROVE  UNCHANGED leaseVars
  BY <1>10 DEF Coordinator, Finish, Settled, Recover
<1>11. ASSUME NEW r \in Runs, TakesLease(r)
       PROVE  AcquireLease(r)
  BY <1>11 DEF TakesLease
<1>12. ASSUME NEW r \in Runs, Runtime(r)
       PROVE  AcquireLease(r) \/ ReleaseLease(r) \/ UNCHANGED leaseVars
  BY <1>12 DEF Runtime, EndsCall, SeesDecision, EndsTool
<1>13. ASSUME NEW r \in Runs, Aborts(r)
       PROVE  AbandonLease(r) \/ ReleaseLease(r) \/ UNCHANGED leaseVars
  BY <1>13 DEF Aborts
<1> QED
  BY <1>1, <1>2, <1>3, <1>4, <1>5, <1>6, <1>7, <1>8, <1>9, <1>10, <1>11, <1>12, <1>13 DEF Next

\* Implementation: the host's use of the leases is a behaviour of the lease
\* manager alone, WorkspaceLeases (workspace-mutation-leases.ts, used by
\* pi-agent-runtime.ts:646-668 and 811-813).
THEOREM LeasesImplemented == Spec => LeasesSpec
<1>1. Init => LeasesInit
  BY DEF Init
<1> QED BY <1>1, LeaseSteps, PTL DEF Spec, LeasesSpec

\* The manager keeps its invariant.
LEMMA LeasesKept == LeasesSpec => []LeaseInv
<1>1. LeaseInv /\ [LeasesNext]_leaseVars => LeaseInv'
  <2> SUFFICES ASSUME LeaseInv, [LeasesNext]_leaseVars PROVE LeaseInv'
    OBVIOUS
  <2> QED BY LeaseStutter, LeaseForget, AcquireStep, AbandonStep, ReleaseStep DEF LeasesNext
<1> QED BY <1>1, LeaseInit, PTL DEF LeasesSpec

\* However calls are ended, aborted and forgotten, no two runs change one
\* workspace at a time, and whoever waits has a holder before him
\* (workspace-mutation-leases.ts:32, 57, 70-89).
THEOREM LeasesAreExclusive == Spec => []ExclusiveLeases
<1>1. LeaseInv => ExclusiveLeases
  BY LeaseExclusive, LeaseLine DEF ExclusiveLeases
<1> QED BY <1>1, LeasesImplemented, LeasesKept, PTL

-----------------------------------------------------------------------------
(* The queue of the coordinator                                            *)

FairFacts == INSTANCE OwnerFairQueue_proofs WITH Items <- Runs, NoItem <- NoRun

\* The lemmas about the queue's methods, for a queue of runs.
LEMMA SameQueue ==
  /\ FairFacts!EmptyQueue = Fair!EmptyQueue
  /\ \A q : FairFacts!Queued(q) = Fair!Queued(q)
  /\ \A q, r : FairFacts!Enqueue(q, r) = Fair!Enqueue(q, r)
  /\ \A q, r : FairFacts!RemoveItem(q, r) = Fair!RemoveItem(q, r)
  /\ \A q, S : FairFacts!DequeueWhere(q, S) = Fair!DequeueWhere(q, S)
  /\ \A q : FairFacts!Values(q) = Fair!Values(q)
<1>1. FairFacts!EmptyQueue = Fair!EmptyQueue
  BY DEF FairFacts!EmptyQueue, Fair!EmptyQueue
<1>2. \A q : FairFacts!Queued(q) = Fair!Queued(q)
  BY DEF FairFacts!Queued, Fair!Queued, FairFacts!ToSet, Fair!ToSet
<1>3. \A q, r : FairFacts!Enqueue(q, r) = Fair!Enqueue(q, r)
  BY DEF FairFacts!Enqueue, Fair!Enqueue, FairFacts!JoinRotation, Fair!JoinRotation,
         FairFacts!IndexOf, Fair!IndexOf, FairFacts!InsertAt, Fair!InsertAt,
         FairFacts!ToSet, Fair!ToSet
<1>4. \A q, r : FairFacts!RemoveItem(q, r) = Fair!RemoveItem(q, r)
  BY DEF FairFacts!RemoveItem, Fair!RemoveItem, FairFacts!RemoveAt, Fair!RemoveAt,
         FairFacts!IndexOf, Fair!IndexOf, FairFacts!ToSet, Fair!ToSet
<1>5. \A q, S : FairFacts!DequeueWhere(q, S) = Fair!DequeueWhere(q, S)
  BY DEF FairFacts!DequeueWhere, Fair!DequeueWhere, FairFacts!Eligible, Fair!Eligible
<1>6. \A q : FairFacts!Values(q) = Fair!Values(q)
  BY DEF FairFacts!Values, Fair!Values, FairFacts!Turns, Fair!Turns, FairFacts!Earlier,
         Fair!Earlier, FairFacts!Cardinality, Fair!Cardinality
<1> QED BY <1>1, <1>2, <1>3, <1>4, <1>5, <1>6

QueueInv(q) == FairFacts!QueueInv(q)

LEMMA QueueType ==
  ASSUME NEW q, QueueInv(q)
  PROVE  Fair!Queued(q) \subseteq Runs /\ q.owners \in Seq(Owners)
<1>1. FairFacts!Queued(q) \subseteq Runs
  BY FairFacts!WaitsInBucket, OwnersAssumption DEF QueueInv
<1>2. q.owners \in Seq(Owners)
  BY FairFacts!Parts, OwnersAssumption DEF QueueInv
<1> QED BY <1>1, <1>2, SameQueue

LEMMA QueueFresh == QueueInv(Fair!EmptyQueue) /\ Fair!Queued(Fair!EmptyQueue) = {}
BY FairFacts!Fresh, OwnersAssumption, SameQueue DEF QueueInv

LEMMA QueueEnqueued ==
  ASSUME NEW q, QueueInv(q), NEW r \in Runs, r \notin Fair!Queued(q)
  PROVE  /\ QueueInv(Fair!Enqueue(q, r))
         /\ Fair!Queued(Fair!Enqueue(q, r)) = Fair!Queued(q) \cup {r}
<1>1. r \notin FairFacts!Queued(q)
  BY SameQueue
<1>2. /\ FairFacts!QueueInv(FairFacts!Enqueue(q, r))
      /\ FairFacts!Queued(FairFacts!Enqueue(q, r)) = FairFacts!Queued(q) \cup {r}
  BY <1>1, FairFacts!Enqueued, OwnersAssumption DEF QueueInv
<1> QED BY <1>2, SameQueue DEF QueueInv

LEMMA QueueRemoved ==
  ASSUME NEW q, QueueInv(q), NEW r \in Fair!Queued(q)
  PROVE  /\ QueueInv(Fair!RemoveItem(q, r))
         /\ Fair!Queued(Fair!RemoveItem(q, r)) = Fair!Queued(q) \ {r}
<1>1. r \in FairFacts!Queued(q)
  BY SameQueue
<1>2. /\ FairFacts!QueueInv(FairFacts!RemoveItem(q, r))
      /\ FairFacts!Queued(FairFacts!RemoveItem(q, r)) = FairFacts!Queued(q) \ {r}
  BY <1>1, FairFacts!Removed, OwnersAssumption DEF QueueInv
<1> QED BY <1>2, SameQueue DEF QueueInv

LEMMA QueueServed ==
  ASSUME NEW q, QueueInv(q), NEW accepted,
         \A r, s \in Runs : OwnerOf[r] = OwnerOf[s] => (r \in accepted <=> s \in accepted)
  PROVE  LET d == Fair!DequeueWhere(q, accepted) IN
         \/ /\ d.item \in Fair!Queued(q) /\ d.item \in accepted
            /\ QueueInv(d.queue) /\ Fair!Queued(d.queue) = Fair!Queued(q) \ {d.item}
         \/ /\ d.item = NoRun /\ d.queue = q
            /\ \A r \in Fair!Queued(q) : r \notin accepted
<1>1. LET d == FairFacts!DequeueWhere(q, accepted) IN
         \/ /\ d.item \in FairFacts!Queued(q) /\ d.item \in accepted
            /\ FairFacts!QueueInv(d.queue) /\ FairFacts!Queued(d.queue) = FairFacts!Queued(q) \ {d.item}
         \/ /\ d.item = NoRun /\ d.queue = q
            /\ \A r \in FairFacts!Queued(q) : r \notin accepted
  BY FairFacts!ServedByOwner, OwnersAssumption DEF QueueInv
<1> QED BY <1>1, SameQueue DEF QueueInv

LEMMA QueueListed ==
  ASSUME NEW q, QueueInv(q)
  PROVE  \E n \in Nat :
           /\ DOMAIN Fair!Values(q) = 1..n
           /\ \A k \in 1..n : Fair!Values(q)[k] \in Fair!Queued(q)
           /\ \A r \in Fair!Queued(q) : \E k \in 1..n : Fair!Values(q)[k] = r
<1>1. \E n \in Nat :
           /\ DOMAIN FairFacts!Values(q) = 1..n
           /\ \A k \in 1..n : FairFacts!Values(q)[k] \in FairFacts!Queued(q)
           /\ \A r \in FairFacts!Queued(q) : \E k \in 1..n : FairFacts!Values(q)[k] = r
  BY FairFacts!Listed, OwnersAssumption DEF QueueInv
<1> QED BY <1>1, SameQueue

-----------------------------------------------------------------------------
(* The pump                                                                *)

\* The loop of Pumped, its body by itself.
PumpStart(q, busy) == [queue |-> q, active |-> busy, writes |-> <<>>, begun |-> {}]
PumpStep(p, unlucky) ==
  LET next == Fair!DequeueWhere(p.queue, Admissible(p.active))
      job  == next.item
  IN IF Cardinality(p.active) >= MaxConcurrent \/ job = NoRun THEN p
     ELSE [queue  |-> next.queue,
           active |-> p.active \cup {job},
           begun  |-> p.begun \cup {job},
           writes |-> Append(p.writes,
                        Tx(IF job \in unlucky THEN "failed" ELSE "started", job))]
\* The rounds of the loop, up to round m.
Rounds(f, m, q, busy, unlucky) ==
  f = [n \in 0..m |-> IF n = 0 THEN PumpStart(q, busy) ELSE PumpStep(f[n - 1], unlucky)]

\* The rounds exist: the recursion of `loop` is over an interval.
LEMMA RoundsExist ==
  ASSUME NEW q, NEW busy, NEW unlucky
  PROVE  \A m \in Nat : \E f : Rounds(f, m, q, busy, unlucky)
<1> DEFINE S == {m \in Nat : \E f : Rounds(f, m, q, busy, unlucky)}
<1>1. 0 \in S
  <2> DEFINE f == [n \in 0..0 |-> PumpStart(q, busy)]
  <2>1. f = [n \in 0..0 |-> IF n = 0 THEN PumpStart(q, busy) ELSE PumpStep(f[n - 1], unlucky)]
    <3>1. \A n \in 0..0 : n = 0
      OBVIOUS
    <3> QED BY <3>1
  <2>2. Rounds(f, 0, q, busy, unlucky)
    BY <2>1 DEF Rounds
  <2> QED BY <2>2
<1>2. ASSUME NEW m \in S PROVE m + 1 \in S
  <2>1. m \in Nat /\ m + 1 \in Nat
    OBVIOUS
  <2>2. PICK f : Rounds(f, m, q, busy, unlucky)
    OBVIOUS
  <2> DEFINE g == [n \in 0..m + 1 |-> IF n = m + 1 THEN PumpStep(f[m], unlucky) ELSE f[n]]
             B(n) == IF n = 0 THEN PumpStart(q, busy) ELSE PumpStep(g[n - 1], unlucky)
  <2>3. \A n \in 0..m : f[n] = IF n = 0 THEN PumpStart(q, busy) ELSE PumpStep(f[n - 1], unlucky)
    BY <2>2, Zenon DEF Rounds
  <2>4. \A n \in 0..m : n \in 0..m + 1 /\ n # m + 1
    BY <2>1
  <2>5. \A n \in 0..m : g[n] = f[n]
    BY <2>4
  <2>6. ASSUME NEW n \in 0..m + 1 PROVE g[n] = B(n)
    <3>1. CASE n = m + 1
      <4>1. n # 0 /\ n - 1 = m /\ m \in 0..m
        BY <2>1, <3>1
      <4>2. g[n] = PumpStep(f[m], unlucky)
        BY <3>1
      <4>3. g[n - 1] = f[m]
        BY <2>5, <4>1
      <4> HIDE DEF g
      <4> QED BY <4>1, <4>2, <4>3
    <3>2. CASE n # m + 1
      <4>1. n \in 0..m
        BY <2>1, <3>2
      <4>2. n # 0 => n - 1 \in 0..m
        BY <2>1, <4>1
      <4>3. g[n] = f[n] /\ (n # 0 => g[n - 1] = f[n - 1])
        BY <2>5, <4>1, <4>2
      <4>4. f[n] = IF n = 0 THEN PumpStart(q, busy) ELSE PumpStep(f[n - 1], unlucky)
        BY <2>3, <4>1
      <4> HIDE DEF g
      <4> QED BY <4>3, <4>4
    <3> QED BY <3>1, <3>2
  <2>7. g = [n \in 0..m + 1 |-> g[n]]
    OBVIOUS
  <2> HIDE DEF g
  <2>8. g = [n \in 0..m + 1 |-> B(n)]
    BY <2>6, <2>7
  <2>9. Rounds(g, m + 1, q, busy, unlucky)
    BY <2>8, Zenon DEF Rounds
  <2> QED BY <2>1, <2>9
<1>3. S = Nat
  <2>1. S \in SUBSET Nat
    OBVIOUS
  <2>2. \A n \in S : n + 1 \in S
    BY <1>2
  <2> HIDE DEF S
  <2> QED BY <1>1, <2>1, <2>2, AllNat
<1> QED BY <1>3

LEMMA PumpedIs ==
  ASSUME NEW q, NEW busy, NEW unlucky
  PROVE  \E f : /\ Rounds(f, MaxConcurrent, q, busy, unlucky)
                /\ Pumped(q, busy, unlucky) = f[MaxConcurrent]
<1> DEFINE g == CHOOSE f : Rounds(f, MaxConcurrent, q, busy, unlucky)
<1>1. Rounds(g, MaxConcurrent, q, busy, unlucky)
  <2>1. MaxConcurrent \in Nat
    BY LimitsAssumption
  <2>2. \E f : Rounds(f, MaxConcurrent, q, busy, unlucky)
    BY <2>1, RoundsExist
  <2> QED BY <2>2
<1>2. Pumped(q, busy, unlucky) = g[MaxConcurrent]
  BY DEF Pumped, Rounds, PumpStart, PumpStep
<1> QED BY <1>1, <1>2

\* Transactions that change a run's status, and all of them.
Moves == {"create", "started", "mark"} \cup Ended
Ops   == Moves \cup {"answered", "save", "offer"}
Txs   == [op : Ops, run : Runs, source : Runs \cup {NoRun}]

\* The writes of a pump: one for each job that has begun.
Starts(w, begun, unlucky) ==
  /\ w \in Seq(Txs)
  /\ \A k \in DOMAIN w : /\ w[k].run \in begun
                         /\ w[k].op = IF w[k].run \in unlucky THEN "failed" ELSE "started"
  /\ \A k, m \in DOMAIN w : w[k].run = w[m].run => k = m
  /\ \A r \in begun : \E k \in DOMAIN w : w[k].run = r

\* The active jobs keep within the limits.
Room(busy) ==
  /\ IsFiniteSet(busy) /\ Cardinality(busy) <= MaxConcurrent
  /\ \A o \in Owners : ActiveOf(o, busy) <= MaxConcurrentPerOwner

\* What holds of the pump between two rounds.
PumpInv(p, q, busy, unlucky) ==
  /\ QueueInv(p.queue)
  /\ p.begun \subseteq Fair!Queued(q) /\ Fair!Queued(p.queue) = Fair!Queued(q) \ p.begun
  /\ p.active = busy \cup p.begun /\ Room(p.active)
  /\ Starts(p.writes, p.begun, unlucky)

LEMMA ActiveCounted ==
  ASSUME NEW busy \in SUBSET Runs, IsFiniteSet(busy), NEW o
  PROVE  ActiveOf(o, busy) \in Nat
<1> DEFINE S == {r \in busy : OwnerOf[r] = o}
<1>1. S \subseteq busy
  OBVIOUS
<1> HIDE DEF S
<1>2. IsFiniteSet(S) /\ Cardinality(S) \in Nat
  BY <1>1, FS_Subset, FS_CardinalityType
<1> QED BY <1>2 DEF ActiveOf, S

\* A job of an owner that has room joins the active ones.
LEMMA RoomTaken ==
  ASSUME NEW busy \in SUBSET Runs, Room(busy), NEW j \in Runs, j \notin busy,
         Cardinality(busy) < MaxConcurrent, j \in Admissible(busy)
  PROVE  Room(busy \cup {j}) /\ Cardinality(busy \cup {j}) = Cardinality(busy) + 1
<1>0. /\ IsFiniteSet(busy) /\ Cardinality(busy) \in Nat
      /\ MaxConcurrent \in Nat /\ MaxConcurrentPerOwner \in Nat
  BY FS_CardinalityType, LimitsAssumption DEF Room
<1>1. IsFiniteSet(busy \cup {j}) /\ Cardinality(busy \cup {j}) = Cardinality(busy) + 1
  BY <1>0, FS_AddElement
<1>2. ASSUME NEW o \in Owners PROVE ActiveOf(o, busy \cup {j}) <= MaxConcurrentPerOwner
  <2> DEFINE S == {r \in busy : OwnerOf[r] = o}
             T == {r \in busy \cup {j} : OwnerOf[r] = o}
  <2>1. IsFiniteSet(S) /\ Cardinality(S) \in Nat /\ j \notin S
    <3>1. S \subseteq busy
      OBVIOUS
    <3> HIDE DEF S
    <3> QED BY <1>0, <3>1, FS_Subset, FS_CardinalityType
  <2>2. Cardinality(S) <= MaxConcurrentPerOwner
    BY DEF Room, ActiveOf
  <2>3. T = IF OwnerOf[j] = o THEN S \cup {j} ELSE S
    OBVIOUS
  <2>4. OwnerOf[j] = o => Cardinality(S) < MaxConcurrentPerOwner
    BY DEF Admissible, ActiveOf
  <2> HIDE DEF S, T
  <2>5. Cardinality(T) <= MaxConcurrentPerOwner
    <3>1. CASE OwnerOf[j] = o
      <4>1. Cardinality(S \cup {j}) = Cardinality(S) + 1
        BY <2>1, FS_AddElement
      <4> QED BY <1>0, <2>1, <2>3, <2>4, <3>1, <4>1
    <3>2. CASE OwnerOf[j] # o
      BY <2>2, <2>3, <3>2
    <3> QED BY <3>1, <3>2
  <2> QED BY <2>5 DEF T, ActiveOf
<1>3. Cardinality(busy \cup {j}) <= MaxConcurrent
  BY <1>0, <1>1
<1> QED BY <1>1, <1>2, <1>3 DEF Room

\* A write is added.
LEMMA StartsMore ==
  ASSUME NEW w, NEW begun \in SUBSET Runs, NEW unlucky, Starts(w, begun, unlucky),
         NEW j \in Runs, j \notin begun
  PROVE  Starts(Append(w, Tx(IF j \in unlucky THEN "failed" ELSE "started", j)),
                begun \cup {j}, unlucky)
<1> DEFINE t == Tx(IF j \in unlucky THEN "failed" ELSE "started", j)
           v == Append(w, t)
<1>1. /\ t \in Txs /\ t.run = j /\ t.op = IF j \in unlucky THEN "failed" ELSE "started"
  BY DEF Tx, Txs, Ops, Moves, Ended
<1> HIDE DEF t
<1>2. PICK n \in Nat : n = Len(w) /\ DOMAIN w = 1..n
  BY LenProperties DEF Starts
<1>3. v \in Seq(Txs) /\ DOMAIN v = 1..n + 1 /\ v[n + 1] = t /\ \A k \in 1..n : v[k] = w[k]
  BY <1>1, <1>2, AppendProperties DEF Starts
<1> HIDE DEF v
<1>4. n + 1 \in 1..n + 1 /\ \A k \in 1..n + 1 : k = n + 1 \/ k \in 1..n
  BY <1>2
<1>5. \A k \in 1..n : /\ w[k].run \in begun
                      /\ w[k].op = IF w[k].run \in unlucky THEN "failed" ELSE "started"
  BY <1>2 DEF Starts
<1>6. \A k \in 1..n + 1 : /\ v[k].run \in begun \cup {j}
                          /\ v[k].op = IF v[k].run \in unlucky THEN "failed" ELSE "started"
  BY <1>1, <1>3, <1>4, <1>5
<1>7. ASSUME NEW k \in 1..n + 1, NEW m \in 1..n + 1, v[k].run = v[m].run PROVE k = m
  <2>1. \A i \in 1..n : v[i].run # j
    BY <1>3, <1>5
  <2>2. CASE k \in 1..n /\ m \in 1..n
    BY <1>2, <1>3, <1>7, <2>2 DEF Starts
  <2> QED BY <1>1, <1>3, <1>4, <1>7, <2>1, <2>2
<1>8. ASSUME NEW r \in begun \cup {j} PROVE \E k \in 1..n + 1 : v[k].run = r
  <2>1. CASE r = j
    BY <1>1, <1>3, <1>4, <2>1
  <2>2. CASE r \in begun
    <3>1. PICK k \in 1..n : w[k].run = r
      BY <1>2, <2>2 DEF Starts
    <3>2. k \in 1..n + 1
      BY <1>2
    <3> QED BY <1>3, <3>1, <3>2
  <2> QED BY <2>1, <2>2
<1>9. Starts(v, begun \cup {j}, unlucky)
  BY <1>3, <1>6, <1>7, <1>8 DEF Starts
<1> QED BY <1>9 DEF v, t

\* One round.
LEMMA PumpRound ==
  ASSUME NEW p, NEW q, NEW busy \in SUBSET Runs, NEW unlucky,
         Fair!Queued(q) \subseteq Runs \ busy, PumpInv(p, q, busy, unlucky)
  PROVE  LET n == PumpStep(p, unlucky) IN
         /\ PumpInv(n, q, busy, unlucky)
         /\ \/ n = p
            \/ Cardinality(n.active) = Cardinality(p.active) + 1
         /\ n = p /\ Cardinality(p.active) < MaxConcurrent =>
              \A r \in Fair!Queued(p.queue) : r \notin Admissible(p.active)
<1> DEFINE accepted == Admissible(p.active)
           d == Fair!DequeueWhere(p.queue, accepted)
           j == d.item
           n == PumpStep(p, unlucky)
<1>0. /\ QueueInv(p.queue) /\ p.begun \subseteq Fair!Queued(q)
      /\ Fair!Queued(p.queue) = Fair!Queued(q) \ p.begun
      /\ p.active = busy \cup p.begun /\ Room(p.active)
      /\ Starts(p.writes, p.begun, unlucky)
      /\ p.active \subseteq Runs /\ p.begun \subseteq Runs
      /\ \A r \in Fair!Queued(p.queue) : r \in Runs /\ r \notin p.active /\ r \notin p.begun
  BY DEF PumpInv
<1>1. /\ Cardinality(p.active) \in Nat /\ MaxConcurrent \in Nat
  BY <1>0, FS_CardinalityType, LimitsAssumption DEF Room
<1>2. \A r, s \in Runs : OwnerOf[r] = OwnerOf[s] => (r \in accepted <=> s \in accepted)
  BY DEF Admissible
<1>3. \/ /\ j \in Fair!Queued(p.queue) /\ j \in accepted
         /\ QueueInv(d.queue) /\ Fair!Queued(d.queue) = Fair!Queued(p.queue) \ {j}
      \/ /\ j = NoRun /\ d.queue = p.queue
         /\ \A r \in Fair!Queued(p.queue) : r \notin accepted
  <2> HIDE DEF accepted
  <2> QED BY <1>0, <1>2, QueueServed
<1> HIDE DEF d, accepted
<1>4. n = IF Cardinality(p.active) >= MaxConcurrent \/ j = NoRun THEN p
          ELSE [queue  |-> d.queue,
                active |-> p.active \cup {j},
                begun  |-> p.begun \cup {j},
                writes |-> Append(p.writes, Tx(IF j \in unlucky THEN "failed" ELSE "started", j))]
  BY DEF PumpStep, d, accepted
<1> HIDE DEF n
<1>5. CASE Cardinality(p.active) >= MaxConcurrent \/ j = NoRun
  <2>1. n = p
    BY <1>4, <1>5
  <2>2. Cardinality(p.active) < MaxConcurrent => j = NoRun
    BY <1>1, <1>5
  <2>3. j = NoRun => \A r \in Fair!Queued(p.queue) : r \notin accepted
    BY <1>0, <1>3, OwnersAssumption
  <2>4. PumpInv(n, q, busy, unlucky)
    BY <2>1
  <2>5. n = p /\ Cardinality(p.active) < MaxConcurrent =>
              \A r \in Fair!Queued(p.queue) : r \notin Admissible(p.active)
    BY <2>2, <2>3 DEF accepted
  <2> QED BY <2>1, <2>4, <2>5 DEF n
<1>6. CASE ~(Cardinality(p.active) >= MaxConcurrent \/ j = NoRun)
  <2>0. /\ j \in Fair!Queued(p.queue) /\ j \in accepted
        /\ QueueInv(d.queue) /\ Fair!Queued(d.queue) = Fair!Queued(p.queue) \ {j}
    BY <1>3, <1>6
  <2>1. /\ n.queue = d.queue /\ n.active = p.active \cup {j} /\ n.begun = p.begun \cup {j}
        /\ n.writes = Append(p.writes, Tx(IF j \in unlucky THEN "failed" ELSE "started", j))
    BY <1>4, <1>6
  <2>2. j \in Runs /\ j \notin p.active /\ j \notin p.begun
    BY <1>0, <2>0
  <2>3. Room(p.active \cup {j}) /\ Cardinality(p.active \cup {j}) = Cardinality(p.active) + 1
    <3>1. Cardinality(p.active) < MaxConcurrent /\ j \in Admissible(p.active)
      BY <1>1, <1>6, <2>0 DEF accepted
    <3> HIDE DEF j
    <3> QED BY <1>0, <2>2, <3>1, RoomTaken
  <2>4. Starts(n.writes, n.begun, unlucky)
    <3> HIDE DEF j
    <3>1. Starts(Append(p.writes, Tx(IF j \in unlucky THEN "failed" ELSE "started", j)),
                 p.begun \cup {j}, unlucky)
      <4>1. Starts(p.writes, p.begun, unlucky) /\ p.begun \in SUBSET Runs
        BY <1>0
      <4> QED BY <4>1, <2>2, StartsMore
    <3> QED BY <2>1, <3>1
  <2>5. /\ n.begun \subseteq Fair!Queued(q) /\ Fair!Queued(n.queue) = Fair!Queued(q) \ n.begun
        /\ n.active = busy \cup n.begun
    BY <1>0, <2>0, <2>1
  <2>6. PumpInv(n, q, busy, unlucky)
    BY <2>0, <2>1, <2>3, <2>4, <2>5 DEF PumpInv
  <2>7. n # p
    BY <2>1, <2>2
  <2> QED BY <2>1, <2>3, <2>6, <2>7 DEF n
<1> QED BY <1>5, <1>6

\* The loop: the jobs that begin are taken from the queue, the limits are kept,
\* and then there is no room or nobody waits who has some.
LEMMA PumpedEffect ==
  ASSUME NEW q, QueueInv(q), NEW busy \in SUBSET Runs, Room(busy), NEW unlucky,
         Fair!Queued(q) \subseteq Runs \ busy
  PROVE  LET p == Pumped(q, busy, unlucky) IN
         /\ PumpInv(p, q, busy, unlucky)
         /\ Cardinality(p.active) < MaxConcurrent =>
              \A r \in Fair!Queued(p.queue) : r \notin Admissible(p.active)
<1>1. PICK f : /\ Rounds(f, MaxConcurrent, q, busy, unlucky)
               /\ Pumped(q, busy, unlucky) = f[MaxConcurrent]
  BY PumpedIs
<1> DEFINE M == MaxConcurrent
           Done(p) == /\ PumpStep(p, unlucky) = p
                      /\ \A r \in Fair!Queued(p.queue) :
                           Cardinality(p.active) < M => r \notin Admissible(p.active)
           Good(n) == /\ PumpInv(f[n], q, busy, unlucky)
                      /\ Cardinality(f[n].active) \in Nat
                      /\ Done(f[n]) \/ Cardinality(f[n].active) >= n
           S == {n \in Nat : n <= M => Good(n)}
<1>2. M \in Nat
  BY LimitsAssumption
<1>3. \A n \in 0..M : f[n] = IF n = 0 THEN PumpStart(q, busy) ELSE PumpStep(f[n - 1], unlucky)
  BY <1>1, Zenon DEF Rounds
<1>4. 0 \in S
  <2>1. f[0] = PumpStart(q, busy)
    BY <1>2, <1>3
  <2>2. /\ f[0].queue = q /\ f[0].active = busy /\ f[0].writes = <<>> /\ f[0].begun = {}
    BY <2>1 DEF PumpStart
  <2>3. Starts(<<>>, {}, unlucky)
    <3>1. <<>> \in Seq(Txs)
      OBVIOUS
    <3>2. DOMAIN <<>> = {}
      OBVIOUS
    <3> QED BY <3>1, <3>2 DEF Starts
  <2>4. PumpInv(f[0], q, busy, unlucky)
    BY <2>2, <2>3 DEF PumpInv
  <2>5. Cardinality(busy) \in Nat
    BY FS_CardinalityType DEF Room
  <2>6. Good(0)
    BY <2>2, <2>4, <2>5
  <2> HIDE DEF Good
  <2> QED BY <2>6
<1>5. ASSUME NEW n \in S PROVE n + 1 \in S
  <2> SUFFICES ASSUME n + 1 <= M PROVE Good(n + 1)
    OBVIOUS
  <2>0. n \in Nat /\ n <= M /\ n + 1 \in 0..M /\ n + 1 # 0 /\ (n + 1) - 1 = n
    BY <1>2
  <2>1. Good(n)
    BY <2>0
  <2>2. f[n + 1] = PumpStep(f[n], unlucky)
    BY <1>3, <2>0
  <2> DEFINE p == f[n]
             s == PumpStep(p, unlucky)
  <2>3. /\ PumpInv(s, q, busy, unlucky)
        /\ s = p \/ Cardinality(s.active) = Cardinality(p.active) + 1
        /\ s = p /\ Cardinality(p.active) < MaxConcurrent =>
              \A r \in Fair!Queued(p.queue) : r \notin Admissible(p.active)
    <3> HIDE DEF p, s
    <3>1. PumpInv(p, q, busy, unlucky)
      BY <2>1 DEF p
    <3> QED BY <3>1, PumpRound DEF s
  <2>4. CASE s = p
    <3>1. Done(p)
      BY <2>3, <2>4
    <3>2. f[n + 1] = p
      BY <2>2, <2>4
    <3> QED BY <2>1, <3>1, <3>2
  <2>5. CASE s # p
    <3>1. Cardinality(s.active) = Cardinality(p.active) + 1 /\ ~Done(p)
      BY <2>3, <2>5
    <3>2. Cardinality(p.active) \in Nat /\ Cardinality(p.active) >= n
      BY <2>1, <3>1
    <3>3. Cardinality(s.active) \in Nat /\ Cardinality(s.active) >= n + 1
      BY <2>0, <3>1, <3>2
    <3> QED BY <2>2, <2>3, <3>3
  <2> QED BY <2>4, <2>5
<1>6. S = Nat
  <2>1. S \in SUBSET Nat
    OBVIOUS
  <2>2. \A n \in S : n + 1 \in S
    BY <1>5
  <2> HIDE DEF S
  <2> QED BY <1>4, <2>1, <2>2, AllNat
<1>7. Good(M)
  BY <1>2, <1>6
<1> QED BY <1>1, <1>2, <1>7

-----------------------------------------------------------------------------
(* The invariant of the runs                                               *)

\* Transactions that end a run, and those that offer it.
Ends      == {"mark"} \cup Ended
Offers    == {"offer"} \cup Broken
Sets(op)  == IF op = "create" THEN "queued" ELSE IF op = "started" THEN "running"
             ELSE IF op = "mark" THEN "interrupted" ELSE op
Records   == [status : Statuses, parent : Runs \cup {NoRun}, source : Runs \cup {NoRun},
              resumable : BOOLEAN, answered : BOOLEAN, unsaved : BOOLEAN]

Waiting      == Fair!Queued(queue)
AtWork       == active \cup subagents
Streaming(r) == stream[r] \notin {"none", "over"}

Typed ==
  /\ row \in [Runs -> Records]
  /\ approval \in [Runs -> {"none", "pending", "approved", "denied"}]
  /\ turn \in Seq(Txs)
  /\ QueueInv(queue)
  /\ active \subseteq Runs /\ subagents \subseteq Runs
  /\ cancelled \subseteq AtWork /\ stopped \subseteq AtWork
  /\ stream \in [Runs -> Stages]
  /\ host \in {"up", "closing", "down", "starting", "recovering"} /\ restarts \in 0..MaxRestarts

\* A record, whatever is pending.
RowOK(r) ==
  /\ row[r].status = "none" => row[r] = NoRow
  /\ row[r].status \in {"none", "queued"} => ~row[r].answered
  /\ row[r].status # "running" => ~row[r].unsaved
  /\ row[r].resumable => row[r].status \in Broken /\ ~Continued(r)
  /\ Continued(r) => row[r].status \in Broken
  /\ \A s, q \in Runs : row[r].source = s /\ row[q].source = s => r = q

\* A run whose continuation is to be created; a run that is to be offered.
ToContinue(s) == \E k \in DOMAIN turn : turn[k].op = "create" /\ turn[k].source = s
ToOffer(r)    == \E k \in DOMAIN turn : turn[k].op = "offer" /\ turn[k].run = r

\* What is still to be committed for a run fits its record ...
TxOK(k) ==
  LET t == turn[k]
      x == row[t.run]
  IN /\ t.op = "create" => /\ k = 1 /\ x.status = "none"
                           /\ t.source \in Runs => /\ row[t.source].status \in Broken
                                                   /\ ~row[t.source].resumable /\ ~Continued(t.source)
     /\ t.op = "answered" => k = 1 /\ x.status = "running" /\ stream[t.run] = "over"
     /\ t.op \in Ends /\ x.unsaved =>
          \E m \in DOMAIN turn : m < k /\ turn[m].run = t.run /\ turn[m].op = "save"
     /\ t.op \in Moves /\ x.status \in Ended => Sets(t.op) = x.status
     /\ t.op \in Moves /\ x.answered => t.op = "completed"
     /\ t.op = "mark" => \E m \in DOMAIN turn : m > k /\ turn[m].run = t.run /\ turn[m].op = "offer"
     /\ t.op \in Offers => ~Continued(t.run) /\ ~ToContinue(t.run)
     /\ t.op = "offer" => \/ x.status \in Broken
                          \/ \E m \in DOMAIN turn : m < k /\ turn[m].run = t.run /\ turn[m].op = "mark"
\* ... and what is committed before.
PairOK(k, m) ==
  turn[k].run = turn[m].run /\ turn[m].op \in Moves =>
    /\ turn[k].op \in Ends => Sets(turn[m].op) = Sets(turn[k].op)
    /\ turn[k].op = "answered" => turn[m].op = "completed"
TurnOK ==
  /\ \A k \in DOMAIN turn : TxOK(k)
  /\ \A k, m \in DOMAIN turn : k < m => PairOK(k, m)

\* The run has status s when everything is committed.
MovesAt(r, k) == turn[k].run = r /\ turn[k].op \in Moves
Due(r, s) ==
  \/ \E k \in DOMAIN turn :
       /\ MovesAt(r, k) /\ Sets(turn[k].op) = s
       /\ \A m \in DOMAIN turn : m > k /\ MovesAt(r, m) => Sets(turn[m].op) = s
  \/ (\A k \in DOMAIN turn : ~MovesAt(r, k)) /\ row[r].status = s

\* Memory: who waits, who is at work, and what the store will say of them.
Known == host \in {"up", "closing", "down"}
JobOK(r) ==
  /\ stream[r] # "none" <=> r \in AtWork
  /\ r \in Waiting => r \notin AtWork
  /\ ~(r \in active /\ r \in subagents)
  /\ host # "up" => r \notin Waiting
  /\ host \notin {"up", "closing"} => r \notin AtWork
  /\ lease[r].at # "none" <=> stream[r] = "tool"
  /\ Streaming(r) => ~row[r].answered
StatusOK(r) ==
  Known => /\ r \in Waiting => Due(r, "queued")
           /\ Streaming(r) => Due(r, "running")
           /\ stream[r] = "over" => \E s \in Ended : Due(r, s)
           /\ stream[r] = "none" /\ r \notin Waiting => \E s \in Ended \cup {"none"} : Due(r, s)
           /\ approval[r] # "none" => stream[r] = "ask"
\* A run that broke is offered or continued, or is about to be.
OfferOK(r) ==
  host # "starting" /\ row[r].status \in Broken =>
    row[r].resumable \/ Continued(r) \/ ToContinue(r) \/ ToOffer(r)

\* The limits are kept, and nobody waits beside a place of his.
PlacesOK ==
  /\ Room(active)
  /\ host = "up" /\ Cardinality(active) < MaxConcurrent =>
       \A r \in Waiting : r \notin Admissible(active)

RunInv ==
  /\ Typed
  /\ \A r \in Runs : RowOK(r) /\ JobOK(r) /\ StatusOK(r) /\ OfferOK(r)
  /\ TurnOK
  /\ PlacesOK
  /\ host \in {"down", "starting"} => turn = <<>>

-----------------------------------------------------------------------------
(* One transaction                                                         *)

\* What a transaction makes of a record x.
Committed(t, x, y) ==
  /\ y.status = IF t.op \in Moves THEN Sets(t.op) ELSE x.status
  /\ y.source = IF t.op = "create" THEN t.source ELSE x.source
  /\ y.answered = IF t.op = "answered" THEN TRUE
                  ELSE IF t.op = "create" \/ t.op \in Ended THEN FALSE ELSE x.answered
  /\ y.unsaved = IF t.op = "create" \/ t.op = "save" THEN FALSE ELSE x.unsaved
  /\ y.resumable = IF t.op \in Ended THEN t.op \in Broken
                   ELSE IF t.op = "offer" THEN TRUE
                   ELSE IF t.op = "create" THEN FALSE ELSE x.resumable
  /\ t.op = "save" /\ ~x.unsaved => y = x

LEMMA EffectFields ==
  ASSUME NEW t \in Txs, NEW x \in Records
  PROVE  Effect(t, x) \in Records /\ Committed(t, x, Effect(t, x))
<1> DEFINE y == Effect(t, x)
<1> USE DEF Records
<1>0. t.op \in Ops /\ t.source \in Runs \cup {NoRun}
  BY DEF Txs
<1>1. CASE t.op = "create"
  <2>1. y = Created(NoRun, t.source)
    BY <1>1 DEF Effect, Ended
  <2>2. /\ y.status = "queued" /\ y.parent = NoRun /\ y.source = t.source /\ ~y.resumable
        /\ ~y.answered /\ ~y.unsaved /\ y \in Records
    BY <1>0, <2>1 DEF Created, NoRow, Statuses
  <2> HIDE DEF y
  <2> QED BY <1>1, <2>2 DEF y, Committed, Moves, Sets, Ended, Broken
<1>2. CASE t.op = "started"
  <2>1. y = Started(x)
    BY <1>2 DEF Effect, Ended
  <2>2. /\ y.status = "running" /\ y.source = x.source /\ y.resumable = x.resumable
        /\ y.answered = x.answered /\ y.unsaved = x.unsaved /\ y \in Records
    BY <2>1 DEF Started, Statuses
  <2> HIDE DEF y
  <2> QED BY <1>2, <2>2 DEF y, Committed, Moves, Sets, Ended, Broken
<1>3. CASE t.op = "answered"
  <2>1. y = Answered(x)
    BY <1>3 DEF Effect, Ended
  <2>2. /\ y.status = x.status /\ y.source = x.source /\ y.resumable = x.resumable
        /\ y.answered = TRUE /\ y.unsaved = x.unsaved /\ y \in Records
    BY <2>1 DEF Answered, Statuses
  <2> HIDE DEF y
  <2> QED BY <1>3, <2>2 DEF y, Committed, Moves, Sets, Ended, Broken
<1>4. CASE t.op = "save"
  <2>1. y = Saved(x)
    BY <1>4 DEF Effect, Ended
  <2>2. /\ y.status = x.status /\ y.source = x.source /\ y.resumable = x.resumable
        /\ y.answered = x.answered /\ y.unsaved = FALSE /\ y \in Records
    BY <2>1 DEF Saved, Statuses
  <2>3. ~x.unsaved => y = x
    BY <2>1 DEF Saved
  <2> HIDE DEF y
  <2> QED BY <1>4, <2>2, <2>3 DEF y, Committed, Moves, Sets, Ended, Broken
<1>5. CASE t.op = "mark"
  <2>1. y = Marked(x)
    BY <1>5 DEF Effect, Ended
  <2>2. /\ y.status = "interrupted" /\ y.source = x.source /\ y.resumable = x.resumable
        /\ y.answered = x.answered /\ y.unsaved = x.unsaved /\ y \in Records
    BY <2>1 DEF Marked, Statuses, Ended
  <2> HIDE DEF y
  <2> QED BY <1>5, <2>2 DEF y, Committed, Moves, Sets, Ended, Broken
<1>6. CASE t.op = "offer"
  <2>1. y = Offered(x)
    BY <1>6 DEF Effect, Ended
  <2>2. /\ y.status = x.status /\ y.source = x.source /\ y.resumable = TRUE
        /\ y.answered = x.answered /\ y.unsaved = x.unsaved /\ y \in Records
    BY <2>1 DEF Offered, Statuses
  <2> HIDE DEF y
  <2> QED BY <1>6, <2>2 DEF y, Committed, Moves, Sets, Ended, Broken
<1>7. CASE t.op \in Ended
  <2>0. /\ t.op # "create" /\ t.op # "started" /\ t.op # "answered" /\ t.op # "save"
        /\ t.op # "mark" /\ t.op # "offer"
    BY <1>7 DEF Ended
  <2>1. y = Outcome(x, t.op)
    BY <1>7, <2>0 DEF Effect
  <2>2. /\ y.status = t.op /\ y.source = x.source /\ y.resumable = (t.op \in Broken)
        /\ y.answered = FALSE /\ y.unsaved = x.unsaved /\ y \in Records
    <3>1. t.op \in Statuses /\ (t.op \in Broken) \in BOOLEAN
      BY <1>7 DEF Statuses
    <3>2. y = [x EXCEPT !.status = t.op, !.answered = FALSE, !.resumable = t.op \in Broken]
      BY <2>1 DEF Outcome
    <3> DEFINE b == t.op \in Broken
               e == t.op
    <3>3. y = [x EXCEPT !.status = e, !.answered = FALSE, !.resumable = b] /\ b \in BOOLEAN /\ e \in Statuses
      BY <3>1, <3>2
    <3> HIDE DEF b, e, y
    <3>4. /\ y.status = e /\ y.source = x.source /\ y.resumable = b
          /\ y.answered = FALSE /\ y.unsaved = x.unsaved /\ y \in Records
      BY <3>3
    <3> QED BY <3>4 DEF b, e
  <2> HIDE DEF y
  <2> QED BY <1>7, <2>0, <2>2 DEF y, Committed, Moves, Sets
<1> QED BY <1>0, <1>1, <1>2, <1>3, <1>4, <1>5, <1>6, <1>7 DEF Ops, Moves

LEMMA OpSets ==
  /\ \A op \in Moves : Sets(op) \in Statuses \ {"none"}
  /\ \A op \in Moves : Sets(op) \in Ended <=> op \in Ends
  /\ \A op \in Moves : Sets(op) = "running" <=> op = "started"
  /\ \A op \in Moves : Sets(op) = "queued" <=> op = "create"
  /\ \A op \in Ends : op \in Moves
  /\ \A op \in Broken : op \in Ended /\ Sets(op) = op
  /\ \A op \in Ended : op \in Moves /\ op \in Ends /\ Sets(op) = op
BY DEF Sets, Moves, Ended, Ends, Statuses, Broken

\* What the next transaction finds, and leaves.
CommitShape(t, r, x, y, n) ==
  /\ t = turn[1] /\ r = t.run /\ x = row[r] /\ y = row'[r] /\ Committed(t, x, y)
  /\ \A q \in Runs \ {r} : row'[q] = row[q]
  /\ row' \in [Runs -> Records]
  /\ n > 0 /\ DOMAIN turn = 1..n /\ 1 \in DOMAIN turn
  /\ turn' \in Seq(Txs) /\ DOMAIN turn' = 1..n - 1
  /\ \A k \in 1..n - 1 : k + 1 \in 1..n /\ turn'[k] = turn[k + 1] /\ turn[k + 1] \in Txs
  /\ \A k \in 1..n : k # 1 => k - 1 \in 1..n - 1 /\ turn'[k - 1] = turn[k]

LEMMA CommitFields ==
  ASSUME RunInv, Commit
  PROVE  \E t \in Txs, r \in Runs, x \in Records, y \in Records, n \in Nat :
           CommitShape(t, r, x, y, n)
<1>1. turn \in Seq(Txs) /\ turn # <<>> /\ row \in [Runs -> Records]
  BY DEF RunInv, Typed, Commit
<1>2. PICK n \in Nat : n = Len(turn) /\ n > 0
  BY <1>1, LenProperties, EmptySeq
<1>3. DOMAIN turn = 1..n /\ 1 \in DOMAIN turn /\ turn[1] \in Txs /\ Head(turn) = turn[1]
  <2>1. DOMAIN turn = 1..n /\ \A k \in 1..n : turn[k] \in Txs
    BY <1>1, <1>2, LenProperties, ElementOfSeq
  <2>2. 1 \in 1..n
    BY <1>2
  <2> QED BY <1>1, <2>1, <2>2, HeadTailProperties
<1>4. /\ Tail(turn) \in Seq(Txs) /\ DOMAIN Tail(turn) = 1..n - 1
      /\ \A k \in 1..n - 1 : Tail(turn)[k] = turn[k + 1]
  <2>1. Tail(turn) \in Seq(Txs) /\ Len(Tail(turn)) = n - 1 /\ \A k \in 1..n - 1 : Tail(turn)[k] = turn[k + 1]
    BY <1>1, <1>2, HeadTailProperties
  <2> QED BY <2>1, LenProperties
<1>5. \A k \in 1..n - 1 : k + 1 \in 1..n /\ turn[k + 1] \in Txs
  <2>1. \A k \in 1..n : turn[k] \in Txs
    BY <1>1, <1>2, LenProperties, ElementOfSeq
  <2>2. \A k \in 1..n - 1 : k + 1 \in 1..n
    BY <1>2
  <2> QED BY <2>1, <2>2
<1>6. \A k \in 1..n : k # 1 => k - 1 \in 1..n - 1 /\ (k - 1) + 1 = k
  BY <1>2
<1>7. PICK t \in Txs : t = turn[1]
  BY <1>3
<1>8. PICK r \in Runs : r = t.run
  BY DEF Txs
<1>9. PICK x \in Records : x = row[r]
  BY <1>1
<1>10. row' = [row EXCEPT ![r] = Effect(t, x)] /\ turn' = Tail(turn)
  BY <1>3, <1>7, <1>8, <1>9 DEF Commit
<1>11. PICK y \in Records : y = Effect(t, x)
  BY EffectFields
<1>12. /\ row'[r] = y /\ (\A q \in Runs \ {r} : row'[q] = row[q]) /\ row' \in [Runs -> Records]
  BY <1>1, <1>10, <1>11
<1>13. Committed(t, x, y)
  BY <1>11, EffectFields DEF Committed
<1>14. /\ turn' \in Seq(Txs) /\ DOMAIN turn' = 1..n - 1
       /\ \A k \in 1..n - 1 : k + 1 \in 1..n /\ turn'[k] = turn[k + 1] /\ turn[k + 1] \in Txs
       /\ \A k \in 1..n : k # 1 => k - 1 \in 1..n - 1 /\ turn'[k - 1] = turn[k]
  BY <1>4, <1>5, <1>6, <1>10
<1>15. CommitShape(t, r, x, y, n)
  BY <1>2, <1>3, <1>7, <1>8, <1>9, <1>12, <1>13, <1>14 DEF CommitShape
<1> QED BY <1>15

\* Who is continued after a transaction.
LEMMA CommitContinues ==
  ASSUME RunInv, NEW t \in Txs, NEW r \in Runs, NEW x \in Records, NEW y \in Records, NEW n \in Nat,
         CommitShape(t, r, x, y, n)
  PROVE  /\ TxOK(1)
         /\ \A s \in Runs : Continued(s)' <=> Continued(s) \/ (t.op = "create" /\ t.source = s)
<1>0. TxOK(1)
  BY DEF RunInv, TurnOK, CommitShape
<1>1. /\ t = turn[1] /\ r = t.run /\ x = row[r] /\ y = row'[r]
      /\ \A q \in Runs \ {r} : row'[q] = row[q]
      /\ y.source = IF t.op = "create" THEN t.source ELSE x.source
  BY DEF CommitShape, Committed
<1>2. t.op = "create" => x.source = NoRun
  <2>1. t.op = "create" => x.status = "none"
    BY <1>0, <1>1 DEF TxOK
  <2>2. x.status = "none" => x = NoRow
    BY <1>1 DEF RunInv, RowOK
  <2> QED BY <2>1, <2>2 DEF NoRow
<1>3. ASSUME NEW s \in Runs, Continued(s)' PROVE Continued(s) \/ (t.op = "create" /\ t.source = s)
  <2>1. PICK q \in Runs : row'[q].source = s
    BY <1>3 DEF Continued
  <2>2. CASE q = r
    BY <1>1, <2>1, <2>2 DEF Continued
  <2>3. CASE q # r
    BY <1>1, <2>1, <2>3 DEF Continued
  <2> QED BY <2>2, <2>3
<1>4. ASSUME NEW s \in Runs, Continued(s) \/ (t.op = "create" /\ t.source = s) PROVE Continued(s)'
  <2>1. CASE Continued(s)
    <3>1. PICK q \in Runs : row[q].source = s
      BY <2>1 DEF Continued
    <3>2. CASE q = r
      <4>1. t.op # "create"
        BY <1>1, <1>2, <3>1, <3>2, OwnersAssumption
      <4> QED BY <1>1, <3>1, <3>2, <4>1 DEF Continued
    <3>3. CASE q # r
      BY <1>1, <3>1, <3>3 DEF Continued
    <3> QED BY <3>2, <3>3
  <2>2. CASE t.op = "create" /\ t.source = s
    BY <1>1, <2>2 DEF Continued
  <2> QED BY <1>4, <2>1, <2>2
<1> QED BY <1>0, <1>3, <1>4

LEMMA CommitRows ==
  ASSUME RunInv, NEW t \in Txs, NEW r \in Runs, NEW x \in Records, NEW y \in Records, NEW n \in Nat,
         CommitShape(t, r, x, y, n)
  PROVE  \A q \in Runs : RowOK(q)'
<1>0. /\ t = turn[1] /\ r = t.run /\ x = row[r] /\ y = row'[r] /\ Committed(t, x, y)
      /\ \A q \in Runs \ {r} : row'[q] = row[q]
      /\ DOMAIN turn = 1..n /\ 1 \in DOMAIN turn
  BY DEF CommitShape
<1>1. /\ TxOK(1)
      /\ \A s \in Runs : Continued(s)' <=> Continued(s) \/ (t.op = "create" /\ t.source = s)
  BY CommitContinues
<1>2. \A k \in DOMAIN turn : ~(k < 1)
  BY <1>0
\* What the first transaction of the turn finds.
<1>3. /\ t.op = "create" => x.status = "none" /\ x = NoRow
      /\ t.op = "create" /\ t.source \in Runs =>
           /\ row[t.source].status \in Broken /\ ~row[t.source].resumable /\ ~Continued(t.source)
           /\ t.source # r
      /\ t.op = "answered" => x.status = "running"
      /\ t.op \in Ends => ~x.unsaved
      /\ t.op \in Moves /\ x.status \in Ended => Sets(t.op) = x.status
      /\ t.op \in Moves /\ x.answered => t.op = "completed"
      /\ t.op \in Offers => ~Continued(r)
      /\ t.op = "offer" => x.status \in Broken
  <2>1. x.status = "none" => x = NoRow
    BY <1>0 DEF RunInv, RowOK
  <2>2. t.op = "create" => x.status = "none"
    BY <1>0, <1>1 DEF TxOK
  <2>3. t.op = "create" /\ t.source \in Runs =>
           /\ row[t.source].status \in Broken /\ ~row[t.source].resumable /\ ~Continued(t.source)
    BY <1>0, <1>1 DEF TxOK
  <2>4. t.op = "create" /\ t.source \in Runs => t.source # r
    BY <1>0, <2>2, <2>3 DEF Broken
  <2>5. t.op = "answered" => x.status = "running"
    BY <1>0, <1>1 DEF TxOK
  <2>6. t.op \in Ends => ~x.unsaved
    BY <1>0, <1>1, <1>2 DEF TxOK
  <2>7. /\ t.op \in Moves /\ x.status \in Ended => Sets(t.op) = x.status
        /\ t.op \in Moves /\ x.answered => t.op = "completed"
        /\ t.op \in Offers => ~Continued(r)
    BY <1>0, <1>1 DEF TxOK
  <2>8. t.op = "offer" => x.status \in Broken
    BY <1>0, <1>1, <1>2 DEF TxOK
  <2> QED BY <2>1, <2>2, <2>3, <2>4, <2>5, <2>6, <2>7, <2>8
<1>4. RowOK(r) /\ \A q \in Runs : RowOK(q)
  BY DEF RunInv
<1>5. /\ x.status \in {"none", "queued"} => ~x.answered
      /\ x.status # "running" => ~x.unsaved
      /\ x.resumable => x.status \in Broken /\ ~Continued(r)
      /\ Continued(r) => x.status \in Broken
  BY <1>0, <1>4 DEF RowOK
<1>6. y.status = "none" => y = NoRow
  <2> SUFFICES ASSUME y.status = "none" PROVE y = NoRow
    OBVIOUS
  <2>1. t.op \notin Moves /\ x.status = "none"
    BY <1>0, OpSets DEF Committed
  <2>2. x = NoRow /\ ~x.unsaved
    BY <1>0, <1>4, <1>5, <2>1 DEF RowOK
  <2>3. t.op = "save"
    BY <1>3, <2>1 DEF Txs, Ops, Broken
  <2> QED BY <1>0, <2>2, <2>3 DEF Committed
<1>7. y.status \in {"none", "queued"} => ~y.answered
  <2> SUFFICES ASSUME y.status \in {"none", "queued"} PROVE ~y.answered
    OBVIOUS
  <2>1. CASE t.op \in Moves
    <3>1. t.op = "create"
      BY <1>0, <2>1, OpSets DEF Committed
    <3> QED BY <1>0, <3>1 DEF Committed
  <2>2. CASE t.op \notin Moves
    <3>1. y.status = x.status /\ ~x.answered
      BY <1>0, <1>5, <2>2 DEF Committed
    <3>2. t.op # "answered"
      BY <1>3, <3>1
    <3> QED BY <1>0, <2>2, <3>1, <3>2 DEF Committed
  <2> QED BY <2>1, <2>2
<1>8. y.status # "running" => ~y.unsaved
  <2> SUFFICES ASSUME y.status # "running", y.unsaved PROVE FALSE
    BY DEF Records
  <2>1. t.op # "create" /\ t.op # "save" /\ x.unsaved
    BY <1>0 DEF Committed
  <2>2. CASE t.op \in Moves
    <3>1. t.op # "started"
      BY <1>0, <2>2, OpSets DEF Committed
    <3>2. t.op \in Ends
      BY <2>1, <2>2, <3>1 DEF Moves, Ends
    <3> QED BY <1>3, <2>1, <3>2
  <2>3. CASE t.op \notin Moves
    BY <1>0, <1>5, <2>1, <2>3 DEF Committed
  <2> QED BY <2>2, <2>3
<1>9. y.resumable => y.status \in Broken /\ ~Continued(r)'
  <2> SUFFICES ASSUME y.resumable PROVE y.status \in Broken /\ ~Continued(r)'
    OBVIOUS
  <2>1. CASE t.op \in Ended
    <3>1. t.op \in Broken /\ t.op \in Moves /\ Sets(t.op) = t.op
      BY <1>0, <2>1, OpSets DEF Committed
    <3>2. t.op # "create" /\ t.op \in Offers
      BY <2>1, <3>1 DEF Ended, Offers
    <3> QED BY <1>0, <1>1, <1>3, <3>1, <3>2 DEF Committed
  <2>2. CASE t.op = "offer"
    BY <1>0, <1>1, <1>3, <2>2 DEF Committed, Offers, Moves, Ended
  <2>3. CASE t.op \notin Ended /\ t.op # "offer"
    <3>1. t.op # "create" /\ x.resumable
      BY <1>0, <2>3 DEF Committed
    <3>2. x.status \in Broken /\ x.status \in Ended /\ ~Continued(r)
      BY <1>5, <3>1, OpSets
    <3>3. y.status = x.status
      BY <1>0, <1>3, <3>2 DEF Committed
    <3> QED BY <1>1, <3>1, <3>2, <3>3
  <2> QED BY <2>1, <2>2, <2>3
<1>10. ASSUME NEW q \in Runs, Continued(q)' PROVE row'[q].status \in Broken
  <2>1. CASE Continued(q)
    <3>1. row[q].status \in Broken /\ row[q].status \in Ended
      BY <1>4, <2>1, OpSets DEF RowOK
    <3>2. CASE q = r
      <4>1. y.status = x.status
        BY <1>0, <1>3, <3>1, <3>2 DEF Committed
      <4> QED BY <1>0, <3>1, <3>2, <4>1
    <3> QED BY <1>0, <3>1, <3>2
  <2>2. CASE t.op = "create" /\ t.source = q
    BY <1>0, <1>3, <2>2
  <2> QED BY <1>1, <1>10, <2>1, <2>2
<1>11. ASSUME NEW p \in Runs, NEW q \in Runs, NEW s \in Runs, row'[p].source = s, row'[q].source = s
       PROVE  p = q
  <2>1. \A a, b, c \in Runs : row[a].source = c /\ row[b].source = c => a = b
    BY <1>4 DEF RowOK
  <2>2. CASE t.op = "create" /\ t.source = s
    <3>1. ~Continued(s)
      BY <1>3, <2>2
    <3>2. \A a \in Runs : a # r => row'[a].source # s
      BY <1>0, <3>1 DEF Continued
    <3> QED BY <1>11, <3>2
  <2>3. CASE ~(t.op = "create" /\ t.source = s)
    <3>1. \A a \in Runs : row'[a].source = s => row[a].source = s
      <4>1. y.source = s => x.source = s
        BY <1>0, <2>3 DEF Committed
      <4> QED BY <1>0, <4>1
    <3> QED BY <1>11, <2>1, <3>1
  <2> QED BY <2>2, <2>3
<1>12. ASSUME NEW q \in Runs PROVE RowOK(q)'
  <2>1. CASE q = r
    BY <1>0, <1>6, <1>7, <1>8, <1>9, <1>10, <1>11, <2>1 DEF RowOK
  <2>2. CASE q # r
    <3>1. row'[q] = row[q] /\ RowOK(q)
      BY <1>0, <1>4, <2>2
    <3>2. row[q].resumable => ~Continued(q)'
      BY <1>1, <1>3, <3>1 DEF RowOK
    <3> QED BY <1>10, <1>11, <3>1, <3>2 DEF RowOK
  <2> QED BY <2>1, <2>2
<1> QED BY <1>12

LEMMA CommitTurn ==
  ASSUME RunInv, Commit, NEW t \in Txs, NEW r \in Runs, NEW x \in Records, NEW y \in Records, NEW n \in Nat,
         CommitShape(t, r, x, y, n)
  PROVE  TurnOK'
<1>0. /\ t = turn[1] /\ r = t.run /\ x = row[r] /\ y = row'[r] /\ Committed(t, x, y)
      /\ \A q \in Runs \ {r} : row'[q] = row[q]
      /\ DOMAIN turn = 1..n /\ 1 \in DOMAIN turn /\ DOMAIN turn' = 1..n - 1
      /\ \A k \in 1..n - 1 : k + 1 \in 1..n /\ turn'[k] = turn[k + 1] /\ turn[k + 1] \in Txs
      /\ \A k \in 1..n : k # 1 => k - 1 \in 1..n - 1 /\ turn'[k - 1] = turn[k]
      /\ stream' = stream
  BY DEF CommitShape, Commit, jobs
<1>1. /\ TxOK(1)
      /\ \A s \in Runs : Continued(s)' <=> Continued(s) \/ (t.op = "create" /\ t.source = s)
  BY CommitContinues
<1>2. ASSUME NEW s, ToContinue(s)' PROVE ToContinue(s)
  <2>1. PICK k \in 1..n - 1 : turn'[k].op = "create" /\ turn'[k].source = s
    BY <1>0, <1>2 DEF ToContinue
  <2> QED BY <1>0, <2>1 DEF ToContinue
<1>3. ASSUME NEW k \in 1..n - 1
      PROVE  TxOK(k)'
  <2>u. PICK u \in Txs : u = turn[k + 1]
    BY <1>0
  <2> DEFINE j == k + 1
             z == row[u.run]
             v == row'[u.run]
  <2>0. /\ j \in 1..n /\ j # 1 /\ u = turn[j] /\ turn'[k] = u /\ u \in Txs /\ u.run \in Runs
        /\ u.op \in Ops /\ 1 < j
    <3>1. k + 1 # 1 /\ 1 < k + 1
      OBVIOUS
    <3> QED BY <1>0, <2>u, <3>1 DEF Txs
  <2>1. TxOK(j) /\ PairOK(1, j)
    BY <1>0, <2>0 DEF RunInv, TurnOK
  <2>2. /\ u.op # "create" /\ u.op # "answered"
        /\ u.op \in Ends /\ z.unsaved => \E m \in 1..n : m < j /\ turn[m].run = u.run /\ turn[m].op = "save"
        /\ u.op \in Moves /\ z.status \in Ended => Sets(u.op) = z.status
        /\ u.op \in Moves /\ z.answered => u.op = "completed"
        /\ u.op = "mark" => \E m \in 1..n : m > j /\ turn[m].run = u.run /\ turn[m].op = "offer"
        /\ u.op \in Offers => ~Continued(u.run) /\ ~ToContinue(u.run)
        /\ u.op = "offer" => \/ z.status \in Broken
                             \/ \E m \in 1..n : m < j /\ turn[m].run = u.run /\ turn[m].op = "mark"
    BY <1>0, <2>0, <2>1 DEF TxOK
  <2>3. u.run = r /\ u.op \in Moves =>
          /\ t.op \in Ends => Sets(u.op) = Sets(t.op)
          /\ t.op = "answered" => u.op = "completed"
    BY <1>0, <2>0, <2>1 DEF PairOK
  <2>4. u.run # r => v = z
    BY <1>0, <2>0
  <2>5. u.run = r => v = y /\ z = x
    BY <1>0
  \* Another transaction of the run is at most one place nearer.
  <2>6. \A m \in 1..n : m < j /\ m # 1 =>
          m - 1 \in 1..n - 1 /\ m - 1 < k /\ turn'[m - 1] = turn[m]
    BY <1>0, <2>0
  <2>7. \A m \in 1..n : m > j =>
          m - 1 \in 1..n - 1 /\ m - 1 > k /\ turn'[m - 1] = turn[m]
    BY <1>0, <2>0
  <2>8. u.op \in Ends /\ v.unsaved =>
          \E m \in 1..n - 1 : m < k /\ turn'[m].run = u.run /\ turn'[m].op = "save"
    <3> SUFFICES ASSUME u.op \in Ends, v.unsaved
                 PROVE  \E m \in 1..n - 1 : m < k /\ turn'[m].run = u.run /\ turn'[m].op = "save"
      OBVIOUS
    <3>1. z.unsaved /\ (u.run = r => t.op # "save")
      BY <1>0, <2>4, <2>5 DEF Committed
    <3>2. PICK m \in 1..n : m < j /\ turn[m].run = u.run /\ turn[m].op = "save"
      BY <2>2, <3>1
    <3>3. m # 1
      BY <1>0, <3>1, <3>2
    <3> QED BY <2>6, <3>2, <3>3
  <2>9. u.op \in Moves /\ v.status \in Ended => Sets(u.op) = v.status
    <3> SUFFICES ASSUME u.op \in Moves, v.status \in Ended PROVE Sets(u.op) = v.status
      OBVIOUS
    <3>1. CASE u.run = r /\ t.op \in Moves
      <4>1. v.status = Sets(t.op) /\ t.op \in Ends
        BY <1>0, <2>5, <3>1, OpSets DEF Committed
      <4> QED BY <2>3, <3>1, <4>1
    <3>2. CASE ~(u.run = r /\ t.op \in Moves)
      <4>1. v.status = z.status
        BY <1>0, <2>4, <2>5, <3>2 DEF Committed
      <4> QED BY <2>2, <4>1
    <3> QED BY <3>1, <3>2
  <2>10. u.op \in Moves /\ v.answered => u.op = "completed"
    <3> SUFFICES ASSUME u.op \in Moves, v.answered PROVE u.op = "completed"
      OBVIOUS
    <3>1. CASE u.run = r /\ t.op = "answered"
      BY <2>3, <3>1
    <3>2. CASE ~(u.run = r /\ t.op = "answered")
      <4>1. z.answered
        BY <1>0, <2>4, <2>5, <3>2 DEF Committed
      <4> QED BY <2>2, <4>1
    <3> QED BY <3>1, <3>2
  <2>11. u.op = "mark" => \E m \in 1..n - 1 : m > k /\ turn'[m].run = u.run /\ turn'[m].op = "offer"
    BY <2>2, <2>7
  <2>12. u.op \in Offers => ~Continued(u.run)' /\ ~ToContinue(u.run)'
    <3> SUFFICES ASSUME u.op \in Offers PROVE ~Continued(u.run)' /\ ~ToContinue(u.run)'
      OBVIOUS
    <3>1. ~(t.op = "create" /\ t.source = u.run)
      BY <1>0, <2>2 DEF ToContinue
    <3> QED BY <1>1, <1>2, <2>0, <2>2, <3>1
  <2>13. u.op = "offer" => \/ v.status \in Broken
                           \/ \E m \in 1..n - 1 : m < k /\ turn'[m].run = u.run /\ turn'[m].op = "mark"
    <3> SUFFICES ASSUME u.op = "offer", v.status \notin Broken
                 PROVE  \E m \in 1..n - 1 : m < k /\ turn'[m].run = u.run /\ turn'[m].op = "mark"
      OBVIOUS
    <3>1. z.status \notin Broken
      <4> SUFFICES ASSUME z.status \in Broken PROVE FALSE
        OBVIOUS
      <4>1. u.run = r /\ v = y /\ z = x
        BY <2>4, <2>5
      <4>2. t.op \in Moves => Sets(t.op) = x.status
        <5>1. x.status \in Ended
          BY <4>1, OpSets
        <5> QED BY <1>0, <1>1, <5>1 DEF TxOK
      <4>3. v.status = z.status
        BY <1>0, <4>1, <4>2 DEF Committed
      <4> QED BY <4>3
    <3>2. PICK m \in 1..n : m < j /\ turn[m].run = u.run /\ turn[m].op = "mark"
      BY <2>2, <3>1
    <3>3. m # 1
      <4> SUFFICES ASSUME m = 1 PROVE FALSE
        OBVIOUS
      <4>1. u.run = r /\ t.op = "mark"
        BY <1>0, <3>2
      <4>2. v.status = "interrupted"
        BY <1>0, <2>5, <4>1 DEF Committed, Moves, Sets
      <4> QED BY <4>2 DEF Broken
    <3> QED BY <2>6, <3>2, <3>3
  <2>14. turn'[k] = u /\ DOMAIN turn' = 1..n - 1
    BY <1>0, <2>0
  <2>15. u.op # "create" /\ u.op # "answered"
    BY <2>2
  <2> QED BY <2>8, <2>9, <2>10, <2>11, <2>12, <2>13, <2>14, <2>15 DEF TxOK
<1>4. ASSUME NEW k \in 1..n - 1, NEW m \in 1..n - 1, k < m
      PROVE  PairOK(k, m)'
  <2>1. k + 1 \in 1..n /\ m + 1 \in 1..n /\ k + 1 < m + 1 /\ turn'[k] = turn[k + 1] /\ turn'[m] = turn[m + 1]
    BY <1>0, <1>4
  <2>2. PairOK(k + 1, m + 1)
    BY <1>0, <2>1 DEF RunInv, TurnOK
  <2> QED BY <2>1, <2>2 DEF PairOK
<1> QED BY <1>0, <1>3, <1>4 DEF TurnOK

LEMMA CommitDue ==
  ASSUME NEW t \in Txs, NEW r \in Runs, NEW x \in Records, NEW y \in Records, NEW n \in Nat,
         CommitShape(t, r, x, y, n), NEW q \in Runs, NEW s, Due(q, s)
  PROVE  Due(q, s)'
<1>0. /\ t = turn[1] /\ r = t.run /\ x = row[r] /\ y = row'[r] /\ Committed(t, x, y)
      /\ \A p \in Runs \ {r} : row'[p] = row[p]
      /\ DOMAIN turn = 1..n /\ 1 \in DOMAIN turn /\ DOMAIN turn' = 1..n - 1
      /\ \A k \in 1..n - 1 : k + 1 \in 1..n /\ turn'[k] = turn[k + 1]
      /\ \A k \in 1..n : k # 1 => k - 1 \in 1..n - 1 /\ turn'[k - 1] = turn[k]
  BY DEF CommitShape
<1>1. \A k \in 1..n - 1 : MovesAt(q, k)' <=> MovesAt(q, k + 1)
  BY <1>0 DEF MovesAt
<1>2. CASE \A k \in DOMAIN turn : ~MovesAt(q, k)
  <2>1. row[q].status = s
    BY <1>2 DEF Due
  <2>2. q = r => t.op \notin Moves
    BY <1>0, <1>2 DEF MovesAt
  <2>3. row'[q].status = s
    BY <1>0, <2>1, <2>2 DEF Committed
  <2>4. \A k \in 1..n - 1 : ~MovesAt(q, k)'
    BY <1>0, <1>1, <1>2
  <2> QED BY <1>0, <2>3, <2>4 DEF Due
<1>3. CASE \E k \in DOMAIN turn : MovesAt(q, k)
  <2>1. PICK k \in 1..n :
          /\ MovesAt(q, k) /\ Sets(turn[k].op) = s
          /\ \A m \in 1..n : m > k /\ MovesAt(q, m) => Sets(turn[m].op) = s
    BY <1>0, <1>3 DEF Due
  <2>2. \A m \in 1..n - 1 : m + 1 > k /\ MovesAt(q, m)' => Sets(turn'[m].op) = s
    BY <1>0, <1>1, <2>1
  <2>3. CASE k # 1
    <3>1. k - 1 \in 1..n - 1 /\ turn'[k - 1] = turn[k] /\ (k - 1) + 1 = k
      BY <1>0, <2>3
    <3>2. MovesAt(q, k - 1)' /\ Sets(turn'[k - 1].op) = s
      BY <1>1, <2>1, <3>1
    <3>3. \A m \in 1..n - 1 : m > k - 1 => m + 1 > k
      OBVIOUS
    <3> QED BY <1>0, <2>2, <3>1, <3>2, <3>3 DEF Due
  <2>4. CASE k = 1
    <3>1. \A m \in 1..n - 1 : m + 1 > k
      BY <2>4
    <3>2. CASE \E m \in 1..n - 1 : MovesAt(q, m)'
      BY <1>0, <2>2, <3>1, <3>2 DEF Due
    <3>3. CASE \A m \in 1..n - 1 : ~MovesAt(q, m)'
      <4>1. q = r /\ t.op \in Moves /\ Sets(t.op) = s
        BY <1>0, <2>1, <2>4 DEF MovesAt
      <4>2. row'[q].status = s
        BY <1>0, <4>1 DEF Committed
      <4> QED BY <1>0, <3>3, <4>2 DEF Due
    <3> QED BY <3>2, <3>3
  <2> QED BY <2>3, <2>4
<1> QED BY <1>2, <1>3

LEMMA CommitOffers ==
  ASSUME RunInv, Commit, NEW t \in Txs, NEW r \in Runs, NEW x \in Records, NEW y \in Records, NEW n \in Nat,
         CommitShape(t, r, x, y, n), NEW q \in Runs
  PROVE  OfferOK(q)'
<1>0. /\ t = turn[1] /\ r = t.run /\ x = row[r] /\ y = row'[r] /\ Committed(t, x, y)
      /\ \A p \in Runs \ {r} : row'[p] = row[p]
      /\ DOMAIN turn = 1..n /\ 1 \in DOMAIN turn /\ DOMAIN turn' = 1..n - 1
      /\ \A k \in 1..n : k # 1 => k - 1 \in 1..n - 1 /\ turn'[k - 1] = turn[k]
      /\ host' = host
  BY DEF CommitShape, Commit
<1>1. /\ TxOK(1) /\ OfferOK(q)
      /\ \A s \in Runs : Continued(s)' <=> Continued(s) \/ (t.op = "create" /\ t.source = s)
  BY CommitContinues DEF RunInv
<1> SUFFICES ASSUME host # "starting", row'[q].status \in Broken,
                    ~row'[q].resumable, ~Continued(q)', ~ToContinue(q)'
             PROVE  ToOffer(q)'
  BY <1>0 DEF OfferOK
<1>2. \A k \in 1..n : k # 1 /\ turn[k].op = "offer" /\ turn[k].run = q => ToOffer(q)'
  BY <1>0 DEF ToOffer
<1>3. ~Continued(q) /\ ~ToContinue(q)
  <2>1. ~Continued(q) /\ ~(t.op = "create" /\ t.source = q)
    BY <1>1
  <2>2. \A k \in 1..n : k # 1 => ~(turn[k].op = "create" /\ turn[k].source = q)
    BY <1>0 DEF ToContinue
  <2> QED BY <1>0, <2>1, <2>2 DEF ToContinue
<1>4. CASE q # r \/ t.op \notin Moves \cup {"offer"}
  <2>1. row'[q].status = row[q].status /\ row'[q].resumable = row[q].resumable
    <3>1. CASE q # r
      BY <1>0, <3>1
    <3>2. CASE q = r
      BY <1>0, <1>4, <3>2, OpSets DEF Committed, Moves
    <3> QED BY <3>1, <3>2
  <2>2. ToOffer(q)
    BY <1>1, <1>3, <2>1 DEF OfferOK
  <2>3. PICK k \in 1..n : turn[k].op = "offer" /\ turn[k].run = q
    BY <1>0, <2>2 DEF ToOffer
  <2>4. k # 1
    BY <1>0, <1>4, <2>3
  <2> QED BY <1>2, <2>3, <2>4
<1>5. CASE q = r /\ t.op \in Moves \cup {"offer"}
  <2>1. t.op # "offer" /\ t.op \notin Broken
    BY <1>0, <1>5, OpSets DEF Committed, Ended, Broken
  <2>2. t.op \in Moves /\ Sets(t.op) \in Broken
    BY <1>0, <1>5, <2>1 DEF Committed
  <2>3. t.op = "mark"
    BY <2>1, <2>2 DEF Moves, Sets, Ended, Broken
  <2>4. PICK m \in 1..n : m > 1 /\ turn[m].run = r /\ turn[m].op = "offer"
    BY <1>0, <1>1, <2>3 DEF TxOK
  <2> QED BY <1>2, <1>5, <2>4
<1> QED BY <1>4, <1>5

LEMMA CommitStep == RunInv /\ Commit => RunInv'
<1> SUFFICES ASSUME RunInv, Commit PROVE RunInv'
  OBVIOUS
<1>1. PICK t \in Txs, r \in Runs, x \in Records, y \in Records, n \in Nat : CommitShape(t, r, x, y, n)
  BY CommitFields
<1>2. /\ UNCHANGED <<approval, host, restarts, table, held, waiters, lease>>
      /\ UNCHANGED <<queue, active, subagents, cancelled, stopped, stream>>
      /\ turn # <<>>
  BY DEF Commit, jobs, leaseVars
<1>3. Typed'
  BY <1>1, <1>2 DEF CommitShape, RunInv, Typed, AtWork
<1>4. \A q \in Runs : RowOK(q)' /\ OfferOK(q)'
  BY <1>1, CommitRows, CommitOffers
<1>5. TurnOK'
  BY <1>1, CommitTurn
<1>6. ASSUME NEW q \in Runs PROVE JobOK(q)' /\ StatusOK(q)'
  <2>1. JobOK(q) /\ StatusOK(q)
    BY DEF RunInv
  <2>2. \A s : Due(q, s) => Due(q, s)'
    BY <1>1, CommitDue
  <2>3. stream[q] \notin {"none", "over"} => ~row'[q].answered
    <3> SUFFICES ASSUME stream[q] \notin {"none", "over"} PROVE ~row'[q].answered
      OBVIOUS
    <3>1. ~row[q].answered
      BY <2>1 DEF JobOK, Streaming
    <3>2. q = r => t.op # "answered"
      <4>1. TxOK(1) /\ t = turn[1] /\ r = t.run
        BY <1>1, CommitContinues DEF CommitShape
      <4> QED BY <4>1 DEF TxOK
    <3> QED BY <1>1, <3>1, <3>2 DEF CommitShape, Committed
  <2>4. JobOK(q)'
    BY <1>2, <2>1, <2>3 DEF JobOK, Waiting, AtWork, Streaming
  <2>5. StatusOK(q)'
    <3>1. /\ Known' = Known /\ Waiting' = Waiting /\ Streaming(q)' = Streaming(q)
          /\ stream'[q] = stream[q] /\ approval'[q] = approval[q]
      BY <1>2 DEF Known, Waiting, Streaming
    <3> QED BY <2>1, <2>2, <3>1 DEF StatusOK
  <2> QED BY <2>4, <2>5
<1>7. PlacesOK'
  BY <1>2 DEF RunInv, PlacesOK, Waiting
<1>8. host \notin {"down", "starting"}
  BY <1>2 DEF RunInv
<1> QED BY <1>2, <1>3, <1>4, <1>5, <1>6, <1>7, <1>8 DEF RunInv

-----------------------------------------------------------------------------
(* What the other steps start from, and what they leave to be committed    *)

\* Who has a place in line or a lease, after a step of the manager.
LEMMA LeaseAcquired ==
  ASSUME LeaseInv, NEW r \in Runs, AcquireLease(r)
  PROVE  \A s \in Runs : lease'[s].at # "none" <=> s = r \/ lease[s].at # "none"
<1>1. lease \in [Runs -> Lease]
  BY DEF LeaseInv, LeasesType, Lease
<1>2. PICK l \in Locks : \/ lease' = [lease EXCEPT ![r] = [at |-> "waiting", lock |-> l]]
                         \/ lease' = [lease EXCEPT ![r] = [at |-> "holding", lock |-> l]]
  BY DEF AcquireLease
<1>3. lease'[r].at # "none" /\ \A s \in Runs \ {r} : lease'[s] = lease[s]
  <2>1. CASE lease' = [lease EXCEPT ![r] = [at |-> "waiting", lock |-> l]]
    BY <1>1, <2>1
  <2>2. CASE lease' = [lease EXCEPT ![r] = [at |-> "holding", lock |-> l]]
    BY <1>1, <2>2
  <2> QED BY <1>2, <2>1, <2>2
<1> QED BY <1>3

LEMMA LeaseGivenBack ==
  ASSUME LeaseInv, NEW r \in Runs, AbandonLease(r) \/ ReleaseLease(r)
  PROVE  \A s \in Runs : lease'[s].at # "none" <=> s # r /\ lease[s].at # "none"
<1>0. lease \in [Runs -> Lease] /\ None.at = "none"
  BY DEF LeaseInv, LeasesType, Lease, None
<1>1. CASE AbandonLease(r)
  <2>1. lease' = [lease EXCEPT ![r] = None]
    BY <1>1 DEF AbandonLease
  <2>2. lease'[r].at = "none" /\ \A s \in Runs \ {r} : lease'[s] = lease[s]
    BY <1>0, <2>1
  <2> QED BY <2>2
<1>2. CASE ReleaseLease(r)
  <2>0. PICK l \in Locks : lease[r].lock = l
    BY <1>2 DEF ReleaseLease, LeaseInv, MapInv
  <2>1. CASE waiters[l] = <<>>
    <3>1. lease' = [lease EXCEPT ![r] = None]
      BY <1>2, <2>0, <2>1 DEF ReleaseLease
    <3>2. lease'[r].at = "none" /\ \A s \in Runs \ {r} : lease'[s] = lease[s]
      BY <1>0, <3>1
    <3> QED BY <3>2
  <2>2. CASE waiters[l] # <<>>
    <3>1. waiters[l] \in Seq(Runs) /\ LineInv(l) /\ lease[r].at = "holding"
      BY <1>2 DEF LeaseInv, LeasesType, ReleaseLease
    <3>2. PICK h \in Runs : h = Head(waiters[l]) /\ h \in InLine(l)
      BY <2>2, <3>1, NothingIn DEF LineInv
    <3>3. lease' = [lease EXCEPT ![r] = None, ![h] = [at |-> "holding", lock |-> l]]
      BY <1>2, <2>0, <2>2, <3>2 DEF ReleaseLease
    <3>4. lease[h].at = "waiting" /\ h # r
      BY <3>1, <3>2 DEF InLine
    <3>5. /\ lease'[r].at = "none" /\ lease'[h].at = "holding"
          /\ \A s \in Runs \ {r, h} : lease'[s] = lease[s]
      BY <1>0, <3>3, <3>4
    <3> QED BY <3>4, <3>5
  <2> QED BY <2>1, <2>2
<1> QED BY <1>1, <1>2

\* Between turns the records say what memory says.
Told(r) ==
  /\ r \in Waiting => row[r].status = "queued"
  /\ Streaming(r) => row[r].status = "running"
  /\ stream[r] = "over" => row[r].status \in Ended
  /\ stream[r] = "none" /\ r \notin Waiting => row[r].status \in Ended \cup {"none"}
  /\ approval[r] # "none" => stream[r] = "ask"

LEMMA IdleFacts ==
  ASSUME RunInv, Idle
  PROVE  /\ turn = <<>> /\ host \in {"up", "closing"} /\ Known
         /\ \A r \in Runs : /\ RowOK(r) /\ JobOK(r) /\ Told(r)
                            /\ row[r].status \in Broken => row[r].resumable \/ Continued(r)
         /\ Waiting \subseteq Runs /\ AtWork \subseteq Runs
<1>1. turn = <<>> /\ host \in {"up", "closing"} /\ Known
  BY DEF Idle, Known
<1>2. DOMAIN turn = {}
  BY <1>1
<1>3. \A r \in Runs : \A s : Due(r, s) <=> row[r].status = s
  BY <1>2 DEF Due
<1>4. Waiting \subseteq Runs /\ AtWork \subseteq Runs
  BY QueueType DEF RunInv, Typed, Waiting, AtWork
<1>5. ASSUME NEW r \in Runs
      PROVE  /\ RowOK(r) /\ JobOK(r) /\ Told(r)
             /\ row[r].status \in Broken => row[r].resumable \/ Continued(r)
  <2>1. RowOK(r) /\ JobOK(r) /\ StatusOK(r) /\ OfferOK(r)
    BY DEF RunInv
  <2>2. Told(r)
    BY <1>1, <1>3, <2>1 DEF StatusOK, Told
  <2>3. row[r].status \in Broken => row[r].resumable \/ Continued(r)
    BY <1>1, <1>2, <2>1 DEF OfferOK, ToContinue, ToOffer
  <2> QED BY <2>1, <2>2, <2>3
<1> QED BY <1>1, <1>4, <1>5

\* A turn without moves: the records are what they will be.
LEMMA NoMoves ==
  ASSUME NEW r, \A k \in DOMAIN turn' : ~MovesAt(r, k)'
  PROVE  \A s : Due(r, s)' <=> row'[r].status = s
BY DEF Due

LEMMA NoTurn ==
  ASSUME turn' = <<>>
  PROVE  /\ turn' \in Seq(Txs) /\ TurnOK'
         /\ \A r, s : Due(r, s)' <=> row'[r].status = s
<1>1. DOMAIN turn' = {} /\ turn' \in Seq(Txs)
  BY EmptySeq
<1> QED BY <1>1 DEF Due, TurnOK

\* A turn of one transaction.
LEMMA OneTx ==
  ASSUME NEW op \in Ops, NEW r \in Runs, turn' = <<Tx(op, r)>>
  PROVE  /\ turn' \in Seq(Txs) /\ DOMAIN turn' = {1}
         /\ turn'[1].op = op /\ turn'[1].run = r /\ turn'[1].source = NoRun
<1>1. PICK t \in Txs : t = Tx(op, r)
  BY DEF Tx, Txs
<1>2. turn' = <<t>>
  BY <1>1
<1>3. turn' \in Seq(Txs) /\ DOMAIN turn' = {1} /\ turn'[1] = t
  BY <1>2
<1> QED BY <1>1, <1>3 DEF Tx

LEMMA SaveOnly ==
  ASSUME NEW r \in Runs, turn' = <<>> \/ turn' = <<Tx("save", r)>>
  PROVE  /\ turn' \in Seq(Txs) /\ TurnOK'
         /\ \A q, s : Due(q, s)' <=> row'[q].status = s
<1>1. CASE turn' = <<>>
  BY <1>1, NoTurn
<1>2. CASE turn' = <<Tx("save", r)>>
  <2>1. /\ turn' \in Seq(Txs) /\ DOMAIN turn' = {1}
        /\ turn'[1].op = "save" /\ turn'[1].run = r
    BY <1>2, OneTx DEF Ops
  <2>2. TxOK(1)'
    BY <2>1 DEF TxOK, Moves, Ends, Ended, Offers, Broken
  <2>3. \A k, m \in DOMAIN turn' : ~(k < m)
    BY <2>1
  <2>4. TurnOK'
    BY <2>1, <2>2, <2>3 DEF TurnOK
  <2>5. \A q : \A k \in DOMAIN turn' : ~MovesAt(q, k)'
    BY <2>1 DEF MovesAt, Moves, Ended
  <2> QED BY <2>1, <2>4, <2>5 DEF Due
<1> QED BY <1>1, <1>2

\* The stream of a run goes on.
LEMMA Onward ==
  ASSUME RunInv, Idle, NEW r \in Runs, Streaming(r),
         UNCHANGED <<queue, active, subagents, stopped, host, restarts>>,
         cancelled' \subseteq AtWork,
         stream' \in [Runs -> Stages], Streaming(r)', \A q \in Runs \ {r} : stream'[q] = stream[q],
         row' \in [Runs -> Records], \A q \in Runs \ {r} : row'[q] = row[q],
         row'[r].status = row[r].status, row'[r].source = row[r].source,
         row'[r].resumable = row[r].resumable, row'[r].answered = row[r].answered,
         turn' = <<>> \/ turn' = <<Tx("save", r)>>,
         approval' \in [Runs -> {"none", "pending", "approved", "denied"}],
         \A q \in Runs : approval'[q] # "none" => stream'[q] = "ask",
         \A q \in Runs : lease'[q].at # "none" <=> stream'[q] = "tool"
  PROVE  RunInv'
<1>0. /\ turn = <<>> /\ host \in {"up", "closing"}
      /\ \A q \in Runs : /\ RowOK(q) /\ JobOK(q) /\ Told(q)
                         /\ row[q].status \in Broken => row[q].resumable \/ Continued(q)
  BY IdleFacts
<1>1. /\ turn' \in Seq(Txs) /\ TurnOK'
      /\ \A q, s : Due(q, s)' <=> row'[q].status = s
  BY SaveOnly
<1>2. Typed'
  BY <1>1 DEF RunInv, Typed, AtWork
<1>3. \A q \in Runs : Continued(q)' <=> Continued(q)
  BY DEF Continued
<1>4. ASSUME NEW q \in Runs PROVE RowOK(q)'
  <2>1. \A a \in Runs : row'[a].source = row[a].source
    OBVIOUS
  <2>2. CASE q = r
    <3>1. row'[q].status = "running" /\ row[q].status = "running"
      BY <1>0, <2>2 DEF Told
    <3>2. "running" \notin Broken
      BY DEF Broken
    <3> QED BY <1>0, <1>3, <2>1, <2>2, <3>1, <3>2 DEF RowOK
  <2>3. CASE q # r
    BY <1>0, <1>3, <2>1, <2>3 DEF RowOK
  <2> QED BY <2>2, <2>3
<1>5. ASSUME NEW q \in Runs PROVE JobOK(q)'
  <2>1. JobOK(q) /\ Waiting' = Waiting /\ AtWork' = AtWork
    BY <1>0 DEF Waiting, AtWork
  <2>2. stream'[q] # "none" <=> stream[q] # "none"
    BY DEF Streaming
  <2>3. row'[q].answered = row[q].answered /\ (Streaming(q)' <=> Streaming(q))
    BY DEF Streaming
  <2> QED BY <2>1, <2>2, <2>3 DEF JobOK
<1>6. ASSUME NEW q \in Runs PROVE StatusOK(q)'
  <2>1. Told(q) /\ Waiting' = Waiting /\ row'[q].status = row[q].status
    BY <1>0 DEF Waiting
  <2>2. CASE q = r
    <3>1. stream'[q] # "none" /\ stream'[q] # "over" /\ Streaming(q)
      BY <2>2 DEF Streaming
    <3>2. q \notin Waiting
      BY <1>0, <2>2, <3>1 DEF JobOK, Streaming
    <3> QED BY <1>1, <2>1, <3>1, <3>2 DEF StatusOK, Told
  <2>3. CASE q # r
    <3>1. stream'[q] = stream[q] /\ (Streaming(q)' <=> Streaming(q))
      BY <2>3 DEF Streaming
    <3> QED BY <1>1, <2>1, <3>1 DEF StatusOK, Told
  <2> QED BY <2>2, <2>3
<1>7. ASSUME NEW q \in Runs PROVE OfferOK(q)'
  BY <1>0, <1>3 DEF OfferOK
<1>8. PlacesOK'
  BY DEF RunInv, PlacesOK, Waiting
<1> QED BY <1>0, <1>1, <1>2, <1>4, <1>5, <1>6, <1>7, <1>8 DEF RunInv

-----------------------------------------------------------------------------
(* The stream of a run                                                     *)

\* Where the stream goes, and that the lease and the approval go with it.
LEMMA StreamGoes ==
  ASSUME RunInv, NEW r \in Runs, NEW to \in Stages \ {"none", "over"}, Goes(r, to)
  PROVE  /\ stream' \in [Runs -> Stages] /\ stream'[r] = to /\ Streaming(r)'
         /\ \A q \in Runs \ {r} : stream'[q] = stream[q]
<1>1. stream \in [Runs -> Stages]
  BY DEF RunInv, Typed
<1>2. stream' = [stream EXCEPT ![r] = to]
  BY DEF Goes
<1>3. /\ stream' \in [Runs -> Stages] /\ stream'[r] = to
      /\ \A q \in Runs \ {r} : stream'[q] = stream[q]
  BY <1>1, <1>2
<1> QED BY <1>3 DEF Streaming

\* A stream that goes from one wait to another, neither being that for a user
\* or for the end of a tool: records, approvals and leases are left alone.
LEMMA GoesOn ==
  ASSUME RunInv, Idle, NEW r \in Runs, NEW to \in Stages \ {"none", "over", "ask", "tool"},
         stream[r] \in {"work", "call"}, Goes(r, to),
         UNCHANGED <<queue, active, subagents, stopped, host, restarts>>,
         cancelled' \subseteq AtWork, UNCHANGED <<durable, leaseVars>>,
         turn' = <<>> \/ turn' = <<Tx("save", r)>>
  PROVE  RunInv'
<1>0. /\ \A q \in Runs : JobOK(q) /\ Told(q)
      /\ row \in [Runs -> Records] /\ approval \in [Runs -> {"none", "pending", "approved", "denied"}]
  BY IdleFacts DEF RunInv, Typed
<1>1. row' = row /\ approval' = approval /\ lease' = lease
  BY DEF durable, leaseVars
<1>2. /\ stream' \in [Runs -> Stages] /\ stream'[r] = to /\ Streaming(r)'
      /\ \A q \in Runs \ {r} : stream'[q] = stream[q]
  BY StreamGoes
<1>3. Streaming(r)
  BY DEF Streaming
<1>4. \A q \in Runs : approval'[q] # "none" => stream'[q] = "ask"
  BY <1>0, <1>1, <1>2 DEF Told
<1>5. \A q \in Runs : lease'[q].at # "none" <=> stream'[q] = "tool"
  BY <1>0, <1>1, <1>2 DEF JobOK
<1> QED BY <1>0, <1>1, <1>2, <1>3, <1>4, <1>5, Onward

LEMMA SaysStep ==
  ASSUME RunInv, NEW r \in Runs, Says(r)
  PROVE  RunInv'
<1>0. /\ Idle /\ stream[r] = "work" /\ row' = [row EXCEPT ![r] = Text(@)]
      /\ UNCHANGED <<approval, turn, jobs, host, restarts, leaseVars>>
  BY DEF Says, Working
<1>1. /\ \A q \in Runs : JobOK(q) /\ Told(q)
      /\ turn = <<>> /\ row \in [Runs -> Records] /\ stream \in [Runs -> Stages]
      /\ approval \in [Runs -> {"none", "pending", "approved", "denied"}]
      /\ cancelled \subseteq AtWork
  BY <1>0, IdleFacts DEF RunInv, Typed
<1>2. /\ approval' = approval /\ lease' = lease /\ turn' = <<>> /\ stream' = stream
      /\ UNCHANGED <<queue, active, subagents, stopped, host, restarts>> /\ cancelled' = cancelled
  BY <1>0, <1>1 DEF jobs, leaseVars
<1>3. /\ row' \in [Runs -> Records] /\ \A q \in Runs \ {r} : row'[q] = row[q]
      /\ row'[r].status = row[r].status /\ row'[r].source = row[r].source
      /\ row'[r].resumable = row[r].resumable /\ row'[r].answered = row[r].answered
  <2>1. PICK x \in Records : x = row[r]
    BY <1>1
  <2>2. PICK b \in BOOLEAN : b = (x.parent = NoRun)
    OBVIOUS
  <2>3. row' = [row EXCEPT ![r] = [x EXCEPT !.unsaved = b]]
    BY <1>0, <2>1, <2>2 DEF Text
  <2>4. PICK y : y = [x EXCEPT !.unsaved = b]
    OBVIOUS
  <2>5. /\ y \in Records /\ y.status = x.status /\ y.source = x.source
        /\ y.resumable = x.resumable /\ y.answered = x.answered
    BY <2>4 DEF Records
  <2>6. row' \in [Runs -> Records] /\ row'[r] = y /\ \A q \in Runs \ {r} : row'[q] = row[q]
    BY <1>1, <2>3, <2>4, <2>5
  <2> QED BY <2>1, <2>5, <2>6
<1>4. Streaming(r) /\ Streaming(r)'
  BY <1>0, <1>2 DEF Streaming
<1>5. \A q \in Runs : /\ approval'[q] # "none" => stream'[q] = "ask"
                      /\ lease'[q].at # "none" <=> stream'[q] = "tool"
  BY <1>1, <1>2 DEF JobOK, Told
<1> QED BY <1>0, <1>1, <1>2, <1>3, <1>4, <1>5, Onward

LEMMA CancelledStay ==
  ASSUME RunInv, NEW r, MayStopChildren(r)
  PROVE  cancelled' \subseteq AtWork
<1>1. cancelled \subseteq AtWork
  BY DEF RunInv, Typed
<1>2. ChildrenOf(r) \subseteq AtWork
  BY DEF ChildrenOf, AtWork
<1> QED BY <1>1, <1>2 DEF MayStopChildren

\* Text, the beginning and the refusal of a call, the end of a stream.
LEMMA TalkStep ==
  ASSUME RunInv, NEW r \in Runs, CallsTool(r) \/ EndsCall(r) \/ Answers(r) \/ Breaks(r)
  PROVE  RunInv'
<1>0. Idle /\ stream[r] \in {"work", "call"} /\ UNCHANGED <<durable, leaseVars>>
  BY DEF CallsTool, EndsCall, Answers, Breaks, Working
<1>1. cancelled \subseteq AtWork /\ turn = <<>>
  BY <1>0, IdleFacts DEF RunInv, Typed
<1>2. UNCHANGED <<queue, active, subagents, stopped, host, restarts>> /\ cancelled' \subseteq AtWork
  <2>1. CASE Breaks(r)
    BY <2>1, CancelledStay DEF Breaks, Unflagged
  <2>2. CASE CallsTool(r) \/ EndsCall(r) \/ Answers(r)
    BY <1>1, <2>2 DEF CallsTool, EndsCall, Answers, OnlyStream
  <2> QED BY <2>1, <2>2
<1>3. turn' = <<>> \/ turn' = <<Tx("save", r)>>
  BY <1>1 DEF CallsTool, EndsCall, Answers, Breaks, Flush
<1>4. \E to \in Stages \ {"none", "over", "ask", "tool"} : Goes(r, to)
  BY DEF CallsTool, EndsCall, Answers, Breaks, Stages
<1> QED BY <1>0, <1>2, <1>3, <1>4, GoesOn

\* A stream that takes or gives back an approval or a lease.
LEMMA CallStep ==
  ASSUME RunInv, LeaseInv, NEW r \in Runs,
         AsksUser(r) \/ SeesDecision(r) \/ TakesLease(r) \/ EndsTool(r) \/ Aborts(r)
  PROVE  RunInv'
<1> DEFINE Decisions == {"none", "pending", "approved", "denied"}
<1>0. Idle /\ row' = row /\ turn' = turn
  BY DEF AsksUser, SeesDecision, TakesLease, EndsTool, Aborts, Working, durable
<1>1. /\ \A q \in Runs : JobOK(q) /\ Told(q)
      /\ turn = <<>> /\ row \in [Runs -> Records] /\ cancelled \subseteq AtWork
      /\ approval \in [Runs -> Decisions]
  BY <1>0, IdleFacts DEF RunInv, Typed
<1>2. UNCHANGED <<queue, active, subagents, stopped, host, restarts>> /\ cancelled' \subseteq AtWork
  <2>1. CASE Aborts(r)
    BY <2>1, CancelledStay DEF Aborts, Unflagged
  <2>2. CASE AsksUser(r) \/ SeesDecision(r) \/ TakesLease(r) \/ EndsTool(r)
    BY <1>1, <2>2 DEF AsksUser, SeesDecision, TakesLease, EndsTool, OnlyStream
  <2> QED BY <2>1, <2>2
<1>3. stream[r] \in {"work", "call", "ask", "tool"} /\ Streaming(r)
  BY DEF AsksUser, SeesDecision, TakesLease, EndsTool, Aborts, Working, Streaming
<1>4. ASSUME NEW to \in Stages \ {"none", "over"}, Goes(r, to),
             approval' \in [Runs -> Decisions],
             \A q \in Runs \ {r} : approval'[q] = approval[q],
             approval'[r] # "none" => to = "ask",
             \A q \in Runs \ {r} : lease'[q].at # "none" <=> lease[q].at # "none",
             lease'[r].at # "none" <=> to = "tool"
      PROVE  RunInv'
  <2>1. /\ stream' \in [Runs -> Stages] /\ stream'[r] = to /\ Streaming(r)'
        /\ \A q \in Runs \ {r} : stream'[q] = stream[q]
    BY <1>4, StreamGoes
  <2>2. \A q \in Runs : approval'[q] # "none" => stream'[q] = "ask"
    BY <1>1, <1>4, <2>1 DEF Told
  <2>3. \A q \in Runs : lease'[q].at # "none" <=> stream'[q] = "tool"
    BY <1>1, <1>4, <2>1 DEF JobOK
  <2>4. turn' = <<>> /\ row' \in [Runs -> Records]
    BY <1>0, <1>1
  <2> QED BY <1>0, <1>2, <1>3, <1>4, <2>1, <2>2, <2>3, <2>4, Onward
<1>5. lease[r].at # "none" <=> stream[r] = "tool"
  BY <1>1 DEF JobOK
<1>6. approval[r] # "none" => stream[r] = "ask"
  BY <1>1 DEF Told
<1>7. {"ask", "tool", "work", "aborted"} \subseteq Stages \ {"none", "over"}
  BY DEF Stages
<1>8. CASE AsksUser(r)
  <2>1. /\ Goes(r, "ask") /\ approval' = [approval EXCEPT ![r] = "pending"] /\ lease' = lease
        /\ stream[r] = "call"
    BY <1>8 DEF AsksUser, leaseVars, Working
  <2>2. /\ approval' \in [Runs -> Decisions] /\ \A q \in Runs \ {r} : approval'[q] = approval[q]
    BY <1>1, <2>1
  <2>3. lease'[r].at = "none"
    BY <1>5, <2>1
  <2> QED BY <1>4, <1>7, <2>1, <2>2, <2>3
<1>9. CASE SeesDecision(r)
  <2>1. approval' = [approval EXCEPT ![r] = "none"] /\ stream[r] = "ask"
    BY <1>9 DEF SeesDecision, Working
  <2>2. /\ approval' \in [Runs -> Decisions] /\ \A q \in Runs \ {r} : approval'[q] = approval[q]
        /\ approval'[r] = "none"
    BY <1>1, <2>1
  <2>3. CASE approval[r] = "approved"
    <3>1. Goes(r, "tool") /\ AcquireLease(r)
      BY <1>9, <2>3 DEF SeesDecision
    <3>2. \A q \in Runs : lease'[q].at # "none" <=> q = r \/ lease[q].at # "none"
      BY <3>1, LeaseAcquired
    <3> QED BY <1>4, <1>7, <2>2, <3>1, <3>2
  <2>4. CASE approval[r] # "approved"
    <3>1. Goes(r, "work") /\ lease' = lease
      BY <1>9, <2>4 DEF SeesDecision, leaseVars
    <3>2. lease'[r].at = "none"
      BY <1>5, <2>1, <3>1
    <3> QED BY <1>4, <1>7, <2>2, <3>1, <3>2
  <2> QED BY <2>3, <2>4
<1>10. CASE TakesLease(r)
  <2>1. Goes(r, "tool") /\ AcquireLease(r) /\ approval' = approval /\ stream[r] = "call"
    BY <1>10 DEF TakesLease, durable, Working
  <2>2. approval'[r] = "none" /\ approval' \in [Runs -> Decisions]
    BY <1>1, <1>6, <2>1
  <2>3. \A q \in Runs : lease'[q].at # "none" <=> q = r \/ lease[q].at # "none"
    BY <2>1, LeaseAcquired
  <2> QED BY <1>4, <1>7, <2>1, <2>2, <2>3
<1>11. CASE EndsTool(r)
  <2>1. Goes(r, "work") /\ ReleaseLease(r) /\ approval' = approval /\ stream[r] = "tool"
    BY <1>11 DEF EndsTool, durable, Working
  <2>2. approval'[r] = "none" /\ approval' \in [Runs -> Decisions]
    BY <1>1, <1>6, <2>1
  <2>3. \A q \in Runs : lease'[q].at # "none" <=> q # r /\ lease[q].at # "none"
    BY <2>1, LeaseGivenBack
  <2> QED BY <1>4, <1>7, <2>1, <2>2, <2>3
<1>12. CASE Aborts(r)
  <2>1. /\ Goes(r, "aborted") /\ approval' = [approval EXCEPT ![r] = "none"]
        /\ \/ lease[r].at = "none" /\ lease' = lease
           \/ AbandonLease(r) \/ ReleaseLease(r)
    BY <1>12 DEF Aborts, leaseVars
  <2>2. /\ approval' \in [Runs -> Decisions] /\ \A q \in Runs \ {r} : approval'[q] = approval[q]
        /\ approval'[r] = "none"
    BY <1>1, <2>1
  <2>3. /\ \A q \in Runs \ {r} : lease'[q].at # "none" <=> lease[q].at # "none"
        /\ lease'[r].at = "none"
    <3>1. CASE lease[r].at = "none" /\ lease' = lease
      BY <3>1
    <3>2. CASE AbandonLease(r) \/ ReleaseLease(r)
      <4>1. \A q \in Runs : lease'[q].at # "none" <=> q # r /\ lease[q].at # "none"
        BY <3>2, LeaseGivenBack
      <4> QED BY <4>1
    <3> QED BY <2>1, <3>1, <3>2
  <2> QED BY <1>4, <1>7, <2>1, <2>2, <2>3
<1> QED BY <1>8, <1>9, <1>10, <1>11, <1>12

\* The user decides.
LEMMA DecidesStep ==
  ASSUME RunInv, NEW r \in Runs, NEW d \in {"approved", "denied"}, Decides(r, d)
  PROVE  RunInv'
<1>0. /\ Idle /\ approval[r] = "pending" /\ approval' = [approval EXCEPT ![r] = d]
      /\ UNCHANGED <<row, turn, jobs, host, restarts, leaseVars>>
  BY DEF Decides
<1>1. /\ \A q \in Runs : JobOK(q) /\ Told(q)
      /\ turn = <<>> /\ row \in [Runs -> Records] /\ stream \in [Runs -> Stages]
      /\ approval \in [Runs -> {"none", "pending", "approved", "denied"}]
      /\ cancelled \subseteq AtWork
  BY <1>0, IdleFacts DEF RunInv, Typed
<1>2. /\ row' = row /\ lease' = lease /\ turn' = <<>> /\ stream' = stream
      /\ UNCHANGED <<queue, active, subagents, stopped, host, restarts>> /\ cancelled' = cancelled
  BY <1>0, <1>1 DEF jobs, leaseVars
<1>3. stream[r] = "ask" /\ Streaming(r) /\ Streaming(r)'
  BY <1>0, <1>1, <1>2 DEF Told, Streaming
<1>4. /\ approval' \in [Runs -> {"none", "pending", "approved", "denied"}]
      /\ \A q \in Runs \ {r} : approval'[q] = approval[q]
  BY <1>0, <1>1
<1>5. \A q \in Runs : /\ approval'[q] # "none" => stream'[q] = "ask"
                      /\ lease'[q].at # "none" <=> stream'[q] = "tool"
  BY <1>1, <1>2, <1>3, <1>4 DEF JobOK, Told
<1> QED BY <1>0, <1>1, <1>2, <1>3, <1>4, <1>5, Onward

-----------------------------------------------------------------------------
(* The pump                                                                *)

PumpShape(before, q, busy, streams, begun, unlucky, w) ==
  /\ QueueInv(queue') /\ Fair!Queued(queue') = Fair!Queued(q) \ begun
  /\ active' = busy \cup begun /\ Room(active')
  /\ stream' \in [Runs -> Stages]
  /\ \A r \in Runs : stream'[r] = IF r \in unlucky THEN "over"
                                  ELSE IF r \in begun THEN "work" ELSE streams[r]
  /\ turn' = before \o w /\ Starts(w, begun, unlucky)
  /\ host # "up" => begun = {}
  /\ host = "up" /\ Cardinality(active') < MaxConcurrent =>
       \A r \in Fair!Queued(queue') : r \notin Admissible(active')

LEMMA PumpEffect ==
  ASSUME NEW q, QueueInv(q), NEW busy \in SUBSET Runs, Room(busy),
         Fair!Queued(q) \subseteq Runs \ busy,
         NEW before, NEW streams \in [Runs -> Stages],
         Pump(before, q, busy, streams)
  PROVE  \E begun \in SUBSET Fair!Queued(q) : \E unlucky \in SUBSET begun : \E w \in Seq(Txs) :
           PumpShape(before, q, busy, streams, begun, unlucky, w)
<1>1. PICK unlucky \in SUBSET Fair!Queued(q) :
        LET p == IF host = "up" THEN Pumped(q, busy, unlucky)
                 ELSE [queue |-> q, active |-> busy, writes |-> <<>>, begun |-> {}]
        IN /\ unlucky \subseteq p.begun
           /\ queue' = p.queue /\ active' = p.active
           /\ stream' = [r \in Runs |-> IF r \in unlucky THEN "over"
                                        ELSE IF r \in p.begun THEN "work" ELSE streams[r]]
           /\ turn' = before \o p.writes
  BY DEF Pump
<1>2. PICK p : p = IF host = "up" THEN Pumped(q, busy, unlucky)
                   ELSE [queue |-> q, active |-> busy, writes |-> <<>>, begun |-> {}]
  OBVIOUS
<1>3. /\ unlucky \subseteq p.begun /\ queue' = p.queue /\ active' = p.active
      /\ stream' = [r \in Runs |-> IF r \in unlucky THEN "over"
                                   ELSE IF r \in p.begun THEN "work" ELSE streams[r]]
      /\ turn' = before \o p.writes
  BY <1>1, <1>2
<1>4. PumpInv(p, q, busy, unlucky)
  <2>1. CASE host = "up"
    BY <1>2, <2>1, PumpedEffect
  <2>2. CASE host # "up"
    <3>1. p.queue = q /\ p.active = busy /\ p.writes = <<>> /\ p.begun = {}
      BY <1>2, <2>2
    <3>2. <<>> \in Seq(Txs) /\ DOMAIN <<>> = {}
      OBVIOUS
    <3>3. Starts(p.writes, {}, unlucky)
      BY <3>1, <3>2 DEF Starts
    <3> QED BY <3>1, <3>3 DEF PumpInv
  <2> QED BY <2>1, <2>2
<1>5. host = "up" /\ Cardinality(p.active) < MaxConcurrent =>
        \A r \in Fair!Queued(p.queue) : r \notin Admissible(p.active)
  BY <1>2, PumpedEffect
<1>6. host # "up" => p.begun = {}
  BY <1>2
<1>7. PICK begun \in SUBSET Fair!Queued(q) : begun = p.begun
  BY <1>4 DEF PumpInv
<1>8. PICK w \in Seq(Txs) : w = p.writes
  BY <1>4 DEF PumpInv, Starts
<1>9. stream' \in [Runs -> Stages]
  BY <1>3 DEF Stages
<1>10. \A r \in Runs : stream'[r] = IF r \in unlucky THEN "over"
                                    ELSE IF r \in begun THEN "work" ELSE streams[r]
  BY <1>3, <1>7
<1>11. /\ QueueInv(queue') /\ Fair!Queued(queue') = Fair!Queued(q) \ begun
       /\ active' = busy \cup begun /\ Room(active') /\ Starts(w, begun, unlucky)
  BY <1>3, <1>4, <1>7, <1>8 DEF PumpInv
<1>12. PumpShape(before, q, busy, streams, begun, unlucky, w)
  BY <1>3, <1>5, <1>6, <1>7, <1>8, <1>9, <1>10, <1>11 DEF PumpShape
<1> QED BY <1>3, <1>7, <1>12

\* The transactions of a turn that may create run r and ends with a pump.
Writes(creates, r, s, begun, unlucky) ==
  /\ turn' \in Seq(Txs)
  /\ creates => 1 \in DOMAIN turn' /\ turn'[1] = Create(r, s)
  /\ \A k \in DOMAIN turn' :
       \/ creates /\ k = 1
       \/ turn'[k].run \in begun /\ turn'[k].op = IF turn'[k].run \in unlucky THEN "failed" ELSE "started"
  /\ \A k, m \in DOMAIN turn' :
       turn'[k].run = turn'[m].run => k = m \/ (creates /\ (k = 1 \/ m = 1))
  /\ \A q \in begun : \E k \in DOMAIN turn' : turn'[k].run = q /\ ~(creates /\ k = 1)
  /\ \A k \in DOMAIN turn' : k >= 1

LEMMA PumpWrites ==
  ASSUME NEW begun, NEW unlucky, NEW w \in Seq(Txs), Starts(w, begun, unlucky),
         NEW creates \in BOOLEAN, NEW r \in Runs, NEW s \in Runs \cup {NoRun},
         turn' = (IF creates THEN <<Create(r, s)>> ELSE <<>>) \o w
  PROVE  Writes(creates, r, s, begun, unlucky)
<1>1. PICK n \in Nat : n = Len(w) /\ DOMAIN w = 1..n
  BY LenProperties
<1>2. /\ \A k \in 1..n : /\ w[k].run \in begun
                         /\ w[k].op = IF w[k].run \in unlucky THEN "failed" ELSE "started"
      /\ \A k, m \in 1..n : w[k].run = w[m].run => k = m
      /\ \A q \in begun : \E k \in 1..n : w[k].run = q
  BY <1>1 DEF Starts
<1>3. CASE ~creates
  <2>1. turn' = w
    <3>1. <<>> \o w = w
      OBVIOUS
    <3> QED BY <1>3, <3>1
  <2> QED BY <1>1, <1>2, <1>3, <2>1 DEF Writes
<1>4. CASE creates
  <2>1. PICK c \in Txs : c = Create(r, s)
    BY DEF Create, Txs, Ops, Moves
  <2>2. <<c>> \in Seq(Txs) /\ Len(<<c>>) = 1 /\ <<c>>[1] = c
    OBVIOUS
  <2>3. turn' = <<c>> \o w
    BY <1>4, <2>1
  <2>4. /\ turn' \in Seq(Txs) /\ Len(turn') = 1 + n
        /\ \A k \in 1..1 + n : turn'[k] = IF k <= 1 THEN <<c>>[k] ELSE w[k - 1]
    BY <1>1, <2>2, <2>3, ConcatProperties
  <2>5. DOMAIN turn' = 1..1 + n /\ 1 \in 1..1 + n
    BY <1>1, <2>4, LenProperties
  <2>6. turn'[1] = c
    BY <2>2, <2>4, <2>5
  <2>7. \A k \in 1..1 + n : k # 1 => k - 1 \in 1..n /\ turn'[k] = w[k - 1]
    BY <1>1, <2>4
  <2>8. \A k \in 1..n : k + 1 \in 1..1 + n /\ k + 1 # 1 /\ turn'[k + 1] = w[k]
    <3>1. \A k \in 1..n : k + 1 \in 1..1 + n /\ k + 1 # 1 /\ (k + 1) - 1 = k
      BY <1>1
    <3> QED BY <2>7, <3>1
  <2>9. ASSUME NEW k \in 1..1 + n, k # 1
        PROVE  turn'[k].run \in begun /\ turn'[k].op = IF turn'[k].run \in unlucky THEN "failed" ELSE "started"
    <3>1. PICK i \in 1..n : turn'[k] = w[i]
      BY <2>7, <2>9
    <3>2. /\ w[i].run \in begun
          /\ w[i].op = IF w[i].run \in unlucky THEN "failed" ELSE "started"
      BY <1>2
    <3> QED BY <3>1, <3>2, Zenon
  <2>10. ASSUME NEW k \in 1..1 + n, NEW m \in 1..1 + n, turn'[k].run = turn'[m].run, k # 1, m # 1
         PROVE  k = m
    <3>1. PICK i \in 1..n : turn'[k] = w[i] /\ i = k - 1
      BY <2>7, <2>10
    <3>2. PICK j \in 1..n : turn'[m] = w[j] /\ j = m - 1
      BY <2>7, <2>10
    <3>3. w[i].run = w[j].run
      BY <2>10, <3>1, <3>2
    <3>4. i = j
      BY <1>2, <3>3
    <3> QED BY <3>1, <3>2, <3>4
  <2>11. ASSUME NEW q \in begun PROVE \E k \in 1..1 + n : turn'[k].run = q /\ k # 1
    <3>1. PICK i \in 1..n : w[i].run = q
      BY <1>2
    <3> QED BY <2>8, <3>1
  <2>12. \A k \in 1..1 + n : k >= 1
    OBVIOUS
  <2> QED BY <1>4, <2>1, <2>4, <2>5, <2>6, <2>9, <2>10, <2>11, <2>12 DEF Writes
<1> QED BY <1>3, <1>4

\* That turn fits the records, and what it makes of the runs in it.
LEMMA WritesFit ==
  ASSUME NEW creates \in BOOLEAN, NEW r \in Runs, NEW s \in Runs \cup {NoRun},
         NEW begun \in SUBSET Runs, NEW unlucky, Writes(creates, r, s, begun, unlucky),
         \A q \in begun : RowOK(q)' /\ row'[q].status \in {"none", "queued"},
         creates => row'[r].status = "none" /\ ~row'[r].answered /\ ~row'[r].unsaved,
         creates /\ s \in Runs => /\ row'[s].status \in Broken
                                  /\ ~row'[s].resumable /\ ~Continued(s)'
  PROVE  /\ turn' \in Seq(Txs) /\ TurnOK'
         /\ \A q \in begun : Due(q, IF q \in unlucky THEN "failed" ELSE "running")'
         /\ creates /\ r \notin begun => Due(r, "queued")'
         /\ \A q : q \notin begun /\ ~(creates /\ q = r) =>
              \A x : Due(q, x)' <=> row'[q].status = x
         /\ creates => ToContinue(s)'
<1> DEFINE W(k) == /\ turn'[k].run \in begun
                   /\ turn'[k].op = IF turn'[k].run \in unlucky THEN "failed" ELSE "started"
<1>1. /\ turn' \in Seq(Txs)
      /\ creates => 1 \in DOMAIN turn' /\ turn'[1] = Create(r, s)
      /\ \A k \in DOMAIN turn' : (creates /\ k = 1) \/ W(k)
      /\ \A k, m \in DOMAIN turn' :
           turn'[k].run = turn'[m].run => k = m \/ (creates /\ (k = 1 \/ m = 1))
      /\ \A q \in begun : \E k \in DOMAIN turn' : turn'[k].run = q /\ ~(creates /\ k = 1)
      /\ DOMAIN turn' \subseteq Nat /\ \A k \in DOMAIN turn' : k >= 1
  <2>1. turn' \in Seq(Txs) /\ DOMAIN turn' \subseteq Nat
    <3>1. turn' \in Seq(Txs)
      BY DEF Writes
    <3> QED BY <3>1, LenProperties
  <2> QED BY <2>1 DEF Writes
<1>2. creates => turn'[1].op = "create" /\ turn'[1].run = r /\ turn'[1].source = s
  BY <1>1 DEF Create
<1>3. \A k \in DOMAIN turn' : W(k) => /\ turn'[k].op \in {"failed", "started"}
                                      /\ turn'[k].run \in begun
                                      /\ turn'[k].op \in Moves
                                      /\ Sets(turn'[k].op) = IF turn'[k].run \in unlucky THEN "failed" ELSE "running"
  BY DEF Moves, Ended, Sets
<1>4. ASSUME NEW k \in DOMAIN turn' PROVE TxOK(k)'
  <2>1. CASE creates /\ k = 1
    <3>1. turn'[k].op = "create" /\ turn'[k].run = r /\ turn'[k].source = s
      BY <1>2, <2>1
    <3>2. "create" \notin Ends /\ "create" \notin Offers
      BY DEF Ends, Ended, Offers, Broken
    <3>3. row'[r].status = "none" /\ row'[r].status \notin Ended
      BY <2>1 DEF Ended
    <3>4. ~row'[r].answered
      BY <2>1
    <3> QED BY <2>1, <3>1, <3>2, <3>3, <3>4 DEF TxOK
  <2>2. CASE W(k)
    <3>1. PICK q \in begun : q = turn'[k].run
      BY <2>2
    <3>2. turn'[k].op \in {"failed", "started"}
      BY <2>2
    <3>3. /\ row'[q].status \notin Ended /\ row'[q].status \notin Broken /\ ~row'[q].answered /\ ~row'[q].unsaved
          /\ ~Continued(q)'
      BY DEF RowOK, Ended, Broken
    <3>4. ~ToContinue(q)'
      <4> SUFFICES ASSUME NEW m \in DOMAIN turn', turn'[m].op = "create", turn'[m].source = q PROVE FALSE
        BY DEF ToContinue
      <4>1. creates /\ m = 1
        BY <1>1, <1>3
      <4>2. s = q
        BY <1>2, <4>1
      <4> QED BY <3>3, <4>1, <4>2
    <3> QED BY <3>1, <3>2, <3>3, <3>4 DEF TxOK
  <2> QED BY <1>1, <2>1, <2>2
<1>5. ASSUME NEW k \in DOMAIN turn', NEW m \in DOMAIN turn', k < m PROVE PairOK(k, m)'
  <2>1. CASE creates /\ k = 1
    <3>1. turn'[k].op = "create"
      BY <1>2, <2>1
    <3>2. "create" \notin Ends
      BY DEF Ends, Ended
    <3> QED BY <3>1, <3>2 DEF PairOK
  <2>2. CASE ~(creates /\ k = 1)
    <3>1. k # m /\ ~(creates /\ m = 1)
      BY <1>1, <1>5
    <3>2. turn'[k].run # turn'[m].run
      BY <1>1, <2>2, <3>1
    <3> QED BY <3>2 DEF PairOK
  <2> QED BY <2>1, <2>2
<1>6. ASSUME NEW q \in begun PROVE Due(q, IF q \in unlucky THEN "failed" ELSE "running")'
  <2>1. PICK k \in DOMAIN turn' : turn'[k].run = q /\ ~(creates /\ k = 1)
    BY <1>1
  <2>2. W(k)
    BY <1>1, <2>1
  <2>3. MovesAt(q, k)' /\ Sets(turn'[k].op) = IF q \in unlucky THEN "failed" ELSE "running"
    BY <1>3, <2>1, <2>2 DEF MovesAt
  <2>4. ASSUME NEW m \in DOMAIN turn', m > k, MovesAt(q, m)' PROVE FALSE
    <3>1. turn'[m].run = turn'[k].run /\ m # k /\ ~(creates /\ m = 1)
      BY <1>1, <2>1, <2>4 DEF MovesAt
    <3> QED BY <1>1, <2>1, <3>1
  <2> QED BY <2>3, <2>4 DEF Due
<1>7. ASSUME creates, r \notin begun PROVE Due(r, "queued")'
  <2>1. 1 \in DOMAIN turn' /\ MovesAt(r, 1)' /\ Sets(turn'[1].op) = "queued"
    BY <1>1, <1>2, <1>7 DEF MovesAt, Moves, Sets
  <2>2. \A m \in DOMAIN turn' : m # 1 => ~MovesAt(r, m)'
    BY <1>1, <1>7 DEF MovesAt
  <2>3. \A m \in DOMAIN turn' : m > 1 => m # 1
    BY <1>1
  <2> QED BY <2>1, <2>2, <2>3 DEF Due
<1>8. ASSUME NEW q, q \notin begun, ~(creates /\ q = r) PROVE \A x : Due(q, x)' <=> row'[q].status = x
  <2>1. \A k \in DOMAIN turn' : ~MovesAt(q, k)'
    BY <1>1, <1>2, <1>8 DEF MovesAt
  <2> QED BY <2>1 DEF Due
<1>9. creates => ToContinue(s)'
  BY <1>1, <1>2 DEF ToContinue
<1> QED BY <1>1, <1>4, <1>5, <1>6, <1>7, <1>8, <1>9 DEF TurnOK

-----------------------------------------------------------------------------
(* Turns that end with the pump                                            *)

\* A run that is new is nowhere.
LEMMA NewRun ==
  ASSUME RunInv, Idle, NEW r \in Runs, New(r)
  PROVE  /\ row[r] = NoRow /\ r \notin Waiting /\ r \notin AtWork /\ stream[r] = "none"
         /\ approval[r] = "none" /\ lease[r].at = "none" /\ ~Continued(r)
<1>1. row[r].status = "none" /\ r \notin Waiting /\ RowOK(r) /\ JobOK(r) /\ Told(r)
  BY IdleFacts DEF New, Waiting
<1>2. "none" # "running" /\ "none" \notin Ended /\ "none" \notin Broken
  BY DEF Ended, Broken
<1>3. stream[r] = "none"
  BY <1>1, <1>2 DEF Told, Streaming
<1>4. approval[r] = "none" /\ lease[r].at = "none" /\ r \notin AtWork
  BY <1>1, <1>3 DEF Told, JobOK
<1> QED BY <1>1, <1>2, <1>3, <1>4 DEF RowOK

\* A turn of the coordinator that may create run r, a continuation of s or of
\* nothing, that takes back the places of those whose streams are over, and that
\* ends with the pump.
PumpTurn(creates, r, s, q, busy, streams) ==
  /\ creates \in BOOLEAN /\ r \in Runs /\ s \in Runs \cup {NoRun}
  /\ QueueInv(q) /\ Fair!Queued(q) = Waiting \cup (IF creates THEN {r} ELSE {})
  /\ busy \subseteq active /\ Room(busy)
  /\ \A x \in active \ busy : stream[x] = "over"
  /\ streams \in [Runs -> Stages]
  /\ \A x \in Runs : streams[x] = IF x \in active \ busy THEN "none" ELSE stream[x]
  /\ Pump(IF creates THEN <<Create(r, s)>> ELSE <<>>, q, busy, streams)
  /\ UNCHANGED <<subagents, approval, host, restarts, lease>>
  /\ cancelled' \subseteq busy \cup subagents /\ stopped' \subseteq busy \cup subagents
  /\ row' \in [Runs -> Records]
  /\ \A x \in Runs : /\ RowOK(x)' /\ row'[x].status = row[x].status
                     /\ row'[x].answered = row[x].answered
                     /\ row'[x].status \in Broken =>
                          row'[x].resumable \/ Continued(x)' \/ (creates /\ x = s)
  /\ creates => host = "up" /\ New(r)
  /\ creates /\ s \in Runs => /\ row'[s].status \in Broken
                              /\ ~row'[s].resumable /\ ~Continued(s)'

LEMMA Pumping ==
  ASSUME RunInv, Idle, NEW creates, NEW r, NEW s, NEW q, NEW busy, NEW streams,
         PumpTurn(creates, r, s, q, busy, streams)
  PROVE  RunInv'
<1> USE DEF PumpTurn
<1>0. /\ turn = <<>> /\ host \in {"up", "closing"}
      /\ \A x \in Runs : RowOK(x) /\ JobOK(x) /\ Told(x)
      /\ Waiting \subseteq Runs /\ AtWork \subseteq Runs
  BY IdleFacts
<1>1. creates => /\ row[r] = NoRow /\ r \notin Waiting /\ r \notin AtWork /\ stream[r] = "none"
                 /\ approval[r] = "none" /\ lease[r].at = "none"
  BY NewRun
<1>2. busy \in SUBSET Runs /\ Fair!Queued(q) \subseteq Runs \ busy
  BY <1>0, <1>1 DEF JobOK, AtWork
<1> DEFINE before == IF creates THEN <<Create(r, s)>> ELSE <<>>
<1>a. PICK begun \in SUBSET Fair!Queued(q) : \E unlucky \in SUBSET begun : \E w \in Seq(Txs) :
        PumpShape(before, q, busy, streams, begun, unlucky, w)
  BY <1>2, PumpEffect
<1>b. PICK unlucky \in SUBSET begun : \E w \in Seq(Txs) :
        PumpShape(before, q, busy, streams, begun, unlucky, w)
  BY <1>a
<1>3. PICK w \in Seq(Txs) : PumpShape(before, q, busy, streams, begun, unlucky, w)
  BY <1>b
<1>4. /\ QueueInv(queue') /\ Waiting' = Fair!Queued(q) \ begun
      /\ active' = busy \cup begun /\ Room(active')
      /\ stream' \in [Runs -> Stages]
      /\ \A x \in Runs : stream'[x] = IF x \in unlucky THEN "over"
                                      ELSE IF x \in begun THEN "work" ELSE streams[x]
      /\ turn' = before \o w /\ Starts(w, begun, unlucky)
      /\ host # "up" => begun = {}
      /\ host = "up" /\ Cardinality(active') < MaxConcurrent =>
           \A x \in Waiting' : x \notin Admissible(active')
  BY <1>3 DEF PumpShape, Waiting
<1>5. Writes(creates, r, s, begun, unlucky)
  BY <1>4, PumpWrites
<1>6. begun \in SUBSET Runs
  BY <1>2
<1>7. \A x \in Fair!Queued(q) : /\ row'[x].status \in {"none", "queued"} /\ stream[x] = "none"
                                /\ x \notin AtWork /\ ~row'[x].answered
                                /\ approval[x] = "none" /\ lease[x].at = "none"
  <2> SUFFICES ASSUME NEW x \in Fair!Queued(q)
               PROVE  /\ row'[x].status \in {"none", "queued"} /\ stream[x] = "none"
                      /\ x \notin AtWork /\ ~row'[x].answered
                      /\ approval[x] = "none" /\ lease[x].at = "none"
    OBVIOUS
  <2>0. x \in Runs
    BY <1>2
  <2>1. CASE x \in Waiting
    <3>1. x \notin AtWork /\ stream[x] = "none" /\ row[x].status = "queued"
      BY <1>0, <2>0, <2>1 DEF JobOK, Told
    <3> QED BY <1>0, <2>0, <3>1 DEF RowOK, JobOK, Told
  <2>2. CASE x \notin Waiting
    <3>1. creates /\ x = r
      BY <2>2
    <3> QED BY <1>1, <3>1 DEF NoRow
  <2> QED BY <2>1, <2>2
<1>8. creates => row'[r].status = "none" /\ ~row'[r].answered /\ ~row'[r].unsaved
  <2> SUFFICES ASSUME creates PROVE row'[r].status = "none" /\ ~row'[r].answered /\ ~row'[r].unsaved
    OBVIOUS
  <2>1. row'[r].status = "none" /\ ~row'[r].answered
    BY <1>1 DEF NoRow
  <2> QED BY <2>1 DEF RowOK
<1>9. /\ turn' \in Seq(Txs) /\ TurnOK'
      /\ \A x \in begun : Due(x, IF x \in unlucky THEN "failed" ELSE "running")'
      /\ creates /\ r \notin begun => Due(r, "queued")'
      /\ \A x : x \notin begun /\ ~(creates /\ x = r) =>
           \A y : Due(x, y)' <=> row'[x].status = y
      /\ creates => ToContinue(s)'
  <2>1. \A x \in begun : RowOK(x)' /\ row'[x].status \in {"none", "queued"}
    BY <1>6, <1>7
  <2> QED BY <1>5, <1>6, <1>8, <2>1, WritesFit
<1>10. active' \subseteq Runs /\ AtWork' = (busy \cup subagents) \cup begun
  BY <1>2, <1>4, <1>6 DEF AtWork
<1>11. Typed'
  BY <1>4, <1>9, <1>10 DEF RunInv, Typed
<1>12. ASSUME NEW x \in Runs PROVE JobOK(x)' /\ StatusOK(x)'
  <2>1. CASE x \in begun
    <3>1. stream'[x] = (IF x \in unlucky THEN "over" ELSE "work")
      BY <1>4, <2>1
    <3>2. x \in Fair!Queued(q) /\ x \in AtWork' /\ x \notin Waiting' /\ host' = "up"
      BY <1>4, <1>10, <2>1
    <3>3. JobOK(x)'
      BY <1>7, <3>1, <3>2 DEF JobOK, AtWork, Streaming
    <3>4. "failed" \in Ended
      BY DEF Ended
    <3>5. StatusOK(x)'
      BY <1>7, <1>9, <2>1, <3>1, <3>2, <3>4 DEF StatusOK, Streaming
    <3> QED BY <3>3, <3>5
  <2>2. CASE x \notin begun /\ creates /\ x = r
    <3>1. stream'[x] = "none" /\ x \notin AtWork' /\ x \in Waiting' /\ host' = "up"
      BY <1>1, <1>4, <1>10, <2>2 DEF AtWork
    <3>2. JobOK(x)'
      BY <1>1, <2>2, <3>1 DEF JobOK, AtWork, Streaming
    <3>3. StatusOK(x)'
      BY <1>1, <1>9, <2>2, <3>1 DEF StatusOK, Streaming
    <3> QED BY <3>2, <3>3
  <2>3. CASE x \notin begun /\ ~(creates /\ x = r) /\ x \in active \ busy
    <3>1. stream'[x] = "none" /\ stream[x] = "over" /\ JobOK(x) /\ Told(x)
      BY <1>0, <1>4, <2>3
    <3>2. x \notin Waiting' /\ x \notin AtWork'
      BY <1>4, <1>10, <2>3, <3>1 DEF JobOK, AtWork
    <3>3. JobOK(x)'
      BY <3>1, <3>2 DEF JobOK, AtWork, Streaming
    <3>4. StatusOK(x)'
      BY <1>9, <2>3, <3>1, <3>2 DEF StatusOK, Streaming, Told
    <3> QED BY <3>3, <3>4
  <2>4. CASE x \notin begun /\ ~(creates /\ x = r) /\ ~(x \in active \ busy)
    <3>1. /\ stream'[x] = stream[x] /\ (x \in AtWork' <=> x \in AtWork)
          /\ (x \in Waiting' <=> x \in Waiting) /\ JobOK(x) /\ Told(x)
      BY <1>0, <1>4, <1>10, <2>4 DEF AtWork
    <3>2. JobOK(x)'
      BY <1>4, <2>4, <3>1 DEF JobOK, AtWork, Streaming
    <3>3. (\A y : Due(x, y)' <=> row[x].status = y) /\ approval'[x] = approval[x]
      BY <1>9, <2>4
    <3>4. StatusOK(x)'
      BY <3>1, <3>3 DEF StatusOK, Streaming, Told
    <3> QED BY <3>2, <3>4
  <2> QED BY <2>1, <2>2, <2>3, <2>4
<1>13. \A x \in Runs : OfferOK(x)'
  BY <1>9 DEF OfferOK
<1>14. PlacesOK'
  BY <1>4 DEF PlacesOK
<1> QED BY <1>0, <1>9, <1>11, <1>12, <1>13, <1>14 DEF RunInv

-----------------------------------------------------------------------------
(* Requests, cancellations and the places given back                       *)

\* A run that the step leaves alone.
LEMMA Unmoved ==
  ASSUME RunInv, Idle, NEW x \in Runs,
         stream'[x] = stream[x], x \in Waiting' <=> x \in Waiting,
         x \in active' <=> x \in active, x \in subagents' <=> x \in subagents,
         row'[x].status = row[x].status, row'[x].answered = row[x].answered,
         approval'[x] = approval[x], lease'[x] = lease[x],
         \A y : Due(x, y)' <=> row'[x].status = y,
         \/ host' = host
         \/ host' = "closing" /\ x \notin Waiting
         \/ x \notin Waiting \cup AtWork
  PROVE  JobOK(x)' /\ StatusOK(x)'
<1>1. JobOK(x) /\ Told(x)
  BY IdleFacts
<1>2. (x \in AtWork' <=> x \in AtWork) /\ (Streaming(x)' <=> Streaming(x))
  BY DEF AtWork, Streaming
<1>3. JobOK(x)'
  BY <1>1, <1>2 DEF JobOK
<1>4. StatusOK(x)'
  BY <1>1, <1>2 DEF StatusOK, Told
<1> QED BY <1>3, <1>4

\* The records are left alone.
LEMMA SameRows ==
  ASSUME RunInv, Idle, row' = row
  PROVE  \A x \in Runs : RowOK(x)' /\ OfferOK(x)'
<1>1. \A x \in Runs : RowOK(x) /\ (row[x].status \in Broken => row[x].resumable \/ Continued(x))
  BY IdleFacts
<1>2. \A x : Continued(x)' <=> Continued(x)
  BY DEF Continued
<1> QED BY <1>1, <1>2 DEF RowOK, OfferOK

\* A run is claimed: it is no longer offered, the records are otherwise as before.
LEMMA ClaimedRow ==
  ASSUME RunInv, Idle, NEW s \in Runs, row[s].resumable, row' = [row EXCEPT ![s] = Claimed(@)]
  PROVE  /\ row' \in [Runs -> Records]
         /\ \A x : Continued(x)' <=> Continued(x)
         /\ row'[s].status \in Broken /\ ~row'[s].resumable /\ ~Continued(s)
         /\ \A x \in Runs : /\ row'[x].status = row[x].status
                            /\ row'[x].answered = row[x].answered
                            /\ RowOK(x)'
                            /\ x # s => row'[x] = row[x]
<1>0. /\ row \in [Runs -> Records]
      /\ \A x \in Runs : RowOK(x)
  BY IdleFacts DEF RunInv, Typed
<1>1. PICK a \in Records : a = row[s]
  BY <1>0
<1>2. PICK b : b = [a EXCEPT !.resumable = FALSE]
  OBVIOUS
<1>3. /\ b \in Records /\ b.status = a.status /\ b.source = a.source /\ ~b.resumable
      /\ b.answered = a.answered /\ b.unsaved = a.unsaved
  BY <1>2 DEF Records
<1>4. row' = [row EXCEPT ![s] = b]
  BY <1>1, <1>2 DEF Claimed
<1>5. row' \in [Runs -> Records] /\ row'[s] = b /\ \A x \in Runs \ {s} : row'[x] = row[x]
  BY <1>0, <1>3, <1>4
<1>6. \A x \in Runs : /\ row'[x].status = row[x].status /\ row'[x].source = row[x].source
                      /\ row'[x].answered = row[x].answered /\ row'[x].unsaved = row[x].unsaved
                      /\ row'[x].resumable => row[x].resumable
                      /\ x # s => row'[x] = row[x]
  BY <1>1, <1>3, <1>5
<1>7. \A x : Continued(x)' <=> Continued(x)
  BY <1>6 DEF Continued
<1>8. a.status \in Broken /\ ~Continued(s) /\ a.status # "none"
  BY <1>0, <1>1 DEF RowOK, Broken
<1>9. \A x \in Runs : RowOK(x)'
  <2> SUFFICES ASSUME NEW x \in Runs PROVE RowOK(x)'
    OBVIOUS
  <2>1. RowOK(x)
    BY <1>0
  <2>2. row'[x].status = "none" => row'[x] = NoRow
    BY <1>1, <1>6, <1>8, <2>1 DEF RowOK
  <2> QED BY <1>6, <1>7, <2>1, <2>2 DEF RowOK
<1> QED BY <1>1, <1>3, <1>5, <1>6, <1>7, <1>8, <1>9

\* start() of a new run.
LEMMA StartStep ==
  ASSUME RunInv, Idle, NEW r \in Runs, NEW s \in Runs \cup {NoRun}, Start(r, s),
         \/ s = NoRun /\ row' = row
         \/ s \in Runs /\ row[s].resumable /\ row' = [row EXCEPT ![s] = Claimed(@)]
  PROVE  RunInv'
<1>1. /\ New(r) /\ host = "up"
      /\ Pump(<<Create(r, s)>>, Fair!Enqueue(queue, r), active, stream)
      /\ UNCHANGED <<subagents, approval, host, restarts, lease, cancelled, stopped>>
  BY DEF Start, leaseVars
<1>2. /\ r \notin Waiting /\ QueueInv(queue) /\ stream \in [Runs -> Stages] /\ row \in [Runs -> Records]
      /\ active \subseteq Runs /\ cancelled \subseteq AtWork /\ stopped \subseteq AtWork
      /\ Room(active)
  BY <1>1, NewRun DEF RunInv, Typed, PlacesOK
<1>3. /\ QueueInv(Fair!Enqueue(queue, r))
      /\ Fair!Queued(Fair!Enqueue(queue, r)) = Waiting \cup {r}
  BY <1>2, QueueEnqueued DEF Waiting
<1>4. cancelled' \subseteq active \cup subagents /\ stopped' \subseteq active \cup subagents
  BY <1>1, <1>2 DEF AtWork
<1>5. \A x \in Runs : row[x].status \in Broken => row[x].resumable \/ Continued(x)
  BY IdleFacts
<1>6. /\ row' \in [Runs -> Records]
      /\ \A x \in Runs : /\ RowOK(x)' /\ row'[x].status = row[x].status
                         /\ row'[x].answered = row[x].answered
                         /\ row'[x].status \in Broken =>
                              row'[x].resumable \/ Continued(x)' \/ x = s
      /\ s \in Runs => row'[s].status \in Broken /\ ~row'[s].resumable /\ ~Continued(s)'
  <2>1. CASE s = NoRun /\ row' = row
    <3>1. s \notin Runs
      BY <2>1, OwnersAssumption
    <3>2. \A x \in Runs : RowOK(x)' /\ OfferOK(x)'
      BY <2>1, SameRows
    <3>3. \A x : Continued(x)' <=> Continued(x)
      BY <2>1 DEF Continued
    <3> QED BY <1>2, <1>5, <2>1, <3>1, <3>2, <3>3
  <2>2. CASE s \in Runs /\ row[s].resumable /\ row' = [row EXCEPT ![s] = Claimed(@)]
    <3>1. /\ row' \in [Runs -> Records]
          /\ \A x : Continued(x)' <=> Continued(x)
          /\ row'[s].status \in Broken /\ ~row'[s].resumable /\ ~Continued(s)
          /\ \A x \in Runs : /\ row'[x].status = row[x].status
                             /\ row'[x].answered = row[x].answered
                             /\ RowOK(x)'
                             /\ x # s => row'[x] = row[x]
      BY <2>2, ClaimedRow
    <3> QED BY <1>5, <3>1
  <2> QED BY <2>1, <2>2
<1>7. PICK creates \in BOOLEAN : creates = TRUE
  OBVIOUS
<1>8. Pump(IF creates THEN <<Create(r, s)>> ELSE <<>>, Fair!Enqueue(queue, r), active, stream)
  BY <1>1, <1>7
<1>9. PumpTurn(creates, r, s, Fair!Enqueue(queue, r), active, stream)
  BY <1>1, <1>2, <1>3, <1>4, <1>6, <1>7, <1>8 DEF PumpTurn
<1> QED BY <1>9, Pumping

LEMMA RequestStep ==
  ASSUME RunInv, NEW r \in Runs, Request(r)
  PROVE  RunInv'
BY StartStep DEF Request

\* A turn of one transaction that moves run r.
LEMMA OneMove ==
  ASSUME NEW op \in {"started"} \cup Ended, NEW r \in Runs, turn' = <<Tx(op, r)>>,
         row'[r].status \notin Ended, ~row'[r].answered, ~row'[r].unsaved, ~Continued(r)'
  PROVE  /\ turn' \in Seq(Txs) /\ TurnOK'
         /\ Due(r, IF op = "started" THEN "running" ELSE op)'
         /\ \A x : x # r => \A y : Due(x, y)' <=> row'[x].status = y
<1>1. op \in Ops /\ op \in Moves /\ op \notin {"create", "answered", "mark", "offer"}
  BY DEF Ops, Moves, Ended
<1>2. /\ turn' \in Seq(Txs) /\ DOMAIN turn' = {1}
      /\ turn'[1].op = op /\ turn'[1].run = r /\ turn'[1].source = NoRun
  BY <1>1, OneTx
<1>3. ~ToContinue(r)'
  BY <1>1, <1>2 DEF ToContinue
<1>4. TxOK(1)'
  BY <1>1, <1>2, <1>3 DEF TxOK
<1>5. \A k, m \in DOMAIN turn' : ~(k < m)
  BY <1>2
<1>6. TurnOK'
  BY <1>2, <1>4, <1>5 DEF TurnOK
<1>7. Sets(op) = IF op = "started" THEN "running" ELSE op
  BY <1>1 DEF Sets
<1>8. MovesAt(r, 1)' /\ \A x : x # r => \A k \in DOMAIN turn' : ~MovesAt(x, k)'
  BY <1>1, <1>2 DEF MovesAt
<1>9. \A m \in DOMAIN turn' : ~(m > 1)
  BY <1>2
<1>10. Due(r, IF op = "started" THEN "running" ELSE op)'
  BY <1>2, <1>7, <1>8, <1>9 DEF Due
<1> QED BY <1>2, <1>6, <1>8, <1>10 DEF Due

\* POST /resume.
LEMMA ResumeStep ==
  ASSUME RunInv, NEW s \in Runs, NEW r \in Runs, Resume(s, r)
  PROVE  RunInv'
<1>1. Idle /\ row[s].resumable /\ row' = [row EXCEPT ![s] = Claimed(@)]
  BY DEF Resume
<1>2. CASE Start(r, s)
  BY <1>1, <1>2, StartStep
<1>3. CASE turn' = <<Tx("offer", s)>> /\ UNCHANGED <<approval, jobs, host, restarts, leaseVars>>
  <2>1. /\ row' \in [Runs -> Records]
        /\ \A x : Continued(x)' <=> Continued(x)
        /\ row'[s].status \in Broken /\ ~row'[s].resumable /\ ~Continued(s)
        /\ \A x \in Runs : /\ row'[x].status = row[x].status
                           /\ row'[x].answered = row[x].answered
                           /\ RowOK(x)'
                           /\ x # s => row'[x] = row[x]
    BY <1>1, ClaimedRow
  <2>2. UNCHANGED <<queue, active, subagents, cancelled, stopped, stream, approval, host, restarts, lease>>
    BY <1>3 DEF jobs, leaseVars
  <2>3. /\ turn' \in Seq(Txs) /\ DOMAIN turn' = {1}
        /\ turn'[1].op = "offer" /\ turn'[1].run = s
    BY <1>3, OneTx DEF Ops
  <2>4. ~ToContinue(s)' /\ ToOffer(s)'
    BY <2>3 DEF ToContinue, ToOffer
  <2>5. TxOK(1)'
    BY <2>1, <2>3, <2>4 DEF TxOK, Moves, Ends, Ended
  <2>6. \A k, m \in DOMAIN turn' : ~(k < m)
    BY <2>3
  <2>7. TurnOK'
    BY <2>3, <2>5, <2>6 DEF TurnOK
  <2>8. \A x : \A y : Due(x, y)' <=> row'[x].status = y
    BY <2>3 DEF Due, MovesAt, Moves, Ended
  <2>9. \A x \in Runs : JobOK(x)' /\ StatusOK(x)'
    BY <1>1, <2>1, <2>2, <2>8, Unmoved DEF Waiting
  <2>10. \A x \in Runs : OfferOK(x)'
    <3>1. \A x \in Runs : row[x].status \in Broken => row[x].resumable \/ Continued(x)
      BY <1>1, IdleFacts
    <3> QED BY <2>1, <2>4, <3>1 DEF OfferOK
  <2>11. Typed' /\ PlacesOK'
    BY <2>1, <2>2, <2>3 DEF RunInv, Typed, AtWork, PlacesOK, Waiting
  <2>12. host' \notin {"down", "starting"}
    BY <1>1, <2>2, IdleFacts
  <2> QED BY <2>1, <2>7, <2>9, <2>10, <2>11, <2>12 DEF RunInv
<1> QED BY <1>2, <1>3 DEF Resume

-----------------------------------------------------------------------------
(* The last turn of a run                                                  *)

\* Short sequences, one after the other.
LEMMA Joined ==
  ASSUME NEW S, NEW f \in Seq(S), NEW g \in Seq(S), NEW e \in Seq(S), Len(e) = Len(f) + Len(g),
         \A i \in 1..Len(e) : e[i] = IF i <= Len(f) THEN f[i] ELSE g[i - Len(f)]
  PROVE  f \o g = e
<1>1. PICK d : d = f \o g
  OBVIOUS
<1>2. /\ d \in Seq(S) /\ Len(d) = Len(f) + Len(g)
      /\ \A i \in 1..Len(d) : d[i] = IF i <= Len(f) THEN f[i] ELSE g[i - Len(f)]
  BY <1>1, ConcatProperties
<1>3. \A i \in 1..Len(d) : d[i] = e[i]
  BY <1>2
<1>4. d = e
  BY <1>2, <1>3, SeqEqual
<1> QED BY <1>1, <1>4

LEMMA Beside ==
  ASSUME NEW S, NEW a \in S, NEW b \in S, NEW c \in S
  PROVE  /\ <<>> \o <<>> = <<>> /\ <<>> \o <<a>> = <<a>> /\ <<a>> \o <<>> = <<a>>
         /\ <<>> \o <<a, b, c>> = <<a, b, c>>
OBVIOUS

LEMMA OneAndOne ==
  ASSUME NEW S, NEW a \in S, NEW b \in S
  PROVE  <<a>> \o <<b>> = <<a, b>>
<1>1. PICK f, g, e : f = <<a>> /\ g = <<b>> /\ e = <<a, b>>
  OBVIOUS
<1>2. /\ f \in Seq(S) /\ Len(f) = 1 /\ f[1] = a /\ g \in Seq(S) /\ Len(g) = 1 /\ g[1] = b
      /\ e \in Seq(S) /\ Len(e) = 2 /\ e[1] = a /\ e[2] = b
  BY <1>1
<1>3. Len(e) = Len(f) + Len(g) /\ \A i \in 1..Len(e) : e[i] = IF i <= Len(f) THEN f[i] ELSE g[i - Len(f)]
  BY <1>2
<1>4. f \o g = e
  BY <1>2, <1>3, Joined
<1> QED BY <1>1, <1>4

LEMMA TwoAndOne ==
  ASSUME NEW S, NEW a \in S, NEW b \in S, NEW c \in S
  PROVE  <<a, b>> \o <<c>> = <<a, b, c>>
<1>1. PICK f, g, e : f = <<a, b>> /\ g = <<c>> /\ e = <<a, b, c>>
  OBVIOUS
<1>2. /\ f \in Seq(S) /\ Len(f) = 2 /\ f[1] = a /\ f[2] = b
      /\ g \in Seq(S) /\ Len(g) = 1 /\ g[1] = c
      /\ e \in Seq(S) /\ Len(e) = 3 /\ e[1] = a /\ e[2] = b /\ e[3] = c
  BY <1>1
<1>3. Len(e) = Len(f) + Len(g) /\ \A i \in 1..Len(e) : e[i] = IF i <= Len(f) THEN f[i] ELSE g[i - Len(f)]
  BY <1>2
<1>4. f \o g = e
  BY <1>2, <1>3, Joined
<1> QED BY <1>1, <1>4

LEMMA OneAndThree ==
  ASSUME NEW S, NEW a \in S, NEW b \in S, NEW c \in S, NEW d \in S
  PROVE  <<a>> \o <<b, c, d>> = <<a, b, c, d>>
<1>1. PICK f, g, e : f = <<a>> /\ g = <<b, c, d>> /\ e = <<a, b, c, d>>
  OBVIOUS
<1>2. /\ f \in Seq(S) /\ Len(f) = 1 /\ f[1] = a
      /\ g \in Seq(S) /\ Len(g) = 3 /\ g[1] = b /\ g[2] = c /\ g[3] = d
      /\ e \in Seq(S) /\ Len(e) = 4 /\ e[1] = a /\ e[2] = b /\ e[3] = c /\ e[4] = d
  BY <1>1
<1>3. Len(e) = Len(f) + Len(g) /\ \A i \in 1..Len(e) : e[i] = IF i <= Len(f) THEN f[i] ELSE g[i - Len(f)]
  BY <1>2
<1>4. f \o g = e
  BY <1>2, <1>3, Joined
<1> QED BY <1>1, <1>4

\* The turn of one run that ends with its outcome.
InPlace(r, out, k) ==
  /\ turn'[k].run = r
  /\ turn'[k].op \in {"answered", "save", "mark", "offer", out}
  /\ turn'[k].op = "answered" => k = 1 /\ out = "completed"
  /\ turn'[k].op \in {"mark", "offer"} => out = "interrupted"
  /\ turn'[k].op = "mark" => \E m \in DOMAIN turn' : m > k /\ turn'[m].op = "offer"
  /\ turn'[k].op = "offer" => \E m \in DOMAIN turn' : m < k /\ turn'[m].op = "mark"
  /\ turn'[k].op \in {"mark", out} /\ row'[r].unsaved =>
       \E m \in DOMAIN turn' : m < k /\ turn'[m].op = "save"
Closing(r, out) ==
  /\ turn' \in Seq(Txs)
  /\ \A k \in DOMAIN turn' : InPlace(r, out, k)
  /\ \E k \in DOMAIN turn' : turn'[k].op = out /\ \A m \in DOMAIN turn' : ~(m > k)

\* It fits a record that is alive.
LEMMA ClosingFits ==
  ASSUME NEW r \in Runs, NEW out \in Ended, Closing(r, out),
         row'[r].status \in {"queued", "running"}, ~Continued(r)',
         row'[r].answered => out = "completed",
         \A k \in DOMAIN turn' : turn'[k].op = "answered" =>
           row'[r].status = "running" /\ ~row'[r].answered /\ stream'[r] = "over"
  PROVE  /\ turn' \in Seq(Txs) /\ TurnOK' /\ Due(r, out)'
         /\ \A x : x # r => \A y : Due(x, y)' <=> row'[x].status = y
<1>0. /\ turn' \in Seq(Txs) /\ \A k \in DOMAIN turn' : turn'[k].run = r
      /\ \A k \in DOMAIN turn' : turn'[k].op \in {"answered", "save", "mark", "offer", out}
      /\ \A k \in DOMAIN turn' : turn'[k].op # "create"
  BY DEF Closing, InPlace, Ended
<1>1. row'[r].status \notin Ended
  BY DEF Ended
<1>2. ~ToContinue(r)'
  BY <1>0 DEF ToContinue
<1>3. ASSUME NEW k \in DOMAIN turn' PROVE TxOK(k)'
  <2>1. turn'[k].op \in Ends => turn'[k].op \in {"mark", out}
    BY <1>0 DEF Ends, Ended
  <2>2. turn'[k].op \in Moves => turn'[k].op \in {"mark", out}
    BY <1>0 DEF Moves, Ended
  <2>3. turn'[k].op \in Moves /\ row'[r].answered => turn'[k].op = "completed"
    BY <2>2 DEF Closing, InPlace
  <2>4. turn'[k].op \in Ends /\ row'[r].unsaved =>
          \E m \in DOMAIN turn' : m < k /\ turn'[m].run = r /\ turn'[m].op = "save"
    BY <2>1 DEF Closing, InPlace
  <2>5. turn'[k].op = "mark" => \E m \in DOMAIN turn' : m > k /\ turn'[m].run = r /\ turn'[m].op = "offer"
    BY DEF Closing, InPlace
  <2>6. turn'[k].op = "offer" => \E m \in DOMAIN turn' : m < k /\ turn'[m].run = r /\ turn'[m].op = "mark"
    BY DEF Closing, InPlace
  <2>7. turn'[k].op = "answered" => k = 1 /\ row'[r].status = "running" /\ stream'[r] = "over"
    BY DEF Closing, InPlace
  <2>8. turn'[k].run = r
    BY <1>0
  <2> QED BY <1>0, <1>1, <1>2, <2>3, <2>4, <2>5, <2>6, <2>7, <2>8 DEF TxOK
<1>4. \A k \in DOMAIN turn' : turn'[k].op \in Moves => Sets(turn'[k].op) = out
  BY DEF Closing, InPlace, Moves, Ended, Sets
<1>5. \A k \in DOMAIN turn' : turn'[k].op \in Ends => turn'[k].op \in Moves
  BY DEF Ends, Moves
<1>6. ASSUME NEW k \in DOMAIN turn', NEW m \in DOMAIN turn', turn'[k].op = "answered", turn'[m].op \in Moves
      PROVE  turn'[m].op = "completed"
  <2>1. out = "completed"
    BY <1>6 DEF Closing, InPlace
  <2>2. turn'[m].op \in {"mark", out}
    BY <1>0, <1>6 DEF Moves, Ended
  <2>3. turn'[m].op # "mark"
    BY <2>1 DEF Closing, InPlace
  <2> QED BY <2>1, <2>2, <2>3
<1>7. TurnOK'
  BY <1>3, <1>4, <1>5, <1>6 DEF TurnOK, PairOK
<1>8. PICK k \in DOMAIN turn' : turn'[k].op = out /\ \A m \in DOMAIN turn' : ~(m > k)
  BY DEF Closing, InPlace
<1>9. out \in Moves
  BY DEF Moves
<1>10. MovesAt(r, k)'
  BY <1>0, <1>8, <1>9 DEF MovesAt
<1>11. Due(r, out)'
  BY <1>4, <1>8, <1>9, <1>10 DEF Due
<1>12. \A x : x # r => \A m \in DOMAIN turn' : ~MovesAt(x, m)'
  BY <1>0 DEF MovesAt
<1> QED BY <1>0, <1>7, <1>11, <1>12 DEF Due

\* The end of #consume() and one row of the recovery are such turns.
LEMMA FinishCloses ==
  ASSUME NEW r \in Runs, NEW out \in Ended, row' = row,
         turn' = (IF out = "completed" THEN <<Tx("answered", r)>> ELSE <<>>)
                 \o Flush(r) \o <<Tx(out, r)>>
  PROVE  Closing(r, out)
<1>1. PICK a \in Txs, s \in Txs, t \in Txs : a = Tx("answered", r) /\ s = Tx("save", r) /\ t = Tx(out, r)
  BY DEF Tx, Txs, Ops, Moves
<1>2. /\ a.op = "answered" /\ a.run = r /\ s.op = "save" /\ s.run = r /\ t.op = out /\ t.run = r
      /\ out \notin {"answered", "save", "mark", "offer"}
  BY <1>1 DEF Tx, Ended
<1>3. turn' = ((IF out = "completed" THEN <<a>> ELSE <<>>)
               \o (IF row[r].unsaved THEN <<s>> ELSE <<>>)) \o <<t>>
  BY <1>1 DEF Flush
<1>4. CASE out = "completed" /\ row[r].unsaved
  <2>1. turn' = <<a, s, t>>
    <3>1. turn' = (<<a>> \o <<s>>) \o <<t>>
      BY <1>3, <1>4
    <3>2. <<a>> \o <<s>> = <<a, s>>
      BY OneAndOne
    <3>3. <<a, s>> \o <<t>> = <<a, s, t>>
      BY TwoAndOne
    <3> QED BY <3>1, <3>2, <3>3
  <2>2. DOMAIN turn' = 1..3 /\ turn'[1] = a /\ turn'[2] = s /\ turn'[3] = t /\ turn' \in Seq(Txs)
    <3>1. /\ DOMAIN <<a, s, t>> = 1..3
          /\ <<a, s, t>>[1] = a
          /\ <<a, s, t>>[2] = s
          /\ <<a, s, t>>[3] = t
          /\ <<a, s, t>> \in Seq(Txs)
      OBVIOUS
    <3> QED BY <2>1, <3>1
  <2>3. DOMAIN turn' = {1, 2, 3}
    BY <2>2
  <2>4. /\ turn'[1].op = "answered" /\ turn'[1].run = r
        /\ turn'[2].op = "save" /\ turn'[2].run = r /\ turn'[3].op = out /\ turn'[3].run = r
    BY <1>2, <2>2
  <2>5. InPlace(r, out, 1) /\ InPlace(r, out, 2)
    BY <1>2, <1>4, <2>4 DEF InPlace
  <2>6. InPlace(r, out, 3)
    <3>1. 2 \in DOMAIN turn' /\ 2 < 3
      BY <2>3
    <3> QED BY <1>2, <2>4, <3>1 DEF InPlace
  <2>7. \A k \in DOMAIN turn' : ~(k > 3)
    BY <2>2
  <2> QED BY <2>2, <2>3, <2>4, <2>5, <2>6, <2>7 DEF Closing
<1>5. CASE out = "completed" /\ ~row[r].unsaved
  <2>1. turn' = <<a, t>>
    BY <1>3, <1>5, Beside, OneAndOne
  <2>2. DOMAIN turn' = 1..2 /\ turn'[1] = a /\ turn'[2] = t /\ turn' \in Seq(Txs)
    <3>1. DOMAIN <<a, t>> = 1..2 /\ <<a, t>>[1] = a /\ <<a, t>>[2] = t /\ <<a, t>> \in Seq(Txs)
      OBVIOUS
    <3> QED BY <2>1, <3>1
  <2> QED BY <1>2, <1>5, <2>2 DEF Closing, InPlace
<1>6. CASE out # "completed" /\ row[r].unsaved
  <2>1. turn' = <<s, t>>
    BY <1>3, <1>6, Beside, OneAndOne
  <2>2. DOMAIN turn' = 1..2 /\ turn'[1] = s /\ turn'[2] = t /\ turn' \in Seq(Txs)
    <3>1. DOMAIN <<s, t>> = 1..2 /\ <<s, t>>[1] = s /\ <<s, t>>[2] = t /\ <<s, t>> \in Seq(Txs)
      OBVIOUS
    <3> QED BY <2>1, <3>1
  <2> QED BY <1>2, <1>6, <2>2 DEF Closing, InPlace
<1>7. CASE out # "completed" /\ ~row[r].unsaved
  <2>1. turn' = <<t>>
    BY <1>3, <1>7, Beside
  <2>2. DOMAIN turn' = 1..1 /\ turn'[1] = t /\ turn' \in Seq(Txs)
    <3>1. DOMAIN <<t>> = 1..1 /\ <<t>>[1] = t /\ <<t>> \in Seq(Txs)
      OBVIOUS
    <3> QED BY <2>1, <3>1
  <2> QED BY <1>2, <1>7, <2>2 DEF Closing, InPlace
<1> QED BY <1>4, <1>5, <1>6, <1>7

LEMMA RecoverCloses ==
  ASSUME NEW r \in Runs, row' = row,
         turn' = Flush(r) \o (IF row[r].answered THEN <<Tx("completed", r)>>
                              ELSE <<Tx("mark", r), Tx("offer", r), Tx("interrupted", r)>>)
  PROVE  /\ Closing(r, IF row[r].answered THEN "completed" ELSE "interrupted")
         /\ \A k \in DOMAIN turn' : turn'[k].op # "answered"
<1>1. PICK s \in Txs, c \in Txs, m \in Txs, o \in Txs, i \in Txs :
        /\ s = Tx("save", r) /\ c = Tx("completed", r) /\ m = Tx("mark", r)
        /\ o = Tx("offer", r) /\ i = Tx("interrupted", r)
  BY DEF Tx, Txs, Ops, Moves, Ended
<1>2. /\ s.op = "save" /\ s.run = r /\ c.op = "completed" /\ c.run = r /\ m.op = "mark" /\ m.run = r
      /\ o.op = "offer" /\ o.run = r /\ i.op = "interrupted" /\ i.run = r
  BY <1>1 DEF Tx
<1>3. turn' = (IF row[r].unsaved THEN <<s>> ELSE <<>>) \o (IF row[r].answered THEN <<c>> ELSE <<m, o, i>>)
  BY <1>1 DEF Flush
<1>4. CASE row[r].answered /\ row[r].unsaved
  <2>1. turn' = <<s, c>>
    BY <1>3, <1>4, OneAndOne
  <2>2. DOMAIN turn' = 1..2 /\ turn'[1] = s /\ turn'[2] = c /\ turn' \in Seq(Txs)
    <3>1. DOMAIN <<s, c>> = 1..2 /\ <<s, c>>[1] = s /\ <<s, c>>[2] = c /\ <<s, c>> \in Seq(Txs)
      OBVIOUS
    <3> QED BY <2>1, <3>1
  <2> QED BY <1>2, <1>4, <2>2 DEF Closing, InPlace
<1>5. CASE row[r].answered /\ ~row[r].unsaved
  <2>1. turn' = <<c>>
    BY <1>3, <1>5, Beside
  <2>2. DOMAIN turn' = 1..1 /\ turn'[1] = c /\ turn' \in Seq(Txs)
    <3>1. DOMAIN <<c>> = 1..1 /\ <<c>>[1] = c /\ <<c>> \in Seq(Txs)
      OBVIOUS
    <3> QED BY <2>1, <3>1
  <2> QED BY <1>2, <1>5, <2>2 DEF Closing, InPlace
<1>6. CASE ~row[r].answered /\ row[r].unsaved
  <2>1. turn' = <<s, m, o, i>>
    <3>1. turn' = <<s>> \o <<m, o, i>>
      BY <1>3, <1>6
    <3>2. <<s>> \o <<m, o, i>> = <<s, m, o, i>>
      BY OneAndThree
    <3> QED BY <3>1, <3>2
  <2>2. /\ DOMAIN turn' = 1..4 /\ turn'[1] = s /\ turn'[2] = m /\ turn'[3] = o /\ turn'[4] = i
        /\ turn' \in Seq(Txs)
    <3>1. /\ DOMAIN <<s, m, o, i>> = 1..4
          /\ <<s, m, o, i>>[1] = s
          /\ <<s, m, o, i>>[2] = m
          /\ <<s, m, o, i>>[3] = o
          /\ <<s, m, o, i>>[4] = i
          /\ <<s, m, o, i>> \in Seq(Txs)
      OBVIOUS
    <3> QED BY <2>1, <3>1
  <2>3. row'[r].unsaved /\ DOMAIN turn' = {1, 2, 3, 4}
    BY <1>6, <2>2
  <2>4. /\ turn'[1].op = "save" /\ turn'[1].run = r /\ turn'[2].op = "mark" /\ turn'[2].run = r
        /\ turn'[3].op = "offer" /\ turn'[3].run = r /\ turn'[4].op = "interrupted" /\ turn'[4].run = r
    BY <1>2, <2>2
  <2>5. 1 < 2 /\ 3 > 2 /\ 2 < 3 /\ 1 < 4
    OBVIOUS
  <2>6. InPlace(r, "interrupted", 1)
    BY <2>4 DEF InPlace
  <2>7. InPlace(r, "interrupted", 2)
    BY <2>3, <2>4, <2>5 DEF InPlace
  <2>8. InPlace(r, "interrupted", 3)
    BY <2>3, <2>4, <2>5 DEF InPlace
  <2>9. InPlace(r, "interrupted", 4)
    BY <2>3, <2>4, <2>5 DEF InPlace
  <2>10. \A k \in DOMAIN turn' : ~(k > 4)
    BY <2>2
  <2> QED BY <1>6, <2>2, <2>3, <2>4, <2>6, <2>7, <2>8, <2>9, <2>10 DEF Closing
<1>7. CASE ~row[r].answered /\ ~row[r].unsaved
  <2>1. turn' = <<m, o, i>>
    BY <1>3, <1>7, Beside
  <2>2. DOMAIN turn' = 1..3 /\ turn'[1] = m /\ turn'[2] = o /\ turn'[3] = i /\ turn' \in Seq(Txs)
    <3>1. /\ DOMAIN <<m, o, i>> = 1..3
          /\ <<m, o, i>>[1] = m
          /\ <<m, o, i>>[2] = o
          /\ <<m, o, i>>[3] = i
          /\ <<m, o, i>> \in Seq(Txs)
      OBVIOUS
    <3> QED BY <2>1, <3>1
  <2>3. ~row'[r].unsaved /\ DOMAIN turn' = {1, 2, 3}
    BY <1>7, <2>2
  <2>4. /\ turn'[1].op = "mark" /\ turn'[1].run = r /\ turn'[2].op = "offer" /\ turn'[2].run = r
        /\ turn'[3].op = "interrupted" /\ turn'[3].run = r
    BY <1>2, <2>2
  <2>5. 2 > 1 /\ 1 < 2
    OBVIOUS
  <2>6. InPlace(r, "interrupted", 1)
    BY <2>3, <2>4, <2>5 DEF InPlace
  <2>7. InPlace(r, "interrupted", 2)
    BY <2>3, <2>4, <2>5 DEF InPlace
  <2>8. InPlace(r, "interrupted", 3)
    BY <2>3, <2>4 DEF InPlace
  <2>9. \A k \in DOMAIN turn' : ~(k > 3)
    BY <2>2
  <2> QED BY <1>7, <2>2, <2>3, <2>4, <2>6, <2>7, <2>8, <2>9 DEF Closing
<1> QED BY <1>4, <1>5, <1>6, <1>7

-----------------------------------------------------------------------------
(* Launches, cancellations, outcomes and places given back                 *)

\* launchSubagent().
LEMMA LaunchStep ==
  ASSUME RunInv, NEW p \in Runs, NEW r \in Runs, LaunchSubagent(p, r)
  PROVE  RunInv'
<1>1. /\ Idle /\ New(r) /\ row' = [row EXCEPT ![r] = Created(p, NoRun)]
      /\ subagents' = subagents \cup {r}
      /\ UNCHANGED <<approval, queue, active, cancelled, stopped, host, restarts, lease>>
  BY DEF LaunchSubagent, leaseVars
<1>2. PICK unlucky \in BOOLEAN :
        /\ stream' = [stream EXCEPT ![r] = IF unlucky THEN "over" ELSE "work"]
        /\ turn' = <<Tx(IF unlucky THEN "failed" ELSE "started", r)>>
  BY DEF LaunchSubagent
<1>3. PICK op : op = (IF unlucky THEN "failed" ELSE "started")
  OBVIOUS
<1>4. /\ row[r] = NoRow /\ r \notin Waiting /\ r \notin AtWork /\ stream[r] = "none"
      /\ approval[r] = "none" /\ lease[r].at = "none" /\ ~Continued(r)
  BY <1>1, NewRun
<1>5. /\ turn = <<>> /\ host \in {"up", "closing"}
      /\ \A x \in Runs : RowOK(x) /\ JobOK(x) /\ Told(x)
      /\ \A x \in Runs : row[x].status \in Broken => row[x].resumable \/ Continued(x)
      /\ row \in [Runs -> Records] /\ stream \in [Runs -> Stages]
  BY <1>1, IdleFacts DEF RunInv, Typed
<1>6. PICK c : c = Created(p, NoRun)
  OBVIOUS
<1>7. /\ c \in Records /\ c.status = "queued" /\ c.source = NoRun /\ ~c.resumable
      /\ ~c.answered /\ ~c.unsaved
  BY <1>6 DEF Created, NoRow, Records, Statuses
<1>8. /\ row' \in [Runs -> Records] /\ row'[r] = c /\ \A x \in Runs \ {r} : row'[x] = row[x]
  BY <1>1, <1>5, <1>6, <1>7
<1>9. \A x \in Runs : row'[x].source = row[x].source
  BY <1>4, <1>7, <1>8 DEF NoRow
<1>10. \A x : Continued(x)' <=> Continued(x)
  BY <1>9 DEF Continued
<1>11. \A x \in Runs : RowOK(x)'
  <2> SUFFICES ASSUME NEW x \in Runs PROVE RowOK(x)'
    OBVIOUS
  <2>1. CASE x = r
    <3>1. /\ row'[r].status = "queued" /\ ~row'[r].resumable /\ ~row'[r].answered
          /\ ~row'[r].unsaved /\ ~Continued(r)'
      BY <1>4, <1>7, <1>8, <1>10
    <3>2. \A s, q \in Runs : row'[r].source = s /\ row'[q].source = s => r = q
      BY <1>5, <1>9 DEF RowOK
    <3> QED BY <2>1, <3>1, <3>2 DEF RowOK
  <2>2. CASE x # r
    BY <1>5, <1>8, <1>9, <1>10, <2>2 DEF RowOK
  <2> QED BY <2>1, <2>2
<1>12. /\ stream' \in [Runs -> Stages] /\ stream'[r] = (IF unlucky THEN "over" ELSE "work")
       /\ \A x \in Runs \ {r} : stream'[x] = stream[x]
  <2>1. {"over", "work"} \subseteq Stages
    BY DEF Stages
  <2> QED BY <1>2, <1>5, <2>1
<1>13. /\ turn' \in Seq(Txs) /\ TurnOK'
       /\ Due(r, IF op = "started" THEN "running" ELSE op)'
       /\ \A x : x # r => \A y : Due(x, y)' <=> row'[x].status = y
  <2>1. op \in {"started"} \cup Ended /\ row'[r].status \notin Ended
    BY <1>3, <1>7, <1>8 DEF Ended
  <2>2. turn' = <<Tx(op, r)>>
    BY <1>2, <1>3
  <2>3. ~row'[r].answered /\ ~row'[r].unsaved /\ ~Continued(r)'
    BY <1>4, <1>7, <1>8, <1>10
  <2> QED BY <2>1, <2>2, <2>3, OneMove
<1>14. JobOK(r)' /\ StatusOK(r)'
  <2>1. r \in AtWork' /\ r \notin Waiting' /\ r \notin active' /\ host' \in {"up", "closing"}
    BY <1>1, <1>4, <1>5 DEF AtWork, Waiting
  <2>2. JobOK(r)'
    BY <1>1, <1>4, <1>7, <1>8, <1>12, <2>1 DEF JobOK, Streaming
  <2>3. "failed" \in Ended
    BY DEF Ended
  <2>4. StatusOK(r)'
    BY <1>1, <1>3, <1>4, <1>12, <1>13, <2>1, <2>3 DEF StatusOK, Streaming
  <2> QED BY <2>2, <2>4
<1>15. ASSUME NEW x \in Runs, x # r PROVE JobOK(x)' /\ StatusOK(x)'
  <2>1. /\ stream'[x] = stream[x] /\ row'[x] = row[x] /\ approval'[x] = approval[x]
        /\ lease'[x] = lease[x] /\ host' = host
        /\ (x \in Waiting' <=> x \in Waiting) /\ (x \in active' <=> x \in active)
        /\ (x \in subagents' <=> x \in subagents)
    BY <1>1, <1>8, <1>12, <1>15 DEF Waiting
  <2>2. \A y : Due(x, y)' <=> row'[x].status = y
    BY <1>13, <1>15
  <2> QED BY <1>1, <2>1, <2>2, Unmoved
<1>16. \A x \in Runs : OfferOK(x)'
  <2>1. "queued" \notin Broken
    BY DEF Broken
  <2> QED BY <1>5, <1>7, <1>8, <1>10, <2>1 DEF OfferOK
<1>17. Typed' /\ PlacesOK'
  BY <1>1, <1>8, <1>12, <1>13 DEF RunInv, Typed, AtWork, PlacesOK, Waiting
<1> QED BY <1>1, <1>5, <1>11, <1>13, <1>14, <1>15, <1>16, <1>17 DEF RunInv

\* cancel().
LEMMA CancelStep ==
  ASSUME RunInv, NEW r \in Runs, Cancel(r)
  PROVE  RunInv'
<1>1. /\ Idle /\ row' = row /\ approval' = approval
      /\ UNCHANGED <<active, subagents, stopped, stream, host, restarts, lease>>
  BY DEF Cancel, leaseVars, durable
<1>2. /\ turn = <<>> /\ host \in {"up", "closing"}
      /\ \A x \in Runs : RowOK(x) /\ JobOK(x) /\ Told(x)
      /\ QueueInv(queue) /\ cancelled \subseteq AtWork
  BY <1>1, IdleFacts DEF RunInv, Typed
<1>3. \A x \in Runs : RowOK(x)' /\ OfferOK(x)'
  BY <1>1, SameRows
<1>4. CASE /\ r \in active \cup subagents
           /\ cancelled' = cancelled \cup {r} \cup (IF r \in active THEN ChildrenOf(r) ELSE {})
           /\ UNCHANGED <<queue, turn>>
  <2>1. /\ turn' \in Seq(Txs) /\ TurnOK'
        /\ \A x, y : Due(x, y)' <=> row'[x].status = y
    BY <1>2, <1>4, NoTurn
  <2>2. \A x \in Runs : JobOK(x)' /\ StatusOK(x)'
    BY <1>1, <1>4, <2>1, Unmoved DEF Waiting
  <2>3. cancelled' \subseteq AtWork'
    BY <1>1, <1>2, <1>4 DEF AtWork, ChildrenOf
  <2>4. Typed' /\ PlacesOK'
    BY <1>1, <1>4, <2>1, <2>3 DEF RunInv, Typed, AtWork, PlacesOK, Waiting
  <2> QED BY <1>1, <1>2, <1>3, <2>1, <2>2, <2>4 DEF RunInv
<1>5. CASE /\ r \in Fair!Queued(queue) /\ queue' = Fair!RemoveItem(queue, r)
           /\ turn' = <<Tx("cancelled", r)>> /\ UNCHANGED cancelled
  <2>1. QueueInv(queue') /\ Waiting' = Waiting \ {r} /\ r \in Waiting
    BY <1>2, <1>5, QueueRemoved DEF Waiting
  <2>2. /\ row[r].status = "queued" /\ r \notin AtWork /\ stream[r] = "none"
        /\ lease[r].at = "none" /\ approval[r] = "none"
    BY <1>2, <2>1 DEF Told, JobOK
  <2>3. row'[r].status \notin Ended /\ ~row'[r].answered /\ ~row'[r].unsaved /\ ~Continued(r)'
    <3>1. row[r].status \notin Ended /\ row[r].status \notin Broken
      BY <2>2 DEF Ended, Broken
    <3>2. ~row[r].answered /\ ~row[r].unsaved /\ ~Continued(r)
      BY <1>2, <2>2, <3>1 DEF RowOK
    <3> QED BY <1>1, <3>1, <3>2 DEF Continued
  <2>4. "cancelled" \in {"started"} \cup Ended /\ "cancelled" \in Ended
    BY DEF Ended
  <2>5. /\ turn' \in Seq(Txs) /\ TurnOK' /\ Due(r, "cancelled")'
        /\ \A x : x # r => \A y : Due(x, y)' <=> row'[x].status = y
    <3>1. Due(r, IF "cancelled" = "started" THEN "running" ELSE "cancelled")' <=> Due(r, "cancelled")'
      OBVIOUS
    <3> QED BY <1>5, <2>3, <2>4, <3>1, OneMove
  <2>6. JobOK(r)' /\ StatusOK(r)'
    <3>1. JobOK(r)'
      BY <1>1, <1>2, <2>1, <2>2 DEF JobOK, AtWork, Streaming
    <3>2. StatusOK(r)'
      BY <1>1, <2>1, <2>2, <2>4, <2>5 DEF StatusOK, Streaming
    <3> QED BY <3>1, <3>2
  <2>7. ASSUME NEW x \in Runs, x # r PROVE JobOK(x)' /\ StatusOK(x)'
    BY <1>1, <2>1, <2>5, <2>7, Unmoved
  <2>8. Typed' /\ PlacesOK'
    BY <1>1, <1>5, <2>1, <2>5 DEF RunInv, Typed, AtWork, PlacesOK
  <2> QED BY <1>1, <1>2, <1>3, <2>5, <2>6, <2>7, <2>8 DEF RunInv
<1> QED BY <1>4, <1>5 DEF Cancel

\* The end of #consume().
LEMMA FinishStep ==
  ASSUME RunInv, NEW r \in Runs, Finish(r)
  PROVE  RunInv'
<1>1. /\ Idle /\ stream[r] \in {"closed", "failed", "aborted"} /\ Goes(r, "over")
      /\ row' = row /\ approval' = approval
      /\ UNCHANGED <<queue, active, subagents, cancelled, stopped, host, restarts, lease>>
  BY DEF Finish, OnlyStream, leaseVars, durable
<1>2. PICK out \in Ended : out = OutcomeOf(r)
  BY <1>1 DEF OutcomeOf, Ended
<1>3. turn' = (IF out = "completed" THEN <<Tx("answered", r)>> ELSE <<>>)
              \o Flush(r) \o <<Tx(out, r)>>
  BY <1>2 DEF Finish
<1>4. /\ turn = <<>> /\ host \in {"up", "closing"}
      /\ \A x \in Runs : RowOK(x) /\ JobOK(x) /\ Told(x)
      /\ stream \in [Runs -> Stages]
  BY <1>1, IdleFacts DEF RunInv, Typed
<1>5. Closing(r, out)
  BY <1>1, <1>3, FinishCloses
<1>6. /\ row[r].status = "running" /\ ~row[r].answered /\ ~Continued(r)
      /\ r \in AtWork /\ r \notin Waiting /\ lease[r].at = "none" /\ approval[r] = "none"
  <2>1. Streaming(r)
    BY <1>1 DEF Streaming
  <2>2. row[r].status = "running" /\ row[r].status \notin Broken
    BY <1>4, <2>1 DEF Told, Broken
  <2> QED BY <1>1, <1>4, <2>1, <2>2 DEF RowOK, JobOK, Told
<1>7. /\ stream' \in [Runs -> Stages] /\ stream'[r] = "over"
      /\ \A x \in Runs \ {r} : stream'[x] = stream[x]
  BY <1>1, <1>4 DEF Goes, Stages
<1>8. /\ turn' \in Seq(Txs) /\ TurnOK' /\ Due(r, out)'
      /\ \A x : x # r => \A y : Due(x, y)' <=> row'[x].status = y
  <2>1. ~Continued(r)'
    BY <1>1, <1>6 DEF Continued
  <2> QED BY <1>1, <1>5, <1>6, <1>7, <2>1, ClosingFits
<1>9. \A x \in Runs : RowOK(x)' /\ OfferOK(x)'
  BY <1>1, SameRows
<1>10. JobOK(r)' /\ StatusOK(r)'
  <2>1. JobOK(r)'
    BY <1>1, <1>4, <1>6, <1>7 DEF JobOK, AtWork, Waiting, Streaming
  <2>2. StatusOK(r)'
    BY <1>1, <1>6, <1>7, <1>8 DEF StatusOK, Streaming, Waiting
  <2> QED BY <2>1, <2>2
<1>11. ASSUME NEW x \in Runs, x # r PROVE JobOK(x)' /\ StatusOK(x)'
  <2>1. stream'[x] = stream[x] /\ (\A y : Due(x, y)' <=> row'[x].status = y)
    BY <1>7, <1>8, <1>11
  <2> QED BY <1>1, <2>1, Unmoved DEF Waiting
<1>12. Typed' /\ PlacesOK'
  BY <1>1, <1>7, <1>8 DEF RunInv, Typed, AtWork, PlacesOK, Waiting
<1> QED BY <1>1, <1>4, <1>8, <1>9, <1>10, <1>11, <1>12 DEF RunInv

-----------------------------------------------------------------------------
(* Settled tasks, shutdown, crash and recovery                             *)

\* A place given back leaves room.
LEMMA RoomLeft ==
  ASSUME NEW busy \in SUBSET Runs, Room(busy), NEW few \in SUBSET busy
  PROVE  Room(few)
<1>1. IsFiniteSet(few) /\ Cardinality(few) <= Cardinality(busy) /\ IsFiniteSet(busy)
  BY FS_Subset DEF Room
<1>2. Cardinality(few) \in Nat /\ Cardinality(busy) \in Nat /\ MaxConcurrent \in Nat
  BY <1>1, FS_CardinalityType, LimitsAssumption
<1>3. Cardinality(few) <= MaxConcurrent
  BY <1>1, <1>2 DEF Room
<1>4. ASSUME NEW o \in Owners PROVE ActiveOf(o, few) <= MaxConcurrentPerOwner
  <2> DEFINE S == {r \in few : OwnerOf[r] = o}
             T == {r \in busy : OwnerOf[r] = o}
  <2>1. S \subseteq T /\ T \subseteq busy
    OBVIOUS
  <2>2. Cardinality(T) <= MaxConcurrentPerOwner
    BY DEF Room, ActiveOf
  <2> HIDE DEF S, T
  <2>3. IsFiniteSet(T)
    BY <1>1, <2>1, FS_Subset
  <2>4. IsFiniteSet(S) /\ Cardinality(S) <= Cardinality(T)
    BY <2>1, <2>3, FS_Subset
  <2>5. Cardinality(S) \in Nat /\ Cardinality(T) \in Nat /\ MaxConcurrentPerOwner \in Nat
    BY <2>3, <2>4, FS_CardinalityType, LimitsAssumption
  <2>6. Cardinality(S) <= MaxConcurrentPerOwner
    BY <2>2, <2>4, <2>5
  <2> QED BY <2>6 DEF S, ActiveOf
<1> QED BY <1>1, <1>3, <1>4 DEF Room

LEMMA SettledStep ==
  ASSUME RunInv, NEW r \in Runs, Settled(r)
  PROVE  RunInv'
<1>1. /\ Idle /\ stream[r] = "over" /\ row' = row /\ approval' = approval
      /\ cancelled' = cancelled \ {r} /\ stopped' = stopped \ {r}
      /\ UNCHANGED <<host, restarts, lease>>
  BY DEF Settled, Working, durable, leaseVars
<1>2. /\ turn = <<>> /\ host \in {"up", "closing"}
      /\ \A x \in Runs : RowOK(x) /\ JobOK(x) /\ Told(x)
      /\ \A x \in Runs : row[x].status \in Broken => row[x].resumable \/ Continued(x)
      /\ row \in [Runs -> Records] /\ stream \in [Runs -> Stages] /\ QueueInv(queue)
      /\ active \subseteq Runs /\ subagents \subseteq Runs /\ Room(active)
      /\ cancelled \subseteq AtWork /\ stopped \subseteq AtWork
  BY <1>1, IdleFacts DEF RunInv, Typed, PlacesOK
<1>3. \A x \in Runs : RowOK(x)' /\ OfferOK(x)'
  BY <1>1, SameRows
<1>4. CASE r \in active
  <2>1. /\ Pump(<<>>, queue, active \ {r}, [stream EXCEPT ![r] = "none"])
        /\ subagents' = subagents
    BY <1>4 DEF Settled
  <2>2. PICK streams : streams = [stream EXCEPT ![r] = "none"]
    OBVIOUS
  <2>3. /\ streams \in [Runs -> Stages] /\ streams[r] = "none"
        /\ \A x \in Runs \ {r} : streams[x] = stream[x]
    BY <1>2, <2>2 DEF Stages
  <2>4. PICK busy \in SUBSET active : busy = active \ {r}
    OBVIOUS
  <2>5. Room(busy) /\ active \ busy = {r}
    BY <1>2, <1>4, <2>4, RoomLeft
  <2>6. PICK creates \in BOOLEAN, s \in Runs \cup {NoRun} : creates = FALSE
    OBVIOUS
  <2>7. Pump(IF creates THEN <<Create(r, s)>> ELSE <<>>, queue, busy, streams)
    BY <2>1, <2>2, <2>4, <2>6
  <2>8. Fair!Queued(queue) = Waiting \cup (IF creates THEN {r} ELSE {})
    BY <2>6 DEF Waiting
  <2>9. \A x \in Runs : streams[x] = IF x \in active \ busy THEN "none" ELSE stream[x]
    BY <2>3, <2>5
  <2>10. cancelled' \subseteq busy \cup subagents /\ stopped' \subseteq busy \cup subagents
    BY <1>1, <1>2, <2>4 DEF AtWork
  <2>11. \A x : Continued(x)' <=> Continued(x)
    BY <1>1 DEF Continued
  <2>12. \A x \in active \ busy : stream[x] = "over"
    BY <1>1, <2>5
  <2>13. /\ row' \in [Runs -> Records]
         /\ \A x \in Runs : /\ RowOK(x)' /\ row'[x].status = row[x].status
                            /\ row'[x].answered = row[x].answered
                            /\ row'[x].status \in Broken =>
                                 row'[x].resumable \/ Continued(x)' \/ (creates /\ x = s)
    BY <1>1, <1>2, <1>3, <2>11
  <2>14. /\ creates => host = "up" /\ New(r)
         /\ creates /\ s \in Runs => /\ row'[s].status \in Broken
                                     /\ ~row'[s].resumable /\ ~Continued(s)'
    BY <2>6
  <2>15. UNCHANGED <<subagents, approval, host, restarts, lease>>
    BY <1>1, <2>1
  <2>16. Idle /\ Room(busy) /\ QueueInv(queue) /\ streams \in [Runs -> Stages]
    BY <1>1, <1>2, <2>3, <2>5
  <2>17. PumpTurn(creates, r, s, queue, busy, streams)
    BY <2>6, <2>7, <2>8, <2>9, <2>10, <2>12, <2>13, <2>14, <2>15, <2>16 DEF PumpTurn
  <2> QED BY <2>16, <2>17, Pumping
<1>5. CASE r \notin active
  <2>1. subagents' = subagents \ {r} /\ Goes(r, "none") /\ UNCHANGED <<queue, active, turn>>
    BY <1>5 DEF Settled
  <2>2. /\ stream' \in [Runs -> Stages] /\ stream'[r] = "none"
        /\ \A x \in Runs \ {r} : stream'[x] = stream[x]
    BY <1>2, <2>1 DEF Goes, Stages
  <2>3. /\ turn' \in Seq(Txs) /\ TurnOK'
        /\ \A x, y : Due(x, y)' <=> row'[x].status = y
    BY <1>2, <2>1, NoTurn
  <2>4. /\ row[r].status \in Ended /\ r \notin Waiting /\ lease[r].at = "none"
        /\ approval[r] = "none"
    BY <1>1, <1>2 DEF Told, JobOK
  <2>5. r \notin AtWork' /\ Waiting' = Waiting
    BY <1>5, <2>1 DEF AtWork, Waiting
  <2>6. JobOK(r)'
    BY <1>1, <1>2, <2>2, <2>4, <2>5 DEF JobOK, AtWork, Streaming
  <2>7. StatusOK(r)'
    BY <1>1, <2>2, <2>3, <2>4, <2>5 DEF StatusOK, Streaming
  <2>8. ASSUME NEW x \in Runs, x # r PROVE JobOK(x)' /\ StatusOK(x)'
    <3>1. /\ stream'[x] = stream[x] /\ (x \in subagents' <=> x \in subagents)
          /\ \A y : Due(x, y)' <=> row'[x].status = y
      BY <2>1, <2>2, <2>3, <2>8
    <3> QED BY <1>1, <2>1, <2>5, <3>1, Unmoved
  <2>9. cancelled' \subseteq AtWork' /\ stopped' \subseteq AtWork'
    BY <1>1, <1>2, <2>1 DEF AtWork
  <2>10. Typed' /\ PlacesOK'
    BY <1>1, <2>1, <2>2, <2>3, <2>9 DEF RunInv, Typed, PlacesOK, Waiting
  <2> QED BY <1>1, <1>2, <1>3, <2>3, <2>6, <2>7, <2>8, <2>10 DEF RunInv
<1> QED BY <1>4, <1>5

\* shutdown(): what waited is interrupted.
LEMMA ShutdownStep ==
  ASSUME RunInv, Shutdown
  PROVE  RunInv'
<1>1. /\ Idle /\ host' = "closing" /\ row' = row /\ approval' = approval
      /\ queue' = Fair!EmptyQueue /\ stopped' = stopped \cup active \cup subagents
      /\ UNCHANGED <<active, subagents, cancelled, stream, restarts, lease>>
  BY DEF Shutdown, durable, leaseVars
<1>2. /\ turn = <<>> /\ host \in {"up", "closing"}
      /\ \A x \in Runs : RowOK(x) /\ JobOK(x) /\ Told(x)
      /\ QueueInv(queue) /\ stopped \subseteq AtWork /\ Waiting \subseteq Runs
  BY <1>1, IdleFacts DEF RunInv, Typed
<1>a. PICK left : left = Fair!Values(queue)
  OBVIOUS
<1>3. PICK n \in Nat : /\ DOMAIN left = 1..n
                       /\ \A k \in 1..n : left[k] \in Waiting
                       /\ \A x \in Waiting : \E k \in 1..n : left[k] = x
  BY <1>2, <1>a, QueueListed DEF Waiting
<1>4. turn' = [k \in 1..n |-> Tx("interrupted", left[k])]
  BY <1>a, <1>3 DEF Shutdown
<1>5. \A k \in 1..n : /\ Tx("interrupted", left[k]) \in Txs
                      /\ Tx("interrupted", left[k]).op = "interrupted"
                      /\ Tx("interrupted", left[k]).run = left[k]
  BY <1>2, <1>3 DEF Tx, Txs, Ops, Moves, Ended
<1>6. /\ turn' \in Seq(Txs) /\ DOMAIN turn' = 1..n
      /\ \A k \in 1..n : turn'[k].op = "interrupted" /\ turn'[k].run = left[k]
  BY <1>4, <1>5
<1>7. \A x : Continued(x)' <=> Continued(x)
  BY <1>1 DEF Continued
<1>8. \A x : ~ToContinue(x)'
  BY <1>6 DEF ToContinue
<1>9. \A x \in Waiting : /\ row[x].status = "queued" /\ row[x].status \notin Ended
                         /\ ~row[x].answered /\ ~row[x].unsaved /\ ~Continued(x)
                         /\ x \notin AtWork /\ stream[x] = "none"
                         /\ approval[x] = "none" /\ lease[x].at = "none"
  <2> SUFFICES ASSUME NEW x \in Waiting
               PROVE  /\ row[x].status = "queued" /\ row[x].status \notin Ended
                      /\ ~row[x].answered /\ ~row[x].unsaved /\ ~Continued(x)
                      /\ x \notin AtWork /\ stream[x] = "none"
                      /\ approval[x] = "none" /\ lease[x].at = "none"
    OBVIOUS
  <2>1. RowOK(x) /\ JobOK(x) /\ Told(x)
    BY <1>2
  <2>2. row[x].status = "queued" /\ row[x].status \notin Ended /\ row[x].status \notin Broken
    BY <2>1 DEF Told, Ended, Broken
  <2> QED BY <2>1, <2>2 DEF RowOK, JobOK, Told
<1>10. \A k \in DOMAIN turn' : TxOK(k)'
  <2> SUFFICES ASSUME NEW k \in DOMAIN turn' PROVE TxOK(k)'
    OBVIOUS
  <2>1. /\ turn'[k].op = "interrupted" /\ turn'[k].run \in Waiting
    BY <1>3, <1>6
  <2> QED BY <1>1, <1>7, <1>8, <1>9, <2>1 DEF TxOK
<1>11. TurnOK'
  <2>1. Sets("interrupted") = "interrupted"
    BY DEF Sets
  <2> QED BY <1>6, <1>10 DEF TurnOK, PairOK
<1>12. "interrupted" \in Moves /\ "interrupted" \in Ended /\ Sets("interrupted") = "interrupted"
  BY DEF Moves, Ended, Sets
<1>13. \A x \in Waiting : Due(x, "interrupted")'
  <2> SUFFICES ASSUME NEW x \in Waiting PROVE Due(x, "interrupted")'
    OBVIOUS
  <2>1. PICK k \in 1..n : left[k] = x
    BY <1>3
  <2>2. MovesAt(x, k)' /\ \A m \in DOMAIN turn' : Sets(turn'[m].op) = "interrupted"
    BY <1>6, <1>12, <2>1 DEF MovesAt
  <2> QED BY <1>6, <2>2 DEF Due
<1>14. \A x : x \notin Waiting => \A y : Due(x, y)' <=> row'[x].status = y
  <2>1. \A x : x \notin Waiting => \A k \in DOMAIN turn' : ~MovesAt(x, k)'
    BY <1>3, <1>6 DEF MovesAt
  <2> QED BY <2>1 DEF Due
<1>15. QueueInv(queue') /\ Waiting' = {}
  BY <1>1, QueueFresh DEF Waiting
<1>16. ASSUME NEW x \in Waiting PROVE JobOK(x)' /\ StatusOK(x)'
  <2>1. JobOK(x) /\ x \in Runs
    BY <1>2
  <2>2. JobOK(x)'
    BY <1>1, <1>9, <1>15, <2>1 DEF JobOK, AtWork, Streaming
  <2>3. StatusOK(x)'
    BY <1>1, <1>9, <1>12, <1>13, <1>15 DEF StatusOK, Streaming
  <2> QED BY <2>2, <2>3
<1>17. ASSUME NEW x \in Runs, x \notin Waiting PROVE JobOK(x)' /\ StatusOK(x)'
  BY <1>1, <1>14, <1>15, <1>17, Unmoved
<1>18. Typed' /\ PlacesOK'
  <2>1. stopped' \subseteq AtWork'
    BY <1>1, <1>2 DEF AtWork
  <2> QED BY <1>1, <1>6, <1>15, <2>1 DEF RunInv, Typed, AtWork, PlacesOK
<1>19. \A x \in Runs : RowOK(x)' /\ OfferOK(x)'
  BY <1>1, SameRows
<1> QED BY <1>1, <1>11, <1>16, <1>17, <1>18, <1>19 DEF RunInv

\* shutdown() returns.
LEMMA ReturnStep ==
  ASSUME RunInv, ShutdownReturns
  PROVE  RunInv'
<1>1. /\ Idle /\ host = "closing" /\ active \cup subagents = {} /\ host' = "down"
      /\ row' = row /\ approval' = approval /\ turn' = turn
      /\ UNCHANGED <<queue, active, subagents, cancelled, stopped, stream, restarts, lease>>
  BY DEF ShutdownReturns, durable, jobs, leaseVars
<1>2. turn = <<>> /\ \A x \in Runs : JobOK(x)
  BY <1>1, IdleFacts
<1>3. /\ turn' \in Seq(Txs) /\ TurnOK'
      /\ \A x, y : Due(x, y)' <=> row'[x].status = y
  BY <1>1, <1>2, NoTurn
<1>4. ASSUME NEW x \in Runs PROVE JobOK(x)' /\ StatusOK(x)'
  <2>1. x \notin Waiting \cup AtWork
    BY <1>1, <1>2 DEF JobOK, AtWork
  <2> QED BY <1>1, <1>3, <2>1, Unmoved DEF Waiting
<1>5. \A x \in Runs : RowOK(x)' /\ OfferOK(x)'
  BY <1>1, SameRows
<1>6. Typed' /\ PlacesOK'
  BY <1>1, <1>3 DEF RunInv, Typed, AtWork, PlacesOK, Waiting
<1> QED BY <1>1, <1>2, <1>3, <1>4, <1>5, <1>6 DEF RunInv

-----------------------------------------------------------------------------
(* Crash and recovery                                                      *)

LEMMA RestartStep ==
  ASSUME RunInv, Restart
  PROVE  RunInv'
<1>1. /\ restarts < MaxRestarts /\ restarts' = restarts + 1 /\ host' = "starting" /\ turn' = <<>>
      /\ queue' = Fair!EmptyQueue /\ active' = {} /\ subagents' = {}
      /\ cancelled' = {} /\ stopped' = {} /\ stream' = [r \in Runs |-> "none"]
      /\ row' = row /\ approval' = approval /\ \A r \in Runs : lease'[r].at = "none"
  BY DEF Restart, durable, ForgetLeases, None
<1>2. /\ turn' \in Seq(Txs) /\ TurnOK'
  BY <1>1, NoTurn
<1>3. QueueInv(queue') /\ Waiting' = {} /\ AtWork' = {}
  BY <1>1, QueueFresh DEF Waiting, AtWork
<1>4. ASSUME NEW r \in Runs PROVE RowOK(r)' /\ JobOK(r)' /\ StatusOK(r)' /\ OfferOK(r)'
  <2>1. RowOK(r)'
    <3>1. RowOK(r) /\ (Continued(r)' <=> Continued(r))
      BY <1>1 DEF RunInv, Continued
    <3> QED BY <1>1, <3>1 DEF RowOK
  <2>2. JobOK(r)'
    BY <1>1, <1>3 DEF JobOK, Streaming
  <2>3. StatusOK(r)' /\ OfferOK(r)'
    BY <1>1 DEF StatusOK, Known, OfferOK
  <2> QED BY <2>1, <2>2, <2>3
<1>5. Typed'
  <2>1. restarts' \in 0..MaxRestarts
    BY <1>1, LimitsAssumption DEF RunInv, Typed
  <2>2. stream' \in [Runs -> Stages]
    BY <1>1 DEF Stages
  <2> QED BY <1>1, <1>2, <1>3, <2>1, <2>2 DEF RunInv, Typed
<1>6. PlacesOK'
  <2>1. IsFiniteSet({}) /\ Cardinality({}) = 0
    BY FS_EmptySet
  <2>2. \A o \in Owners : ActiveOf(o, {}) = 0
    <3>1. \A o : {r \in {} : OwnerOf[r] = o} = {}
      OBVIOUS
    <3> QED BY <2>1, <3>1 DEF ActiveOf
  <2>3. Room({})
    BY <2>1, <2>2, LimitsAssumption DEF Room
  <2> QED BY <1>1, <2>3 DEF PlacesOK
<1> QED BY <1>1, <1>2, <1>4, <1>5, <1>6 DEF RunInv

\* While the host recovers nothing is in memory.
LEMMA Asleep ==
  ASSUME RunInv, host \in {"starting", "recovering"}
  PROVE  \A r \in Runs : /\ r \notin Waiting /\ r \notin AtWork /\ stream[r] = "none"
                         /\ lease[r].at = "none"
BY DEF RunInv, JobOK

\* What wakes up: memory, the limits and the leases are left alone.
LEMMA StillAsleep ==
  ASSUME RunInv, host \in {"starting", "recovering"},
         UNCHANGED <<jobs, restarts, lease>>, host' \in {"up", "recovering"},
         row' \in [Runs -> Records], turn' \in Seq(Txs),
         approval' \in [Runs -> {"none", "pending", "approved", "denied"}]
  PROVE  /\ Typed' /\ PlacesOK' /\ \A r \in Runs : JobOK(r)'
         /\ Waiting' = {} /\ \A r \in Runs : stream'[r] = "none"
<1>1. UNCHANGED <<queue, active, subagents, cancelled, stopped, stream, restarts, lease>>
  BY DEF jobs
<1>2. \A r \in Runs : /\ r \notin Waiting /\ r \notin AtWork /\ stream[r] = "none"
                      /\ lease[r].at = "none" /\ JobOK(r)
  BY Asleep DEF RunInv
<1>3. Waiting = {} /\ Waiting' = {} /\ AtWork' = AtWork
  <2>1. Waiting \subseteq Runs
    BY QueueType DEF RunInv, Typed, Waiting
  <2> QED BY <1>1, <1>2, <2>1 DEF Waiting, AtWork
<1>4. \A r \in Runs : JobOK(r)'
  BY <1>1, <1>2, <1>3 DEF JobOK, Streaming, AtWork
<1>5. Typed' /\ PlacesOK'
  BY <1>1, <1>3 DEF RunInv, Typed, AtWork, PlacesOK
<1> QED BY <1>1, <1>2, <1>3, <1>4, <1>5

\* recoverInterruptedRuns(), first statement.
LEMMA RepairStep ==
  ASSUME RunInv, Repair
  PROVE  RunInv'
<1>1. /\ host = "starting" /\ host' = "recovering"
      /\ row' = [r \in Runs |-> IF row[r].status \in Broken /\ ~Continued(r)
                                THEN Offered(row[r]) ELSE row[r]]
      /\ approval' = approval /\ turn' = turn /\ UNCHANGED <<jobs, restarts, lease>>
  BY DEF Repair, leaseVars
<1>2. /\ turn = <<>> /\ row \in [Runs -> Records]
      /\ approval \in [Runs -> {"none", "pending", "approved", "denied"}]
      /\ \A r \in Runs : RowOK(r)
  BY <1>1 DEF RunInv, Typed
<1>3. ASSUME NEW r \in Runs
      PROVE  /\ row'[r] \in Records /\ row'[r].status = row[r].status /\ row'[r].source = row[r].source
             /\ row'[r].answered = row[r].answered /\ row'[r].unsaved = row[r].unsaved
             /\ row[r].status = "none" => row'[r] = row[r]
             /\ row'[r].resumable => row[r].status \in Broken /\ ~Continued(r)
             /\ row[r].status \in Broken /\ ~Continued(r) => row'[r].resumable
  <2>1. PICK x \in Records : x = row[r]
    BY <1>2
  <2>2. PICK y : y = [x EXCEPT !.resumable = TRUE]
    OBVIOUS
  <2>3. /\ y \in Records /\ y.status = x.status /\ y.source = x.source /\ y.resumable
        /\ y.answered = x.answered /\ y.unsaved = x.unsaved
    BY <2>2 DEF Records
  <2>4. row'[r] = IF x.status \in Broken /\ ~Continued(r) THEN y ELSE x
    BY <1>1, <2>1, <2>2 DEF Offered
  <2>5. x.resumable => x.status \in Broken /\ ~Continued(r)
    BY <1>2, <2>1 DEF RowOK
  <2>6. "none" \notin Broken
    BY DEF Broken
  <2> QED BY <2>1, <2>3, <2>4, <2>5, <2>6
<1>4. \A r : Continued(r)' <=> Continued(r)
  BY <1>3 DEF Continued
<1>5. row' \in [Runs -> Records]
  BY <1>1, <1>3
<1>6. \A r \in Runs : RowOK(r)'
  BY <1>2, <1>3, <1>4 DEF RowOK
<1>7. \A r \in Runs : OfferOK(r)'
  BY <1>3, <1>4 DEF OfferOK
<1>8. \A r \in Runs : StatusOK(r)'
  BY <1>1 DEF StatusOK, Known
<1>9. turn' \in Seq(Txs) /\ TurnOK'
  BY <1>1, <1>2, NoTurn
<1>10. Typed' /\ PlacesOK' /\ \A r \in Runs : JobOK(r)'
  BY <1>1, <1>2, <1>5, <1>9, StillAsleep
<1> QED BY <1>1, <1>6, <1>7, <1>8, <1>9, <1>10 DEF RunInv

\* Its loop.
LEMMA RecoverStep ==
  ASSUME RunInv, NEW r \in Runs, Recover(r)
  PROVE  RunInv'
<1>1. /\ host = "recovering" /\ turn = <<>> /\ row[r].status \in {"queued", "running"}
      /\ row' = row /\ approval' = approval /\ host' = host /\ UNCHANGED <<jobs, restarts, lease>>
  BY DEF Recover, Live, durable, leaseVars
<1>2. PICK out \in Ended : out = (IF row[r].answered THEN "completed" ELSE "interrupted")
  BY DEF Ended
<1>3. Closing(r, out) /\ \A k \in DOMAIN turn' : turn'[k].op # "answered"
  BY <1>1, <1>2, RecoverCloses DEF Recover
<1>4. /\ row \in [Runs -> Records] /\ \A x \in Runs : RowOK(x) /\ OfferOK(x)
      /\ approval \in [Runs -> {"none", "pending", "approved", "denied"}]
  BY DEF RunInv, Typed
<1>5. \A x : Continued(x)' <=> Continued(x)
  BY <1>1 DEF Continued
<1>6. ~Continued(r)'
  <2>1. row[r].status \notin Broken
    BY <1>1 DEF Broken
  <2> QED BY <1>4, <1>5, <2>1 DEF RowOK
<1>7. turn' \in Seq(Txs) /\ TurnOK'
  BY <1>1, <1>2, <1>3, <1>6, ClosingFits
<1>8. \A x \in Runs : RowOK(x)'
  BY <1>1, <1>4, <1>5 DEF RowOK
<1>9. \A x \in Runs : OfferOK(x)'
  <2>1. \A x \in Runs : row[x].status \in Broken => row[x].resumable \/ Continued(x)
    BY <1>1, <1>4 DEF OfferOK, ToContinue, ToOffer
  <2> QED BY <1>1, <1>5, <2>1 DEF OfferOK
<1>10. \A x \in Runs : StatusOK(x)'
  BY <1>1 DEF StatusOK, Known
<1>11. Typed' /\ PlacesOK' /\ \A x \in Runs : JobOK(x)'
  BY <1>1, <1>4, <1>7, StillAsleep
<1> QED BY <1>1, <1>7, <1>8, <1>9, <1>10, <1>11 DEF RunInv

\* The host serves.
LEMMA ServeStep ==
  ASSUME RunInv, Serve
  PROVE  RunInv'
<1>1. /\ host = "recovering" /\ host' = "up" /\ turn = <<>> /\ turn' = turn /\ row' = row
      /\ \A r \in Runs : row[r].status \notin {"queued", "running"}
      /\ approval' = [r \in Runs |-> "none"] /\ UNCHANGED <<jobs, restarts, lease>>
  BY DEF Serve, Live, leaseVars
<1>2. row \in [Runs -> Records] /\ \A x \in Runs : RowOK(x) /\ OfferOK(x)
  BY DEF RunInv, Typed
<1>3. /\ turn' \in Seq(Txs) /\ TurnOK'
      /\ \A x, y : Due(x, y)' <=> row'[x].status = y
  BY <1>1, NoTurn
<1>4. /\ Typed' /\ PlacesOK' /\ \A x \in Runs : JobOK(x)'
      /\ Waiting' = {} /\ \A x \in Runs : stream'[x] = "none"
  BY <1>1, <1>2, <1>3, StillAsleep
<1>5. \A x : Continued(x)' <=> Continued(x)
  BY <1>1 DEF Continued
<1>6. \A x \in Runs : RowOK(x)'
  BY <1>1, <1>2, <1>5 DEF RowOK
<1>7. \A x \in Runs : OfferOK(x)'
  <2>1. \A x \in Runs : row[x].status \in Broken => row[x].resumable \/ Continued(x)
    BY <1>1, <1>2 DEF OfferOK, ToContinue, ToOffer
  <2> QED BY <1>1, <1>5, <2>1 DEF OfferOK
<1>8. \A x \in Runs : StatusOK(x)'
  <2> SUFFICES ASSUME NEW x \in Runs PROVE StatusOK(x)'
    OBVIOUS
  <2>1. row[x].status \in Ended \cup {"none"}
    BY <1>1, <1>2 DEF Records, Statuses
  <2>2. approval'[x] = "none" /\ stream'[x] = "none" /\ x \notin Waiting'
    BY <1>1, <1>4
  <2> QED BY <1>1, <1>3, <2>1, <2>2 DEF StatusOK, Streaming
<1> QED BY <1>1, <1>3, <1>4, <1>6, <1>7, <1>8 DEF RunInv

-----------------------------------------------------------------------------
(* The invariant                                                           *)

LEMMA RunInit == Init => RunInv
<1> SUFFICES ASSUME Init PROVE RunInv
  OBVIOUS
<1>1. /\ row = [r \in Runs |-> NoRow] /\ approval = [r \in Runs |-> "none"] /\ turn = <<>>
      /\ queue = Fair!EmptyQueue /\ active = {} /\ subagents = {} /\ cancelled = {} /\ stopped = {}
      /\ stream = [r \in Runs |-> "none"] /\ host = "up" /\ restarts = 0
      /\ \A r \in Runs : lease[r].at = "none"
  BY DEF Init, LeasesInit, None
<1>2. NoRow \in Records /\ NoRow.status = "none" /\ NoRow.source = NoRun
      /\ ~NoRow.resumable /\ ~NoRow.answered /\ ~NoRow.unsaved
  BY DEF NoRow, Records, Statuses
<1>3. \A r \in Runs : row[r] = NoRow /\ ~Continued(r)
  BY <1>1, <1>2, OwnersAssumption DEF Continued
<1>4. DOMAIN turn = {} /\ turn \in Seq(Txs)
  BY <1>1, EmptySeq
<1>5. TurnOK /\ \A x, y : Due(x, y) <=> row[x].status = y
  BY <1>4 DEF TurnOK, Due
<1>6. QueueInv(queue) /\ Waiting = {} /\ AtWork = {}
  BY <1>1, QueueFresh DEF Waiting, AtWork
<1>7. "none" \notin Broken /\ "none" \in Ended \cup {"none"} /\ "none" # "running"
  BY DEF Broken
<1>8. ASSUME NEW r \in Runs PROVE RowOK(r) /\ JobOK(r) /\ StatusOK(r) /\ OfferOK(r)
  <2>1. RowOK(r)
    BY <1>2, <1>3, <1>7, OwnersAssumption DEF RowOK
  <2>2. JobOK(r)
    BY <1>1, <1>6 DEF JobOK, Streaming
  <2>3. StatusOK(r)
    BY <1>1, <1>2, <1>3, <1>5, <1>6, <1>7 DEF StatusOK, Streaming
  <2>4. OfferOK(r)
    BY <1>2, <1>3, <1>7 DEF OfferOK
  <2> QED BY <2>1, <2>2, <2>3, <2>4
<1>9. Typed
  <2>1. row \in [Runs -> Records] /\ stream \in [Runs -> Stages] /\ restarts \in 0..MaxRestarts
    BY <1>1, <1>2, LimitsAssumption DEF Stages
  <2> QED BY <1>1, <1>4, <1>6, <2>1 DEF Typed
<1>10. PlacesOK
  <2>1. IsFiniteSet({}) /\ Cardinality({}) = 0
    BY FS_EmptySet
  <2>2. \A o \in Owners : ActiveOf(o, {}) = 0
    <3>1. \A o : {r \in {} : OwnerOf[r] = o} = {}
      OBVIOUS
    <3> QED BY <2>1, <3>1 DEF ActiveOf
  <2>3. Room({})
    BY <2>1, <2>2, LimitsAssumption DEF Room
  <2> QED BY <1>1, <1>6, <2>3 DEF PlacesOK
<1> QED BY <1>1, <1>5, <1>8, <1>9, <1>10 DEF RunInv

LEMMA RunStutter == RunInv /\ UNCHANGED vars => RunInv'
<1> SUFFICES ASSUME RunInv, UNCHANGED vars PROVE RunInv'
  OBVIOUS
<1>1. UNCHANGED <<row, approval, turn, queue, active, subagents, cancelled, stopped, stream,
                  host, restarts, lease>>
  BY DEF vars, durable, jobs, leaseVars
<1>2. Typed' /\ PlacesOK' /\ Waiting' = Waiting /\ AtWork' = AtWork
  BY <1>1 DEF RunInv, Typed, PlacesOK, Waiting, AtWork
<1>3. \A r : (Continued(r)' <=> Continued(r)) /\ (ToContinue(r)' <=> ToContinue(r))
             /\ (ToOffer(r)' <=> ToOffer(r))
  BY <1>1 DEF Continued, ToContinue, ToOffer
<1>4. \A r, s : Due(r, s)' <=> Due(r, s)
  BY <1>1 DEF Due, MovesAt
<1>5. ASSUME NEW r \in Runs PROVE RowOK(r)' /\ JobOK(r)' /\ StatusOK(r)' /\ OfferOK(r)'
  <2>1. RowOK(r) /\ JobOK(r) /\ StatusOK(r) /\ OfferOK(r) /\ (Streaming(r)' <=> Streaming(r))
    BY <1>1 DEF RunInv, Streaming
  <2>2. RowOK(r)' /\ OfferOK(r)'
    BY <1>1, <1>3, <2>1 DEF RowOK, OfferOK
  <2>3. JobOK(r)'
    BY <1>1, <1>2, <2>1 DEF JobOK
  <2>4. StatusOK(r)'
    BY <1>1, <1>2, <1>4, <2>1 DEF StatusOK, Known
  <2> QED BY <2>2, <2>3, <2>4
<1>6. TurnOK'
  <2>1. \A k \in DOMAIN turn : TxOK(k)'
    <3> SUFFICES ASSUME NEW k \in DOMAIN turn PROVE TxOK(k)'
      OBVIOUS
    <3>1. TxOK(k)
      BY DEF RunInv, TurnOK
    <3> QED BY <1>1, <1>3, <3>1 DEF TxOK
  <2>2. \A k, m \in DOMAIN turn : k < m => PairOK(k, m)'
    BY <1>1 DEF RunInv, TurnOK, PairOK
  <2> QED BY <1>1, <2>1, <2>2 DEF TurnOK
<1> QED BY <1>1, <1>2, <1>5, <1>6 DEF RunInv

LEMMA RunSteps == RunInv /\ LeaseInv /\ [Next]_vars => RunInv'
<1> SUFFICES ASSUME RunInv, LeaseInv, [Next]_vars PROVE RunInv'
  OBVIOUS
<1>1. CASE UNCHANGED vars
  BY <1>1, RunStutter
<1>2. CASE Commit \/ Shutdown \/ ShutdownReturns \/ Restart \/ Startup
  BY <1>2, CommitStep, ShutdownStep, ReturnStep, RestartStep, RepairStep, ServeStep DEF Startup
<1>3. ASSUME NEW r \in Runs, Request(r) \/ Cancel(r) \/ \E s \in Runs : Resume(s, r) \/ LaunchSubagent(s, r)
      PROVE  RunInv'
  BY <1>3, RequestStep, CancelStep, ResumeStep, LaunchStep
<1>4. ASSUME NEW r \in Runs, Says(r) \/ CallsTool(r) \/ EndsCall(r) \/ Answers(r) \/ Breaks(r)
      PROVE  RunInv'
  BY <1>4, SaysStep, TalkStep
<1>5. ASSUME NEW r \in Runs, AsksUser(r) \/ SeesDecision(r) \/ TakesLease(r) \/ EndsTool(r) \/ Aborts(r)
      PROVE  RunInv'
  BY <1>5, CallStep
<1>6. ASSUME NEW r \in Runs, NEW d \in {"approved", "denied"}, Decides(r, d)
      PROVE  RunInv'
  BY <1>6, DecidesStep
<1>7. ASSUME NEW r \in Runs, Coordinator(r)
      PROVE  RunInv'
  BY <1>7, FinishStep, SettledStep, RecoverStep DEF Coordinator
<1> QED BY <1>1, <1>2, <1>3, <1>4, <1>5, <1>6, <1>7 DEF Next, Runtime

LEMMA RunsKept == Spec => [](RunInv /\ LeaseInv)
<1>1. RunInv /\ LeaseInv /\ LeaseInv' /\ [Next]_vars => (RunInv /\ LeaseInv)'
  BY RunSteps
<1>2. Spec => []LeaseInv
  BY LeasesImplemented, LeasesKept, PTL
<1>3. Init => RunInv
  BY RunInit
<1> QED BY <1>1, <1>2, <1>3, PTL DEF Spec

-----------------------------------------------------------------------------
(* What follows from it                                                    *)

\* Between turns a record is queued or running exactly while its job is waiting
\* or at work (agent-runs.ts:62-84, 178-198, 236-256), and every field keeps its
\* type.
THEOREM MemoryMatchesTheStore == Spec => []MemoryMatchesStore
<1>1. RunInv /\ LeaseInv => MemoryMatchesStore
  <2> SUFFICES ASSUME RunInv, LeaseInv PROVE MemoryMatchesStore
    OBVIOUS
  <2>1. TypeOK
    BY QueueType DEF RunInv, LeaseInv, Typed, TypeOK, Records, AtWork
  <2>2. ASSUME Idle
        PROVE  /\ {r \in Runs : row[r].status = "queued"} = Waiting
               /\ {r \in Runs : row[r].status = "running"}
                    = {r \in active \cup subagents : stream[r] # "over"}
               /\ Waiting \cap (active \cup subagents) = {}
    <3>1. /\ \A r \in Runs : JobOK(r) /\ Told(r)
          /\ Waiting \subseteq Runs /\ AtWork \subseteq Runs
      BY <2>2, IdleFacts
    <3>2. "queued" \notin Ended \cup {"none"} /\ "running" \notin Ended \cup {"none"}
      BY DEF Ended
    <3>3. \A r \in Runs : /\ row[r].status = "queued" <=> r \in Waiting
                          /\ row[r].status = "running" <=> Streaming(r)
                          /\ Streaming(r) <=> r \in AtWork /\ stream[r] # "over"
                          /\ r \in Waiting => r \notin AtWork
      BY <3>1, <3>2 DEF JobOK, Told, Streaming
    <3> QED BY <3>1, <3>3 DEF AtWork
  <2> QED BY <2>1, <2>2 DEF MemoryMatchesStore, Waiting
<1> QED BY <1>1, RunsKept, PTL

\* Nobody waits beside a free place of his, and no limit is exceeded
\* (#pump(), agent-runs.ts:236-241).
THEOREM NobodyWaitsForNothing == Spec => []WorkConserving
<1>1. RunInv => WorkConserving
  <2> SUFFICES ASSUME RunInv PROVE WorkConserving
    OBVIOUS
  <2>1. PlacesOK /\ active \subseteq Runs /\ Waiting \subseteq Runs
    BY QueueType DEF RunInv, Typed, Waiting
  <2>2. Cardinality(active) <= MaxConcurrent /\ \A o \in Owners : ActiveOf(o, active) <= MaxConcurrentPerOwner
    BY <2>1 DEF PlacesOK, Room
  <2>3. ASSUME host = "up", Cardinality(active) < MaxConcurrent, NEW r \in Waiting
        PROVE  ActiveOf(OwnerOf[r], active) = MaxConcurrentPerOwner
    <3>1. OwnerOf[r] \in Owners /\ MaxConcurrentPerOwner \in Nat
      BY <2>1, OwnersAssumption, LimitsAssumption
    <3>2. ActiveOf(OwnerOf[r], active) \in Nat
      BY <2>1, ActiveCounted DEF PlacesOK, Room
    <3>3. ~(ActiveOf(OwnerOf[r], active) < MaxConcurrentPerOwner)
      BY <2>1, <2>3 DEF PlacesOK, Admissible
    <3>4. ActiveOf(OwnerOf[r], active) <= MaxConcurrentPerOwner
      BY <2>2, <3>1
    <3> QED BY <3>1, <3>2, <3>3, <3>4
  <2> QED BY <2>2, <2>3 DEF WorkConserving, Waiting
<1> QED BY <1>1, RunsKept, PTL

\* No text of an ended run is missing from its transcript, however the run
\* ended (agent-runs.ts:296, 303, sqlite-agent-run-store.ts:260).
THEOREM TextIsSaved == Spec => []EndedTextIsSaved
<1>1. RunInv => EndedTextIsSaved
  BY DEF RunInv, RowOK, EndedTextIsSaved, Ended
<1> QED BY <1>1, RunsKept, PTL

\* A run that broke can be continued, and once, although a claim may have been
\* followed by a refused start or by a crash (agent-routes.ts:221-230,
\* sqlite-agent-run-store.ts:250-253).
THEOREM BrokenRunsAreContinuedOnce == Spec => []ContinuedOnce
<1>1. RunInv => ContinuedOnce
  <2> SUFFICES ASSUME RunInv PROVE ContinuedOnce
    OBVIOUS
  <2>1. \A s, r, q \in Runs : row[r].source = s /\ row[q].source = s => r = q
    BY DEF RunInv, RowOK
  <2>2. Idle => \A r \in Runs : row[r].status \in Broken => (row[r].resumable <=> ~Continued(r))
    BY IdleFacts DEF RowOK
  <2> QED BY <2>1, <2>2 DEF ContinuedOnce
<1> QED BY <1>1, RunsKept, PTL

\* A lease is somebody's exactly while his tool waits for it or runs, an approval
\* is pending only while its call waits for it (pi-agent-runtime.ts:646-668,
\* 811-813, tool-approval-gate.ts:49-66).
THEOREM CallsTakeBackWhatTheyGot == Spec => []NothingOutlivesItsCall
<1>1. RunInv => NothingOutlivesItsCall
  <2> SUFFICES ASSUME RunInv, NEW r \in Runs
               PROVE  /\ lease[r].at # "none" <=> stream[r] = "tool"
                      /\ Idle /\ approval[r] = "pending" => stream[r] = "ask"
    BY DEF NothingOutlivesItsCall
  <2>1. lease[r].at # "none" <=> stream[r] = "tool"
    BY DEF RunInv, JobOK
  <2>2. Idle /\ approval[r] = "pending" => stream[r] = "ask"
    BY IdleFacts DEF Told
  <2> QED BY <2>1, <2>2
<1> QED BY <1>1, RunsKept, PTL

\* An outcome is the last word, and a run whose answer is complete is never
\* interrupted (sqlite-agent-run-store.ts:265-281).
THEOREM OutcomesAreFinal == Spec => OutcomeIsFinal
<1> DEFINE Final == \A r \in Runs :
       /\ row[r].status \in Ended => row'[r].status = row[r].status
       /\ row[r].answered => row'[r].status \in {row[r].status, "completed"}
<1>1. RunInv /\ LeaseInv /\ [Next]_vars => Final
  <2> SUFFICES ASSUME RunInv, LeaseInv, [Next]_vars PROVE Final
    OBVIOUS
  <2>1. CASE row' = row
    BY <2>1
  <2>2. CASE Commit
    <3>1. PICK t \in Txs, r \in Runs, x \in Records, y \in Records, n \in Nat : CommitShape(t, r, x, y, n)
      BY <2>2, CommitFields
    <3>2. TxOK(1) /\ t = turn[1] /\ r = t.run /\ x = row[r] /\ row'[r] = y
          /\ \A q \in Runs \ {r} : row'[q] = row[q]
      BY <3>1, CommitContinues DEF CommitShape
    <3>3. /\ t.op \in Moves /\ x.status \in Ended => Sets(t.op) = x.status
          /\ t.op \in Moves /\ x.answered => t.op = "completed"
      BY <3>2 DEF TxOK
    <3>4. y.status = IF t.op \in Moves THEN Sets(t.op) ELSE x.status
      BY <3>1 DEF CommitShape, Committed
    <3>5. "completed" \in Ended /\ Sets("completed") = "completed"
      BY OpSets DEF Ended
    <3> QED BY <3>2, <3>3, <3>4, <3>5
  <2>3. CASE Repair
    <3>1. row' = [r \in Runs |-> IF row[r].status \in Broken /\ ~Continued(r)
                                 THEN Offered(row[r]) ELSE row[r]]
      BY <2>3 DEF Repair
    <3>2. ASSUME NEW r \in Runs PROVE row'[r].status = row[r].status
      <4>1. PICK x \in Records : x = row[r]
        BY DEF RunInv, Typed
      <4>2. Offered(x).status = x.status
        BY DEF Offered, Records
      <4> QED BY <3>1, <4>1, <4>2
    <3> QED BY <3>2
  <2>4. ASSUME NEW s \in Runs, NEW r \in Runs, Resume(s, r)
        PROVE  Final
    <3>1. \A q \in Runs : row'[q].status = row[q].status
      BY <2>4, ClaimedRow DEF Resume
    <3> QED BY <3>1
  <2>5. ASSUME NEW p \in Runs, NEW r \in Runs, LaunchSubagent(p, r)
        PROVE  Final
    <3>1. row' = [row EXCEPT ![r] = Created(p, NoRun)] /\ row[r] = NoRow
      BY <2>5, NewRun DEF LaunchSubagent
    <3>2. row \in [Runs -> Records]
      BY DEF RunInv, Typed
    <3>3. \A q \in Runs \ {r} : row'[q] = row[q]
      BY <3>1, <3>2
    <3>4. row[r].status \notin Ended /\ ~row[r].answered
      BY <3>1 DEF NoRow, Ended
    <3> QED BY <3>3, <3>4
  <2>6. ASSUME NEW r \in Runs, Says(r)
        PROVE  Final
    <3>1. row' = [row EXCEPT ![r] = Text(row[r])] /\ row \in [Runs -> Records]
      BY <2>6 DEF Says, RunInv, Typed
    <3>2. PICK x \in Records : x = row[r]
      BY <3>1
    <3>3. Text(x).status = x.status
      BY DEF Text, Records
    <3>4. row'[r] = Text(x) /\ \A q \in Runs \ {r} : row'[q] = row[q]
      BY <3>1, <3>2
    <3> QED BY <3>2, <3>3, <3>4
  <2>7. CASE UNCHANGED vars \/ Shutdown \/ ShutdownReturns \/ Restart \/ Serve
    <3>1. row' = row
      BY <2>7 DEF vars, durable, Shutdown, ShutdownReturns, Restart, Serve
    <3> QED BY <2>1, <3>1
  <2>8. ASSUME NEW r \in Runs,
               \/ Request(r) \/ Cancel(r) \/ CallsTool(r) \/ AsksUser(r) \/ TakesLease(r)
               \/ Answers(r) \/ Breaks(r) \/ Aborts(r) \/ Runtime(r) \/ Coordinator(r)
               \/ \E d \in {"approved", "denied"} : Decides(r, d)
        PROVE  Final
    <3>1. row' = row
      BY <2>8 DEF durable, Request, Cancel, CallsTool, AsksUser, TakesLease, Answers, Breaks, Aborts,
                  Runtime, EndsCall, SeesDecision, EndsTool, Coordinator, Finish, Settled, Recover, Decides
    <3> QED BY <2>1, <3>1
  <2> QED BY <2>2, <2>3, <2>4, <2>5, <2>6, <2>7, <2>8 DEF Next, Startup
<1> QED BY <1>1, RunsKept, PTL DEF Spec, OutcomeIsFinal

\* When shutdown() has returned nothing is alive that could still write, and
\* nothing is written until the next start (agent-runs.ts:205-220).
THEOREM NothingIsLeftAfterShutdown == Spec => ShutdownIsComplete
<1> DEFINE Still == host = "down" => /\ turn = <<>>
                                     /\ \A r \in Runs : ~Live(r) /\ approval[r] # "pending" /\ lease[r] = None
<1>1. RunInv /\ LeaseInv => Still
  <2> SUFFICES ASSUME RunInv, LeaseInv, host = "down", NEW r \in Runs
               PROVE  turn = <<>> /\ ~Live(r) /\ approval[r] # "pending" /\ lease[r] = None
    BY DEF RunInv
  <2>1. turn = <<>> /\ JobOK(r) /\ StatusOK(r) /\ Known
    BY DEF RunInv, Known
  <2>2. DOMAIN turn = {}
    BY <2>1
  <2>3. \A s : Due(r, s) <=> row[r].status = s
    BY <2>2 DEF Due
  <2>4. r \notin Waiting /\ stream[r] = "none" /\ lease[r].at = "none"
    BY <2>1 DEF JobOK
  <2>5. row[r].status \in Ended \cup {"none"} /\ approval[r] = "none"
    BY <2>1, <2>3, <2>4 DEF StatusOK
  <2>6. lease[r] = None
    BY <2>4 DEF LeaseInv, MapInv
  <2> QED BY <2>1, <2>5, <2>6 DEF Live, Ended
<1>2. RunInv /\ LeaseInv /\ [Next]_vars => (host = "down" => UNCHANGED durable)
  <2> SUFFICES ASSUME RunInv, [Next]_vars, host = "down" PROVE UNCHANGED durable
    OBVIOUS
  <2>1. turn = <<>> /\ ~Idle
    BY DEF RunInv, Idle
  <2>2. CASE UNCHANGED vars \/ Commit \/ Shutdown \/ ShutdownReturns \/ Restart \/ Startup
    BY <2>1, <2>2 DEF vars, Commit, Shutdown, ShutdownReturns, Restart, Startup, Repair, Serve
  <2>3. ASSUME NEW r \in Runs
        PROVE  /\ ~Request(r) /\ ~Cancel(r)
               /\ \A s \in Runs : ~Resume(s, r) /\ ~LaunchSubagent(s, r)
               /\ ~Says(r) /\ ~CallsTool(r) /\ ~AsksUser(r) /\ ~TakesLease(r)
               /\ ~Answers(r) /\ ~Breaks(r) /\ ~Aborts(r) /\ \A d : ~Decides(r, d)
               /\ ~Runtime(r) /\ ~Coordinator(r)
    BY <2>1 DEF Request, Cancel, Resume, LaunchSubagent, Says, CallsTool, AsksUser, TakesLease, Answers,
                Breaks, Aborts, Decides, Runtime, EndsCall, SeesDecision, EndsTool, Coordinator, Finish,
                Settled, Recover, Working
  <2> QED BY <2>2, <2>3 DEF Next
<1> QED BY <1>1, <1>2, RunsKept, PTL DEF Spec, ShutdownIsComplete
=============================================================================

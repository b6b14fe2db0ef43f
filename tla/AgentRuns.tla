------------------------------ MODULE AgentRuns ------------------------------
(***************************************************************************)
(* Agent runs from their request to their outcome, over crashes and        *)
(* restarts of the host:                                                   *)
(*   the coordinator            apps/host/src/agent-runs.ts                *)
(*   the durable run records    storage/src/sqlite-agent-run-store.ts      *)
(*   continuing a run           apps/host/src/agent-routes.ts              *)
(*   a run's tool calls         agent-pi/src/pi-agent-runtime.ts,          *)
(*                              apps/host/src/tool-approval-gate.ts        *)
(*   leases of workspaces       WorkspaceLeases                            *)
(*                                                                         *)
(* A synchronous turn of the coordinator commits one transaction after the *)
(* other.  The action does what the turn does to memory; the transactions  *)
(* are listed in `turn` and committed one by one, and while one is left    *)
(* only a crash can come in between.                                       *)
(*                                                                         *)
(* A record keeps of the event log what recovery looks at: answered (the   *)
(* last event is assistant.completed) and unsaved (logged text that is not *)
(* in the transcript of its session; a delegated run has none).  Events    *)
(* that change neither nor the status are left out with what they carry:   *)
(* queue positions, model requests, the tools of the checkpoint, and the   *)
(* copy of the status in the table of all jobs.                            *)
(***************************************************************************)
EXTENDS WorkspaceLeases, Functions

CONSTANTS Owners, OwnerOf, NoOwner, NoRun,
          MaxDepth, MaxConcurrent, MaxConcurrentPerOwner,   \* the constructor's limits
          MaxRestarts                                       \* bound: starts of the host after the first

ASSUME LimitsAssumption ==
  /\ {MaxDepth, MaxConcurrent, MaxConcurrentPerOwner} \subseteq Nat \ {0}
  /\ MaxRestarts \in Nat

\* Every run has the id of an owner.
ASSUME OwnersAssumption ==
  OwnerOf \in [Runs -> Owners] /\ NoOwner \notin Owners /\ NoRun \notin Runs

VARIABLES row,        \* agent_runs, agent_run_state
          approval,   \* tool_approvals: the one the run's call was given, while it waits
          turn,       \* transactions the turn under way has still to commit
          queue,      \* #queue
          active,     \* #active
          subagents,  \* #activeSubagents
          cancelled,  \* jobs with cancelRequested
          stopped,    \* jobs with shutdownRequested
          stream,     \* where the runtime's stream of each run stands
          host,       \* the host: starting, serving or closing
          restarts

durable == <<row, approval>>
jobs    == <<queue, active, subagents, cancelled, stopped, stream>>
vars    == <<durable, turn, jobs, host, restarts, leaseVars>>

Fair == INSTANCE OwnerFairQueue WITH Items <- Runs, NoItem <- NoRun

Ended   == {"completed", "failed", "cancelled", "interrupted"}
Broken  == {"failed", "interrupted"}
Statuses == {"none", "queued", "running"} \cup Ended
Stages  == {"none", "work", "call", "ask", "tool", "closed", "failed", "aborted", "over"}
Live(r) == row[r].status \in {"queued", "running"}

NoRow == [status |-> "none", parent |-> NoRun, source |-> NoRun,
          resumable |-> FALSE, answered |-> FALSE, unsaved |-> FALSE]

Init ==
  /\ row = [r \in Runs |-> NoRow]
  /\ approval = [r \in Runs |-> "none"]
  /\ turn = <<>>
  /\ queue = Fair!EmptyQueue
  /\ active = {} /\ subagents = {} /\ cancelled = {} /\ stopped = {}
  /\ stream = [r \in Runs |-> "none"]
  /\ host = "up" /\ restarts = 0
  /\ LeasesInit

-----------------------------------------------------------------------------
(* Transactions                                                            *)

\* appendEvent(): what an event does to its run.
Started(x)    == [x EXCEPT !.status = "running"]
Text(x)       == [x EXCEPT !.unsaved = x.parent = NoRun]
Answered(x)   == [x EXCEPT !.answered = TRUE]
Outcome(x, s) == [x EXCEPT !.status = s, !.answered = FALSE, !.resumable = s \in Broken]
\* The other statements of the store, and the transcript.
Created(parent, source) ==
  [NoRow EXCEPT !.status = "queued", !.parent = parent, !.source = source]
Saved(x)      == [x EXCEPT !.unsaved = FALSE]
Marked(x)     == [x EXCEPT !.status = "interrupted"]
Offered(x)    == [x EXCEPT !.resumable = TRUE]
Claimed(x)    == [x EXCEPT !.resumable = FALSE]

\* One transaction: `op` on one run (and the run it continues).
Tx(op, r)    == [op |-> op, run |-> r, source |-> NoRun]
Create(r, s) == [op |-> "create", run |-> r, source |-> s]

Effect(t, x) ==
  CASE t.op = "create"   -> Created(NoRun, t.source)
    [] t.op = "started"  -> Started(x)
    [] t.op = "answered" -> Answered(x)
    [] t.op = "save"     -> Saved(x)
    [] t.op = "mark"     -> Marked(x)
    [] t.op = "offer"    -> Offered(x)
    [] t.op \in Ended    -> Outcome(x, t.op)

Commit ==
  /\ turn # <<>>
  /\ row' = [row EXCEPT ![Head(turn).run] = Effect(Head(turn), @)]
  /\ turn' = Tail(turn)
  /\ UNCHANGED <<approval, jobs, host, restarts, leaseVars>>

\* The transcript takes the text that is logged.
Flush(r) == IF row[r].unsaved THEN <<Tx("save", r)>> ELSE <<>>

\* Something of the host begins: no turn is under way, the host is not starting.
Idle == turn = <<>> /\ host \in {"up", "closing"}

-----------------------------------------------------------------------------
(* The pump                                                                *)

ActiveOf(o, busy) == Cardinality({r \in busy : OwnerOf[r] = o})
Admissible(busy)  == {r \in Runs : ActiveOf(OwnerOf[r], busy) < MaxConcurrentPerOwner}

\* #pump() on a queue and a set of active jobs: while there is room the next
\* job whose owner has room starts.  #createStream() of the jobs in `unlucky`
\* throws, and the run has failed before the next job is looked at.
Pumped(q, busy, unlucky) ==
  LET start == [queue |-> q, active |-> busy, writes |-> <<>>, begun |-> {}]
      loop[n \in 0..MaxConcurrent] ==
        IF n = 0 THEN start
        ELSE LET p    == loop[n - 1]
                 next == Fair!DequeueWhere(p.queue, Admissible(p.active))
                 job  == next.item
             IN IF Cardinality(p.active) >= MaxConcurrent \/ job = NoRun THEN p
                ELSE [queue  |-> next.queue,
                      active |-> p.active \cup {job},
                      begun  |-> p.begun \cup {job},
                      writes |-> Append(p.writes,
                                   Tx(IF job \in unlucky THEN "failed" ELSE "started", job))]
  IN loop[MaxConcurrent]

\* Memory and transactions after `before`, when #pump() ends the turn.
Pump(before, q, busy, streams) ==
  \E unlucky \in SUBSET Fair!Queued(q) :
    LET p == IF host = "up" THEN Pumped(q, busy, unlucky)
             ELSE [queue |-> q, active |-> busy, writes |-> <<>>, begun |-> {}]
    IN /\ unlucky \subseteq p.begun
       /\ queue' = p.queue /\ active' = p.active
       /\ stream' = [r \in Runs |-> IF r \in unlucky THEN "over"
                                    ELSE IF r \in p.begun THEN "work" ELSE streams[r]]
       /\ turn' = before \o p.writes

-----------------------------------------------------------------------------
(* Requests                                                                *)

New(r) == row[r].status = "none" /\ r \notin Fair!Queued(queue)
HasRoom == Fair!QueueLength(queue) + Cardinality(active) < MaxDepth

\* start() of run r, a continuation of s or of nothing; it throws when the host
\* is closing or the queue is full.
Start(r, s) ==
  /\ New(r) /\ host = "up" /\ HasRoom
  /\ Pump(<<Create(r, s)>>, Fair!Enqueue(queue, r), active, stream)
  /\ UNCHANGED <<approval, subagents, cancelled, stopped, host, restarts, leaseVars>>

Request(r) == Idle /\ Start(r, NoRun) /\ UNCHANGED row

\* POST /resume: claim the run (a conditional update), start its continuation,
\* and offer it again when that throws.  What the route looked at before it
\* prepared the context may have changed: only the claim counts.
Resume(s, r) ==
  /\ Idle /\ row[s].resumable /\ row[s].parent = NoRun
  /\ OwnerOf[r] = OwnerOf[s] /\ WorkspaceOf[r] = WorkspaceOf[s]
  /\ row' = [row EXCEPT ![s] = Claimed(@)]
  /\ \/ Start(r, s)
     \/ /\ ~(host = "up" /\ HasRoom) /\ New(r) /\ turn' = <<Tx("offer", s)>>
        /\ UNCHANGED <<approval, jobs, host, restarts, leaseVars>>

\* launchSubagent() from a tool call of run p: the child runs at once, beside
\* the queue.
LaunchSubagent(p, r) ==
  /\ Idle /\ host = "up" /\ New(r)
  /\ stream[p] = "call" /\ row[p].parent = NoRun
  /\ p \notin cancelled \cup stopped
  /\ OwnerOf[r] = OwnerOf[p] /\ WorkspaceOf[r] = WorkspaceOf[p]
  /\ row' = [row EXCEPT ![r] = Created(p, NoRun)]
  /\ subagents' = subagents \cup {r}
  /\ \E unlucky \in BOOLEAN :
       /\ stream' = [stream EXCEPT ![r] = IF unlucky THEN "over" ELSE "work"]
       /\ turn' = <<Tx(IF unlucky THEN "failed" ELSE "started", r)>>
  /\ UNCHANGED <<approval, queue, active, cancelled, stopped, host, restarts, leaseVars>>

ChildrenOf(p) == {r \in subagents : row[r].parent = p}

\* Seeded fault: the cancelled job keeps its place in the queue.
CancelKeepsQueued(r) ==
  /\ Idle /\ r \notin cancelled
  /\ \/ /\ r \in active \cup subagents
        /\ cancelled' = cancelled \cup {r} \cup (IF r \in active THEN ChildrenOf(r) ELSE {})
        /\ UNCHANGED turn
     \/ r \in Fair!Queued(queue) /\ turn' = <<Tx("cancelled", r)>> /\ UNCHANGED cancelled
  /\ UNCHANGED <<durable, queue, active, subagents, stopped, stream, host, restarts, leaseVars>>

\* cancel(): a running job is told so, with its children; a queued one is taken
\* out and has its outcome.
Cancel(r) ==
  /\ Idle /\ r \notin cancelled
  /\ \/ /\ r \in active \cup subagents
        /\ cancelled' = cancelled \cup {r} \cup (IF r \in active THEN ChildrenOf(r) ELSE {})
        /\ UNCHANGED <<queue, turn>>
     \/ /\ r \in Fair!Queued(queue)
        /\ queue' = Fair!RemoveItem(queue, r)
        /\ turn' = <<Tx("cancelled", r)>>
        /\ UNCHANGED cancelled
  /\ UNCHANGED <<durable, active, subagents, stopped, stream, host, restarts, leaseVars>>

-----------------------------------------------------------------------------
(* The runtime's stream of a run, as the coordinator consumes it           *)

Working(r, at) == Idle /\ stream[r] = at
Aborting(r)    == r \in cancelled \cup stopped
Goes(r, to)    == stream' = [stream EXCEPT ![r] = to]
OnlyStream     == UNCHANGED <<queue, active, subagents, cancelled, stopped, host, restarts>>
Unflagged      == UNCHANGED <<queue, active, subagents, stopped, host, restarts>>

\* The signal a child was launched with is aborted with the prompt it came from.
MayStopChildren(r) == cancelled' = cancelled \/ cancelled' = cancelled \cup ChildrenOf(r)

\* assistant.delta.
Says(r) ==
  /\ Working(r, "work") /\ row' = [row EXCEPT ![r] = Text(@)]
  /\ UNCHANGED <<approval, turn, jobs, host, restarts, leaseVars>>

\* tool.started: the text so far goes to the transcript.
CallsTool(r) ==
  /\ Working(r, "work") /\ Goes(r, "call") /\ turn' = Flush(r)
  /\ OnlyStream /\ UNCHANGED <<durable, leaseVars>>

\* The policy or the user forbids the call, or it needs no lease: it has a
\* result and the model goes on.
EndsCall(r) ==
  /\ Working(r, "call") /\ Goes(r, "work")
  /\ OnlyStream /\ UNCHANGED <<durable, turn, leaseVars>>

\* The policy asks: the approval is stored, then tool.approval.requested logged.
AsksUser(r) ==
  /\ Working(r, "call") /\ Goes(r, "ask") /\ ~Aborting(r)
  /\ approval' = [approval EXCEPT ![r] = "pending"]
  /\ OnlyStream /\ UNCHANGED <<row, turn, leaseVars>>

\* POST /decision updates an approval that is pending.
Decides(r, d) ==
  /\ Idle /\ approval[r] = "pending"
  /\ approval' = [approval EXCEPT ![r] = d]
  /\ UNCHANGED <<row, turn, jobs, host, restarts, leaseVars>>

\* The poll of waitForDecision() finds the decision: an approved call goes for
\* the lease, a denied one has its result.
SeesDecision(r) ==
  /\ Working(r, "ask") /\ ~Aborting(r) /\ approval[r] \in {"approved", "denied"}
  /\ IF approval[r] = "approved"
     THEN Goes(r, "tool") /\ AcquireLease(r)
     ELSE Goes(r, "work") /\ UNCHANGED leaseVars
  /\ approval' = [approval EXCEPT ![r] = "none"]
  /\ OnlyStream /\ UNCHANGED <<row, turn>>

\* A mutating call the policy allows.
TakesLease(r) ==
  /\ Working(r, "call") /\ ~Aborting(r) /\ Goes(r, "tool") /\ AcquireLease(r)
  /\ OnlyStream /\ UNCHANGED <<durable, turn>>

\* tool_result releases the lease.
EndsTool(r) ==
  /\ Working(r, "tool") /\ Goes(r, "work") /\ ReleaseLease(r)
  /\ OnlyStream /\ UNCHANGED <<durable, turn>>

\* The stream ends with an answer: no abort was seen when the last turn ended.
Answers(r) ==
  /\ Working(r, "work") /\ ~Aborting(r) /\ Goes(r, "closed")
  /\ OnlyStream /\ UNCHANGED <<durable, turn, leaseVars>>

\* The model fails, or its stream is aborted by somebody else.
Breaks(r) ==
  /\ Working(r, "work") /\ (Goes(r, "failed") \/ Goes(r, "aborted"))
  /\ MayStopChildren(r) /\ Unflagged /\ UNCHANGED <<durable, turn, leaseVars>>

\* Seeded fault: the poll ends and leaves the approval pending.
AbortsQuietly(r) ==
  /\ Idle /\ Aborting(r) /\ stream[r] \in {"work", "call", "ask", "tool"}
  /\ Goes(r, "aborted")
  /\ \/ lease[r].at = "none" /\ UNCHANGED leaseVars
     \/ AbandonLease(r)
     \/ ReleaseLease(r)
  /\ MayStopChildren(r) /\ Unflagged /\ UNCHANGED <<durable, turn>>

\* cancel() of the stream takes effect: a poll cancels its approval, a waiter
\* leaves the line, dispose() gives back the lease of a call it cut short.
Aborts(r) ==
  /\ Idle /\ Aborting(r) /\ stream[r] \in {"work", "call", "ask", "tool"}
  /\ Goes(r, "aborted")
  /\ approval' = [approval EXCEPT ![r] = "none"]
  /\ \/ lease[r].at = "none" /\ UNCHANGED leaseVars
     \/ AbandonLease(r)
     \/ ReleaseLease(r)
  /\ MayStopChildren(r) /\ Unflagged /\ UNCHANGED <<row, turn>>

-----------------------------------------------------------------------------
(* The outcome of a run                                                    *)

OutcomeOf(r) ==
  IF r \in stopped THEN "interrupted"
  ELSE IF r \in cancelled THEN "cancelled"
  ELSE CASE stream[r] = "closed" -> "completed"
         [] stream[r] = "failed" -> "failed"
         [] stream[r] = "aborted" -> "interrupted"

\* #consume() after its loop: the answer is complete unless somebody stopped the
\* run, what is left of the text is saved, the outcome is logged.
Finish(r) ==
  /\ Idle /\ stream[r] \in {"closed", "failed", "aborted"} /\ Goes(r, "over")
  /\ turn' = (IF OutcomeOf(r) = "completed" THEN <<Tx("answered", r)>> ELSE <<>>)
             \o Flush(r) \o <<Tx(OutcomeOf(r), r)>>
  /\ OnlyStream /\ UNCHANGED <<durable, leaseVars>>

\* Seeded fault: the freed place is not offered.
SettledQuietly(r) ==
  /\ Working(r, "over") /\ Goes(r, "none")
  /\ cancelled' = cancelled \ {r} /\ stopped' = stopped \ {r}
  /\ active' = active \ {r} /\ subagents' = subagents \ {r}
  /\ UNCHANGED <<durable, turn, queue, host, restarts, leaseVars>>

\* The task of a job settles, in a turn of its own: its place is given on.
Settled(r) ==
  /\ Working(r, "over")
  /\ cancelled' = cancelled \ {r} /\ stopped' = stopped \ {r}
  /\ IF r \in active
     THEN /\ Pump(<<>>, queue, active \ {r}, [stream EXCEPT ![r] = "none"])
          /\ UNCHANGED subagents
     ELSE /\ subagents' = subagents \ {r} /\ Goes(r, "none")
          /\ UNCHANGED <<queue, active, turn>>
  /\ UNCHANGED <<durable, host, restarts, leaseVars>>

-----------------------------------------------------------------------------
(* Shutdown, crash and recovery                                            *)

\* shutdown(): queued runs are interrupted in the order they would have run,
\* the others are stopped.
Shutdown ==
  /\ Idle /\ host = "up" /\ host' = "closing"
  /\ LET left == Fair!Values(queue) IN
     turn' = [k \in DOMAIN left |-> Tx("interrupted", left[k])]
  /\ queue' = Fair!EmptyQueue
  /\ stopped' = stopped \cup active \cup subagents
  /\ UNCHANGED <<durable, active, subagents, cancelled, stream, restarts, leaseVars>>

\* Seeded fault: the delegated runs are not waited for.
ReturnsBeforeSubagents ==
  /\ Idle /\ host = "closing" /\ active = {} /\ host' = "down"
  /\ UNCHANGED <<durable, turn, jobs, restarts, leaseVars>>

\* All tasks have settled and shutdown() returns.
ShutdownReturns ==
  /\ Idle /\ host = "closing" /\ active \cup subagents = {} /\ host' = "down"
  /\ UNCHANGED <<durable, turn, jobs, restarts, leaseVars>>

\* The process is killed, between any two transactions, or it ended, and the
\* host starts again with what is on disk.
Restart ==
  /\ restarts < MaxRestarts /\ restarts' = restarts + 1
  /\ host' = "starting" /\ turn' = <<>>
  /\ queue' = Fair!EmptyQueue /\ active' = {} /\ subagents' = {}
  /\ cancelled' = {} /\ stopped' = {}
  /\ stream' = [r \in Runs |-> "none"]
  /\ ForgetLeases
  /\ UNCHANGED durable

Continued(s) == \E r \in Runs : row[r].source = s

\* Seeded fault: also what was continued is offered again.
RepairAll ==
  /\ host = "starting" /\ host' = "recovering"
  /\ row' = [r \in Runs |-> IF row[r].status \in Broken THEN Offered(row[r]) ELSE row[r]]
  /\ UNCHANGED <<approval, turn, jobs, restarts, leaseVars>>

\* recoverInterruptedRuns(), first statement: what broke and was not continued
\* can be resumed.
Repair ==
  /\ host = "starting" /\ host' = "recovering"
  /\ row' = [r \in Runs |-> IF row[r].status \in Broken /\ ~Continued(r)
                            THEN Offered(row[r]) ELSE row[r]]
  /\ UNCHANGED <<approval, turn, jobs, restarts, leaseVars>>

\* Seeded faults: nobody looks for a complete answer; the transcript is not
\* completed.
RecoverAsBroken(r) ==
  /\ host = "recovering" /\ turn = <<>> /\ Live(r)
  /\ turn' = Flush(r) \o <<Tx("mark", r), Tx("offer", r), Tx("interrupted", r)>>
  /\ UNCHANGED <<durable, jobs, host, restarts, leaseVars>>
RecoverWithoutText(r) ==
  /\ host = "recovering" /\ turn = <<>> /\ Live(r)
  /\ turn' = IF row[r].answered THEN <<Tx("completed", r)>>
             ELSE <<Tx("mark", r), Tx("offer", r), Tx("interrupted", r)>>
  /\ UNCHANGED <<durable, jobs, host, restarts, leaseVars>>

\* One row of its loop: the transcript is completed; a run whose answer was
\* complete has completed, any other is interrupted.
Recover(r) ==
  /\ host = "recovering" /\ turn = <<>> /\ Live(r)
  /\ turn' = Flush(r) \o (IF row[r].answered THEN <<Tx("completed", r)>>
                          ELSE <<Tx("mark", r), Tx("offer", r), Tx("interrupted", r)>>)
  /\ UNCHANGED <<durable, jobs, host, restarts, leaseVars>>

\* recoverInterruptedToolApprovals(), and the host serves.
Serve ==
  /\ host = "recovering" /\ turn = <<>> /\ \A r \in Runs : ~Live(r)
  /\ approval' = [r \in Runs |-> "none"]
  /\ host' = "up"
  /\ UNCHANGED <<row, turn, jobs, restarts, leaseVars>>

-----------------------------------------------------------------------------
Runtime(r)     == EndsCall(r) \/ SeesDecision(r) \/ EndsTool(r)
Coordinator(r) == Finish(r) \/ Settled(r) \/ Recover(r)
Startup        == Repair \/ Serve

Next ==
  \/ Commit \/ Shutdown \/ ShutdownReturns \/ Restart \/ Startup
  \/ \E r \in Runs :
       \/ Request(r) \/ Cancel(r)
       \/ \E s \in Runs : Resume(s, r) \/ LaunchSubagent(s, r)
       \/ Says(r) \/ CallsTool(r) \/ AsksUser(r) \/ TakesLease(r)
       \/ Answers(r) \/ Breaks(r) \/ Aborts(r)
       \/ \E d \in {"approved", "denied"} : Decides(r, d)
       \/ Runtime(r) \/ Coordinator(r)

Spec == Init /\ [][Next]_vars

-----------------------------------------------------------------------------
TypeOK ==
  /\ row \in [Runs -> [status : Statuses, parent : Runs \cup {NoRun}, source : Runs \cup {NoRun},
                       resumable : BOOLEAN, answered : BOOLEAN, unsaved : BOOLEAN]]
  /\ approval \in [Runs -> {"none", "pending", "approved", "denied"}]
  /\ queue.owners \in Seq(Owners) /\ Fair!Queued(queue) \subseteq Runs
  /\ active \subseteq Runs /\ subagents \subseteq Runs
  /\ cancelled \subseteq active \cup subagents /\ stopped \subseteq active \cup subagents
  /\ stream \in [Runs -> Stages]
  /\ host \in {"up", "closing", "down", "starting", "recovering"} /\ restarts \in 0..MaxRestarts
  /\ LeasesType

\* However calls are ended, aborted and forgotten, no two runs change one
\* workspace at a time, and whoever waits has somebody before him who will hand
\* the lease on ("cannot mutate the same workspace at the same time",
\* workspace-mutation-leases.ts:32).
ExclusiveLeases == MutualExclusion /\ WaitsBehindHolder

\* What the coordinator holds in memory is what the store says is alive: a
\* record is queued or running exactly while its job is waiting or at work, so
\* no job is forgotten by a cancellation, a failed start or the settling of
\* another, and none is run twice (agent-runs.ts:62-84, 178-198, 236-256).  With
\* it, every field keeps its type.
MemoryMatchesStore ==
  TypeOK /\ (Idle =>
    /\ {r \in Runs : row[r].status = "queued"} = Fair!Queued(queue)
    /\ {r \in Runs : row[r].status = "running"} = {r \in active \cup subagents : stream[r] # "over"}
    /\ Fair!Queued(queue) \cap (active \cup subagents) = {})

\* Nobody waits beside a free place of his, and no limit is exceeded
\* (agent-runs.ts:236-241).
WorkConserving ==
  /\ Cardinality(active) <= MaxConcurrent
  /\ \A o \in Owners : ActiveOf(o, active) <= MaxConcurrentPerOwner
  /\ Idle /\ host = "up" /\ Cardinality(active) < MaxConcurrent =>
       \A r \in Fair!Queued(queue) : ActiveOf(OwnerOf[r], active) = MaxConcurrentPerOwner

\* An outcome is the last word: no cancellation, no settling and no recovery
\* changes it, and a run whose answer is complete is never interrupted, not
\* even by a crash before that was recorded
\* (sqlite-agent-run-store.ts:265-281, "without showing a false interruption
\* card when the answer had already finished").
OutcomeIsFinal ==
  [][\A r \in Runs :
       /\ row[r].status \in Ended => row'[r].status = row[r].status
       /\ row[r].answered => row'[r].status \in {row[r].status, "completed"}]_vars

\* No text of an ended run is missing from its transcript, however the run
\* ended (agent-runs.ts:296, 303, sqlite-agent-run-store.ts:260).
EndedTextIsSaved ==
  \A r \in Runs : row[r].status \in Ended => ~row[r].unsaved

\* A run that broke can be continued, once: while the host serves it is offered
\* or it has its one continuation, although a claim may have been followed by
\* a refused start or by a crash (agent-routes.ts:221-230,
\* sqlite-agent-run-store.ts:250-253).
ContinuedOnce ==
  /\ \A s, r, q \in Runs : row[r].source = s /\ row[q].source = s => r = q
  /\ Idle => \A r \in Runs : row[r].status \in Broken => (row[r].resumable <=> ~Continued(r))

\* Nothing outlives the call it was asked for: a lease is somebody's exactly
\* while his tool waits for it or runs, an approval is pending only while its
\* call waits for it, and whatever ends the call, be it the tool, the user, an
\* abort or the end of the process, takes both back (pi-agent-runtime.ts:646-668,
\* 811-813, tool-approval-gate.ts:49-66, sqlite-identity-store.ts:77).
NothingOutlivesItsCall ==
  \A r \in Runs :
    /\ lease[r].at # "none" <=> stream[r] = "tool"
    /\ Idle /\ approval[r] = "pending" => stream[r] = "ask"

\* When shutdown() has returned nothing is alive that could still write: no
\* run, no approval, no lease, and nothing is written until the next start
\* ("wait until no run can write to storage anymore", agent-runs.ts:212).
ShutdownIsComplete ==
  /\ [](host = "down" => /\ turn = <<>>
                         /\ \A r \in Runs : ~Live(r) /\ approval[r] # "pending" /\ lease[r] = None)
  /\ [][host = "down" => UNCHANGED durable]_vars

=============================================================================

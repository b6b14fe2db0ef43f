------------------------------ MODULE MediaJobs ------------------------------
(***************************************************************************)
(* Media jobs from their submission to their outcome, over failing writes, *)
(* crashes and restarts of the host:                                       *)
(*   the coordinator         apps/host/src/media-jobs.ts                   *)
(*   the durable records     storage/src/sqlite-media-store.ts,            *)
(*                           storage/src/sqlite-job-store.ts               *)
(*   the executor            inference-core/src/scheduler.ts (media jobs)  *)
(*                                                                         *)
(* An executor in the scheduler's lane generates and pushes events into a  *)
(* bounded channel; the consumer of the job turns them into records, each  *)
(* by several statements that are committed one after the other.  `turn`   *)
(* lists the statements that a synchronous turn has still to commit: only  *)
(* a crash can come in between.  Lane and channel are abstracted to what   *)
(* they promise here (WorkLane, AsyncChannel); of the engine only what its *)
(* polls report is kept, of a quota, a parameter and an artifact nothing   *)
(* but that they can be refused.                                           *)
(***************************************************************************)
EXTENDS Naturals, Sequences, FiniteSets, SequencesExt

CONSTANTS Jobs,
          MaxDepth, Concurrency,   \* of the lane
          Capacity,                \* of a job's channel
          PollsOf,                 \* bound: polls of each job that report progress
          MaxRestarts              \* bound: crashes of a host that serves

ASSUME LimitsAssumption ==
  /\ {MaxDepth, Concurrency, Capacity} \subseteq Nat \ {0}
  /\ MaxRestarts \in Nat /\ PollsOf \in [Jobs -> Nat]

VARIABLES row,        \* media_jobs, media_job_events, the job's line of jobs, ledger, artifact
          turn,       \* statements the turn under way has still to commit
          preparing,  \* submissions that await their references
          stage,      \* where the executor of a job stands
          polls,      \* progress it has reported
          stopping,   \* jobs whose signal is aborted
          items, end, \* the channel of a job: buffered events, how it ended
          consumer,   \* where #consume() of a job stands
          host, restarts,
          cut,        \* history: jobs whose turn, or whose recovery, a crash cut short
          late        \* history: jobs created when shutdown() had begun

executor == <<stage, polls, stopping>>
channel  == <<items, end>>
vars     == <<row, turn, preparing, executor, channel, consumer, host, restarts, cut, late>>

Ended    == {"completed", "failed", "cancelled", "interrupted"}
Statuses == {"none", "queued", "started", "progressing"} \cup Ended
Events   == {"started", "progressing", "completed"}
Live(j)  == row[j].status \in {"queued", "started", "progressing"}

NoRow == [status |-> "none", index |-> "none", last |-> "none", artifact |-> FALSE, charged |-> 0]

Init ==
  /\ row = [j \in Jobs |-> NoRow]
  /\ turn = <<>> /\ preparing = {}
  /\ stage = [j \in Jobs |-> "none"] /\ polls = [j \in Jobs |-> 0] /\ stopping = {}
  /\ items = [j \in Jobs |-> <<>>] /\ end = [j \in Jobs |-> "open"]
  /\ consumer = [j \in Jobs |-> "none"]
  /\ host = "up" /\ restarts = 0 /\ cut = {} /\ late = {}

Idle == turn = <<>> /\ host \in {"up", "closing", "closed"}

-----------------------------------------------------------------------------
(* Statements                                                              *)

St(table, j, s) == [table |-> table, job |-> j, status |-> s]

\* createJob() and updateJob(): the job, then its line of the index.
Update(j, s) == <<St("row", j, s), St("index", j, s)>>
\* #appendEvent(): one transaction, for both.
Event(j, s) == <<St("event", j, s)>>
\* #fail() and the handling of an event.
Recorded(j, s) == Update(j, s) \o Event(j, s)
\* What follows the artifact, #credit() last; every job has a price.
Completed(j) == Recorded(j, "completed") \o <<St("credit", j, "completed")>>

Effect(t, x) ==
  CASE t.table = "row"    -> [x EXCEPT !.status = t.status]
    [] t.table = "index"  -> [x EXCEPT !.index = t.status]
    [] t.table = "event"  -> [x EXCEPT !.last = t.status, !.index = t.status]
    [] t.table = "credit" -> [x EXCEPT !.charged = @ + 1]

Commit ==
  /\ turn # <<>>
  /\ row' = [row EXCEPT ![Head(turn).job] = Effect(Head(turn), @)]
  /\ turn' = Tail(turn)
  /\ UNCHANGED <<preparing, executor, channel, consumer, host, restarts, cut, late>>

-----------------------------------------------------------------------------
(* The coordinator's calls                                                 *)

\* submit() until it awaits the references: admission is still open.
Submit(j) ==
  /\ Idle /\ host = "up" /\ row[j].status = "none"
  /\ preparing' = preparing \cup {j}
  /\ UNCHANGED <<row, turn, executor, channel, consumer, host, restarts, cut, late>>

InLane(j)  == stage[j] \notin {"none", "done"}
Depth      == Cardinality({j \in Jobs : InLane(j)})

\* The rest of submit(), in one turn: a reference is missing, or the record is
\* created and enqueueMedia() takes the job, with a consumer, or refuses it.
Create(j) ==
  /\ Idle /\ j \in preparing /\ preparing' = preparing \ {j}
  /\ \/ UNCHANGED <<turn, stage, consumer, late>>
     \/ /\ Depth < MaxDepth
        /\ turn' = Update(j, "queued")
        /\ stage' = [stage EXCEPT ![j] = "queued"]
        /\ consumer' = [consumer EXCEPT ![j] = "reading"]
        /\ late' = IF host = "up" THEN late ELSE late \cup {j}
     \/ /\ Depth >= MaxDepth \/ host = "closed"
        /\ turn' = Update(j, "queued") \o Recorded(j, "failed")
        /\ UNCHANGED <<stage, consumer, late>>
  /\ UNCHANGED <<row, polls, stopping, channel, host, restarts, cut>>

\* #active holds a job until its consumer ends.
Active == {j \in Jobs : consumer[j] \in {"reading", "writing"}}

\* lane.cancel(): a queued job leaves the lane and its channel fails, any other
\* is told through its signal.
StopAll(S) ==
  LET waiting == {j \in S : stage[j] = "queued"} IN
  /\ stopping' = stopping \cup S
  /\ stage' = [j \in Jobs |-> IF j \in waiting THEN "done" ELSE stage[j]]
  /\ end' = [j \in Jobs |-> IF j \in waiting THEN "aborted" ELSE end[j]]

\* Seeded fault: nobody tells the channel of a job that leaves the queue.
CancelQuietly(j) ==
  /\ Idle /\ j \in Active \ stopping
  /\ stopping' = stopping \cup {j}
  /\ stage' = [stage EXCEPT ![j] = IF @ = "queued" THEN "done" ELSE @]
  /\ UNCHANGED <<row, turn, preparing, polls, channel, consumer, host, restarts, cut, late>>

Cancel(j) ==
  /\ Idle /\ j \in Active \ stopping /\ StopAll({j})
  /\ UNCHANGED <<row, turn, preparing, polls, items, consumer, host, restarts, cut, late>>

\* shutdown(): submissions that await their references are not looked at.
Shutdown ==
  /\ Idle /\ host = "up" /\ host' = "closing" /\ StopAll(Active \ stopping)
  /\ UNCHANGED <<row, turn, preparing, polls, items, consumer, restarts, cut, late>>

\* The consumers it found have settled.
ShutdownReturns ==
  /\ Idle /\ host = "closing" /\ Active \subseteq late /\ host' = "closed"
  /\ UNCHANGED <<row, turn, preparing, executor, channel, consumer, restarts, cut, late>>

-----------------------------------------------------------------------------
(* The executor                                                            *)

Stands(j, at) == Idle /\ stage[j] = at
Goes(j, to)   == stage' = [stage EXCEPT ![j] = to]
Ends(j, how)  == end' = [end EXCEPT ![j] = how]
Elsewhere     == UNCHANGED <<row, turn, preparing, stopping, consumer, host, restarts, cut, late>>

\* The lane has a place: the engine is prepared and the work submitted to it.
Dispatch(j) ==
  /\ Stands(j, "queued") /\ Goes(j, "submitting")
  /\ Cardinality({k \in Jobs : InLane(k) /\ stage[k] # "queued"}) < Concurrency
  /\ Elsewhere /\ UNCHANGED <<polls, channel>>

\* push(): the event is buffered, or its executor waits for room.
After(e) == IF e = "completed" THEN "tidying" ELSE "polling"
Offer(j, e) ==
  IF Len(items[j]) < Capacity
  THEN items' = [items EXCEPT ![j] = Append(@, e)] /\ Goes(j, After(e))
  ELSE Goes(j, e) /\ UNCHANGED items

\* The engine accepts the work, and reports progress, a result or a failure.
Accepts(j) ==
  /\ Stands(j, "submitting") /\ Offer(j, "started")
  /\ Elsewhere /\ UNCHANGED <<polls, end>>
Reports(j) ==
  /\ Stands(j, "polling") /\ polls[j] < PollsOf[j] /\ polls' = [polls EXCEPT ![j] = @ + 1]
  /\ Offer(j, "progressing")
  /\ Elsewhere /\ UNCHANGED end
Results(j) ==
  /\ Stands(j, "polling") /\ Offer(j, "completed") /\ polls' = [polls EXCEPT ![j] = 0]
  /\ Elsewhere /\ UNCHANGED end
Fails(j) ==
  /\ Stands(j, "submitting") \/ Stands(j, "polling")
  /\ Goes(j, "done") /\ Ends(j, "failed") /\ polls' = [polls EXCEPT ![j] = 0]
  /\ Elsewhere /\ UNCHANGED items

\* The work is done: the lease is given back and the pinned model restored, and
\* the stream closes, or fails with them.
Tidies(j) ==
  /\ Stands(j, "tidying") /\ Goes(j, "done")
  /\ Ends(j, "closed") \/ Ends(j, "failed")
  /\ Elsewhere /\ UNCHANGED <<polls, items>>

\* Seeded fault: submit() does not listen to the signal.
AbortsLate(j) ==
  /\ Idle /\ j \in stopping /\ stage[j] \in {"polling"} \cup Events
  /\ Goes(j, "done") /\ Ends(j, "aborted") /\ polls' = [polls EXCEPT ![j] = 0]
  /\ Elsewhere /\ UNCHANGED items

\* The signal ends a submission, a poll or a push.
Aborts(j) ==
  /\ Idle /\ j \in stopping /\ stage[j] \in {"submitting", "polling"} \cup Events
  /\ Goes(j, "done") /\ Ends(j, "aborted") /\ polls' = [polls EXCEPT ![j] = 0]
  /\ Elsewhere /\ UNCHANGED items

-----------------------------------------------------------------------------
(* #consume()                                                              *)

Consumes(j, at, to) ==
  /\ Idle /\ consumer[j] = at /\ consumer' = [consumer EXCEPT ![j] = to]
  /\ UNCHANGED <<preparing, polls, stopping, end, host, restarts, cut, late>>

\* next(): an event leaves the channel, a waiting push has its room.  A result is
\* written first, any other event recorded.
Takes(j) ==
  /\ items[j] # <<>>
  /\ IF stage[j] \in Events
     THEN items' = [items EXCEPT ![j] = Append(Tail(@), stage[j])] /\ Goes(j, After(stage[j]))
     ELSE items' = [items EXCEPT ![j] = Tail(@)] /\ UNCHANGED stage
  /\ \/ /\ Head(items[j]) = "completed" /\ Consumes(j, "reading", "writing")
        /\ UNCHANGED turn
     \/ /\ Head(items[j]) # "completed" /\ Consumes(j, "reading", "reading")
        /\ turn' = Recorded(j, Head(items[j]))
  /\ UNCHANGED row

\* Seeded fault: the credit is taken before the artifact is written.
WritesPaid(j) ==
  /\ Consumes(j, "writing", "reading")
  /\ \/ /\ row' = [row EXCEPT ![j].artifact = TRUE]
        /\ turn' = <<St("credit", j, "completed")>> \o Recorded(j, "completed")
     \/ row' = row /\ turn' = <<St("credit", j, "completed")>> \o Recorded(j, "failed")
  /\ UNCHANGED <<items, stage>>

\* #writeArtifact() has settled: the artifact is stored, or refused.
Writes(j) ==
  /\ Consumes(j, "writing", "reading")
  /\ \/ row' = [row EXCEPT ![j].artifact = TRUE] /\ turn' = Completed(j)
     \/ row' = row /\ turn' = Recorded(j, "failed")
  /\ UNCHANGED <<items, stage>>

\* A statement for an event throws, or a listener of it: the job has failed.  For a
\* result the loop goes on; for any other event it is left, and nobody reads the
\* channel any more.
Throws(j) ==
  /\ turn # <<>> /\ Head(turn).job = j /\ Head(turn).status \in Events
  /\ turn' = Recorded(j, "failed")
  /\ consumer' = [consumer EXCEPT ![j] = IF Head(turn).status = "completed" THEN @ ELSE "left"]
  /\ UNCHANGED <<row, preparing, executor, channel, host, restarts, cut, late>>

\* The channel is read to its end, and nothing refers to the job any more.
Closes(j) ==
  /\ Idle /\ consumer[j] = "reading" /\ items[j] = <<>>
  /\ \/ end[j] = "closed" /\ UNCHANGED turn
     \/ end[j] = "aborted" /\ turn' = Recorded(j, "cancelled")
     \/ end[j] = "failed" /\ turn' = Recorded(j, "failed")
  /\ consumer' = [consumer EXCEPT ![j] = "none"]
  /\ stage' = [stage EXCEPT ![j] = "none"] /\ end' = [end EXCEPT ![j] = "open"]
  /\ stopping' = stopping \ {j}
  /\ UNCHANGED <<row, preparing, polls, items, host, restarts, cut, late>>

-----------------------------------------------------------------------------
(* Crash and recovery                                                      *)

\* The process is killed, between any two statements, or it ended, and the host
\* starts again with what is on disk.
Restart ==
  /\ \/ host \in {"up", "closing", "closed"} /\ restarts < MaxRestarts /\ restarts' = restarts + 1
     \/ host = "recovering" /\ UNCHANGED restarts
  /\ host' = "starting"
  /\ cut' = cut \cup {turn[k].job : k \in DOMAIN turn}
                \cup {j \in Jobs : host = "recovering" /\ row[j].index # row[j].status}
  /\ turn' = <<>> /\ preparing' = {} /\ stopping' = {} /\ late' = {}
  /\ stage' = [j \in Jobs |-> "none"] /\ polls' = [j \in Jobs |-> 0]
  /\ items' = [j \in Jobs |-> <<>>] /\ end' = [j \in Jobs |-> "open"]
  /\ consumer' = [j \in Jobs |-> "none"]
  /\ UNCHANGED row

Booting == UNCHANGED <<turn, preparing, executor, channel, consumer, restarts, cut, late>>

\* Seeded fault: what has failed is recovered too.
RecoverFailed ==
  /\ host = "starting"
  /\ row' = [j \in Jobs |-> IF Live(j) \/ row[j].status = "failed"
                            THEN [row[j] EXCEPT !.status = "interrupted"] ELSE row[j]]
  /\ host' = IF \E j \in Jobs : Live(j) THEN "recovering" ELSE "up"
  /\ Booting

\* recoverInterruptedJobs(), the jobs in one statement.
Recover ==
  /\ host = "starting"
  /\ row' = [j \in Jobs |-> IF Live(j) THEN [row[j] EXCEPT !.status = "interrupted"] ELSE row[j]]
  /\ host' = IF \E j \in Jobs : Live(j) THEN "recovering" ELSE "up"
  /\ Booting

\* ... and, when there were any, the index in one transaction.
Reindex ==
  /\ host = "recovering" /\ host' = "up"
  /\ row' = [j \in Jobs |-> IF row[j].index \in {"queued", "started", "progressing"}
                            THEN [row[j] EXCEPT !.index = "interrupted"] ELSE row[j]]
  /\ Booting

-----------------------------------------------------------------------------
Follows(j) == Tidies(j) \/ Aborts(j) \/ Takes(j) \/ Writes(j) \/ Closes(j)
Turns      == Commit \/ ShutdownReturns \/ Recover \/ Reindex

Next ==
  \/ Turns \/ Shutdown \/ Restart
  \/ \E j \in Jobs :
       \/ Submit(j) \/ Create(j) \/ Cancel(j)
       \/ Dispatch(j) \/ Accepts(j) \/ Reports(j) \/ Results(j) \/ Fails(j)
       \/ Follows(j) \/ Throws(j)

\* What the process does by itself it does: it commits, reads, writes, listens to
\* its signals.  Users and engines are free, and an engine may never answer.
Fairness == WF_vars(Turns) /\ \A j \in Jobs : WF_vars(Follows(j))

Spec == Init /\ [][Next]_vars /\ Fairness

-----------------------------------------------------------------------------
TypeOK ==
  /\ \A j \in Jobs :
       /\ row[j].status \in Statuses /\ row[j].index \in Statuses
       /\ row[j].last \in Statuses /\ row[j].artifact \in BOOLEAN /\ row[j].charged \in 0..1
       /\ stage[j] \in {"none", "queued", "submitting", "polling", "tidying", "done"} \cup Events
       /\ polls[j] \in 0..PollsOf[j]
       /\ Len(items[j]) <= Capacity /\ ToSet(items[j]) \subseteq Events
       /\ end[j] \in {"open", "closed", "failed", "aborted"}
       /\ consumer[j] \in {"none", "reading", "writing", "left"}
  /\ preparing \cup stopping \cup cut \cup late \subseteq Jobs
  /\ host \in {"up", "closing", "closed", "starting", "recovering"} /\ restarts \in 0..MaxRestarts

\* Whatever is not over is followed: a job that the store says is queued or at
\* work has a consumer, and what the consumer waits for is coming, since the job
\* is in the lane, or its stream has ended with an error or behind a result.
\* When shutdown() has returned nothing is left that it could have seen
\* (media-jobs.ts:380-390; "wait for every terminal event and artifact finalizer").
\* With it, every field keeps its type.
JobsAreFollowed ==
  TypeOK /\ (Idle => \A j \in Jobs : Live(j) =>
    /\ consumer[j] \in {"reading", "writing"}
    /\ \/ InLane(j) \/ end[j] \in {"failed", "aborted"}
       \/ end[j] = "closed" /\ (consumer[j] = "writing" \/ "completed" \in ToSet(items[j]))
    /\ host = "closed" => j \in late)

\* An outcome is the last word, through cancellations, crashes and recoveries,
\* but for one: a stored result whose bookkeeping failed, or whose engine could
\* not be tidied up after it, becomes a failure (media-jobs.ts:423-453).
OutcomeIsFinal ==
  [][\A j \in Jobs : row[j].status \in Ended =>
       \/ row'[j].status = row[j].status
       \/ row[j].status = "completed" /\ row'[j].status = "failed" /\ row[j].artifact]_vars

\* The records of a job agree: its event log ends with its outcome, the index of
\* all jobs says what the job says ("an index, not a second source of truth",
\* docs/jobs.md:14), a completed job has its artifact and was charged, and nobody
\* is charged twice or for work that is not kept.  Only a turn that a crash cut
\* short leaves them apart (media-jobs.ts:423-441, sqlite-media-store.ts:155-170).
RecordsAgree ==
  \A j \in Jobs :
    LET x == row[j] IN
    /\ x.charged <= 1 /\ (x.charged = 1 => x.artifact)
    /\ Idle /\ j \notin cut =>
         /\ x.index = x.status
         /\ x.status \in {"completed", "failed", "cancelled"} => x.last = x.status
         /\ x.status = "completed" => x.artifact /\ x.charged = 1

\* Who stops a job, or all of them, is answered: the job ends although its
\* executor waits for the engine, for room in the channel or for the artifact, and
\* shutdown() returns.
StoppedJobsEnd ==
  /\ \A j \in Jobs : (j \in stopping /\ Live(j)) ~> ~Live(j)
  /\ (host = "closing") ~> (host # "closing")

=============================================================================

-------------------------- MODULE MediaJobs_proofs --------------------------
(***************************************************************************)
(* Why every media job that is not over is followed, why its records agree *)
(* unless a crash cut a turn short, and why its outcome is the last word   *)
(* (apps/host/src/media-jobs.ts, storage/src/sqlite-media-store.ts): for   *)
(* any jobs, limits of lane and channel, engines, and any number of        *)
(* crashes.  A turn is the work of one job; whoever is not in a turn is    *)
(* over, or has a consumer that waits for something that is coming.        *)
(***************************************************************************)
EXTENDS MediaJobs, OnceSequences

Working  == {"queued", "started", "progressing"}
Rows     == [status : Statuses, index : Statuses, last : Statuses,
             artifact : BOOLEAN, charged : 0..1]
Places   == {"none", "queued", "submitting", "polling", "tidying", "done"} \cup Events
Endings  == {"open", "closed", "failed", "aborted"}
Readers  == {"none", "reading", "writing", "left"}
Serving  == host \in {"up", "closing", "closed"}

Typed ==
  /\ row \in [Jobs -> Rows]
  /\ stage \in [Jobs -> Places] /\ end \in [Jobs -> Endings] /\ consumer \in [Jobs -> Readers]
  /\ polls \in [Jobs -> Nat] /\ \A j \in Jobs : polls[j] <= PollsOf[j]
  /\ items \in [Jobs -> Seq(Events)] /\ \A j \in Jobs : Len(items[j]) <= Capacity
  /\ preparing \cup stopping \cup cut \cup late \subseteq Jobs
  /\ host \in {"up", "closing", "closed", "starting", "recovering"} /\ restarts \in 0..MaxRestarts

\* What the records of a job say when no turn is under way for it.
Agrees(x) ==
  /\ x.index = x.status
  /\ x.status \in {"completed", "failed", "cancelled"} => x.last = x.status
  /\ x.status = "completed" => x.artifact /\ x.charged = 1

\* Only a job that has its artifact is charged, and only one that is over.
RowInv(j) ==
  /\ row[j].charged = 1 => row[j].status \in {"completed", "failed"} /\ row[j].artifact
  /\ row[j].status = "completed" => row[j].artifact

\* A result is the last event of a channel, and once it was pushed the executor
\* has only to tidy up.
ResultIsLast(s) == \A k \in 1..Len(s) - 1 : s[k] # "completed"
HasResult(j)    == "completed" \in ToSet(items[j])
ChannelInv(j) ==
  /\ consumer[j] = "none" <=> stage[j] = "none"
  /\ stage[j] = "done" <=> end[j] # "open"
  /\ stage[j] = "none" => items[j] = <<>>
  /\ HasResult(j) \/ consumer[j] = "writing" =>
       stage[j] \in {"tidying", "done"} /\ end[j] # "aborted"
  /\ ResultIsLast(items[j])
  /\ consumer[j] = "writing" => items[j] = <<>>

\* When shutdown() has returned, only jobs it could not see are followed.
LateInv(j) == host = "closed" /\ consumer[j] \in {"reading", "writing"} => j \in late

\* The result is still to be read; it has been read.
AtWork(j) == stage[j] = "tidying" \/ end[j] = "closed" => HasResult(j)
Over(j)   == items[j] = <<>> /\ stage[j] \in {"tidying", "done"} /\ end[j] # "aborted"

\* A job no turn is under way for.
Steady(j) ==
  /\ row[j].status = "none" => consumer[j] = "none"
  /\ consumer[j] = "none" => ~Live(j)
  /\ consumer[j] = "left" => row[j].status = "failed"
  /\ consumer[j] = "writing" => Live(j)
  /\ consumer[j] = "reading" => \/ Live(j) /\ AtWork(j)
                                \/ row[j].status \in {"completed", "failed"} /\ Over(j)
  /\ j \notin cut => Agrees(row[j])
  /\ j \in preparing => row[j].status = "none"

-----------------------------------------------------------------------------
(* What is left of a turn                                                  *)

R(j, s) == St("row", j, s)
I(j, s) == St("index", j, s)
E(j, s) == St("event", j, s)
C(j)    == St("credit", j, "completed")

Queues(j)     == {<<R(j, "queued"), I(j, "queued")>>, <<I(j, "queued")>>}
Records(j, s) == {<<R(j, s), I(j, s), E(j, s)>>, <<I(j, s), E(j, s)>>, <<E(j, s)>>}
Refuses(j)    ==
  {<<R(j, "queued"), I(j, "queued"), R(j, "failed"), I(j, "failed"), E(j, "failed")>>,
   <<I(j, "queued"), R(j, "failed"), I(j, "failed"), E(j, "failed")>>}
Completes(j)  ==
  {<<R(j, "completed"), I(j, "completed"), E(j, "completed"), C(j)>>,
   <<I(j, "completed"), E(j, "completed"), C(j)>>,
   <<E(j, "completed"), C(j)>>, <<C(j)>>}

\* What the statements before t have left in the record.
Fits(x, t) ==
  /\ t.table # "row" => x.status = t.status
  /\ t.table = "credit" => x.index = t.status /\ x.last = t.status

\* The turns of job j, and where its record and its consumer stand in them.
Queueing(j) ==
  /\ turn \in Queues(j) /\ row[j].status \in {"none", "queued"}
  /\ Head(turn).table = "row" => row[j].status = "none"
  /\ consumer[j] = "reading" /\ AtWork(j)
Refusing(j) ==
  /\ turn \in Refuses(j) /\ row[j].status \in {"none", "queued"}
  /\ Head(turn).table = "row" => row[j].status = "none"
  /\ consumer[j] = "none"
Recording(j) ==
  /\ \E s \in {"started", "progressing"} : turn \in Records(j, s)
  /\ Live(j) /\ consumer[j] = "reading" /\ AtWork(j)
Failing(j) ==
  /\ turn \in Records(j, "failed")
  /\ Live(j) \/ row[j].status \in {"failed", "completed"}
  /\ consumer[j] \in {"none", "left"} \/ (consumer[j] = "reading" /\ Over(j))
Cancelling(j) ==
  /\ turn \in Records(j, "cancelled") /\ (Live(j) \/ row[j].status = "cancelled")
  /\ consumer[j] = "none"
Completing(j) ==
  /\ turn \in Completes(j) /\ (Live(j) \/ row[j].status = "completed")
  /\ row[j].artifact /\ row[j].charged = 0
  /\ consumer[j] = "reading" /\ Over(j)
Engaged(j) ==
  /\ Fits(row[j], Head(turn)) /\ j \notin preparing
  /\ \/ Queueing(j) \/ Refusing(j) \/ Recording(j)
     \/ Failing(j) \/ Cancelling(j) \/ Completing(j)

\* A host that does not serve yet has records and nothing else.
Booted ==
  /\ turn = <<>> /\ preparing = {} /\ late = {}
  /\ \A j \in Jobs :
       /\ consumer[j] = "none"
       /\ host = "recovering" => ~Live(j)
       /\ j \notin cut => \/ Agrees(row[j])
                          \/ /\ host = "recovering"
                             /\ row[j].status = "interrupted" /\ row[j].index \in Working

ServingInv ==
  \/ turn = <<>> /\ \A j \in Jobs : Steady(j)
  \/ \E j \in Jobs : Engaged(j) /\ \A k \in Jobs \ {j} : Steady(k)

MediaInv ==
  /\ Typed
  /\ \A j \in Jobs : RowInv(j) /\ ChannelInv(j) /\ LateInv(j)
  /\ IF Serving THEN ServingInv ELSE Booted

-----------------------------------------------------------------------------
(* Channels: sequences of events                                           *)

\* An event is taken.
LEMMA EventTaken ==
  ASSUME NEW s \in Seq(Events), s # <<>>, ResultIsLast(s)
  PROVE  /\ Head(s) \in Events /\ Tail(s) \in Seq(Events) /\ Len(Tail(s)) = Len(s) - 1
         /\ Head(s) \in ToSet(s) /\ ToSet(Tail(s)) \subseteq ToSet(s)
         /\ ResultIsLast(Tail(s))
         /\ Head(s) = "completed" => Tail(s) = <<>>
         /\ Head(s) # "completed" /\ "completed" \in ToSet(s) => "completed" \in ToSet(Tail(s))
<1> DEFINE t == Tail(s)
<1>1. PICK n \in Nat : Len(s) = n /\ n # 0
  BY LenProperties, EmptySeq
<1>2. /\ t \in Seq(Events) /\ Len(t) = n - 1 /\ \A k \in 1..n - 1 : t[k] = s[k + 1]
      /\ Head(s) = s[1] /\ Head(s) \in Events
  BY <1>1, HeadTailProperties, SMT
<1>3. DOMAIN s = 1..n /\ DOMAIN t = 1..n - 1
  BY <1>1, <1>2, LenProperties
<1> HIDE DEF t
<1>4. s[1] \in ToSet(s)
  BY <1>1, <1>3 DEF ToSet
<1>5. ASSUME NEW k \in 1..n - 1 PROVE t[k] \in ToSet(s)
  <2>1. k + 1 \in 1..n
    BY <1>1
  <2> QED BY <2>1, <1>2, <1>3 DEF ToSet
<1>6. ToSet(t) \subseteq ToSet(s)
  BY <1>3, <1>5 DEF ToSet
<1>7. ResultIsLast(t)
  <2>1. ASSUME NEW k \in 1..n - 1 - 1 PROVE t[k] # "completed"
    <3>1. k + 1 \in 1..n - 1 /\ k \in 1..n - 1
      BY <1>1
    <3> QED BY <3>1, <1>1, <1>2 DEF ResultIsLast
  <2> QED BY <2>1, <1>2 DEF ResultIsLast
<1>8. Head(s) = "completed" => t = <<>>
  <2>1. Head(s) = "completed" => ~(1 \in 1..n - 1)
    BY <1>1, <1>2 DEF ResultIsLast
  <2>2. Head(s) = "completed" => Len(t) = 0
    BY <1>1, <1>2, <2>1
  <2> QED BY <1>2, <2>2, EmptySeq
<1>9. ASSUME Head(s) # "completed", "completed" \in ToSet(s) PROVE "completed" \in ToSet(t)
  <2>1. PICK k \in 1..n : s[k] = "completed"
    BY <1>3, <1>9 DEF ToSet
  <2>2. k - 1 \in 1..n - 1 /\ (k - 1) + 1 = k
    BY <1>1, <1>2, <1>9, <2>1
  <2>3. t[k - 1] = "completed"
    BY <1>2, <2>1, <2>2
  <2> QED BY <1>3, <2>2, <2>3 DEF ToSet
<1> QED BY <1>1, <1>2, <1>4, <1>6, <1>7, <1>8, <1>9 DEF t

\* An event is buffered; no result was before it.
LEMMA EventBuffered ==
  ASSUME NEW s \in Seq(Events), NEW e \in Events, "completed" \notin ToSet(s)
  PROVE  /\ Append(s, e) \in Seq(Events) /\ Len(Append(s, e)) = Len(s) + 1
         /\ ToSet(Append(s, e)) = ToSet(s) \cup {e}
         /\ ResultIsLast(Append(s, e))
<1>1. PICK n \in Nat : Len(s) = n
  BY LenProperties
<1>2. /\ Append(s, e) \in Seq(Events) /\ Len(Append(s, e)) = n + 1
      /\ \A k \in 1..n : Append(s, e)[k] = s[k]
  BY <1>1, AppendProperties
<1>3. \A k \in 1..n : s[k] \in ToSet(s)
  BY <1>1, LenProperties DEF ToSet
<1>4. (n + 1) - 1 = n
  BY <1>1
<1>5. ResultIsLast(Append(s, e))
  BY <1>2, <1>3, <1>4 DEF ResultIsLast
<1> QED BY <1>1, <1>2, <1>5, AppendSet

\* An empty channel.
LEMMA NoEvents == <<>> \in Seq(Events) /\ Len(<<>>) = 0 /\ ToSet(<<>>) = {} /\ ResultIsLast(<<>>)
<1>1. <<>> \in Seq(Events) /\ Len(<<>>) = 0
  OBVIOUS
<1>2. ResultIsLast(<<>>)
  BY <1>1 DEF ResultIsLast
<1> QED BY <1>1, <1>2, EmptyOnce

-----------------------------------------------------------------------------
(* Turns: what is left when a statement is committed                       *)

LEMMA QueueingTurn ==
  ASSUME NEW j, NEW t \in Queues(j)
  PROVE  /\ t # <<>> /\ Head(t) \in {R(j, "queued"), I(j, "queued")}
         /\ Head(t) = R(j, "queued") => /\ Tail(t) \in Queues(j) /\ Tail(t) # <<>>
                                        /\ Head(Tail(t)) = I(j, "queued")
         /\ Head(t) = I(j, "queued") => Tail(t) = <<>>
<1>0. R(j, "queued") # I(j, "queued")
  BY DEF R, I, St
<1>1. CASE t = <<R(j, "queued"), I(j, "queued")>>
  <2>1. t # <<>> /\ Head(t) = R(j, "queued") /\ Tail(t) = <<I(j, "queued")>>
    BY <1>1
  <2>2. Head(<<I(j, "queued")>>) = I(j, "queued") /\ <<I(j, "queued")>> # <<>>
    OBVIOUS
  <2> QED BY <1>0, <2>1, <2>2 DEF Queues
<1>2. CASE t = <<I(j, "queued")>>
  <2>1. t # <<>> /\ Head(t) = I(j, "queued") /\ Tail(t) = <<>>
    BY <1>2
  <2> QED BY <1>0, <2>1
<1> QED BY <1>1, <1>2 DEF Queues

LEMMA RecordingTurn ==
  ASSUME NEW j, NEW s, NEW t \in Records(j, s)
  PROVE  /\ t # <<>> /\ Head(t) \in {R(j, s), I(j, s), E(j, s)}
         /\ Head(t) = R(j, s) => Tail(t) \in Records(j, s) /\ Tail(t) # <<>> /\ Head(Tail(t)) = I(j, s)
         /\ Head(t) = I(j, s) => Tail(t) \in Records(j, s) /\ Tail(t) # <<>> /\ Head(Tail(t)) = E(j, s)
         /\ Head(t) = E(j, s) => Tail(t) = <<>>
<1>0. R(j, s) # I(j, s) /\ R(j, s) # E(j, s) /\ I(j, s) # E(j, s)
  BY DEF R, I, E, St
<1>1. CASE t = <<R(j, s), I(j, s), E(j, s)>>
  <2>1. t # <<>> /\ Head(t) = R(j, s) /\ Tail(t) = <<I(j, s), E(j, s)>>
    BY <1>1
  <2>2. Head(<<I(j, s), E(j, s)>>) = I(j, s) /\ <<I(j, s), E(j, s)>> # <<>>
    OBVIOUS
  <2> QED BY <1>0, <2>1, <2>2 DEF Records
<1>2. CASE t = <<I(j, s), E(j, s)>>
  <2>1. t # <<>> /\ Head(t) = I(j, s) /\ Tail(t) = <<E(j, s)>>
    BY <1>2
  <2>2. Head(<<E(j, s)>>) = E(j, s) /\ <<E(j, s)>> # <<>>
    OBVIOUS
  <2> QED BY <1>0, <2>1, <2>2 DEF Records
<1>3. CASE t = <<E(j, s)>>
  <2>1. t # <<>> /\ Head(t) = E(j, s) /\ Tail(t) = <<>>
    BY <1>3
  <2> QED BY <1>0, <2>1
<1> QED BY <1>1, <1>2, <1>3 DEF Records

LEMMA RefusingTurn ==
  ASSUME NEW j, NEW t \in Refuses(j)
  PROVE  /\ t # <<>> /\ Head(t) \in {R(j, "queued"), I(j, "queued")}
         /\ Head(t) = R(j, "queued") => /\ Tail(t) \in Refuses(j) /\ Tail(t) # <<>>
                                        /\ Head(Tail(t)) = I(j, "queued")
         /\ Head(t) = I(j, "queued") => /\ Tail(t) \in Records(j, "failed") /\ Tail(t) # <<>>
                                        /\ Head(Tail(t)) = R(j, "failed")
<1>0. R(j, "queued") # I(j, "queued")
  BY DEF R, I, St
<1> DEFINE u == <<I(j, "queued"), R(j, "failed"), I(j, "failed"), E(j, "failed")>>
           v == <<R(j, "failed"), I(j, "failed"), E(j, "failed")>>
<1>a. Head(u) = I(j, "queued") /\ u # <<>> /\ Tail(u) = v /\ Head(v) = R(j, "failed") /\ v # <<>>
  OBVIOUS
<1>b. u \in Refuses(j) /\ v \in Records(j, "failed")
  BY DEF Refuses, Records
<1>1. CASE t = <<R(j, "queued"), I(j, "queued"), R(j, "failed"), I(j, "failed"), E(j, "failed")>>
  <2>1. t # <<>> /\ Head(t) = R(j, "queued") /\ Tail(t) = u
    BY <1>1
  <2> HIDE DEF u, v
  <2> QED BY <1>0, <1>a, <1>b, <2>1
<1>2. CASE t = u
  <2> HIDE DEF u, v
  <2> QED BY <1>0, <1>a, <1>b, <1>2
<1> QED BY <1>1, <1>2 DEF Refuses

LEMMA CompletingTurn ==
  ASSUME NEW j, NEW t \in Completes(j)
  PROVE  /\ t # <<>>
         /\ Head(t) \in {R(j, "completed"), I(j, "completed"), E(j, "completed"), C(j)}
         /\ Head(t) = R(j, "completed") => /\ Tail(t) \in Completes(j) /\ Tail(t) # <<>>
                                           /\ Head(Tail(t)) = I(j, "completed")
         /\ Head(t) = I(j, "completed") => /\ Tail(t) \in Completes(j) /\ Tail(t) # <<>>
                                           /\ Head(Tail(t)) = E(j, "completed")
         /\ Head(t) = E(j, "completed") => /\ Tail(t) \in Completes(j) /\ Tail(t) # <<>>
                                           /\ Head(Tail(t)) = C(j)
         /\ Head(t) = C(j) => Tail(t) = <<>>
<1> DEFINE s == "completed"
           u == <<I(j, s), E(j, s), C(j)>>
           v == <<E(j, s), C(j)>>
           w == <<C(j)>>
<1>0. /\ R(j, s) # I(j, s) /\ R(j, s) # E(j, s) /\ I(j, s) # E(j, s)
      /\ C(j) # R(j, s) /\ C(j) # I(j, s) /\ C(j) # E(j, s)
  BY DEF R, I, E, C, St
<1>a. /\ u # <<>> /\ Head(u) = I(j, s) /\ Tail(u) = v
      /\ v # <<>> /\ Head(v) = E(j, s) /\ Tail(v) = w
      /\ w # <<>> /\ Head(w) = C(j) /\ Tail(w) = <<>>
  OBVIOUS
<1>b. {u, v, w} \subseteq Completes(j)
  BY DEF Completes
<1>1. CASE t = <<R(j, s), I(j, s), E(j, s), C(j)>>
  <2>1. t # <<>> /\ Head(t) = R(j, s) /\ Tail(t) = u
    BY <1>1
  <2> HIDE DEF u, v, w
  <2> QED BY <1>0, <1>a, <1>b, <2>1
<1>2. CASE t \in {u, v, w}
  <2> HIDE DEF u, v, w
  <2> QED BY <1>0, <1>a, <1>b, <1>2
<1> QED BY <1>1, <1>2 DEF Completes

-----------------------------------------------------------------------------
(* Turns: what the operations begin                                        *)

\* One statement after two, one after three, three after two.
LEMMA Third ==
  ASSUME NEW a, NEW b, NEW c
  PROVE  <<a, b>> \o <<c>> = <<a, b, c>>
<1> DEFINE S == {a, b, c}
           s == <<a, b>>
           t == <<c>>
           u == <<a, b, c>>
<1>1. /\ s \in Seq(S) /\ t \in Seq(S) /\ u \in Seq(S)
      /\ Len(s) = 2 /\ Len(t) = 1 /\ Len(u) = 3
  OBVIOUS
<1>2. /\ s[1] = a /\ s[2] = b
      /\ t[1] = c
      /\ u[1] = a /\ u[2] = b /\ u[3] = c
  OBVIOUS
<1> HIDE DEF s, t, u, S
<1>3. /\ s \o t \in Seq(S) /\ Len(s \o t) = Len(s) + Len(t)
      /\ \A k \in 1..Len(s) + Len(t) : (s \o t)[k] = IF k <= Len(s) THEN s[k] ELSE t[k - Len(s)]
  BY <1>1, ConcatProperties
<1>4. \A k \in 1..3 : (s \o t)[k] = u[k]
  BY <1>1, <1>2, <1>3
<1>5. s \o t = u
  <2>1. Len(s \o t) = 3 /\ Len(u) = 3 /\ s \o t \in Seq(S) /\ u \in Seq(S)
    BY <1>1, <1>3
  <2>2. \A k \in 1..Len(s \o t) : (s \o t)[k] = u[k]
    BY <1>4, <2>1
  <2> QED BY <2>1, <2>2, SeqEqual
<1> QED BY <1>5 DEF s, t, u

LEMMA Fourth ==
  ASSUME NEW a, NEW b, NEW c, NEW d
  PROVE  <<a, b, c>> \o <<d>> = <<a, b, c, d>>
<1> DEFINE S == {a, b, c, d}
           s == <<a, b, c>>
           t == <<d>>
           u == <<a, b, c, d>>
<1>1. /\ s \in Seq(S) /\ t \in Seq(S) /\ u \in Seq(S)
      /\ Len(s) = 3 /\ Len(t) = 1 /\ Len(u) = 4
  OBVIOUS
<1>2. /\ s[1] = a /\ s[2] = b /\ s[3] = c
      /\ t[1] = d
      /\ u[1] = a /\ u[2] = b /\ u[3] = c /\ u[4] = d
  OBVIOUS
<1> HIDE DEF s, t, u, S
<1>3. /\ s \o t \in Seq(S) /\ Len(s \o t) = Len(s) + Len(t)
      /\ \A k \in 1..Len(s) + Len(t) : (s \o t)[k] = IF k <= Len(s) THEN s[k] ELSE t[k - Len(s)]
  BY <1>1, ConcatProperties
<1>4. \A k \in 1..4 : (s \o t)[k] = u[k]
  BY <1>1, <1>2, <1>3
<1>5. s \o t = u
  <2>1. Len(s \o t) = 4 /\ Len(u) = 4 /\ s \o t \in Seq(S) /\ u \in Seq(S)
    BY <1>1, <1>3
  <2>2. \A k \in 1..Len(s \o t) : (s \o t)[k] = u[k]
    BY <1>4, <2>1
  <2> QED BY <2>1, <2>2, SeqEqual
<1> QED BY <1>5 DEF s, t, u

LEMMA Fifth ==
  ASSUME NEW a, NEW b, NEW c, NEW d, NEW e
  PROVE  <<a, b>> \o <<c, d, e>> = <<a, b, c, d, e>>
<1> DEFINE S == {a, b, c, d, e}
           s == <<a, b>>
           t == <<c, d, e>>
           u == <<a, b, c, d, e>>
<1>1. /\ s \in Seq(S) /\ t \in Seq(S) /\ u \in Seq(S)
      /\ Len(s) = 2 /\ Len(t) = 3 /\ Len(u) = 5
  OBVIOUS
<1>2. /\ s[1] = a /\ s[2] = b
      /\ t[1] = c /\ t[2] = d /\ t[3] = e
      /\ u[1] = a /\ u[2] = b /\ u[3] = c /\ u[4] = d /\ u[5] = e
  OBVIOUS
<1> HIDE DEF s, t, u, S
<1>3. /\ s \o t \in Seq(S) /\ Len(s \o t) = Len(s) + Len(t)
      /\ \A k \in 1..Len(s) + Len(t) : (s \o t)[k] = IF k <= Len(s) THEN s[k] ELSE t[k - Len(s)]
  BY <1>1, ConcatProperties
<1>4. ASSUME NEW k \in 1..5 PROVE (s \o t)[k] = u[k]
  <2>1. (s \o t)[1] = s[1] /\ (s \o t)[2] = s[2]
    BY <1>1, <1>3
  <2>2. (s \o t)[3] = t[1] /\ (s \o t)[4] = t[2] /\ (s \o t)[5] = t[3]
    BY <1>1, <1>3
  <2>3. k = 1 \/ k = 2 \/ k = 3 \/ k = 4 \/ k = 5
    BY <1>4
  <2> QED BY <1>2, <2>1, <2>2, <2>3
<1>5. s \o t = u
  <2>1. Len(s \o t) = 5 /\ Len(u) = 5 /\ s \o t \in Seq(S) /\ u \in Seq(S)
    BY <1>1, <1>3
  <2>2. \A k \in 1..Len(s \o t) : (s \o t)[k] = u[k]
    BY <1>4, <2>1
  <2> QED BY <2>1, <2>2, SeqEqual
<1> QED BY <1>5 DEF s, t, u

\* What the parts of submit(), of the consumer and of its failures begin.
LEMMA Begun ==
  ASSUME NEW j
  PROVE  /\ Update(j, "queued") \in Queues(j) /\ Head(Update(j, "queued")) = R(j, "queued")
         /\ LET t == Update(j, "queued") \o Recorded(j, "failed")
            IN t \in Refuses(j) /\ Head(t) = R(j, "queued")
         /\ Completed(j) \in Completes(j) /\ Head(Completed(j)) = R(j, "completed")
         /\ \A s : Recorded(j, s) \in Records(j, s) /\ Head(Recorded(j, s)) = R(j, s)
<1>1. \A s : Update(j, s) = <<R(j, s), I(j, s)>> /\ Event(j, s) = <<E(j, s)>>
  BY DEF Update, Event, R, I, E
<1>2. \A s : Recorded(j, s) = <<R(j, s), I(j, s), E(j, s)>>
  BY <1>1, Third DEF Recorded
<1>3. ASSUME NEW s PROVE Recorded(j, s) \in Records(j, s) /\ Head(Recorded(j, s)) = R(j, s)
  BY <1>2 DEF Records
<1>4. Update(j, "queued") \in Queues(j) /\ Head(Update(j, "queued")) = R(j, "queued")
  BY <1>1 DEF Queues
<1>5. Completed(j) \in Completes(j) /\ Head(Completed(j)) = R(j, "completed")
  <2>1. Completed(j) = <<R(j, "completed"), I(j, "completed"), E(j, "completed"), C(j)>>
    BY <1>2, Fourth DEF Completed, C
  <2> QED BY <2>1 DEF Completes
<1>6. LET t == Update(j, "queued") \o Recorded(j, "failed")
      IN t \in Refuses(j) /\ Head(t) = R(j, "queued")
  <2> DEFINE v == <<R(j, "queued"), I(j, "queued"), R(j, "failed"), I(j, "failed"), E(j, "failed")>>
  <2>1. Update(j, "queued") \o Recorded(j, "failed") = v
    <3>1. <<R(j, "queued"), I(j, "queued")>> \o <<R(j, "failed"), I(j, "failed"), E(j, "failed")>> = v
      BY Fifth
    <3> HIDE DEF v
    <3>2. /\ Update(j, "queued") = <<R(j, "queued"), I(j, "queued")>>
          /\ Recorded(j, "failed") = <<R(j, "failed"), I(j, "failed"), E(j, "failed")>>
      BY <1>1, <1>2
    <3> QED BY <3>1, <3>2
  <2>2. v \in Refuses(j) /\ Head(v) = R(j, "queued")
    BY DEF Refuses
  <2> HIDE DEF v
  <2> QED BY <2>1, <2>2
<1> QED BY <1>3, <1>4, <1>5, <1>6

-----------------------------------------------------------------------------
(* Statements and records                                                  *)

\* What each statement does to a record.
LEMMA Effects ==
  ASSUME NEW j, NEW s \in Statuses, NEW x \in Rows
  PROVE  /\ LET y == Effect(R(j, s), x) IN
            /\ y \in Rows /\ y.status = s /\ y.index = x.index /\ y.last = x.last
            /\ y.artifact = x.artifact /\ y.charged = x.charged
         /\ LET y == Effect(I(j, s), x) IN
            /\ y \in Rows /\ y.status = x.status /\ y.index = s /\ y.last = x.last
            /\ y.artifact = x.artifact /\ y.charged = x.charged
         /\ LET y == Effect(E(j, s), x) IN
            /\ y \in Rows /\ y.status = x.status /\ y.index = s /\ y.last = s
            /\ y.artifact = x.artifact /\ y.charged = x.charged
<1>1. /\ R(j, s).table = "row" /\ R(j, s).status = s /\ I(j, s).table = "index" /\ I(j, s).status = s
      /\ E(j, s).table = "event" /\ E(j, s).status = s /\ C(j).table = "credit"
  BY DEF R, I, E, C, St
<1>2. ASSUME NEW t, t.table = "row", t.status \in Statuses
      PROVE  LET y == Effect(t, x) IN
             /\ y \in Rows /\ y.status = t.status /\ y.index = x.index /\ y.last = x.last
             /\ y.artifact = x.artifact /\ y.charged = x.charged
  <2>1. Effect(t, x) = [x EXCEPT !.status = t.status]
    BY <1>2 DEF Effect
  <2> QED BY <1>2, <2>1 DEF Rows
<1>3. ASSUME NEW t, t.table = "index", t.status \in Statuses
      PROVE  LET y == Effect(t, x) IN
             /\ y \in Rows /\ y.status = x.status /\ y.index = t.status /\ y.last = x.last
             /\ y.artifact = x.artifact /\ y.charged = x.charged
  <2>1. Effect(t, x) = [x EXCEPT !.index = t.status]
    BY <1>3 DEF Effect
  <2> QED BY <1>3, <2>1 DEF Rows
<1>4. ASSUME NEW t, t.table = "event", t.status \in Statuses
      PROVE  LET y == Effect(t, x) IN
             /\ y \in Rows /\ y.status = x.status /\ y.index = t.status /\ y.last = t.status
             /\ y.artifact = x.artifact /\ y.charged = x.charged
  <2>1. Effect(t, x) = [x EXCEPT !.last = t.status, !.index = t.status]
    BY <1>4 DEF Effect
  <2> QED BY <1>4, <2>1 DEF Rows
<1> QED BY <1>1, <1>2, <1>3, <1>4

LEMMA CreditEffect ==
  ASSUME NEW j, NEW x \in Rows, x.charged = 0
  PROVE  LET y == Effect(C(j), x) IN
         /\ y \in Rows /\ y.status = x.status /\ y.index = x.index /\ y.last = x.last
         /\ y.artifact = x.artifact /\ y.charged = 1
<1>1. C(j).table = "credit"
  BY DEF C, St
<1>2. ASSUME NEW t, t.table = "credit"
      PROVE  Effect(t, x) = [x EXCEPT !.charged = x.charged + 1]
  BY <1>2 DEF Effect
<1>3. Effect(C(j), x) = [x EXCEPT !.charged = x.charged + 1]
  BY <1>1, <1>2
<1> QED BY <1>3 DEF Rows

-----------------------------------------------------------------------------
(* One job moves, the others keep what they have                           *)

Same(k) ==
  /\ row'[k] = row[k] /\ stage'[k] = stage[k] /\ items'[k] = items[k] /\ end'[k] = end[k]
  /\ consumer'[k] = consumer[k] /\ (k \in cut <=> k \in cut')
  /\ k \in preparing' => k \in preparing

LEMMA SameJob ==
  ASSUME NEW k, Same(k)
  PROVE  /\ RowInv(k) => RowInv(k)'
         /\ ChannelInv(k) => ChannelInv(k)'
         /\ Steady(k) => Steady(k)'
<1>1. /\ Live(k)' <=> Live(k)
      /\ HasResult(k)' <=> HasResult(k)
      /\ AtWork(k)' <=> AtWork(k)
      /\ Over(k)' <=> Over(k)
  BY DEF Same, Live, HasResult, AtWork, Over
<1>2. RowInv(k) => RowInv(k)'
  BY DEF Same, RowInv
<1>3. ChannelInv(k) => ChannelInv(k)'
  BY <1>1 DEF Same, ChannelInv, ResultIsLast
<1>4. Steady(k) => Steady(k)'
  BY <1>1 DEF Same, Steady, Agrees
<1> QED BY <1>2, <1>3, <1>4

\* A turn under way has statements left, all of one job.
LEMMA EngagedTurn ==
  ASSUME NEW j, Engaged(j)
  PROVE  turn # <<>> /\ Head(turn).job = j
<1>0. \A s : R(j, s).job = j /\ I(j, s).job = j /\ E(j, s).job = j /\ C(j).job = j
  BY DEF R, I, E, C, St
<1>1. CASE Queueing(j)
  BY <1>0, <1>1, QueueingTurn DEF Queueing
<1>2. CASE Refusing(j)
  BY <1>0, <1>2, RefusingTurn DEF Refusing
<1>3. ASSUME NEW s, turn \in Records(j, s) PROVE turn # <<>> /\ Head(turn).job = j
  <2>1. turn # <<>> /\ Head(turn) \in {R(j, s), I(j, s), E(j, s)}
    BY <1>3, RecordingTurn
  <2> QED BY <1>0, <2>1
<1>4. CASE Completing(j)
  <2>1. turn \in Completes(j)
    BY <1>4 DEF Completing
  <2>2. /\ turn # <<>>
        /\ Head(turn) \in {R(j, "completed"), I(j, "completed"), E(j, "completed"), C(j)}
    BY <2>1, CompletingTurn
  <2> QED BY <1>0, <2>2
<1> QED BY <1>1, <1>2, <1>3, <1>4 DEF Engaged, Recording, Failing, Cancelling

\* Outside a turn every job is steady.
LEMMA IdleJobs ==
  ASSUME MediaInv, turn = <<>>, Serving
  PROVE  \A j \in Jobs : Steady(j)
BY EngagedTurn DEF MediaInv, ServingInv

\* What is to be shown of a step of job j.
LEMMA OneJob ==
  ASSUME MediaInv, Serving, Serving', Typed', NEW j \in Jobs,
         \A k \in Jobs \ {j} : Steady(k) /\ Same(k),
         \A k \in Jobs : LateInv(k)',
         RowInv(j)', ChannelInv(j)',
         (turn' = <<>> /\ Steady(j)') \/ Engaged(j)'
  PROVE  MediaInv'
<1>1. \A k \in Jobs \ {j} : RowInv(k)' /\ ChannelInv(k)' /\ Steady(k)'
  BY SameJob DEF MediaInv
<1>2. \A k \in Jobs : RowInv(k)' /\ ChannelInv(k)'
  BY <1>1
<1>3. ServingInv'
  BY <1>1 DEF ServingInv
<1> QED BY <1>2, <1>3 DEF MediaInv

\* A step between turns, of the lane, the executor or the user: the record and the
\* consumer of the job stay, and where the result is does not change.
LEMMA QuietStep ==
  ASSUME MediaInv, Idle, Typed', NEW j \in Jobs,
         row' = row, consumer' = consumer, cut' = cut, preparing' \subseteq preparing,
         turn' = turn, late' = late, host' = host,
         \A k \in Jobs \ {j} : /\ stage'[k] = stage[k] /\ items'[k] = items[k]
                               /\ end'[k] = end[k],
         ChannelInv(j)', AtWork(j) => AtWork(j)', Over(j) => Over(j)'
  PROVE  MediaInv'
<1>1. Serving /\ Serving' /\ turn = <<>>
  BY DEF Idle, Serving
<1>2. \A k \in Jobs : Steady(k)
  BY <1>1, IdleJobs
<1>3. \A k \in Jobs \ {j} : Same(k)
  BY DEF Same
<1>4. RowInv(j)' /\ Steady(j)'
  <2>1. Live(j)' <=> Live(j)
    BY DEF Live
  <2>2. Steady(j)'
    BY <1>2, <2>1 DEF Steady
  <2>3. RowInv(j)'
    BY DEF MediaInv, RowInv
  <2> QED BY <2>2, <2>3
<1>5. \A k \in Jobs : LateInv(k)'
  BY DEF MediaInv, LateInv
<1> QED BY <1>1, <1>2, <1>3, <1>4, <1>5, OneJob

-----------------------------------------------------------------------------
(* The executor's steps                                                    *)

LEMMA Unmoved ==
  ASSUME NEW S, NEW f \in [Jobs -> S], NEW j \in Jobs, NEW v
  PROVE  /\ [f EXCEPT ![j] = v][j] = v
         /\ \A k \in Jobs \ {j} : [f EXCEPT ![j] = v][k] = f[k]
         /\ v \in S => [f EXCEPT ![j] = v] \in [Jobs -> S]
OBVIOUS

\* A step of the executor: the job goes on to `to`, its channel has come to `q`
\* and `how`, its polls to `n`.
ExecutorGoes(j, to, q, how, n) ==
  /\ Idle /\ stage' = [stage EXCEPT ![j] = to] /\ items' = [items EXCEPT ![j] = q]
  /\ end' = [end EXCEPT ![j] = how] /\ polls' = [polls EXCEPT ![j] = n]
  /\ UNCHANGED <<row, turn, preparing, stopping, consumer, host, restarts, cut, late>>

LEMMA ExecutorStep ==
  ASSUME MediaInv, NEW j \in Jobs, NEW to \in Places, NEW q \in Seq(Events), NEW how \in Endings,
         NEW n \in Nat, ExecutorGoes(j, to, q, how, n), n <= PollsOf[j], Len(q) <= Capacity,
         to # "none", stage[j] # "none", to = "done" <=> how # "open",
         "completed" \in ToSet(q) \/ consumer[j] = "writing" => to \in {"tidying", "done"} /\ how # "aborted",
         ResultIsLast(q), consumer[j] = "writing" => q = <<>>,
         AtWork(j) => (to = "tidying" \/ how = "closed" => "completed" \in ToSet(q)),
         Over(j) => q = <<>> /\ to \in {"tidying", "done"} /\ how # "aborted"
  PROVE  MediaInv'
<1>1. Typed
  BY DEF MediaInv
<1>2. /\ stage' = [stage EXCEPT ![j] = to] /\ items' = [items EXCEPT ![j] = q]
      /\ end' = [end EXCEPT ![j] = how] /\ polls' = [polls EXCEPT ![j] = n]
      /\ UNCHANGED <<row, turn, preparing, stopping, consumer, host, restarts, cut, late>>
  BY DEF ExecutorGoes
<1>3. /\ stage'[j] = to /\ \A k \in Jobs \ {j} : stage'[k] = stage[k]
      /\ stage' \in [Jobs -> Places]
  BY <1>1, <1>2, Unmoved DEF Typed
<1>4. /\ items'[j] = q /\ \A k \in Jobs \ {j} : items'[k] = items[k]
      /\ items' \in [Jobs -> Seq(Events)]
  BY <1>1, <1>2, Unmoved DEF Typed
<1>5. /\ end'[j] = how /\ \A k \in Jobs \ {j} : end'[k] = end[k]
      /\ end' \in [Jobs -> Endings]
  BY <1>1, <1>2, Unmoved DEF Typed
<1>6. /\ polls'[j] = n /\ \A k \in Jobs \ {j} : polls'[k] = polls[k]
      /\ polls' \in [Jobs -> Nat]
  BY <1>1, <1>2, Unmoved DEF Typed
<1>7. Typed'
  <2>1. /\ \A k \in Jobs : polls'[k] <= PollsOf[k]
        /\ \A k \in Jobs : Len(items'[k]) <= Capacity
    BY <1>1, <1>4, <1>6 DEF Typed
  <2> QED BY <1>1, <1>2, <1>3, <1>4, <1>5, <1>6, <2>1 DEF Typed
<1>8. ChannelInv(j)'
  <2>1. consumer'[j] = consumer[j] /\ consumer[j] # "none"
    BY <1>2 DEF MediaInv, ChannelInv
  <2>2. ResultIsLast(items[j])'
    BY <1>4 DEF ResultIsLast
  <2> QED BY <1>3, <1>4, <1>5, <2>1, <2>2 DEF ChannelInv, HasResult
<1>9. AtWork(j) => AtWork(j)'
  BY <1>3, <1>4, <1>5 DEF AtWork, HasResult
<1>10. Over(j) => Over(j)'
  BY <1>3, <1>4, <1>5 DEF Over
<1>11. Idle
  BY DEF ExecutorGoes
<1> QED BY <1>2, <1>3, <1>4, <1>5, <1>7, <1>8, <1>9, <1>10, <1>11, QuietStep

\* As long as the executor has no result to show.
Trying == {"queued", "submitting", "polling"} \cup Events

LEMMA NoResultYet ==
  ASSUME MediaInv, NEW j \in Jobs, stage[j] \in Trying
  PROVE  /\ end[j] = "open" /\ ~HasResult(j) /\ consumer[j] # "writing" /\ ~Over(j)
         /\ stage[j] # "none" /\ items[j] \in Seq(Events) /\ ResultIsLast(items[j])
         /\ Len(items[j]) <= Capacity /\ polls[j] \in Nat /\ polls[j] <= PollsOf[j]
         /\ PollsOf[j] \in Nat
<1>1. stage[j] \notin {"none", "tidying", "done"}
  BY DEF Trying, Events
<1>2. ChannelInv(j) /\ Typed
  BY DEF MediaInv
<1>3. end[j] = "open" /\ ~HasResult(j) /\ consumer[j] # "writing" /\ ~Over(j)
  BY <1>1, <1>2 DEF ChannelInv, Over
<1> QED BY <1>1, <1>2, <1>3, LimitsAssumption DEF ChannelInv, Typed

LEMMA Unchanged ==
  ASSUME NEW S, NEW f \in [Jobs -> S], NEW j \in Jobs
  PROVE  f = [f EXCEPT ![j] = f[j]]
OBVIOUS

\* The parts of an executor's state a step leaves alone.
LEMMA LeftAlone ==
  ASSUME Typed, NEW j \in Jobs
  PROVE  /\ stage = [stage EXCEPT ![j] = stage[j]] /\ items = [items EXCEPT ![j] = items[j]]
         /\ end = [end EXCEPT ![j] = end[j]] /\ polls = [polls EXCEPT ![j] = polls[j]]
<1>1. stage = [stage EXCEPT ![j] = stage[j]]
  BY Unchanged DEF Typed
<1>2. items = [items EXCEPT ![j] = items[j]]
  BY Unchanged DEF Typed
<1>3. end = [end EXCEPT ![j] = end[j]]
  BY Unchanged DEF Typed
<1>4. polls = [polls EXCEPT ![j] = polls[j]]
  BY Unchanged DEF Typed
<1> QED BY <1>1, <1>2, <1>3, <1>4

LEMMA OfferStep ==
  ASSUME MediaInv, Idle, NEW j \in Jobs, NEW e \in Events, stage[j] \in Trying,
         Offer(j, e), end' = end, Elsewhere,
         NEW n \in Nat, n <= PollsOf[j], polls' = [polls EXCEPT ![j] = n]
  PROVE  MediaInv'
<1>0. Typed /\ Capacity \in Nat
  BY LimitsAssumption DEF MediaInv
<1>1. /\ end[j] = "open" /\ ~HasResult(j) /\ consumer[j] # "writing" /\ ~Over(j)
      /\ stage[j] # "none" /\ items[j] \in Seq(Events) /\ ResultIsLast(items[j])
      /\ Len(items[j]) <= Capacity
  BY NoResultYet
<1>2. end' = [end EXCEPT ![j] = "open"]
  BY <1>0, <1>1, LeftAlone
<1>3. /\ "completed" \notin ToSet(items[j]) /\ "open" \in Endings
      /\ UNCHANGED <<row, turn, preparing, stopping, consumer, host, restarts, cut, late>>
  BY <1>1 DEF HasResult, Endings, Elsewhere
<1>4. CASE Len(items[j]) < Capacity
  <2> DEFINE q == Append(items[j], e)
  <2>1. items' = [items EXCEPT ![j] = q] /\ stage' = [stage EXCEPT ![j] = After(e)]
    BY <1>4 DEF Offer, Goes
  <2>2. /\ q \in Seq(Events) /\ Len(q) = Len(items[j]) + 1 /\ ResultIsLast(q)
        /\ "completed" \in ToSet(q) <=> e = "completed"
    BY <1>1, <1>3, EventBuffered
  <2>3. Len(items[j]) \in Nat
    BY <1>1, LenProperties
  <2>4. Len(q) <= Capacity
    BY <1>0, <1>4, <2>2, <2>3
  <2>5. /\ After(e) \in Places /\ After(e) \notin {"none", "done"}
        /\ After(e) = "tidying" <=> e = "completed"
    BY DEF After, Places
  <2> HIDE DEF q
  <2>6. ExecutorGoes(j, After(e), q, "open", n)
    BY <1>2, <1>3, <2>1 DEF ExecutorGoes
  <2> QED BY <1>1, <1>3, <2>2, <2>4, <2>5, <2>6, ExecutorStep
<1>5. CASE ~(Len(items[j]) < Capacity)
  <2>1. stage' = [stage EXCEPT ![j] = e] /\ items' = items
    BY <1>5 DEF Offer, Goes
  <2>2. items' = [items EXCEPT ![j] = items[j]]
    BY <1>0, <2>1, LeftAlone
  <2>3. e \in Places /\ e \notin {"none", "done", "tidying"}
    BY DEF Places, Events
  <2>4. ExecutorGoes(j, e, items[j], "open", n)
    BY <1>2, <1>3, <2>1, <2>2 DEF ExecutorGoes
  <2> QED BY <1>1, <1>3, <2>3, <2>4, ExecutorStep
<1> QED BY <1>4, <1>5

\* The executor's own end before there is a result.
LEMMA GivesUp ==
  ASSUME MediaInv, Idle, NEW j \in Jobs, stage[j] \in Trying, NEW how \in {"failed", "aborted"},
         Goes(j, "done"), Ends(j, how), polls' = [polls EXCEPT ![j] = 0], Elsewhere, items' = items
  PROVE  MediaInv'
<1>0. Typed
  BY DEF MediaInv
<1>1. /\ ~HasResult(j) /\ consumer[j] # "writing" /\ ~Over(j) /\ stage[j] # "none"
      /\ items[j] \in Seq(Events) /\ ResultIsLast(items[j]) /\ Len(items[j]) <= Capacity
      /\ 0 <= PollsOf[j] /\ 0 \in Nat
  BY NoResultYet
<1>2. items' = [items EXCEPT ![j] = items[j]]
  BY <1>0, LeftAlone
<1>3. ExecutorGoes(j, "done", items[j], how, 0)
  BY <1>2 DEF ExecutorGoes, Goes, Ends, Elsewhere
<1>4. "done" \in Places /\ how \in Endings /\ how \notin {"open", "closed"}
  BY DEF Places, Endings
<1> QED BY <1>1, <1>3, <1>4, ExecutorStep DEF HasResult

LEMMA ExecutorActions ==
  ASSUME MediaInv, NEW j \in Jobs,
         \/ Dispatch(j) \/ Accepts(j) \/ Reports(j) \/ Results(j)
         \/ Fails(j) \/ Tidies(j) \/ Aborts(j)
  PROVE  MediaInv'
<1>0. Typed
  BY DEF MediaInv
<1>1. CASE Dispatch(j)
  <2>1. /\ Idle /\ stage[j] = "queued" /\ Goes(j, "submitting") /\ Elsewhere
        /\ polls' = polls /\ items' = items /\ end' = end
    BY <1>1 DEF Dispatch, Stands, channel
  <2>2. stage[j] \in Trying
    BY <2>1 DEF Trying
  <2>3. /\ end[j] = "open" /\ ~HasResult(j) /\ consumer[j] # "writing" /\ ~Over(j)
        /\ stage[j] # "none" /\ items[j] \in Seq(Events) /\ ResultIsLast(items[j])
        /\ Len(items[j]) <= Capacity /\ polls[j] \in Nat /\ polls[j] <= PollsOf[j]
    BY <2>2, NoResultYet
  <2>4. /\ items' = [items EXCEPT ![j] = items[j]] /\ end' = [end EXCEPT ![j] = "open"]
        /\ polls' = [polls EXCEPT ![j] = polls[j]]
    BY <1>0, <2>1, <2>3, LeftAlone
  <2>5. ExecutorGoes(j, "submitting", items[j], "open", polls[j])
    BY <2>1, <2>4 DEF ExecutorGoes, Goes, Elsewhere
  <2>6. "submitting" \in Places /\ "open" \in Endings
    BY DEF Places, Endings
  <2> QED BY <2>3, <2>5, <2>6, ExecutorStep DEF HasResult
<1>2. CASE Accepts(j)
  <2>1. /\ Idle /\ stage[j] = "submitting" /\ Offer(j, "started") /\ Elsewhere
        /\ polls' = polls /\ end' = end
    BY <1>2 DEF Accepts, Stands
  <2>2. stage[j] \in Trying /\ "started" \in Events
    BY <2>1 DEF Trying, Events
  <2>3. polls' = [polls EXCEPT ![j] = polls[j]] /\ polls[j] \in Nat /\ polls[j] <= PollsOf[j]
    BY <1>0, <2>1, <2>2, LeftAlone, NoResultYet
  <2> QED BY <2>1, <2>2, <2>3, OfferStep
<1>3. CASE Reports(j)
  <2>1. /\ Idle /\ stage[j] = "polling" /\ Offer(j, "progressing") /\ Elsewhere /\ end' = end
        /\ polls[j] < PollsOf[j] /\ polls' = [polls EXCEPT ![j] = @ + 1]
    BY <1>3 DEF Reports, Stands
  <2>2. stage[j] \in Trying /\ "progressing" \in Events
    BY <2>1 DEF Trying, Events
  <2>3. polls[j] + 1 \in Nat /\ polls[j] + 1 <= PollsOf[j] /\ polls' = [polls EXCEPT ![j] = polls[j] + 1]
    BY <2>1, <2>2, NoResultYet
  <2> QED BY <2>1, <2>2, <2>3, OfferStep
<1>4. CASE Results(j)
  <2>1. /\ Idle /\ stage[j] = "polling" /\ Offer(j, "completed") /\ Elsewhere /\ end' = end
        /\ polls' = [polls EXCEPT ![j] = 0]
    BY <1>4 DEF Results, Stands
  <2>2. stage[j] \in Trying /\ "completed" \in Events
    BY <2>1 DEF Trying, Events
  <2>3. 0 \in Nat /\ 0 <= PollsOf[j]
    BY <2>2, NoResultYet
  <2> QED BY <2>1, <2>2, <2>3, OfferStep
<1>5. CASE Fails(j)
  <2>1. /\ Idle /\ stage[j] \in {"submitting", "polling"} /\ Goes(j, "done") /\ Ends(j, "failed")
        /\ polls' = [polls EXCEPT ![j] = 0] /\ Elsewhere /\ items' = items
    BY <1>5 DEF Fails, Stands
  <2>2. stage[j] \in Trying
    BY <2>1 DEF Trying
  <2> QED BY <2>1, <2>2, GivesUp
<1>6. CASE Aborts(j)
  <2>1. /\ Idle /\ stage[j] \in {"submitting", "polling"} \cup Events
        /\ Goes(j, "done") /\ Ends(j, "aborted")
        /\ polls' = [polls EXCEPT ![j] = 0] /\ Elsewhere /\ items' = items
    BY <1>6 DEF Aborts
  <2>2. stage[j] \in Trying
    BY <2>1 DEF Trying
  <2> QED BY <2>1, <2>2, GivesUp
<1>7. CASE Tidies(j)
  <2>1. /\ Idle /\ stage[j] = "tidying" /\ Goes(j, "done") /\ Elsewhere
        /\ polls' = polls /\ items' = items
    BY <1>7 DEF Tidies, Stands
  <2>2. PICK how \in {"closed", "failed"} : Ends(j, how)
    BY <1>7 DEF Tidies
  <2>3. /\ items' = [items EXCEPT ![j] = items[j]] /\ polls' = [polls EXCEPT ![j] = polls[j]]
        /\ items[j] \in Seq(Events) /\ Len(items[j]) <= Capacity
        /\ polls[j] \in Nat /\ polls[j] <= PollsOf[j]
    BY <1>0, <2>1, LeftAlone DEF Typed
  <2>4. ExecutorGoes(j, "done", items[j], how, polls[j])
    BY <2>1, <2>2, <2>3 DEF ExecutorGoes, Goes, Ends, Elsewhere
  <2>5. "done" \in Places /\ how \in Endings /\ how \notin {"open", "aborted"}
    BY DEF Places, Endings
  <2>6. /\ ResultIsLast(items[j]) /\ (consumer[j] = "writing" => items[j] = <<>>)
        /\ (AtWork(j) => HasResult(j)) /\ (Over(j) => items[j] = <<>>)
    BY <2>1 DEF MediaInv, ChannelInv, AtWork, Over
  <2> QED BY <2>1, <2>3, <2>4, <2>5, <2>6, ExecutorStep DEF HasResult
<1> QED BY <1>1, <1>2, <1>3, <1>4, <1>5, <1>6, <1>7

-----------------------------------------------------------------------------
(* The coordinator's calls                                                 *)

LEMMA SubmitStep ==
  ASSUME MediaInv, NEW j \in Jobs, Submit(j)
  PROVE  MediaInv'
<1>1. /\ Idle /\ row[j].status = "none" /\ preparing' = preparing \cup {j}
      /\ UNCHANGED <<row, turn, stage, polls, stopping, items, end, consumer, host, restarts, cut, late>>
  BY DEF Submit, executor, channel
<1>2. Serving /\ Serving' /\ turn = <<>>
  BY <1>1 DEF Idle, Serving
<1>3. \A k \in Jobs : Steady(k)
  BY <1>2, IdleJobs
<1>4. Typed'
  BY <1>1 DEF MediaInv, Typed
<1>5. \A k \in Jobs \ {j} : Same(k)
  BY <1>1 DEF Same
<1>6. RowInv(j)' /\ ChannelInv(j)' /\ \A k \in Jobs : LateInv(k)'
  BY <1>1 DEF MediaInv, RowInv, ChannelInv, LateInv, HasResult, ResultIsLast
<1>7. Steady(j)'
  BY <1>1, <1>3 DEF Steady, Live, AtWork, Over, HasResult, Agrees
<1> QED BY <1>1, <1>2, <1>3, <1>4, <1>5, <1>6, <1>7, OneJob

LEMMA CreateStep ==
  ASSUME MediaInv, NEW j \in Jobs, Create(j)
  PROVE  MediaInv'
<1>1. /\ Idle /\ j \in preparing /\ preparing' = preparing \ {j}
      /\ UNCHANGED <<row, polls, stopping, items, end, host, restarts, cut>>
  BY DEF Create, channel
<1>2. Serving /\ Serving' /\ turn = <<>>
  BY <1>1 DEF Idle, Serving
<1>3. \A k \in Jobs : Steady(k)
  BY <1>2, IdleJobs
<1>4. row[j].status = "none" /\ consumer[j] = "none"
  BY <1>1, <1>3 DEF Steady
<1>5. stage[j] = "none" /\ items[j] = <<>> /\ end[j] = "open" /\ ~HasResult(j)
  BY <1>4, NoEvents DEF MediaInv, ChannelInv, HasResult
<1>6. RowInv(j)'
  BY <1>1 DEF MediaInv, RowInv
<1>7. j \notin preparing' /\ Typed
  BY <1>1 DEF MediaInv
<1>8. CASE UNCHANGED <<turn, stage, consumer, late>>
  <2>1. Typed'
    BY <1>1, <1>7, <1>8 DEF Typed
  <2>2. \A k \in Jobs : Same(k)
    BY <1>1, <1>8 DEF Same
  <2>3. \A k \in Jobs : LateInv(k)'
    BY <1>1, <1>8 DEF MediaInv, LateInv
  <2>4. Steady(j)' /\ RowInv(j)' /\ ChannelInv(j)'
    BY <1>3, <2>2, SameJob DEF MediaInv
  <2> QED BY <1>2, <1>3, <1>8, <2>1, <2>2, <2>3, <2>4, OneJob
<1>9. CASE /\ turn' = Update(j, "queued")
           /\ stage' = [stage EXCEPT ![j] = "queued"]
           /\ consumer' = [consumer EXCEPT ![j] = "reading"]
           /\ late' = IF host = "up" THEN late ELSE late \cup {j}
  <2>1. /\ stage'[j] = "queued" /\ \A k \in Jobs \ {j} : stage'[k] = stage[k]
        /\ stage' \in [Jobs -> Places]
    <3>1. "queued" \in Places
      BY DEF Places
    <3> QED BY <1>7, <1>9, <3>1, Unmoved DEF Typed
  <2>2. /\ consumer'[j] = "reading" /\ \A k \in Jobs \ {j} : consumer'[k] = consumer[k]
        /\ consumer' \in [Jobs -> Readers]
    <3>1. "reading" \in Readers
      BY DEF Readers
    <3> QED BY <1>7, <1>9, <3>1, Unmoved DEF Typed
  <2>3. Typed'
    BY <1>1, <1>7, <1>9, <2>1, <2>2 DEF Typed
  <2>4. \A k \in Jobs \ {j} : Same(k)
    BY <1>1, <2>1, <2>2 DEF Same
  <2>5. \A k \in Jobs : LateInv(k)'
    <3>1. ASSUME NEW k \in Jobs \ {j} PROVE LateInv(k)'
      BY <1>1, <1>9, <2>2 DEF MediaInv, LateInv
    <3>2. LateInv(j)'
      BY <1>1, <1>9 DEF LateInv
    <3> QED BY <3>1, <3>2
  <2>6. items'[j] = items[j] /\ end'[j] = end[j] /\ row'[j] = row[j]
    BY <1>1
  <2>7. ChannelInv(j)'
    BY <1>5, <2>1, <2>2, <2>6, NoEvents DEF ChannelInv, HasResult, ResultIsLast
  <2>8. Engaged(j)'
    <3>1. turn' \in Queues(j) /\ Head(turn') = R(j, "queued")
      BY <1>9, Begun
    <3>2. Head(turn').table = "row"
      BY <3>1 DEF R, St
    <3>3. Queueing(j)'
      BY <1>4, <1>5, <2>1, <2>2, <2>6, <3>1 DEF Queueing, AtWork
    <3>4. Fits(row[j], Head(turn))'
      BY <3>2 DEF Fits
    <3> QED BY <1>7, <3>3, <3>4 DEF Engaged
  <2> QED BY <1>2, <1>3, <1>6, <2>3, <2>4, <2>5, <2>7, <2>8, OneJob
<1>10. CASE /\ turn' = Update(j, "queued") \o Recorded(j, "failed")
            /\ UNCHANGED <<stage, consumer, late>>
  <2>1. Typed'
    BY <1>1, <1>7, <1>10 DEF Typed
  <2>2. \A k \in Jobs : Same(k)
    BY <1>1, <1>10 DEF Same
  <2>3. \A k \in Jobs : LateInv(k)'
    BY <1>1, <1>10 DEF MediaInv, LateInv
  <2>4. ChannelInv(j)'
    BY <2>2, SameJob DEF MediaInv
  <2>5. Engaged(j)'
    <3>1. turn' \in Refuses(j) /\ Head(turn') = R(j, "queued")
      BY <1>10, Begun
    <3>2. Head(turn').table = "row"
      BY <3>1 DEF R, St
    <3>3. Refusing(j)'
      BY <1>1, <1>4, <1>10, <3>1 DEF Refusing
    <3>4. Fits(row[j], Head(turn))'
      BY <3>2 DEF Fits
    <3> QED BY <1>7, <3>3, <3>4 DEF Engaged
  <2> QED BY <1>2, <1>3, <1>6, <2>1, <2>2, <2>3, <2>4, <2>5, OneJob
<1> QED BY <1>8, <1>9, <1>10 DEF Create

\* Jobs are stopped: what waits in the lane leaves it with an aborted channel.
LEMMA StopStep ==
  ASSUME MediaInv, Idle, NEW S \in SUBSET Jobs, StopAll(S), host' \in {"up", "closing", "closed"},
         host' = "closed" => host = "closed",
         UNCHANGED <<row, turn, preparing, polls, items, consumer, restarts, cut, late>>
  PROVE  MediaInv'
<1> DEFINE waiting == {k \in S : stage[k] = "queued"}
<1>1. /\ stopping' = stopping \cup S
      /\ stage' = [k \in Jobs |-> IF k \in waiting THEN "done" ELSE stage[k]]
      /\ end' = [k \in Jobs |-> IF k \in waiting THEN "aborted" ELSE end[k]]
  BY DEF StopAll
<1>2. Serving /\ Serving' /\ turn = <<>> /\ turn' = <<>> /\ Typed
  BY DEF Idle, Serving, MediaInv
<1>3. \A k \in Jobs : Steady(k)
  BY <1>2, IdleJobs
<1>4. Typed'
  <2>1. "done" \in Places /\ "aborted" \in Endings
    BY DEF Places, Endings
  <2>2. stage' \in [Jobs -> Places] /\ end' \in [Jobs -> Endings]
    BY <1>1, <1>2, <2>1 DEF Typed
  <2> QED BY <1>1, <1>2, <2>2 DEF Typed
<1>5. \A k \in Jobs : LateInv(k)'
  BY DEF MediaInv, LateInv
<1>6. ASSUME NEW k \in Jobs PROVE RowInv(k)' /\ ChannelInv(k)' /\ Steady(k)'
  <2>1. CASE k \in waiting
    <3>1. stage[k] \in Trying
      BY <2>1 DEF Trying
    <3>2. /\ ~HasResult(k) /\ consumer[k] # "writing" /\ ~Over(k)
          /\ stage[k] # "none" /\ ResultIsLast(items[k])
      BY <3>1, NoResultYet
    <3>3. /\ stage'[k] = "done" /\ end'[k] = "aborted" /\ items'[k] = items[k]
          /\ consumer'[k] = consumer[k] /\ row'[k] = row[k] /\ preparing' = preparing /\ cut' = cut
      BY <1>1, <2>1
    <3>4. consumer[k] # "none"
      BY <3>2 DEF MediaInv, ChannelInv
    <3>5. ~HasResult(k)'
      BY <3>2, <3>3 DEF HasResult
    <3>6. ResultIsLast(items[k])'
      BY <3>2, <3>3 DEF ResultIsLast
    <3>7. ChannelInv(k)'
      BY <3>2, <3>3, <3>4, <3>5, <3>6 DEF ChannelInv
    <3>8. RowInv(k)' /\ Agrees(row[k])' = Agrees(row[k]) /\ Live(k)' = Live(k)
      BY <3>3 DEF MediaInv, RowInv, Agrees, Live
    <3>9. AtWork(k)'
      BY <3>3 DEF AtWork
    <3>10. Steady(k)'
      BY <1>3, <3>2, <3>3, <3>8, <3>9 DEF Steady
    <3> QED BY <3>7, <3>8, <3>10
  <2>2. CASE k \notin waiting
    <3>1. Same(k)
      BY <1>1, <2>2 DEF Same
    <3> QED BY <1>3, <3>1, SameJob DEF MediaInv
  <2> QED BY <2>1, <2>2
<1> QED BY <1>2, <1>4, <1>5, <1>6 DEF MediaInv, ServingInv

LEMMA StoppingActions ==
  ASSUME MediaInv, Shutdown \/ ShutdownReturns \/ \E j \in Jobs : Cancel(j)
  PROVE  MediaInv'
<1>1. CASE Shutdown
  <2>1. /\ Idle /\ host' = "closing" /\ StopAll(Active \ stopping)
        /\ UNCHANGED <<row, turn, preparing, polls, items, consumer, restarts, cut, late>>
    BY <1>1 DEF Shutdown
  <2>2. Active \ stopping \in SUBSET Jobs
    BY DEF Active
  <2> QED BY <2>1, <2>2, StopStep
<1>2. ASSUME NEW j \in Jobs, Cancel(j) PROVE MediaInv'
  <2>1. /\ Idle /\ StopAll({j}) /\ host' = host
        /\ UNCHANGED <<row, turn, preparing, polls, items, consumer, restarts, cut, late>>
    BY <1>2 DEF Cancel
  <2>2. host' \in {"up", "closing", "closed"}
    BY <2>1 DEF Idle
  <2> QED BY <2>1, <2>2, StopStep
<1>3. CASE ShutdownReturns
  <2>1. /\ Idle /\ host' = "closed" /\ Active \subseteq late
        /\ UNCHANGED <<row, turn, preparing, stage, polls, stopping, items, end, consumer, restarts, cut, late>>
    BY <1>3 DEF ShutdownReturns, executor, channel
  <2>2. Serving /\ Serving' /\ turn = <<>> /\ turn' = <<>> /\ Typed
    BY <2>1 DEF Idle, Serving, MediaInv
  <2>3. \A k \in Jobs : Steady(k) /\ Same(k)
    BY <2>1, <2>2, IdleJobs DEF Same
  <2>4. \A k \in Jobs : RowInv(k)' /\ ChannelInv(k)' /\ Steady(k)'
    BY <2>3, SameJob DEF MediaInv
  <2>5. \A k \in Jobs : LateInv(k)'
    BY <2>1 DEF Active, LateInv
  <2>6. Typed'
    BY <2>1, <2>2 DEF Typed
  <2> QED BY <2>2, <2>4, <2>5, <2>6 DEF MediaInv, ServingInv
<1> QED BY <1>1, <1>2, <1>3

-----------------------------------------------------------------------------
(* The consumer                                                            *)

LEMMA TakesStep ==
  ASSUME MediaInv, NEW j \in Jobs, Takes(j)
  PROVE  MediaInv'
<1> DEFINE e == Head(items[j])
<1>1. PICK to \in {"reading", "writing"} :
        /\ Consumes(j, "reading", to)
        /\ \/ e = "completed" /\ to = "writing" /\ UNCHANGED turn
           \/ e # "completed" /\ to = "reading" /\ turn' = Recorded(j, e)
  BY DEF Takes
<1>2. /\ items[j] # <<>> /\ Idle /\ consumer[j] = "reading"
      /\ consumer' = [consumer EXCEPT ![j] = to]
      /\ UNCHANGED <<row, preparing, polls, stopping, end, host, restarts, cut, late>>
  BY <1>1 DEF Takes, Consumes
<1>3. Serving /\ Serving' /\ turn = <<>> /\ Typed
  BY <1>2 DEF Idle, Serving, MediaInv
<1>4. (\A k \in Jobs : Steady(k)) /\ ChannelInv(j)
  BY <1>3, IdleJobs DEF MediaInv
<1>5. items[j] \in Seq(Events) /\ ResultIsLast(items[j]) /\ Len(items[j]) <= Capacity
  BY <1>3, <1>4 DEF Typed, ChannelInv
<1>6. /\ e \in Events /\ Tail(items[j]) \in Seq(Events) /\ Len(Tail(items[j])) = Len(items[j]) - 1
      /\ e \in ToSet(items[j]) /\ ToSet(Tail(items[j])) \subseteq ToSet(items[j])
      /\ ResultIsLast(Tail(items[j]))
      /\ e = "completed" => Tail(items[j]) = <<>>
      /\ e # "completed" /\ HasResult(j) => "completed" \in ToSet(Tail(items[j]))
  BY <1>2, <1>5, EventTaken DEF HasResult
<1> HIDE DEF e
<1>7. Live(j) /\ AtWork(j) /\ stage[j] # "none"
  BY <1>2, <1>4 DEF Steady, Over, ChannelInv
<1>8. PICK n \in Nat : Len(items[j]) = n
  BY <1>5, LenProperties
<1>9. PICK q \in Seq(Events), p \in Places :
        /\ items' = [items EXCEPT ![j] = q] /\ stage' = [stage EXCEPT ![j] = p]
        /\ Len(q) <= Capacity /\ ResultIsLast(q) /\ p # "none"
        /\ p = "done" <=> stage[j] = "done"
        /\ "completed" \in ToSet(q) => p \in {"tidying", "done"} /\ end[j] # "aborted"
        /\ e = "completed" => q = <<>> /\ p \in {"tidying", "done"} /\ end[j] # "aborted"
        /\ e # "completed" => (p = "tidying" \/ end[j] = "closed" => "completed" \in ToSet(q))
  <2>1. CASE stage[j] \in Events
    <3> DEFINE q == Append(Tail(items[j]), stage[j])
    <3>1. items' = [items EXCEPT ![j] = q] /\ stage' = [stage EXCEPT ![j] = After(stage[j])]
      BY <2>1 DEF Takes, Goes
    <3>2. stage[j] \in Trying
      BY <2>1 DEF Trying
    <3>3. ~HasResult(j) /\ end[j] = "open"
      BY <3>2, NoResultYet
    <3>4. "completed" \notin ToSet(Tail(items[j])) /\ e # "completed"
      BY <1>6, <3>3 DEF HasResult
    <3>5. /\ q \in Seq(Events) /\ Len(q) = Len(Tail(items[j])) + 1 /\ ResultIsLast(q)
          /\ ToSet(q) = ToSet(Tail(items[j])) \cup {stage[j]}
      BY <1>6, <2>1, <3>4, EventBuffered
    <3>6. Len(q) <= Capacity
      BY <1>5, <1>6, <1>8, <3>5, LimitsAssumption
    <3>7. /\ After(stage[j]) \in Places /\ After(stage[j]) \notin {"none", "done"}
          /\ After(stage[j]) = "tidying" <=> stage[j] = "completed"
      BY DEF After, Places
    <3>8. stage[j] # "done"
      BY <2>1 DEF Events
    <3> HIDE DEF q
    <3> QED BY <3>1, <3>3, <3>4, <3>5, <3>6, <3>7, <3>8
  <2>2. CASE stage[j] \notin Events
    <3>1. items' = [items EXCEPT ![j] = Tail(items[j])] /\ stage' = stage
      BY <2>2 DEF Takes
    <3>2. stage' = [stage EXCEPT ![j] = stage[j]] /\ stage[j] \in Places
      BY <1>3, <3>1, LeftAlone DEF Typed
    <3>3. Len(Tail(items[j])) <= Capacity
      BY <1>5, <1>6, <1>8, LimitsAssumption
    <3>4. "completed" \in ToSet(Tail(items[j])) \/ e = "completed" => HasResult(j)
      BY <1>6 DEF HasResult
    <3>5. HasResult(j) => stage[j] \in {"tidying", "done"} /\ end[j] # "aborted"
      BY <1>4 DEF ChannelInv
    <3>6. e # "completed" => (stage[j] = "tidying" \/ end[j] = "closed" => "completed" \in ToSet(Tail(items[j])))
      BY <1>6, <1>7 DEF AtWork
    <3> QED BY <1>6, <1>7, <3>1, <3>2, <3>3, <3>4, <3>5, <3>6
  <2> QED BY <2>1, <2>2
<1>10. /\ items'[j] = q /\ \A k \in Jobs \ {j} : items'[k] = items[k]
       /\ items' \in [Jobs -> Seq(Events)]
  BY <1>3, <1>9, Unmoved DEF Typed
<1>11. /\ stage'[j] = p /\ \A k \in Jobs \ {j} : stage'[k] = stage[k]
       /\ stage' \in [Jobs -> Places]
  BY <1>3, <1>9, Unmoved DEF Typed
<1>12. /\ consumer'[j] = to /\ \A k \in Jobs \ {j} : consumer'[k] = consumer[k]
       /\ consumer' \in [Jobs -> Readers]
  <2>1. to \in Readers
    BY DEF Readers
  <2> QED BY <1>2, <1>3, <2>1, Unmoved DEF Typed
<1>13. Typed'
  <2>1. \A k \in Jobs : Len(items'[k]) <= Capacity
    BY <1>3, <1>9, <1>10 DEF Typed
  <2> QED BY <1>2, <1>3, <1>10, <1>11, <1>12, <2>1 DEF Typed
<1>14. \A k \in Jobs \ {j} : Same(k)
  BY <1>2, <1>10, <1>11, <1>12 DEF Same
<1>15. \A k \in Jobs : LateInv(k)'
  BY <1>2, <1>12 DEF MediaInv, LateInv
<1>16. RowInv(j)' /\ row'[j] = row[j] /\ end'[j] = end[j] /\ preparing' = preparing /\ cut' = cut
  BY <1>2 DEF MediaInv, RowInv
<1>17. ChannelInv(j)'
  <2>1. ResultIsLast(items[j])'
    BY <1>9, <1>10 DEF ResultIsLast
  <2>2. stage[j] = "done" <=> end[j] # "open"
    BY <1>4 DEF ChannelInv
  <2>3. to = "writing" => e = "completed"
    BY <1>1
  <2>4. to # "none"
    OBVIOUS
  <2> QED BY <1>9, <1>10, <1>11, <1>12, <1>16, <2>1, <2>2, <2>3, <2>4 DEF ChannelInv, HasResult
<1>18. Live(j)'
  BY <1>7, <1>16 DEF Live
<1>19. (turn' = <<>> /\ Steady(j)') \/ Engaged(j)'
  <2>1. CASE e = "completed" /\ to = "writing" /\ UNCHANGED turn
    <3>1. Steady(j)'
      BY <1>4, <1>12, <1>16, <1>18, <2>1 DEF Steady, Agrees, Live
    <3> QED BY <1>3, <2>1, <3>1
  <2>2. CASE e # "completed" /\ to = "reading" /\ turn' = Recorded(j, e)
    <3>1. turn' \in Records(j, e) /\ Head(turn') = R(j, e)
      BY <2>2, Begun
    <3>2. e \in {"started", "progressing"}
      BY <1>6, <2>2 DEF Events
    <3>3. AtWork(j)'
      BY <1>9, <1>10, <1>11, <1>16, <2>2 DEF AtWork, HasResult
    <3>4. Recording(j)'
      BY <1>12, <1>18, <2>2, <3>1, <3>2, <3>3 DEF Recording
    <3>5. Fits(row[j], Head(turn))'
      <4>1. R(j, e).table = "row"
        BY DEF R, St
      <4> QED BY <3>1, <4>1 DEF Fits
    <3>6. j \notin preparing'
      BY <1>2, <1>4, <1>7 DEF Steady, Live
    <3> QED BY <3>4, <3>5, <3>6 DEF Engaged
  <2> QED BY <1>1, <2>1, <2>2
<1> QED BY <1>3, <1>4, <1>13, <1>14, <1>15, <1>16, <1>17, <1>19, OneJob

LEMMA WritesStep ==
  ASSUME MediaInv, NEW j \in Jobs, Writes(j)
  PROVE  MediaInv'
<1>1. /\ Idle /\ consumer[j] = "writing" /\ consumer' = [consumer EXCEPT ![j] = "reading"]
      /\ UNCHANGED <<preparing, stage, polls, stopping, items, end, host, restarts, cut, late>>
  BY DEF Writes, Consumes
<1>2. Serving /\ Serving' /\ turn = <<>> /\ Typed
  BY <1>1 DEF Idle, Serving, MediaInv
<1>3. (\A k \in Jobs : Steady(k)) /\ ChannelInv(j) /\ RowInv(j)
  BY <1>2, IdleJobs DEF MediaInv
<1>4. Live(j) /\ Over(j) /\ j \notin preparing
  BY <1>1, <1>3 DEF Steady, ChannelInv, Over, Live
<1>5. /\ consumer'[j] = "reading" /\ \A k \in Jobs \ {j} : consumer'[k] = consumer[k]
      /\ consumer' \in [Jobs -> Readers]
  <2>1. "reading" \in Readers
    BY DEF Readers
  <2> QED BY <1>1, <1>2, <2>1, Unmoved DEF Typed
<1>6. row[j] \in Rows /\ row[j].charged = 0
  <2>1. row[j] \in Rows
    BY <1>2 DEF Typed
  <2>2. row[j].charged \in 0..1
    BY <2>1 DEF Rows
  <2> QED BY <1>3, <1>4, <2>1, <2>2 DEF RowInv, Live
<1>7. /\ row' \in [Jobs -> Rows] /\ \A k \in Jobs \ {j} : row'[k] = row[k]
      /\ row'[j].status = row[j].status /\ row'[j].charged = 0
      /\ \/ row'[j].artifact /\ turn' = Completed(j)
         \/ row'[j].artifact = row[j].artifact /\ turn' = Recorded(j, "failed")
  <2>1. CASE row' = [row EXCEPT ![j].artifact = TRUE] /\ turn' = Completed(j)
    <3> DEFINE x == [row[j] EXCEPT !.artifact = TRUE]
    <3>1. x \in Rows /\ x.status = row[j].status /\ x.charged = row[j].charged /\ x.artifact
      BY <1>6 DEF Rows
    <3>2. row' = [row EXCEPT ![j] = x]
      BY <2>1
    <3> HIDE DEF x
    <3>3. row'[j] = x /\ row' \in [Jobs -> Rows] /\ \A k \in Jobs \ {j} : row'[k] = row[k]
      BY <1>2, <3>1, <3>2, Unmoved DEF Typed
    <3> QED BY <1>6, <2>1, <3>1, <3>3
  <2>2. CASE row' = row /\ turn' = Recorded(j, "failed")
    BY <1>2, <1>6, <2>2 DEF Typed
  <2> QED BY <2>1, <2>2 DEF Writes
<1>8. Typed'
  BY <1>1, <1>2, <1>5, <1>7 DEF Typed
<1>9. \A k \in Jobs \ {j} : Same(k)
  BY <1>1, <1>5, <1>7 DEF Same
<1>10. \A k \in Jobs : LateInv(k)'
  BY <1>1, <1>5 DEF MediaInv, LateInv
<1>11. Live(j)' /\ Over(j)' /\ j \notin preparing'
  BY <1>1, <1>4, <1>7 DEF Live, Over
<1>12. RowInv(j)'
  BY <1>7, <1>11 DEF RowInv, Live
<1>13. ChannelInv(j)'
  BY <1>1, <1>3, <1>5 DEF ChannelInv, HasResult, ResultIsLast
<1>14. Engaged(j)'
  <2>0. R(j, "failed").table = "row" /\ R(j, "completed").table = "row"
    BY DEF R, St
  <2>1. CASE row'[j].artifact /\ turn' = Completed(j)
    <3>1. turn' \in Completes(j) /\ Head(turn') = R(j, "completed")
      BY <2>1, Begun
    <3>2. Completing(j)' /\ Fits(row[j], Head(turn))'
      BY <1>5, <1>7, <1>11, <2>0, <2>1, <3>1 DEF Completing, Fits
    <3> QED BY <1>11, <3>2 DEF Engaged
  <2>2. CASE turn' = Recorded(j, "failed")
    <3>1. turn' \in Records(j, "failed") /\ Head(turn') = R(j, "failed")
      BY <2>2, Begun
    <3>2. Failing(j)' /\ Fits(row[j], Head(turn))'
      BY <1>5, <1>11, <2>0, <3>1 DEF Failing, Fits
    <3> QED BY <1>11, <3>2 DEF Engaged
  <2> QED BY <1>7, <2>1, <2>2
<1> QED BY <1>2, <1>3, <1>8, <1>9, <1>10, <1>12, <1>13, <1>14, OneJob

LEMMA ClosesStep ==
  ASSUME MediaInv, NEW j \in Jobs, Closes(j)
  PROVE  MediaInv'
<1>1. /\ Idle /\ consumer[j] = "reading" /\ items[j] = <<>>
      /\ consumer' = [consumer EXCEPT ![j] = "none"]
      /\ stage' = [stage EXCEPT ![j] = "none"] /\ end' = [end EXCEPT ![j] = "open"]
      /\ stopping' = stopping \ {j}
      /\ UNCHANGED <<row, preparing, polls, items, host, restarts, cut, late>>
  BY DEF Closes
<1>2. Serving /\ Serving' /\ turn = <<>> /\ Typed
  BY <1>1 DEF Idle, Serving, MediaInv
<1>3. (\A k \in Jobs : Steady(k)) /\ ChannelInv(j)
  BY <1>2, IdleJobs DEF MediaInv
<1>4. ~HasResult(j)
  BY <1>1, NoEvents DEF HasResult
<1>5. /\ consumer'[j] = "none" /\ \A k \in Jobs \ {j} : consumer'[k] = consumer[k]
      /\ consumer' \in [Jobs -> Readers]
  <2>1. "none" \in Readers
    BY DEF Readers
  <2> QED BY <1>1, <1>2, <2>1, Unmoved DEF Typed
<1>6. /\ stage'[j] = "none" /\ \A k \in Jobs \ {j} : stage'[k] = stage[k]
      /\ stage' \in [Jobs -> Places]
  <2>1. "none" \in Places
    BY DEF Places
  <2> QED BY <1>1, <1>2, <2>1, Unmoved DEF Typed
<1>7. /\ end'[j] = "open" /\ \A k \in Jobs \ {j} : end'[k] = end[k]
      /\ end' \in [Jobs -> Endings]
  <2>1. "open" \in Endings
    BY DEF Endings
  <2> QED BY <1>1, <1>2, <2>1, Unmoved DEF Typed
<1>8. Typed'
  BY <1>1, <1>2, <1>5, <1>6, <1>7 DEF Typed
<1>9. \A k \in Jobs \ {j} : Same(k)
  BY <1>1, <1>5, <1>6, <1>7 DEF Same
<1>10. \A k \in Jobs : LateInv(k)'
  BY <1>1, <1>5 DEF MediaInv, LateInv
<1>11. RowInv(j)' /\ row'[j] = row[j] /\ items'[j] = <<>> /\ preparing' = preparing /\ cut' = cut
  BY <1>1 DEF MediaInv, RowInv
<1>12. ChannelInv(j)'
  BY <1>5, <1>6, <1>7, <1>11, NoEvents DEF ChannelInv, HasResult
<1>13. Live(j)' <=> Live(j)
  BY <1>11 DEF Live
<1>14. (turn' = <<>> /\ Steady(j)') \/ Engaged(j)'
  <2>0. \A s : R(j, s).table = "row"
    BY DEF R, St
  <2>1. CASE end[j] = "closed" /\ UNCHANGED turn
    <3>1. ~AtWork(j)
      BY <1>4, <2>1 DEF AtWork
    <3>2. ~Live(j)
      BY <1>1, <1>3, <3>1 DEF Steady, Live
    <3>3. Agrees(row[j])' = Agrees(row[j])
      BY <1>11 DEF Agrees
    <3>4. Steady(j)'
      BY <1>3, <1>5, <1>11, <1>13, <3>2, <3>3 DEF Steady
    <3> QED BY <1>2, <2>1, <3>4
  <2>2. CASE end[j] = "aborted" /\ turn' = Recorded(j, "cancelled")
    <3>1. turn' \in Records(j, "cancelled") /\ Head(turn') = R(j, "cancelled")
      BY <2>2, Begun
    <3>2. Live(j) /\ j \notin preparing'
      BY <1>1, <1>3, <2>2 DEF Steady, Over, Live
    <3>3. Cancelling(j)'
      BY <1>5, <1>13, <3>1, <3>2 DEF Cancelling
    <3>4. Fits(row[j], Head(turn))'
      BY <2>0, <3>1 DEF Fits
    <3> QED BY <3>2, <3>3, <3>4 DEF Engaged
  <2>3. CASE end[j] = "failed" /\ turn' = Recorded(j, "failed")
    <3>1. turn' \in Records(j, "failed") /\ Head(turn') = R(j, "failed")
      BY <2>3, Begun
    <3>2. (Live(j) \/ row[j].status \in {"failed", "completed"}) /\ j \notin preparing'
      BY <1>1, <1>3 DEF Steady, Live
    <3>3. Failing(j)'
      BY <1>5, <1>11, <1>13, <3>1, <3>2 DEF Failing
    <3>4. Fits(row[j], Head(turn))'
      BY <2>0, <3>1 DEF Fits
    <3> QED BY <3>2, <3>3, <3>4 DEF Engaged
  <2> QED BY <2>1, <2>2, <2>3 DEF Closes
<1> QED BY <1>2, <1>3, <1>8, <1>9, <1>10, <1>11, <1>12, <1>14, OneJob

-----------------------------------------------------------------------------
(* Within a turn                                                           *)

LEMMA TheTurn ==
  ASSUME MediaInv, turn # <<>>
  PROVE  /\ Serving
         /\ \E j \in Jobs : /\ Engaged(j) /\ Head(turn).job = j
                            /\ \A k \in Jobs \ {j} : Steady(k)
<1>1. Serving
  BY DEF MediaInv, Booted
<1>2. \E j \in Jobs : Engaged(j) /\ \A k \in Jobs \ {j} : Steady(k)
  BY <1>1 DEF MediaInv, ServingInv
<1> QED BY <1>1, <1>2, EngagedTurn

\* What a statement is about.
LEMMA Statements ==
  ASSUME NEW j, NEW s
  PROVE  /\ R(j, s).table = "row" /\ I(j, s).table = "index" /\ E(j, s).table = "event"
         /\ C(j).table = "credit"
         /\ R(j, s).status = s /\ I(j, s).status = s /\ E(j, s).status = s
         /\ C(j).status = "completed"
         /\ R(j, s).job = j /\ I(j, s).job = j /\ E(j, s).job = j /\ C(j).job = j
BY DEF R, I, E, C, St

LEMMA ThrowsStep ==
  ASSUME MediaInv, NEW j \in Jobs, Throws(j)
  PROVE  MediaInv'
<1>1. /\ turn # <<>> /\ Head(turn).job = j /\ Head(turn).status \in Events
      /\ turn' = Recorded(j, "failed")
      /\ consumer' = [consumer EXCEPT ![j] = IF Head(turn).status = "completed" THEN consumer[j] ELSE "left"]
      /\ UNCHANGED <<row, preparing, stage, polls, stopping, items, end, host, restarts, cut, late>>
  BY DEF Throws, executor, channel
<1>2. Serving /\ Engaged(j) /\ (\A k \in Jobs \ {j} : Steady(k))
  BY <1>1, TheTurn
<1>3. Serving' /\ Typed /\ ChannelInv(j)
  BY <1>1, <1>2 DEF Serving, MediaInv
<1>4. /\ consumer[j] = "reading" /\ j \notin preparing
      /\ Live(j) \/ row[j].status = "completed"
      /\ Head(turn).status = "completed" => Over(j)
  <2>1. CASE Queueing(j)
    <3>1. Head(turn) \in {R(j, "queued"), I(j, "queued")}
      BY <2>1, QueueingTurn DEF Queueing
    <3>2. Head(turn).status = "queued"
      BY <3>1, Statements
    <3> QED BY <1>1, <3>2 DEF Events
  <2>2. CASE Refusing(j)
    <3>1. Head(turn) \in {R(j, "queued"), I(j, "queued")}
      BY <2>2, RefusingTurn DEF Refusing
    <3>2. Head(turn).status = "queued"
      BY <3>1, Statements
    <3> QED BY <1>1, <3>2 DEF Events
  <2>3. ASSUME NEW s, turn \in Records(j, s) PROVE Head(turn).status = s
    <3>1. Head(turn) \in {R(j, s), I(j, s), E(j, s)}
      BY <2>3, RecordingTurn
    <3> QED BY <3>1, Statements
  <2>4. CASE Recording(j)
    <3>1. Head(turn).status \in {"started", "progressing"}
      BY <2>3, <2>4 DEF Recording
    <3> QED BY <1>2, <2>4, <3>1 DEF Recording, Engaged
  <2>5. CASE Failing(j) \/ Cancelling(j)
    <3>1. Head(turn).status \in {"failed", "cancelled"}
      BY <2>3, <2>5 DEF Failing, Cancelling
    <3> QED BY <1>1, <3>1 DEF Events
  <2>6. CASE Completing(j)
    BY <1>2, <2>6 DEF Completing, Engaged
  <2> QED BY <1>2, <2>1, <2>2, <2>4, <2>5, <2>6 DEF Engaged
<1>5. PICK to \in {"reading", "left"} :
        consumer' = [consumer EXCEPT ![j] = to] /\ (to = "reading" => Over(j))
  BY <1>1, <1>4
<1>6. /\ consumer'[j] = to /\ \A k \in Jobs \ {j} : consumer'[k] = consumer[k]
      /\ consumer' \in [Jobs -> Readers]
  <2>1. to \in Readers
    BY DEF Readers
  <2> QED BY <1>3, <1>5, <2>1, Unmoved DEF Typed
<1>7. Typed'
  BY <1>1, <1>3, <1>6 DEF Typed
<1>8. \A k \in Jobs \ {j} : Same(k)
  BY <1>1, <1>6 DEF Same
<1>9. \A k \in Jobs : LateInv(k)'
  BY <1>1, <1>4, <1>6 DEF MediaInv, LateInv
<1>10. RowInv(j)' /\ row'[j] = row[j] /\ (Over(j)' <=> Over(j)) /\ (Live(j)' <=> Live(j))
  BY <1>1 DEF MediaInv, RowInv, Over, Live
<1>11. ChannelInv(j)'
  BY <1>1, <1>3, <1>4, <1>6 DEF ChannelInv, HasResult, ResultIsLast
<1>12. Engaged(j)'
  <2>1. turn' \in Records(j, "failed") /\ Head(turn') = R(j, "failed")
    BY <1>1, Begun
  <2>2. Failing(j)'
    BY <1>4, <1>5, <1>6, <1>10, <2>1 DEF Failing
  <2>3. Fits(row[j], Head(turn))'
    BY <2>1, Statements DEF Fits
  <2>4. j \notin preparing'
    BY <1>1, <1>4
  <2> QED BY <2>2, <2>3, <2>4 DEF Engaged
<1> QED BY <1>2, <1>3, <1>7, <1>8, <1>9, <1>10, <1>11, <1>12, OneJob

\* A statement is committed: what the turn of j is then, or that it has ended.
Committed(j, y) ==
  /\ row'[j] = y /\ turn' = Tail(turn)
  /\ UNCHANGED <<preparing, stage, polls, stopping, items, end, consumer, host, restarts, cut, late>>

LEMMA CommitQueueing ==
  ASSUME NEW j \in Jobs, Queueing(j), Fits(row[j], Head(turn)), j \notin preparing,
         row[j] \in Rows, RowInv(j), Committed(j, Effect(Head(turn), row[j]))
  PROVE  /\ row'[j] \in Rows /\ RowInv(j)'
         /\ (turn' = <<>> /\ Steady(j)') \/ Engaged(j)'
<1> DEFINE x == row[j]
           t == Head(turn)
<1>1. /\ row'[j] = Effect(t, x) /\ turn' = Tail(turn) /\ consumer'[j] = consumer[j]
      /\ stage'[j] = stage[j] /\ items'[j] = items[j] /\ end'[j] = end[j] /\ preparing' = preparing
  BY DEF Committed
<1>2. x.status \in Statuses /\ x.charged \in 0..1
  BY DEF Rows
<1>3. /\ turn \in Queues(j) /\ x.status \in {"none", "queued"}
      /\ consumer[j] = "reading" /\ AtWork(j) /\ AtWork(j)'
  BY <1>1 DEF Queueing, AtWork, HasResult
<1>4. x.charged = 0
  BY <1>2, <1>3 DEF RowInv
<1>5. "queued" \in Statuses
  BY DEF Statuses
<1>6. CASE t = R(j, "queued")
  <2>1. row'[j] \in Rows /\ row'[j].status = "queued" /\ row'[j].charged = 0
    BY <1>1, <1>4, <1>5, <1>6, Effects
  <2>2. turn' \in Queues(j) /\ Head(turn') = I(j, "queued")
    BY <1>1, <1>3, <1>6, QueueingTurn
  <2>3. I(j, "queued").table = "index" /\ I(j, "queued").status = "queued"
    BY Statements
  <2>4. Fits(row[j], Head(turn))'
    BY <2>1, <2>2, <2>3 DEF Fits
  <2>5. Queueing(j)'
    BY <1>1, <1>3, <2>1, <2>2, <2>3 DEF Queueing
  <2>6. RowInv(j)'
    BY <2>1 DEF RowInv
  <2>7. Engaged(j)'
    BY <1>1, <2>4, <2>5 DEF Engaged
  <2> QED BY <2>1, <2>6, <2>7
<1>7. CASE t = I(j, "queued")
  <2>1. x.status = "queued"
    BY <1>7, Statements DEF Fits
  <2>2. row'[j] \in Rows /\ row'[j].status = "queued" /\ row'[j].index = "queued" /\ row'[j].charged = 0
    BY <1>1, <1>4, <1>5, <1>7, <2>1, Effects
  <2>3. turn' = <<>>
    BY <1>1, <1>3, <1>7, QueueingTurn
  <2>4. Steady(j)'
    BY <1>1, <1>3, <2>2 DEF Steady, Live, Agrees
  <2> QED BY <2>2, <2>3, <2>4 DEF RowInv
<1> QED BY <1>3, <1>6, <1>7, QueueingTurn

LEMMA CommitRefusing ==
  ASSUME NEW j \in Jobs, Refusing(j), Fits(row[j], Head(turn)), j \notin preparing,
         row[j] \in Rows, RowInv(j), Committed(j, Effect(Head(turn), row[j]))
  PROVE  /\ row'[j] \in Rows /\ RowInv(j)'
         /\ (turn' = <<>> /\ Steady(j)') \/ Engaged(j)'
<1> DEFINE x == row[j]
           t == Head(turn)
<1>1. /\ row'[j] = Effect(t, x) /\ turn' = Tail(turn) /\ consumer'[j] = consumer[j]
      /\ stage'[j] = stage[j] /\ items'[j] = items[j] /\ end'[j] = end[j] /\ preparing' = preparing
  BY DEF Committed
<1>2. x.status \in Statuses /\ x.charged \in 0..1
  BY DEF Rows
<1>3. turn \in Refuses(j) /\ x.status \in {"none", "queued"} /\ consumer[j] = "none"
  BY DEF Refusing
<1>4. x.charged = 0
  BY <1>2, <1>3 DEF RowInv
<1>5. "queued" \in Statuses
  BY DEF Statuses
<1>6. CASE t = R(j, "queued")
  <2>1. row'[j] \in Rows /\ row'[j].status = "queued" /\ row'[j].charged = 0
    BY <1>1, <1>4, <1>5, <1>6, Effects
  <2>2. turn' \in Refuses(j) /\ Head(turn') = I(j, "queued")
    BY <1>1, <1>3, <1>6, RefusingTurn
  <2>3. I(j, "queued").table = "index" /\ I(j, "queued").status = "queued"
    BY Statements
  <2>4. Fits(row[j], Head(turn))'
    BY <2>1, <2>2, <2>3 DEF Fits
  <2>5. Refusing(j)'
    BY <1>1, <1>3, <2>1, <2>2, <2>3 DEF Refusing
  <2>6. RowInv(j)'
    BY <2>1 DEF RowInv
  <2>7. Engaged(j)'
    BY <1>1, <2>4, <2>5 DEF Engaged
  <2> QED BY <2>1, <2>6, <2>7
<1>7. CASE t = I(j, "queued")
  <2>1. x.status = "queued"
    BY <1>7, Statements DEF Fits
  <2>2. row'[j] \in Rows /\ row'[j].status = "queued" /\ row'[j].charged = 0
    BY <1>1, <1>4, <1>5, <1>7, <2>1, Effects
  <2>3. turn' \in Records(j, "failed") /\ Head(turn') = R(j, "failed")
    BY <1>1, <1>3, <1>7, RefusingTurn
  <2>4. R(j, "failed").table = "row" /\ R(j, "failed").status = "failed"
    BY Statements
  <2>5. Fits(row[j], Head(turn))'
    BY <2>2, <2>3, <2>4 DEF Fits
  <2>6. Failing(j)'
    BY <1>1, <1>3, <2>2, <2>3, <2>4 DEF Failing, Live
  <2>7. RowInv(j)'
    BY <2>2 DEF RowInv
  <2>8. Engaged(j)'
    BY <1>1, <2>5, <2>6 DEF Engaged
  <2> QED BY <2>2, <2>7, <2>8
<1> QED BY <1>3, <1>6, <1>7, RefusingTurn

\* The three statements of a record.
LEMMA CommitRecord ==
  ASSUME NEW j \in Jobs, NEW s \in Statuses, turn \in Records(j, s), Fits(row[j], Head(turn)),
         row[j] \in Rows, Committed(j, Effect(Head(turn), row[j]))
  PROVE  /\ row'[j] \in Rows /\ row'[j].status = s
         /\ row'[j].artifact = row[j].artifact /\ row'[j].charged = row[j].charged
         /\ \/ turn' \in Records(j, s) /\ Fits(row[j], Head(turn))'
            \/ turn' = <<>> /\ row'[j].index = s /\ row'[j].last = s
<1> DEFINE x == row[j]
           t == Head(turn)
<1>1. row'[j] = Effect(t, x) /\ turn' = Tail(turn)
  BY DEF Committed
<1>2. CASE t = R(j, s)
  <2>1. /\ row'[j] \in Rows /\ row'[j].status = s
        /\ row'[j].artifact = x.artifact /\ row'[j].charged = x.charged
    BY <1>1, <1>2, Effects
  <2>2. turn' \in Records(j, s) /\ Head(turn') = I(j, s)
    BY <1>1, <1>2, RecordingTurn
  <2> QED BY <2>1, <2>2, Statements DEF Fits
<1>3. CASE t = I(j, s)
  <2>0. x.status = s
    BY <1>3, Statements DEF Fits
  <2>1. /\ row'[j] \in Rows /\ row'[j].status = s
        /\ row'[j].artifact = x.artifact /\ row'[j].charged = x.charged
    BY <1>1, <1>3, <2>0, Effects
  <2>2. turn' \in Records(j, s) /\ Head(turn') = E(j, s)
    BY <1>1, <1>3, RecordingTurn
  <2> QED BY <2>1, <2>2, Statements DEF Fits
<1>4. CASE t = E(j, s)
  <2>0. x.status = s
    BY <1>4, Statements DEF Fits
  <2>1. /\ row'[j] \in Rows /\ row'[j].status = s /\ row'[j].index = s /\ row'[j].last = s
        /\ row'[j].artifact = x.artifact /\ row'[j].charged = x.charged
    BY <1>1, <1>4, <2>0, Effects
  <2>2. turn' = <<>>
    BY <1>1, <1>4, RecordingTurn
  <2> QED BY <2>1, <2>2
<1> QED BY <1>2, <1>3, <1>4, RecordingTurn

LEMMA CommitRecording ==
  ASSUME NEW j \in Jobs, Recording(j), Fits(row[j], Head(turn)), j \notin preparing,
         row[j] \in Rows, RowInv(j), Committed(j, Effect(Head(turn), row[j]))
  PROVE  /\ row'[j] \in Rows /\ RowInv(j)'
         /\ (turn' = <<>> /\ Steady(j)') \/ Engaged(j)'
<1>1. /\ consumer'[j] = consumer[j] /\ preparing' = preparing
      /\ stage'[j] = stage[j] /\ items'[j] = items[j] /\ end'[j] = end[j]
  BY DEF Committed
<1>2. PICK s \in {"started", "progressing"} : turn \in Records(j, s)
  BY DEF Recording
<1>3. Live(j) /\ consumer[j] = "reading" /\ AtWork(j)' /\ s \in Statuses
  BY <1>1 DEF Recording, AtWork, HasResult, Statuses
<1>4. /\ row'[j] \in Rows /\ row'[j].status = s
      /\ row'[j].artifact = row[j].artifact /\ row'[j].charged = row[j].charged
      /\ \/ turn' \in Records(j, s) /\ Fits(row[j], Head(turn))'
         \/ turn' = <<>> /\ row'[j].index = s /\ row'[j].last = s
  BY <1>2, <1>3, CommitRecord
<1>5. RowInv(j)' /\ Live(j)'
  BY <1>3, <1>4 DEF RowInv, Live
<1>6. CASE turn' \in Records(j, s) /\ Fits(row[j], Head(turn))'
  <2>1. Recording(j)'
    BY <1>1, <1>3, <1>5, <1>6 DEF Recording
  <2> QED BY <1>1, <1>4, <1>5, <1>6, <2>1 DEF Engaged
<1>7. CASE turn' = <<>> /\ row'[j].index = s /\ row'[j].last = s
  <2>1. Steady(j)'
    BY <1>1, <1>3, <1>4, <1>5, <1>7 DEF Steady, Agrees
  <2> QED BY <1>4, <1>5, <1>7, <2>1
<1> QED BY <1>4, <1>6, <1>7

LEMMA CommitFailing ==
  ASSUME NEW j \in Jobs, Failing(j), Fits(row[j], Head(turn)), j \notin preparing,
         row[j] \in Rows, RowInv(j), Committed(j, Effect(Head(turn), row[j]))
  PROVE  /\ row'[j] \in Rows /\ RowInv(j)'
         /\ (turn' = <<>> /\ Steady(j)') \/ Engaged(j)'
<1>1. /\ consumer'[j] = consumer[j] /\ preparing' = preparing
      /\ stage'[j] = stage[j] /\ items'[j] = items[j] /\ end'[j] = end[j]
  BY DEF Committed
<1> DEFINE s == "failed"
<1>2. /\ turn \in Records(j, s) /\ s \in Statuses
      /\ consumer[j] \in {"none", "left"} \/ (consumer[j] = "reading" /\ Over(j)')
  BY <1>1 DEF Failing, Over, Statuses, Ended
<1>4. /\ row'[j] \in Rows /\ row'[j].status = s
      /\ row'[j].artifact = row[j].artifact /\ row'[j].charged = row[j].charged
      /\ \/ turn' \in Records(j, s) /\ Fits(row[j], Head(turn))'
         \/ turn' = <<>> /\ row'[j].index = s /\ row'[j].last = s
  BY <1>2, CommitRecord
<1>3. row[j].charged = 1 => row[j].artifact
  BY DEF RowInv
<1>5. RowInv(j)' /\ ~Live(j)'
  BY <1>3, <1>4 DEF RowInv, Live
<1>6. CASE turn' \in Records(j, s) /\ Fits(row[j], Head(turn))'
  <2>1. Failing(j)'
    BY <1>1, <1>2, <1>4, <1>6 DEF Failing
  <2> QED BY <1>1, <1>4, <1>5, <1>6, <2>1 DEF Engaged
<1>7. CASE turn' = <<>> /\ row'[j].index = s /\ row'[j].last = s
  <2>1. Steady(j)'
    BY <1>1, <1>2, <1>4, <1>5, <1>7 DEF Steady, Agrees
  <2> QED BY <1>4, <1>5, <1>7, <2>1
<1> QED BY <1>4, <1>6, <1>7

LEMMA CommitCancelling ==
  ASSUME NEW j \in Jobs, Cancelling(j), Fits(row[j], Head(turn)), j \notin preparing,
         row[j] \in Rows, RowInv(j), Committed(j, Effect(Head(turn), row[j]))
  PROVE  /\ row'[j] \in Rows /\ RowInv(j)'
         /\ (turn' = <<>> /\ Steady(j)') \/ Engaged(j)'
<1>1. /\ consumer'[j] = consumer[j] /\ preparing' = preparing
      /\ stage'[j] = stage[j] /\ items'[j] = items[j] /\ end'[j] = end[j]
  BY DEF Committed
<1> DEFINE s == "cancelled"
<1>2. turn \in Records(j, s) /\ s \in Statuses /\ consumer[j] = "none"
  BY DEF Cancelling, Statuses, Ended
<1>4. /\ row'[j] \in Rows /\ row'[j].status = s
      /\ row'[j].artifact = row[j].artifact /\ row'[j].charged = row[j].charged
      /\ \/ turn' \in Records(j, s) /\ Fits(row[j], Head(turn))'
         \/ turn' = <<>> /\ row'[j].index = s /\ row'[j].last = s
  BY <1>2, CommitRecord
<1>3. row[j].charged # 1
  BY DEF RowInv, Cancelling, Live
<1>5. RowInv(j)' /\ ~Live(j)'
  BY <1>3, <1>4 DEF RowInv, Live
<1>6. CASE turn' \in Records(j, s) /\ Fits(row[j], Head(turn))'
  <2>1. Cancelling(j)'
    BY <1>1, <1>2, <1>4, <1>6 DEF Cancelling
  <2> QED BY <1>1, <1>4, <1>5, <1>6, <2>1 DEF Engaged
<1>7. CASE turn' = <<>> /\ row'[j].index = s /\ row'[j].last = s
  <2>1. Steady(j)'
    BY <1>1, <1>2, <1>4, <1>5, <1>7 DEF Steady, Agrees
  <2> QED BY <1>4, <1>5, <1>7, <2>1
<1> QED BY <1>4, <1>6, <1>7

LEMMA CommitCompleting ==
  ASSUME NEW j \in Jobs, Completing(j), Fits(row[j], Head(turn)), j \notin preparing,
         row[j] \in Rows, RowInv(j), Committed(j, Effect(Head(turn), row[j]))
  PROVE  /\ row'[j] \in Rows /\ RowInv(j)'
         /\ (turn' = <<>> /\ Steady(j)') \/ Engaged(j)'
<1> DEFINE x == row[j]
           t == Head(turn)
<1>1. /\ row'[j] = Effect(t, x) /\ turn' = Tail(turn) /\ consumer'[j] = consumer[j]
      /\ stage'[j] = stage[j] /\ items'[j] = items[j] /\ end'[j] = end[j] /\ preparing' = preparing
  BY DEF Committed
<1>2. x.status \in Statuses /\ x.charged \in 0..1
  BY DEF Rows
<1> DEFINE s == "completed"
<1>3. /\ turn \in Completes(j) /\ x.artifact /\ x.charged = 0 /\ s \in Statuses
      /\ consumer[j] = "reading" /\ Over(j)'
  BY <1>1 DEF Completing, Over, Statuses, Ended
<1>4. CASE t = R(j, s)
  <2>1. /\ row'[j] \in Rows /\ row'[j].status = s
        /\ row'[j].artifact /\ row'[j].charged = 0
    BY <1>1, <1>3, <1>4, Effects
  <2>2. turn' \in Completes(j) /\ Head(turn') = I(j, s)
    BY <1>1, <1>3, <1>4, CompletingTurn
  <2>3. I(j, s).table = "index" /\ I(j, s).status = s
    BY Statements
  <2>4. Fits(row[j], Head(turn))'
    BY <2>1, <2>2, <2>3 DEF Fits
  <2>5. Completing(j)'
    BY <1>1, <1>3, <2>1, <2>2, <2>3 DEF Completing
  <2>6. RowInv(j)'
    BY <2>1 DEF RowInv
  <2>7. Engaged(j)'
    BY <1>1, <2>4, <2>5 DEF Engaged
  <2> QED BY <2>1, <2>6, <2>7
<1>5. CASE t = I(j, s)
  <2>0. x.status = s
    BY <1>5, Statements DEF Fits
  <2>1. /\ row'[j] \in Rows /\ row'[j].status = s
        /\ row'[j].artifact /\ row'[j].charged = 0
    BY <1>1, <1>3, <1>5, <2>0, Effects
  <2>2. turn' \in Completes(j) /\ Head(turn') = E(j, s)
    BY <1>1, <1>3, <1>5, CompletingTurn
  <2>3. E(j, s).table = "event" /\ E(j, s).status = s
    BY Statements
  <2>4. Fits(row[j], Head(turn))'
    BY <2>1, <2>2, <2>3 DEF Fits
  <2>5. Completing(j)'
    BY <1>1, <1>3, <2>1, <2>2, <2>3 DEF Completing
  <2>6. RowInv(j)'
    BY <2>1 DEF RowInv
  <2>7. Engaged(j)'
    BY <1>1, <2>4, <2>5 DEF Engaged
  <2> QED BY <2>1, <2>6, <2>7
<1>6. CASE t = E(j, s)
  <2>0. x.status = s
    BY <1>6, Statements DEF Fits
  <2>1. /\ row'[j] \in Rows /\ row'[j].status = s /\ row'[j].index = s /\ row'[j].last = s
        /\ row'[j].artifact /\ row'[j].charged = 0
    BY <1>1, <1>3, <1>6, <2>0, Effects
  <2>2. turn' \in Completes(j) /\ Head(turn') = C(j)
    BY <1>1, <1>3, <1>6, CompletingTurn
  <2>3. C(j).table = "credit" /\ C(j).status = "completed"
    BY Statements
  <2>4. Fits(row[j], Head(turn))'
    BY <2>1, <2>2, <2>3 DEF Fits
  <2>5. Completing(j)'
    BY <1>1, <1>3, <2>1, <2>2, <2>3 DEF Completing
  <2>6. RowInv(j)'
    BY <2>1 DEF RowInv
  <2>7. Engaged(j)'
    BY <1>1, <2>4, <2>5 DEF Engaged
  <2> QED BY <2>1, <2>6, <2>7
<1>7. CASE t = C(j)
  <2>0. x.status = s /\ x.index = s /\ x.last = s
    BY <1>7, Statements DEF Fits
  <2>1. /\ row'[j] \in Rows /\ row'[j].status = s /\ row'[j].index = s /\ row'[j].last = s
        /\ row'[j].artifact /\ row'[j].charged = 1
    BY <1>1, <1>3, <1>7, <2>0, CreditEffect
  <2>2. turn' = <<>>
    BY <1>1, <1>3, <1>7, CompletingTurn
  <2>3. Steady(j)'
    BY <1>1, <1>3, <2>1 DEF Steady, Agrees, Live
  <2> QED BY <2>1, <2>2, <2>3 DEF RowInv
<1> QED BY <1>3, <1>4, <1>5, <1>6, <1>7, CompletingTurn

LEMMA CommitStep ==
  ASSUME MediaInv, Commit
  PROVE  MediaInv'
<1>1. /\ turn # <<>> /\ turn' = Tail(turn)
      /\ UNCHANGED <<preparing, stage, polls, stopping, items, end, consumer, host, restarts, cut, late>>
  BY DEF Commit, executor, channel
<1>2. Serving
  BY <1>1, TheTurn
<1>3. PICK j \in Jobs : Engaged(j) /\ Head(turn).job = j /\ \A k \in Jobs \ {j} : Steady(k)
  BY <1>1, TheTurn
<1>4. row' = [row EXCEPT ![j] = Effect(Head(turn), row[j])]
  BY <1>3 DEF Commit
<1>5. /\ Serving' /\ Typed /\ RowInv(j) /\ ChannelInv(j) /\ row[j] \in Rows
  BY <1>1, <1>2 DEF Serving, MediaInv, Typed
<1>6. row'[j] = Effect(Head(turn), row[j]) /\ \A k \in Jobs \ {j} : row'[k] = row[k]
  BY <1>4, <1>5, Unmoved DEF Typed
<1>7. Committed(j, Effect(Head(turn), row[j]))
  BY <1>1, <1>6 DEF Committed
<1>8. Fits(row[j], Head(turn)) /\ j \notin preparing
  BY <1>3 DEF Engaged
<1>9. row'[j] \in Rows /\ RowInv(j)' /\ ((turn' = <<>> /\ Steady(j)') \/ Engaged(j)')
  <2>1. CASE Queueing(j)
    BY <1>5, <1>7, <1>8, <2>1, CommitQueueing
  <2>2. CASE Refusing(j)
    BY <1>5, <1>7, <1>8, <2>2, CommitRefusing
  <2>3. CASE Recording(j)
    BY <1>5, <1>7, <1>8, <2>3, CommitRecording
  <2>4. CASE Failing(j)
    BY <1>5, <1>7, <1>8, <2>4, CommitFailing
  <2>5. CASE Cancelling(j)
    BY <1>5, <1>7, <1>8, <2>5, CommitCancelling
  <2>6. CASE Completing(j)
    BY <1>5, <1>7, <1>8, <2>6, CommitCompleting
  <2> QED BY <1>3, <2>1, <2>2, <2>3, <2>4, <2>5, <2>6 DEF Engaged
<1>10. Typed'
  <2>1. row' \in [Jobs -> Rows]
    BY <1>4, <1>5, <1>6, <1>9, Unmoved DEF Typed
  <2> QED BY <1>1, <1>5, <2>1 DEF Typed
<1>11. \A k \in Jobs \ {j} : Same(k)
  BY <1>1, <1>6 DEF Same
<1>12. \A k \in Jobs : LateInv(k)'
  BY <1>1 DEF MediaInv, LateInv
<1>13. ChannelInv(j)'
  BY <1>1, <1>5 DEF ChannelInv, HasResult, ResultIsLast
<1> QED BY <1>2, <1>3, <1>5, <1>9, <1>10, <1>11, <1>12, <1>13, OneJob

-----------------------------------------------------------------------------
(* Crash and recovery                                                      *)

\* The statements of a turn are a list, all of one job.
LEMMA TurnIsList ==
  ASSUME NEW j, NEW s, NEW t \in Queues(j) \cup Refuses(j) \cup Records(j, s) \cup Completes(j)
  PROVE  1 \in DOMAIN t /\ \A k \in DOMAIN t : t[k].job = j
<1> DEFINE List(x) == 1 \in DOMAIN x /\ \A k \in DOMAIN x : x[k].job = j
<1>1. \A r : R(j, r).job = j /\ I(j, r).job = j /\ E(j, r).job = j
  BY DEF R, I, E, St
<1>2. C(j).job = j
  BY DEF C, St
<1>3. ASSUME NEW a, a.job = j, NEW b, b.job = j, NEW c, c.job = j, NEW d, d.job = j, NEW e, e.job = j
      PROVE  List(<<a>>) /\ List(<<a, b>>) /\ List(<<a, b, c>>) /\ List(<<a, b, c, d>>)
             /\ List(<<a, b, c, d, e>>)
  <2>1. List(<<a>>)
    BY <1>3
  <2>2. List(<<a, b>>)
    BY <1>3
  <2>3. List(<<a, b, c>>)
    BY <1>3
  <2>4. List(<<a, b, c, d>>)
    BY <1>3
  <2>5. List(<<a, b, c, d, e>>)
    BY <1>3
  <2> QED BY <2>1, <2>2, <2>3, <2>4, <2>5
<1> HIDE DEF List
<1>4. \A x \in Queues(j) : List(x)
  <2>1. List(<<R(j, "queued"), I(j, "queued")>>) /\ List(<<I(j, "queued")>>)
    BY <1>1, <1>3
  <2> QED BY <2>1 DEF Queues
<1>5. \A x \in Records(j, s) : List(x)
  <2>1. List(<<R(j, s), I(j, s), E(j, s)>>) /\ List(<<I(j, s), E(j, s)>>) /\ List(<<E(j, s)>>)
    BY <1>1, <1>3
  <2> QED BY <2>1 DEF Records
<1>6. \A x \in Refuses(j) : List(x)
  <2>1. /\ List(<<R(j, "queued"), I(j, "queued"), R(j, "failed"), I(j, "failed"), E(j, "failed")>>)
        /\ List(<<I(j, "queued"), R(j, "failed"), I(j, "failed"), E(j, "failed")>>)
    BY <1>1, <1>3
  <2> QED BY <2>1 DEF Refuses
<1>7. \A x \in Completes(j) : List(x)
  <2>1. /\ List(<<R(j, "completed"), I(j, "completed"), E(j, "completed"), C(j)>>)
        /\ List(<<I(j, "completed"), E(j, "completed"), C(j)>>)
        /\ List(<<E(j, "completed"), C(j)>>) /\ List(<<C(j)>>)
    BY <1>1, <1>2, <1>3
  <2> QED BY <2>1 DEF Completes
<1>8. List(t)
  BY <1>4, <1>5, <1>6, <1>7
<1> QED BY <1>8 DEF List

LEMMA RestartStep ==
  ASSUME MediaInv, Restart
  PROVE  MediaInv'
<1> DEFINE lost == {turn[k].job : k \in DOMAIN turn}
           missed == {j \in Jobs : host = "recovering" /\ row[j].index # row[j].status}
<1>1. /\ host' = "starting" /\ cut' = cut \cup lost \cup missed
      /\ turn' = <<>> /\ preparing' = {} /\ stopping' = {} /\ late' = {}
      /\ stage' = [j \in Jobs |-> "none"] /\ polls' = [j \in Jobs |-> 0]
      /\ items' = [j \in Jobs |-> <<>>] /\ end' = [j \in Jobs |-> "open"]
      /\ consumer' = [j \in Jobs |-> "none"] /\ row' = row
      /\ host # "starting"
  BY DEF Restart
<1>2. Typed /\ restarts' \in 0..MaxRestarts
  BY LimitsAssumption DEF Restart, MediaInv, Typed
<1>3. /\ lost \subseteq Jobs
      /\ \A j \in Jobs : j \notin lost \cup missed \cup cut => Agrees(row[j])
  <2>1. CASE host = "recovering"
    <3>1. turn = <<>>
      BY <2>1 DEF MediaInv, Serving, Booted
    <3>2. DOMAIN turn = {}
      BY <3>1
    <3>3. ASSUME NEW j \in Jobs, j \notin missed \cup cut PROVE Agrees(row[j])
      <4>1. row[j].index = row[j].status
        BY <2>1, <3>3
      <4> QED BY <2>1, <3>3, <4>1 DEF MediaInv, Serving, Booted, Working
    <3> QED BY <3>2, <3>3
  <2>2. CASE Serving /\ turn = <<>>
    <3>1. DOMAIN turn = {}
      BY <2>2
    <3> QED BY <2>2, <3>1, IdleJobs DEF Steady
  <2>3. CASE Serving /\ turn # <<>>
    <3>1. PICK i \in Jobs : Engaged(i) /\ \A k \in Jobs \ {i} : Steady(k)
      BY <2>3, TheTurn
    <3>2. PICK s : turn \in Queues(i) \cup Refuses(i) \cup Records(i, s) \cup Completes(i)
      BY <3>1 DEF Engaged, Queueing, Refusing, Recording, Failing, Cancelling, Completing
    <3>3. 1 \in DOMAIN turn /\ \A k \in DOMAIN turn : turn[k].job = i
      BY <3>2, TurnIsList
    <3>4. lost = {i}
      BY <3>3
    <3> QED BY <3>1, <3>4 DEF Steady
  <2> QED BY <1>1, <1>2, <2>1, <2>2, <2>3 DEF Typed, Serving
<1> HIDE DEF lost, missed
<1>4. missed \subseteq Jobs
  BY DEF missed
<1>5. Typed'
  <2>1. /\ stage' \in [Jobs -> Places] /\ end' \in [Jobs -> Endings] /\ consumer' \in [Jobs -> Readers]
    <3>1. "none" \in Places /\ "open" \in Endings /\ "none" \in Readers
      BY DEF Places, Endings, Readers
    <3> QED BY <1>1, <3>1
  <2>2. polls' \in [Jobs -> Nat] /\ \A j \in Jobs : polls'[j] <= PollsOf[j]
    BY <1>1, LimitsAssumption
  <2>3. items' \in [Jobs -> Seq(Events)] /\ \A j \in Jobs : Len(items'[j]) <= Capacity
    BY <1>1, NoEvents, LimitsAssumption
  <2> QED BY <1>1, <1>2, <1>3, <1>4, <2>1, <2>2, <2>3 DEF Typed
<1>6. ASSUME NEW j \in Jobs PROVE RowInv(j)' /\ ChannelInv(j)' /\ LateInv(j)'
  <2>1. /\ consumer'[j] = "none" /\ stage'[j] = "none" /\ items'[j] = <<>> /\ end'[j] = "open"
    BY <1>1
  <2>2. ChannelInv(j)'
    BY <2>1, NoEvents DEF ChannelInv, HasResult
  <2> QED BY <1>1, <2>1, <2>2 DEF MediaInv, RowInv, LateInv
<1>7. Booted' /\ ~Serving'
  <2>1. \A j \in Jobs : consumer'[j] = "none"
    BY <1>1
  <2>2. ASSUME NEW j \in Jobs, j \notin cut' PROVE Agrees(row[j])'
    <3>1. j \notin lost \cup missed \cup cut
      BY <1>1, <2>2
    <3>2. Agrees(row[j])
      BY <1>3, <3>1
    <3> QED BY <1>1, <3>2 DEF Agrees
  <2> QED BY <1>1, <2>1, <2>2 DEF Booted, Serving
<1> QED BY <1>5, <1>6, <1>7 DEF MediaInv

\* What recovery does to the records: the rest of the state is as it was.
LEMMA BootingStep ==
  ASSUME MediaInv, ~Serving, Booting, host' \in {"recovering", "up"},
         row' \in [Jobs -> Rows],
         \A j \in Jobs : RowInv(j)' /\ ~Live(j)',
         host' = "recovering" =>
           \A j \in Jobs \ cut : \/ Agrees(row'[j])
                                 \/ row'[j].status = "interrupted" /\ row'[j].index \in Working,
         host' = "up" => \A j \in Jobs \ cut : Agrees(row'[j])
  PROVE  MediaInv'
<1>1. /\ Typed /\ Booted
      /\ UNCHANGED <<turn, preparing, stage, polls, stopping, items, end, consumer, restarts, cut, late>>
  BY DEF MediaInv, Booting, executor, channel
<1>2. Typed'
  BY <1>1 DEF Typed
<1>3. ASSUME NEW j \in Jobs PROVE ChannelInv(j)' /\ LateInv(j)' /\ consumer'[j] = "none"
  <2>1. consumer'[j] = "none"
    BY <1>1 DEF Booted
  <2>2. ChannelInv(j)
    BY DEF MediaInv
  <2>3. ChannelInv(j)'
    BY <1>1, <2>2, <2>1 DEF ChannelInv, HasResult, ResultIsLast
  <2> QED BY <2>1, <2>3 DEF LateInv
<1>4. CASE host' = "recovering"
  <2>1. Booted' /\ ~Serving'
    BY <1>1, <1>3, <1>4 DEF Booted, Serving, Agrees
  <2> QED BY <1>2, <1>3, <2>1 DEF MediaInv
<1>5. CASE host' = "up"
  <2>1. ASSUME NEW j \in Jobs PROVE Steady(j)'
    BY <1>1, <1>3, <1>5 DEF Steady, Booted, Agrees
  <2>2. Serving' /\ ServingInv'
    BY <1>1, <1>5, <2>1 DEF ServingInv, Serving, Booted
  <2> QED BY <1>2, <1>3, <2>2 DEF MediaInv
<1> QED BY <1>4, <1>5

LEMMA RecoverStep ==
  ASSUME MediaInv, Recover
  PROVE  MediaInv'
<1>1. /\ host = "starting"
      /\ row' = [j \in Jobs |-> IF Live(j) THEN [row[j] EXCEPT !.status = "interrupted"] ELSE row[j]]
      /\ host' = IF \E j \in Jobs : Live(j) THEN "recovering" ELSE "up"
      /\ Booting
  BY DEF Recover
<1>2. ~Serving /\ Typed /\ Booted
  BY <1>1 DEF Serving, MediaInv
<1>3. ASSUME NEW j \in Jobs
      PROVE  /\ row'[j] \in Rows /\ RowInv(j)' /\ ~Live(j)'
             /\ j \notin cut => \/ Agrees(row'[j])
                                \/ /\ Live(j) /\ row'[j].status = "interrupted"
                                   /\ row'[j].index \in Working
  <2>1. row[j] \in Rows /\ RowInv(j) /\ (j \notin cut => Agrees(row[j]))
    BY <1>1, <1>2 DEF Typed, MediaInv, Booted
  <2>2. CASE Live(j)
    <3>1. row'[j] = [row[j] EXCEPT !.status = "interrupted"]
      BY <1>1, <2>2
    <3>2. "interrupted" \in Statuses
      BY DEF Statuses, Ended
    <3>3. /\ row'[j] \in Rows /\ row'[j].status = "interrupted" /\ row'[j].index = row[j].index
          /\ row'[j].charged = row[j].charged
      BY <2>1, <3>1, <3>2 DEF Rows
    <3>4. row[j].charged # 1
      BY <2>1, <2>2 DEF RowInv, Live
    <3>5. RowInv(j)' /\ ~Live(j)'
      BY <3>3, <3>4 DEF RowInv, Live
    <3>6. j \notin cut => row[j].index \in Working
      BY <2>1, <2>2 DEF Agrees, Live, Working
    <3> QED BY <2>2, <3>3, <3>5, <3>6
  <2>3. CASE ~Live(j)
    <3>1. row'[j] = row[j]
      BY <1>1, <2>3
    <3> QED BY <2>1, <2>3, <3>1 DEF RowInv, Live
  <2> QED BY <2>2, <2>3
<1>4. row' \in [Jobs -> Rows]
  <2>1. DOMAIN row' = Jobs /\ row' = [j \in Jobs |-> row'[j]]
    BY <1>1
  <2> QED BY <1>3, <2>1
<1>5. host' \in {"recovering", "up"} /\ (host' = "up" => \A j \in Jobs : ~Live(j))
  BY <1>1
<1>6. host' = "up" => \A j \in Jobs \ cut : Agrees(row'[j])
  BY <1>3, <1>5
<1>7. host' = "recovering" =>
        \A j \in Jobs \ cut : \/ Agrees(row'[j])
                              \/ row'[j].status = "interrupted" /\ row'[j].index \in Working
  BY <1>3
<1> QED BY <1>1, <1>2, <1>3, <1>4, <1>5, <1>6, <1>7, BootingStep

LEMMA ReindexStep ==
  ASSUME MediaInv, Reindex
  PROVE  MediaInv'
<1>1. /\ host = "recovering" /\ host' = "up"
      /\ row' = [j \in Jobs |-> IF row[j].index \in Working
                                THEN [row[j] EXCEPT !.index = "interrupted"] ELSE row[j]]
      /\ Booting
  BY DEF Reindex, Working
<1>2. ~Serving /\ Typed /\ Booted
  BY <1>1 DEF Serving, MediaInv
<1>3. ASSUME NEW j \in Jobs
      PROVE  row'[j] \in Rows /\ RowInv(j)' /\ ~Live(j)' /\ (j \notin cut => Agrees(row'[j]))
  <2>1. /\ row[j] \in Rows /\ RowInv(j) /\ ~Live(j)
        /\ j \notin cut => Agrees(row[j]) \/ (row[j].status = "interrupted" /\ row[j].index \in Working)
    BY <1>1, <1>2 DEF Typed, MediaInv, Booted
  <2>2. CASE row[j].index \in Working
    <3>1. row'[j] = [row[j] EXCEPT !.index = "interrupted"]
      BY <1>1, <2>2
    <3>2. "interrupted" \in Statuses
      BY DEF Statuses, Ended
    <3>3. /\ row'[j] \in Rows /\ row'[j].index = "interrupted" /\ row'[j].status = row[j].status
          /\ row'[j].charged = row[j].charged /\ row'[j].artifact = row[j].artifact
      BY <2>1, <3>1, <3>2 DEF Rows
    <3>4. RowInv(j)' /\ ~Live(j)'
      BY <2>1, <3>3 DEF RowInv, Live
    <3>5. j \notin cut => row[j].status = "interrupted"
      BY <2>1, <2>2 DEF Agrees, Live, Working
    <3> QED BY <3>3, <3>4, <3>5 DEF Agrees
  <2>3. CASE row[j].index \notin Working
    <3>1. row'[j] = row[j]
      BY <1>1, <2>3
    <3> QED BY <2>1, <2>3, <3>1 DEF RowInv, Live
  <2> QED BY <2>2, <2>3
<1>4. row' \in [Jobs -> Rows]
  <2>1. DOMAIN row' = Jobs /\ row' = [j \in Jobs |-> row'[j]]
    BY <1>1
  <2> QED BY <1>3, <2>1
<1> QED BY <1>1, <1>2, <1>3, <1>4, BootingStep

-----------------------------------------------------------------------------
(* The invariant                                                           *)

\* A host that was never started has no record of any job.
LEMMA InitInv == Init => MediaInv
<1> SUFFICES ASSUME Init PROVE MediaInv
  OBVIOUS
<1>1. ASSUME NEW j \in Jobs
      PROVE  /\ row[j] = NoRow /\ stage[j] = "none" /\ polls[j] = 0 /\ items[j] = <<>>
             /\ end[j] = "open" /\ consumer[j] = "none"
  BY DEF Init
<1>2. /\ turn = <<>> /\ preparing = {} /\ stopping = {} /\ host = "up" /\ restarts = 0
      /\ cut = {} /\ late = {}
  BY DEF Init
<1>3. Typed
  <2>1. NoRow \in Rows
    BY DEF NoRow, Rows, Statuses
  <2>2. row \in [Jobs -> Rows]
    BY <2>1 DEF Init
  <2>3. /\ stage \in [Jobs -> Places] /\ end \in [Jobs -> Endings] /\ consumer \in [Jobs -> Readers]
    BY DEF Init, Places, Endings, Readers
  <2>4. polls \in [Jobs -> Nat] /\ \A j \in Jobs : polls[j] <= PollsOf[j]
    BY LimitsAssumption DEF Init
  <2>5. items \in [Jobs -> Seq(Events)] /\ \A j \in Jobs : Len(items[j]) <= Capacity
    BY NoEvents, LimitsAssumption DEF Init
  <2> QED BY <1>2, <2>2, <2>3, <2>4, <2>5, LimitsAssumption DEF Typed
<1>4. ASSUME NEW j \in Jobs PROVE RowInv(j) /\ ChannelInv(j) /\ LateInv(j)
  <2>1. RowInv(j)
    BY <1>1 DEF RowInv, NoRow
  <2>2. ChannelInv(j)
    BY <1>1, NoEvents DEF ChannelInv, HasResult
  <2> QED BY <1>2, <2>1, <2>2 DEF LateInv
<1>5. \A j \in Jobs : Steady(j)
  BY <1>1, <1>2 DEF Steady, Live, Agrees, NoRow
<1> QED BY <1>2, <1>3, <1>4, <1>5 DEF MediaInv, Serving, ServingInv

\* Every action keeps it.
LEMMA StepInv == MediaInv /\ [Next]_vars => MediaInv'
<1> SUFFICES ASSUME MediaInv, [Next]_vars PROVE MediaInv'
  OBVIOUS
<1>1. CASE Commit
  BY <1>1, CommitStep
<1>2. CASE Shutdown \/ ShutdownReturns
  BY <1>2, StoppingActions
<1>3. CASE Recover
  BY <1>3, RecoverStep
<1>4. CASE Reindex
  BY <1>4, ReindexStep
<1>5. CASE Restart
  BY <1>5, RestartStep
<1>6. ASSUME NEW j \in Jobs,
             Submit(j) \/ Create(j) \/ Cancel(j) \/ Takes(j) \/ Writes(j) \/ Closes(j) \/ Throws(j)
      PROVE  MediaInv'
  BY <1>6, SubmitStep, CreateStep, StoppingActions, TakesStep, WritesStep, ClosesStep, ThrowsStep
<1>7. ASSUME NEW j \in Jobs,
             Dispatch(j) \/ Accepts(j) \/ Reports(j) \/ Results(j) \/ Fails(j) \/ Tidies(j) \/ Aborts(j)
      PROVE  MediaInv'
  BY <1>7, ExecutorActions
<1>8. CASE UNCHANGED vars
  BY <1>8 DEF vars, executor, channel, MediaInv, Typed, RowInv, ChannelInv, HasResult, ResultIsLast,
              LateInv, Serving, ServingInv, Booted, Steady, Engaged, Queueing, Refusing, Recording,
              Failing, Cancelling, Completing, AtWork, Over, Live
<1> QED BY <1>1, <1>2, <1>3, <1>4, <1>5, <1>6, <1>7, <1>8 DEF Next, Turns, Follows

THEOREM Invariant == Spec => []MediaInv
  BY InitInv, StepInv, PTL DEF Spec

-----------------------------------------------------------------------------
(* What it says about the jobs                                             *)

\* A job that is queued or at work has a consumer, and what the consumer waits
\* for is coming; when shutdown() has returned only jobs that it could not see
\* are left (media-jobs.ts:380-390), and every field keeps its type.
THEOREM EveryJobIsFollowed == Spec => []JobsAreFollowed
<1>1. ASSUME MediaInv PROVE JobsAreFollowed
  <2>0. Typed
    BY <1>1 DEF MediaInv
  <2>1. TypeOK
    <3>1. ASSUME NEW j \in Jobs
          PROVE  /\ row[j].status \in Statuses /\ row[j].index \in Statuses
                 /\ row[j].last \in Statuses /\ row[j].artifact \in BOOLEAN /\ row[j].charged \in 0..1
                 /\ stage[j] \in {"none", "queued", "submitting", "polling", "tidying", "done"} \cup Events
                 /\ polls[j] \in 0..PollsOf[j]
                 /\ Len(items[j]) <= Capacity /\ ToSet(items[j]) \subseteq Events
                 /\ end[j] \in {"open", "closed", "failed", "aborted"}
                 /\ consumer[j] \in {"none", "reading", "writing", "left"}
      <4>1. row[j] \in Rows
        BY <2>0 DEF Typed
      <4>2. stage[j] \in Places /\ end[j] \in Endings /\ consumer[j] \in Readers
        BY <2>0 DEF Typed
      <4>3. polls[j] \in 0..PollsOf[j]
        BY <2>0, LimitsAssumption DEF Typed
      <4>4. Len(items[j]) <= Capacity /\ ToSet(items[j]) \subseteq Events
        <5>1. items[j] \in Seq(Events) /\ Len(items[j]) <= Capacity
          BY <2>0 DEF Typed
        <5> QED BY <5>1, ElementOfSeq, LenProperties DEF ToSet
      <4> QED BY <4>1, <4>2, <4>3, <4>4 DEF Rows, Places, Endings, Readers
    <3> QED BY <2>0, <3>1 DEF TypeOK, Typed
  <2>2. ASSUME Idle, NEW j \in Jobs, Live(j)
        PROVE  /\ consumer[j] \in {"reading", "writing"}
               /\ \/ InLane(j) \/ end[j] \in {"failed", "aborted"}
                  \/ end[j] = "closed" /\ (consumer[j] = "writing" \/ "completed" \in ToSet(items[j]))
               /\ host = "closed" => j \in late
    <3>1. Steady(j) /\ ChannelInv(j) /\ LateInv(j)
      BY <1>1, <2>2, IdleJobs DEF Idle, Serving, MediaInv
    <3>2. consumer[j] \in Readers /\ end[j] \in Endings
      BY <2>0 DEF Typed
    <3>3. consumer[j] \in {"reading", "writing"}
      BY <2>2, <3>1, <3>2 DEF Steady, Live, Readers
    <3>4. consumer[j] = "reading" => AtWork(j)
      BY <2>2, <3>1 DEF Steady, Live
    <3>5. stage[j] # "none" /\ (stage[j] = "done" <=> end[j] # "open")
      BY <3>1, <3>3 DEF ChannelInv
    <3>6. end[j] = "closed" => consumer[j] = "writing" \/ "completed" \in ToSet(items[j])
      BY <3>3, <3>4 DEF AtWork, HasResult
    <3> QED BY <3>1, <3>2, <3>3, <3>5, <3>6 DEF InLane, Endings, LateInv
  <2> QED BY <2>1, <2>2 DEF JobsAreFollowed
<1> QED BY <1>1, Invariant, PTL

\* Event log, index and job agree, a completed job has its artifact and was
\* charged, and nobody is charged twice or for work that is not kept, unless a
\* crash cut a turn of the job short (media-jobs.ts:423-441,
\* sqlite-media-store.ts:155-170).
THEOREM RecordsStayTogether == Spec => []RecordsAgree
<1>1. ASSUME MediaInv PROVE RecordsAgree
  <2>1. ASSUME NEW j \in Jobs PROVE row[j].charged <= 1 /\ (row[j].charged = 1 => row[j].artifact)
    <3>1. row[j] \in Rows /\ RowInv(j)
      BY <1>1 DEF MediaInv, Typed
    <3>2. row[j].charged \in 0..1
      BY <3>1 DEF Rows
    <3> QED BY <3>1, <3>2 DEF RowInv
  <2>2. ASSUME Idle, NEW j \in Jobs, j \notin cut PROVE Agrees(row[j])
    BY <1>1, <2>2, IdleJobs DEF Idle, Serving, Steady
  <2> QED BY <2>1, <2>2 DEF RecordsAgree, Agrees
<1> QED BY <1>1, Invariant, PTL

\* A statement leaves an outcome as it is, or takes back a stored result.
LEMMA CommitKeepsOutcome ==
  ASSUME MediaInv, Commit, NEW k \in Jobs, row[k].status \in Ended
  PROVE  \/ row'[k].status = row[k].status
         \/ row[k].status = "completed" /\ row'[k].status = "failed" /\ row[k].artifact
<1>1. turn # <<>>
  BY DEF Commit
<1>2. PICK j \in Jobs : Engaged(j) /\ Head(turn).job = j
  BY <1>1, TheTurn
<1>3. /\ turn' = Tail(turn) /\ row' = [row EXCEPT ![j] = Effect(Head(turn), row[j])]
      /\ UNCHANGED <<preparing, stage, polls, stopping, items, end, consumer, host, restarts, cut, late>>
  BY <1>2 DEF Commit, executor, channel
<1>4. Typed /\ row[j] \in Rows /\ RowInv(j)
  BY DEF MediaInv, Typed
<1>5. row'[j] = Effect(Head(turn), row[j]) /\ \A i \in Jobs \ {j} : row'[i] = row[i]
  BY <1>3, <1>4, Unmoved DEF Typed
<1>6. Committed(j, Effect(Head(turn), row[j])) /\ Fits(row[j], Head(turn))
  BY <1>2, <1>3, <1>5 DEF Committed, Engaged
<1>7. CASE k # j
  BY <1>5, <1>7
<1>8. CASE k = j
  <2>1. Failing(j) \/ Cancelling(j) \/ Completing(j)
    BY <1>2, <1>8 DEF Engaged, Queueing, Refusing, Recording, Live, Ended
  <2>2. CASE Failing(j)
    <3>1. turn \in Records(j, "failed") /\ "failed" \in Statuses
      BY <2>2 DEF Failing, Statuses, Ended
    <3>2. row'[j].status = "failed"
      BY <1>4, <1>6, <3>1, CommitRecord
    <3>3. row[j].status \in {"failed", "completed"}
      BY <1>8, <2>2 DEF Failing, Live, Ended
    <3> QED BY <1>4, <1>8, <3>2, <3>3 DEF RowInv
  <2>3. CASE Cancelling(j)
    <3>1. turn \in Records(j, "cancelled") /\ "cancelled" \in Statuses
      BY <2>3 DEF Cancelling, Statuses, Ended
    <3>2. row'[j].status = "cancelled"
      BY <1>4, <1>6, <3>1, CommitRecord
    <3>3. row[j].status = "cancelled"
      BY <1>8, <2>3 DEF Cancelling, Live, Ended
    <3> QED BY <1>8, <3>2, <3>3
  <2>4. CASE Completing(j)
    <3>1. turn \in Completes(j) /\ row[j].status = "completed" /\ row[j].charged = 0
      BY <1>8, <2>4 DEF Completing, Live, Ended
    <3>2. "completed" \in Statuses
      BY DEF Statuses, Ended
    <3>3. Head(turn) \in {R(j, "completed"), I(j, "completed"), E(j, "completed"), C(j)}
      BY <3>1, CompletingTurn
    <3>4. row'[j].status = "completed"
      <4>1. CASE Head(turn) = C(j)
        BY <1>4, <1>5, <3>1, <4>1, CreditEffect
      <4>2. CASE Head(turn) # C(j)
        BY <1>4, <1>5, <3>1, <3>2, <3>3, <4>2, Effects
      <4> QED BY <4>1, <4>2
    <3> QED BY <1>8, <3>1, <3>4
  <2> QED BY <2>1, <2>2, <2>3, <2>4
<1> QED BY <1>7, <1>8

\* An outcome is the last word, through cancellations, crashes and recoveries,
\* but for a stored result whose bookkeeping failed (media-jobs.ts:423-453).
THEOREM OutcomesAreFinal == Spec => OutcomeIsFinal
<1> DEFINE Kept(j) == row[j].status \in Ended =>
                        \/ row'[j].status = row[j].status
                        \/ row[j].status = "completed" /\ row'[j].status = "failed" /\ row[j].artifact
           Final   == \A j \in Jobs : Kept(j)
<1>1. ASSUME MediaInv, [Next]_vars PROVE [Final]_vars
  <2>0. Typed
    BY <1>1 DEF MediaInv
  <2>1. CASE Commit
    BY <1>1, <2>1, CommitKeepsOutcome
  <2>2. CASE Recover
    <3>1. ASSUME NEW j \in Jobs PROVE Kept(j)
      <4>1. row'[j] = IF Live(j) THEN [row[j] EXCEPT !.status = "interrupted"] ELSE row[j]
        BY <2>2 DEF Recover
      <4> QED BY <4>1 DEF Live, Ended
    <3> QED BY <3>1
  <2>3. CASE Reindex
    <3>1. ASSUME NEW j \in Jobs PROVE Kept(j)
      <4>1. row[j] \in Rows
        BY <2>0 DEF Typed
      <4>2. \/ row'[j] = [row[j] EXCEPT !.index = "interrupted"]
            \/ row'[j] = row[j]
        BY <2>3 DEF Reindex
      <4>3. row'[j].status = row[j].status
        BY <4>1, <4>2 DEF Rows
      <4> QED BY <4>3
    <3> QED BY <3>1
  <2>4. ASSUME NEW i \in Jobs, Writes(i) PROVE Final
    <3>1. row' = row \/ row' = [row EXCEPT ![i].artifact = TRUE]
      BY <2>4 DEF Writes
    <3>2. ASSUME NEW j \in Jobs PROVE row'[j].status = row[j].status
      <4>1. row[j] \in Rows /\ row \in [Jobs -> Rows]
        BY <2>0 DEF Typed
      <4>2. row'[j] = row[j] \/ row'[j] = [row[j] EXCEPT !.artifact = TRUE]
        BY <3>1, <4>1
      <4> QED BY <4>1, <4>2 DEF Rows
    <3> QED BY <3>2
  <2>5. ASSUME row' = row PROVE Final
    BY <2>5
  <2>6. ASSUME NEW j \in Jobs,
               \/ Submit(j) \/ Create(j) \/ Cancel(j) \/ Dispatch(j) \/ Accepts(j) \/ Reports(j)
               \/ Results(j) \/ Fails(j) \/ Tidies(j) \/ Aborts(j) \/ Takes(j) \/ Closes(j) \/ Throws(j)
        PROVE  row' = row
    BY <2>6 DEF Submit, Create, Cancel, Dispatch, Accepts, Reports, Results, Fails, Tidies, Aborts,
                Takes, Closes, Throws, Elsewhere
  <2>7. CASE Shutdown \/ ShutdownReturns \/ Restart
    BY <2>5, <2>7 DEF Shutdown, ShutdownReturns, Restart
  <2> QED BY <1>1, <2>1, <2>2, <2>3, <2>4, <2>5, <2>6, <2>7 DEF Next, Turns, Follows
<1>2. Spec => [][Final]_vars
  BY <1>1, Invariant, PTL DEF Spec
<1> QED BY <1>2 DEF OutcomeIsFinal
=============================================================================

---------------------------- MODULE AsyncChannel ----------------------------
(***************************************************************************)
(* AsyncChannel (packages/inference-core/src/async-channel.ts), the bounded*)
(* stream every inference result crosses: push() waits while the buffer is *)
(* at its item or its byte bound, next() waits while there is nothing to   *)
(* read.                                                                   *)
(*                                                                         *)
(* push(), close(), fail(), next() and the abort listener of a waiting push*)
(* each run to completion, so each is one action.  An item stands for one  *)
(* call of push(); it is pushed once.  `accepted` and `delivered` are      *)
(* history: the items taken over from producers, and those given to        *)
(* consumers.                                                              *)
(***************************************************************************)
EXTENDS Naturals, Sequences, SequencesExt

CONSTANTS Items,      \* the pushes
          SizeOf,     \* sizeOf(value) of each, normalized
          Consumers,  \* the loops that call next()
          Options     \* the constructor arguments to consider

ASSUME SizeAssumption == SizeOf \in [Items -> Nat]
ASSUME OptionsAssumption ==
  Options \subseteq [capacity : Nat \ {0}, maxSize : Nat \ {0}, oversized : BOOLEAN]

VARIABLES options,     \* #capacity, #maxBufferedSize, #allowSingleOversizedItem
          items,       \* #items
          size,        \* #bufferedSize
          readers,     \* #readers: the consumers whose next() is pending
          writers,     \* #writers: the items whose push() is pending
          state,       \* #closed and #error: open, closed or failed
          pushed,      \* what became of each push()
          consumer,    \* where each consumer stands
          accepted, delivered

channel == <<options, items, size, readers, writers, state>>
vars    == <<channel, pushed, consumer, accepted, delivered>>

Outcomes == {"new", "waiting", "accepted", "refused", "aborted"}
Stations == {"idle", "waiting", "ended", "failed", "left"}

SumOf(s) ==
  LET sum[n \in 0..Len(s)] == IF n = 0 THEN 0 ELSE sum[n - 1] + SizeOf[s[n]]
  IN  sum[Len(s)]

Init ==
  /\ options \in Options
  /\ items = <<>> /\ size = 0
  /\ readers = <<>> /\ writers = <<>>
  /\ state = "open"
  /\ pushed = [i \in Items |-> "new"]
  /\ consumer = [c \in Consumers |-> "idle"]
  /\ accepted = <<>> /\ delivered = <<>>

Settle(S, outcome) == pushed' = [i \in Items |-> IF i \in S THEN outcome ELSE pushed[i]]
Move(S, station)   == consumer' = [c \in Consumers |-> IF c \in S THEN station ELSE consumer[c]]

\* Seeded fault: one item too many.
CanBufferLate(buffer, total, i) ==
  /\ Len(buffer) <= options.capacity
  /\ \/ total + SizeOf[i] <= options.maxSize
     \/ options.oversized /\ buffer = <<>>

\* #canBuffer(): room for one more, and for its bytes unless it comes alone.
CanBuffer(buffer, total, i) ==
  /\ Len(buffer) < options.capacity
  /\ \/ total + SizeOf[i] <= options.maxSize
     \/ options.oversized /\ buffer = <<>>

\* #buffer().
Buffer(i) ==
  items' = Append(items, i) /\ size' = size + SizeOf[i]

\* Seeded fault: the free places are offered before the pending reader.
PushBuffersFirst(i, aborted) ==
  /\ pushed[i] = "new" /\ state = "open" /\ CanBuffer(items, size, i)
  /\ Buffer(i)
  /\ Settle({i}, "accepted") /\ accepted' = Append(accepted, i)
  /\ UNCHANGED <<options, readers, writers, state, consumer, delivered>>

\* push(): refused by a closed channel or an aborted signal, handed to a pending
\* reader, refused as too large, buffered, or left to wait for room.  The room is
\* not kept for the pushes that already wait.
Push(i, aborted) ==
  /\ pushed[i] = "new"
  /\ \/ /\ state # "open" \/ aborted
        /\ Settle({i}, IF state # "open" THEN "refused" ELSE "aborted")
        /\ UNCHANGED <<channel, consumer, accepted, delivered>>
     \/ /\ state = "open" /\ ~aborted /\ readers # <<>>
        /\ Settle({i}, "accepted")
        /\ Move({Head(readers)}, "idle")
        /\ readers' = Tail(readers)
        /\ accepted' = Append(accepted, i)
        /\ delivered' = Append(delivered, i)
        /\ UNCHANGED <<options, items, size, writers, state>>
     \/ /\ state = "open" /\ ~aborted /\ readers = <<>>
        /\ SizeOf[i] > options.maxSize /\ ~options.oversized
        /\ Settle({i}, "refused")
        /\ UNCHANGED <<channel, consumer, accepted, delivered>>
     \/ /\ state = "open" /\ ~aborted /\ readers = <<>>
        /\ SizeOf[i] <= options.maxSize \/ options.oversized
        /\ CanBuffer(items, size, i)
        /\ Buffer(i)
        /\ Settle({i}, "accepted") /\ accepted' = Append(accepted, i)
        /\ UNCHANGED <<options, readers, writers, state, consumer, delivered>>
     \/ /\ state = "open" /\ ~aborted /\ readers = <<>>
        /\ SizeOf[i] <= options.maxSize \/ options.oversized
        /\ ~CanBuffer(items, size, i)
        /\ writers' = Append(writers, i) /\ Settle({i}, "waiting")
        /\ UNCHANGED <<options, items, size, readers, state, consumer, accepted, delivered>>

\* Seeded fault: the writer leaves the queue and its promise stays pending.
AbortForgets(i) ==
  /\ \E n \in DOMAIN writers : writers[n] = i /\ writers' = RemoveAt(writers, n)
  /\ UNCHANGED <<options, items, size, readers, state, pushed, consumer, accepted, delivered>>

\* The abort listener of a pending push().
Abort(i) ==
  /\ \E n \in DOMAIN writers : writers[n] = i /\ writers' = RemoveAt(writers, n)
  /\ Settle({i}, "aborted")
  /\ UNCHANGED <<options, items, size, readers, state, consumer, accepted, delivered>>

\* Seeded fault: close() drops what is buffered.
CloseDrops ==
  /\ state = "open" /\ state' = "closed"
  /\ items' = <<>> /\ size' = 0
  /\ Settle(ToSet(writers), "refused") /\ writers' = <<>>
  /\ Move(ToSet(readers), "ended") /\ readers' = <<>>
  /\ UNCHANGED <<options, accepted, delivered>>

\* close() and fail(): pending pushes are rejected, pending reads end or reject;
\* what is buffered stays to be read.  A second call does nothing.
Close ==
  /\ state = "open" /\ state' = "closed"
  /\ Settle(ToSet(writers), "refused") /\ writers' = <<>>
  /\ Move(ToSet(readers), "ended") /\ readers' = <<>>
  /\ UNCHANGED <<options, items, size, accepted, delivered>>

Fail ==
  /\ state = "open" /\ state' = "failed"
  /\ Settle(ToSet(writers), "refused") /\ writers' = <<>>
  /\ Move(ToSet(readers), "failed") /\ readers' = <<>>
  /\ UNCHANGED <<options, items, size, accepted, delivered>>

\* Seeded fault: the first writer that fits is admitted, though others wait
\* before it.
AdmitAnyWriter(buffer, total) ==
  \E n \in DOMAIN writers :
    /\ CanBuffer(buffer, total, writers[n])
    /\ \A m \in 1..n - 1 : ~CanBuffer(buffer, total, writers[m])
    /\ writers' = RemoveAt(writers, n)
    /\ items' = Append(buffer, writers[n])
    /\ size' = total + SizeOf[writers[n]]
    /\ accepted' = Append(accepted, writers[n])
    /\ delivered' = Append(delivered, Head(items))
    /\ Settle({writers[n]}, "accepted")
    /\ UNCHANGED <<readers, consumer>>

\* #admitWriters() on a buffer just read from: writers are handed to pending
\* readers while there are any, then buffered in order while they fit, n of them.
\* ReadsWaitForNothing says that no reader is ever pending here.
AdmitWriters(buffer, total) ==
  LET k       == IF Len(readers) < Len(writers) THEN Len(readers) ELSE Len(writers)
      handed  == SubSeq(writers, 1, k)
      rest    == SubSeq(writers, k + 1, Len(writers))
      Room(n) == SubSeq(rest, 1, n)
      Fits(n) == CanBuffer(buffer \o Room(n - 1), total + SumOf(Room(n - 1)), rest[n])
  IN  \E n \in 0..Len(rest) :
        /\ \A m \in 1..n : Fits(m)
        /\ n < Len(rest) => ~Fits(n + 1)
        /\ writers' = SubSeq(rest, n + 1, Len(rest))
        /\ readers' = SubSeq(readers, k + 1, Len(readers))
        /\ Move(ToSet(SubSeq(readers, 1, k)), "idle")
        /\ items' = buffer \o Room(n)
        /\ size' = total + SumOf(Room(n))
        /\ accepted' = accepted \o handed \o Room(n)
        /\ delivered' = Append(delivered, Head(items)) \o handed
        /\ Settle(ToSet(handed \o Room(n)), "accepted")

\* next() with something buffered: it is read whatever the state of the channel,
\* and the room is given to the writers.
Take(c) ==
  /\ consumer[c] = "idle" /\ items # <<>>
  /\ AdmitWriters(Tail(items), size - SizeOf[Head(items)])
  /\ UNCHANGED <<options, state>>

\* Seeded fault: a closed channel is not drained.
EndAtOnce(c) ==
  /\ consumer[c] = "idle" /\ state # "open"
  /\ Move({c}, IF state = "failed" THEN "failed" ELSE "ended")
  /\ UNCHANGED <<channel, pushed, accepted, delivered>>

\* next() on an empty channel that has ended.
End(c) ==
  /\ consumer[c] = "idle" /\ items = <<>> /\ state # "open"
  /\ Move({c}, IF state = "failed" THEN "failed" ELSE "ended")
  /\ UNCHANGED <<channel, pushed, accepted, delivered>>

\* next() on an empty open channel: it takes the first pending writer's item, and
\* waits if there is none.  BufferIsUsed says that there is none.
Await(c) ==
  /\ consumer[c] = "idle" /\ items = <<>> /\ state = "open"
  /\ IF writers # <<>>
     THEN /\ Settle({Head(writers)}, "accepted")
          /\ writers' = Tail(writers)
          /\ accepted' = Append(accepted, Head(writers))
          /\ delivered' = Append(delivered, Head(writers))
          /\ UNCHANGED <<readers, consumer>>
     ELSE /\ readers' = Append(readers, c)
          /\ Move({c}, "waiting")
          /\ UNCHANGED <<writers, pushed, accepted, delivered>>
  /\ UNCHANGED <<options, items, size, state>>

\* A consumer leaves its loop, by an exception of its own.  The iterator has no
\* return(), so the channel does not learn of it.
Leave(c) ==
  /\ consumer[c] = "idle"
  /\ Move({c}, "left")
  /\ UNCHANGED <<channel, pushed, accepted, delivered>>

Next ==
  \/ Close \/ Fail
  \/ \E i \in Items : Abort(i) \/ \E aborted \in BOOLEAN : Push(i, aborted)
  \/ \E c \in Consumers : Take(c) \/ End(c) \/ Await(c) \/ Leave(c)

\* A consumer that has not left calls next() again; nobody has to push or close.
Fairness == \A c \in Consumers : WF_vars(Take(c) \/ End(c) \/ Await(c))

Spec     == Init /\ [][Next]_vars
FairSpec == Spec /\ Fairness

-----------------------------------------------------------------------------
(* Properties                                                              *)

TypeOK ==
  /\ options \in Options
  /\ items \in Seq(Items) /\ writers \in Seq(Items) /\ readers \in Seq(Consumers)
  /\ size \in Nat
  /\ state \in {"open", "closed", "failed"}
  /\ pushed \in [Items -> Outcomes]
  /\ consumer \in [Consumers -> Stations]
  /\ accepted \in Seq(Items) /\ delivered \in Seq(Items)

\* Both bounds hold at every moment, of the bytes really buffered, and an
\* oversized item is alone in the buffer (docs/runtime-contract.md: "no progress
\* event can queue behind it").  A push is pending only behind something buffered
\* in an open channel, so the read that takes it will admit the writer.  With it,
\* every field keeps its type.
BufferIsUsed ==
  /\ TypeOK
  /\ size = SumOf(items)
  /\ Len(items) <= options.capacity
  /\ size <= options.maxSize \/ (options.oversized /\ Len(items) = 1)
  /\ writers # <<>> => items # <<>> /\ state = "open"
  /\ {i \in Items : pushed[i] = "waiting"} = ToSet(writers)

\* A read is pending only while there is nothing to read: no item buffered, no
\* push waiting, and the channel open.  Otherwise the wake-up was lost.
ReadsWaitForNothing ==
  /\ readers # <<>> => items = <<>> /\ writers = <<>> /\ state = "open"
  /\ {c \in Consumers : consumer[c] = "waiting"} = ToSet(readers)

\* What was accepted is delivered, once, in the order of acceptance, or is still
\* buffered: neither an abort racing an admission nor a close or a failure loses
\* or repeats an item (docs/runtime-contract.md: "Already-buffered events
\* preserve FIFO order.  Closing a stream drains accepted events").
AcceptedInOrder ==
  /\ accepted = delivered \o items
  /\ IsInjective(accepted)
  /\ ToSet(accepted) = {i \in Items : pushed[i] = "accepted"}

\* No consumer hears that the stream is over while an item is left, and it hears
\* of the failure of a failed stream.
EndIsTold ==
  \A c \in Consumers :
    /\ consumer[c] \in {"ended", "failed"} => items = <<>>
    /\ consumer[c] = "ended"  => state = "closed"
    /\ consumer[c] = "failed" => state = "failed"

\* Among the pushes that wait none is accepted before an earlier one.  (A new
\* push may be: it takes room that a larger waiting one cannot use.)
WritersKeepTheirTurn ==
  [][\A m, n \in DOMAIN writers :
       m < n /\ pushed'[writers[n]] = "accepted" => pushed'[writers[m]] = "accepted"]_vars

\* A pending push settles, unless every consumer has gone.
PushSettles ==
  \A i \in Items : pushed[i] = "waiting" ~>
                     \/ pushed[i] # "waiting"
                     \/ \A c \in Consumers : consumer[c] = "left"
=============================================================================

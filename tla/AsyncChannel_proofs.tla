------------------------ MODULE AsyncChannel_proofs -------------------------
(***************************************************************************)
(* What the output channel promises, for any number of pushes and consumers*)
(* and for any bounds: it delivers what it accepted, once and in order, it *)
(* never leaves a reader waiting beside something to read, it tells of its *)
(* end after the last item, and it keeps to its bounds and uses them       *)
(* (packages/inference-core/src/async-channel.ts).                         *)
(***************************************************************************)
EXTENDS AsyncChannel, OnceSequences

-----------------------------------------------------------------------------
(* The inductive invariant                                                 *)

\* The types, but for the byte count.
Typed ==
  /\ options \in Options
  /\ items \in Seq(Items) /\ writers \in Seq(Items) /\ readers \in Seq(Consumers)
  /\ state \in {"open", "closed", "failed"}
  /\ pushed \in [Items -> Outcomes]
  /\ consumer \in [Consumers -> Stations]
  /\ accepted \in Seq(Items) /\ delivered \in Seq(Items)

\* The pending pushes are in the queue of writers, once, and a channel that has
\* ended has none.
Writing ==
  /\ IsInjective(writers)
  /\ {i \in Items : pushed[i] = "waiting"} = ToSet(writers)
  /\ state # "open" => writers = <<>>

Reading == ReadsWaitForNothing /\ IsInjective(readers)

IInv == Typed /\ Writing /\ Reading /\ AcceptedInOrder /\ EndIsTold

With(outcome) == {i \in Items : pushed[i] = outcome}
At(station)   == {c \in Consumers : consumer[c] = station}

\* What settling some pushes does to the pushes by outcome.
LEMMA Settled ==
  ASSUME pushed \in [Items -> Outcomes], NEW S \in SUBSET Items, NEW o \in Outcomes,
         Settle(S, o)
  PROVE  /\ pushed' \in [Items -> Outcomes]
         /\ With(o)' = With(o) \cup S
         /\ \A x \in Outcomes : x # o => {i \in Items : pushed'[i] = x} = With(x) \ S
BY DEF Settle, With

\* What moving some consumers does to the consumers by station.
LEMMA Moved ==
  ASSUME consumer \in [Consumers -> Stations], NEW S \in SUBSET Consumers, NEW o \in Stations,
         Move(S, o)
  PROVE  /\ consumer' \in [Consumers -> Stations]
         /\ At(o)' = At(o) \cup S
         /\ \A x \in Stations : x # o => {c \in Consumers : consumer'[c] = x} = At(x) \ S
BY DEF Move, At

\* A channel holds nothing at first.
LEMMA Initially == Init => IInv
<1> SUFFICES ASSUME Init PROVE IInv
  OBVIOUS
<1>1. Typed
  BY EmptySeq DEF Init, Typed, Outcomes, Stations
<1>2. Writing /\ Reading
  BY EmptyOnce DEF Init, Writing, Reading, ReadsWaitForNothing
<1>3. accepted = delivered \o items
  BY EmptySeq, ConcatEmptySeq DEF Init
<1>4. AcceptedInOrder /\ EndIsTold
  BY <1>3, EmptyOnce DEF Init, AcceptedInOrder, EndIsTold
<1> QED BY <1>1, <1>2, <1>4 DEF IInv

\* A push that is turned down changes only its own fate.
LEMMA RefusedStep ==
  ASSUME IInv, NEW i \in Items, pushed[i] = "new", NEW o \in {"refused", "aborted"},
         Settle({i}, o), UNCHANGED <<channel, consumer, accepted, delivered>>
  PROVE  IInv'
<1> USE DEF IInv
<1>1. /\ pushed' \in [Items -> Outcomes]
      /\ {j \in Items : pushed'[j] = "waiting"} = With("waiting") \ {i}
      /\ {j \in Items : pushed'[j] = "accepted"} = With("accepted") \ {i}
  BY Settled DEF Typed, Outcomes
<1>2. i \notin With("waiting") /\ i \notin With("accepted")
  BY DEF With
<1>3. Typed'
  BY <1>1 DEF Typed, channel
<1>4. Writing'
  BY <1>1, <1>2 DEF Writing, With, channel
<1>5. Reading' /\ EndIsTold'
  BY DEF Reading, ReadsWaitForNothing, EndIsTold, channel
<1>6. AcceptedInOrder'
  BY <1>1, <1>2 DEF AcceptedInOrder, With, channel
<1> QED BY <1>3, <1>4, <1>5, <1>6

\* A push handed to a pending reader: nothing is buffered, so the item is the
\* next in order.
LEMMA HandedStep ==
  ASSUME IInv, NEW i \in Items, pushed[i] = "new", readers # <<>>,
         Settle({i}, "accepted"), Move({Head(readers)}, "idle"),
         readers' = Tail(readers),
         accepted' = Append(accepted, i), delivered' = Append(delivered, i),
         UNCHANGED <<options, items, size, writers, state>>
  PROVE  IInv'
<1> USE DEF IInv
<1>0. /\ readers \in Seq(Consumers) /\ accepted \in Seq(Items) /\ delivered \in Seq(Items)
      /\ items = <<>> /\ writers = <<>> /\ state = "open" /\ IsInjective(readers)
      /\ ToSet(readers) = At("waiting")
  BY DEF Typed, Reading, ReadsWaitForNothing, At
<1>1. /\ pushed' \in [Items -> Outcomes]
      /\ {j \in Items : pushed'[j] = "waiting"} = With("waiting") \ {i}
      /\ {j \in Items : pushed'[j] = "accepted"} = With("accepted") \cup {i}
  BY Settled DEF Typed, Outcomes, With
<1>2. i \notin With("waiting") /\ i \notin With("accepted")
  BY DEF With
<1>3. /\ Head(readers) \in Consumers /\ Head(readers) \in ToSet(readers)
      /\ Tail(readers) \in Seq(Consumers) /\ IsInjective(Tail(readers))
      /\ ToSet(Tail(readers)) = ToSet(readers) \ {Head(readers)}
  BY <1>0, Behead
<1>4. /\ consumer' \in [Consumers -> Stations]
      /\ {c \in Consumers : consumer'[c] = "waiting"} = At("waiting") \ {Head(readers)}
      /\ {c \in Consumers : consumer'[c] = "ended"} = At("ended") \ {Head(readers)}
      /\ {c \in Consumers : consumer'[c] = "failed"} = At("failed") \ {Head(readers)}
  BY <1>3, Moved DEF Typed, Stations
<1>5. Append(accepted, i) \in Seq(Items) /\ Append(delivered, i) \in Seq(Items)
  BY <1>0, AppendProperties
<1>6. Typed'
  BY <1>1, <1>3, <1>4, <1>5 DEF Typed
<1>7. Writing'
  BY <1>1, <1>2 DEF Writing, With
<1>8. Reading'
  BY <1>0, <1>3, <1>4 DEF Reading, ReadsWaitForNothing
<1>9. EndIsTold'
  BY <1>0, <1>4 DEF EndIsTold, At
<1>10. AcceptedInOrder'
  <2>1. ToSet(accepted) = With("accepted") /\ IsInjective(accepted)
    BY DEF AcceptedInOrder, With
  <2>a. accepted = delivered \o items
    BY DEF AcceptedInOrder
  <2>2. accepted = delivered
    BY <1>0, <2>a, ConcatEmptySeq
  <2>3. accepted' = delivered' \o items'
    BY <1>0, <1>5, <2>2, ConcatEmptySeq
  <2>4. IsInjective(accepted') /\ ToSet(accepted') = ToSet(accepted) \cup {i}
    BY <1>0, <1>2, <2>1, AppendOnce, AppendSet
  <2> QED BY <1>1, <2>1, <2>3, <2>4 DEF AcceptedInOrder
<1> QED BY <1>6, <1>7, <1>8, <1>9, <1>10

\* A push into the buffer of an open channel nobody reads.
LEMMA BufferedStep ==
  ASSUME IInv, NEW i \in Items, pushed[i] = "new", state = "open", readers = <<>>,
         items' = Append(items, i),
         Settle({i}, "accepted"), accepted' = Append(accepted, i),
         UNCHANGED <<options, readers, writers, state, consumer, delivered>>
  PROVE  IInv'
<1> USE DEF IInv
<1>0. /\ accepted \in Seq(Items) /\ delivered \in Seq(Items) /\ items \in Seq(Items)
  BY DEF Typed
<1>1. /\ pushed' \in [Items -> Outcomes]
      /\ {j \in Items : pushed'[j] = "waiting"} = With("waiting") \ {i}
      /\ {j \in Items : pushed'[j] = "accepted"} = With("accepted") \cup {i}
  BY Settled DEF Typed, Outcomes, With
<1>2. i \notin With("waiting") /\ i \notin With("accepted")
  BY DEF With
<1>3. Append(accepted, i) \in Seq(Items) /\ Append(items, i) \in Seq(Items)
  BY <1>0, AppendProperties
<1>4. Typed'
  BY <1>1, <1>3 DEF Typed
<1>5. Writing'
  BY <1>1, <1>2 DEF Writing, With
<1>6. Reading' /\ EndIsTold'
  BY DEF Reading, ReadsWaitForNothing, EndIsTold
<1>7. AcceptedInOrder'
  <2>1. ToSet(accepted) = With("accepted") /\ IsInjective(accepted)
    BY DEF AcceptedInOrder, With
  <2>a. accepted = delivered \o items
    BY DEF AcceptedInOrder
  <2> DEFINE t == <<i>>
  <2>2. t \in Seq(Items) /\ Append(accepted, i) = accepted \o t /\ Append(items, i) = items \o t
    BY <1>0, AppendIsConcat
  <2> HIDE DEF t
  <2>3. accepted' = delivered' \o items'
    BY <1>0, <2>a, <2>2, ConcatAssociative
  <2>5. i \notin ToSet(accepted)
    BY <1>2, <2>1
  <2>6. /\ IsInjective(Append(accepted, i))
        /\ ToSet(Append(accepted, i)) = ToSet(accepted) \cup {i}
    BY <1>0, <2>1, <2>5, AppendOnce, AppendSet
  <2>4. IsInjective(accepted') /\ ToSet(accepted') = ToSet(accepted) \cup {i}
    BY <2>6
  <2> QED BY <1>1, <2>1, <2>3, <2>4 DEF AcceptedInOrder
<1> QED BY <1>4, <1>5, <1>6, <1>7

\* A push that joins the writers of an open channel nobody reads.
LEMMA WaitingStep ==
  ASSUME IInv, NEW i \in Items, pushed[i] = "new", state = "open", readers = <<>>,
         writers' = Append(writers, i), Settle({i}, "waiting"),
         UNCHANGED <<options, items, size, readers, state, consumer, accepted, delivered>>
  PROVE  IInv'
<1> USE DEF IInv
<1>1. /\ pushed' \in [Items -> Outcomes]
      /\ {j \in Items : pushed'[j] = "waiting"} = With("waiting") \cup {i}
      /\ {j \in Items : pushed'[j] = "accepted"} = With("accepted") \ {i}
  BY Settled DEF Typed, Outcomes, With
<1>2. i \notin With("waiting") /\ i \notin With("accepted")
  BY DEF With
<1>3. writers \in Seq(Items) /\ IsInjective(writers) /\ ToSet(writers) = With("waiting")
  BY DEF Typed, Writing, With
<1>4. /\ writers' \in Seq(Items) /\ IsInjective(writers')
      /\ ToSet(writers') = With("waiting") \cup {i}
  BY <1>2, <1>3, AppendOnce, AppendSet, AppendProperties
<1>5. Typed'
  BY <1>1, <1>4 DEF Typed
<1>6. Writing'
  BY <1>1, <1>4 DEF Writing
<1>7. Reading' /\ EndIsTold'
  BY DEF Reading, ReadsWaitForNothing, EndIsTold
<1>8. AcceptedInOrder'
  BY <1>1, <1>2 DEF AcceptedInOrder, With
<1> QED BY <1>5, <1>6, <1>7, <1>8

\* push().
LEMMA PushStep ==
  ASSUME IInv, NEW i \in Items, NEW aborted \in BOOLEAN, Push(i, aborted)
  PROVE  IInv'
<1>0. pushed[i] = "new"
  BY DEF Push
<1>1. CASE /\ state # "open" \/ aborted
           /\ Settle({i}, IF state # "open" THEN "refused" ELSE "aborted")
           /\ UNCHANGED <<channel, consumer, accepted, delivered>>
  BY <1>0, <1>1, RefusedStep
<1>2. CASE /\ state = "open" /\ ~aborted /\ readers # <<>>
           /\ Settle({i}, "accepted")
           /\ Move({Head(readers)}, "idle")
           /\ readers' = Tail(readers)
           /\ accepted' = Append(accepted, i)
           /\ delivered' = Append(delivered, i)
           /\ UNCHANGED <<options, items, size, writers, state>>
  BY <1>0, <1>2, HandedStep
<1>3. CASE /\ state = "open" /\ ~aborted /\ readers = <<>>
           /\ Settle({i}, "refused")
           /\ UNCHANGED <<channel, consumer, accepted, delivered>>
  BY <1>0, <1>3, RefusedStep
<1>4. CASE /\ state = "open" /\ ~aborted /\ readers = <<>>
           /\ Buffer(i)
           /\ Settle({i}, "accepted") /\ accepted' = Append(accepted, i)
           /\ UNCHANGED <<options, readers, writers, state, consumer, delivered>>
  BY <1>0, <1>4, BufferedStep DEF Buffer
<1>5. CASE /\ state = "open" /\ ~aborted /\ readers = <<>>
           /\ writers' = Append(writers, i) /\ Settle({i}, "waiting")
           /\ UNCHANGED <<options, items, size, readers, state, consumer, accepted, delivered>>
  BY <1>0, <1>5, WaitingStep
<1> QED BY <1>1, <1>2, <1>3, <1>4, <1>5 DEF Push

\* The abort of a pending push takes it out of the writers.
LEMMA AbortStep ==
  ASSUME IInv, NEW i \in Items, Abort(i)
  PROVE  IInv'
<1> USE DEF IInv
<1>1. PICK n \in DOMAIN writers : writers[n] = i /\ writers' = RemoveAt(writers, n)
  BY DEF Abort
<1>2. writers \in Seq(Items) /\ IsInjective(writers) /\ ToSet(writers) = With("waiting")
  BY DEF Typed, Writing, With
<1>3. /\ writers' \in Seq(Items) /\ IsInjective(writers')
      /\ ToSet(writers') = With("waiting") \ {i}
  BY <1>1, <1>2, Without
<1>4. i \in With("waiting") /\ i \notin With("accepted")
  BY <1>1, <1>2 DEF ToSet, With
<1>5. /\ pushed' \in [Items -> Outcomes]
      /\ {j \in Items : pushed'[j] = "waiting"} = With("waiting") \ {i}
      /\ {j \in Items : pushed'[j] = "accepted"} = With("accepted") \ {i}
  BY Settled DEF Typed, Outcomes, Abort
<1>6. state = "open"
  BY <1>1, <1>2, EmptyOnce DEF Writing, ToSet
<1>7. Typed'
  BY <1>3, <1>5 DEF Typed, Abort
<1>8. Writing'
  BY <1>3, <1>5, <1>6 DEF Writing, Abort
<1>9. readers = <<>>
  BY <1>1, <1>2, EmptyOnce DEF Reading, ReadsWaitForNothing, ToSet
<1>10. Reading' /\ EndIsTold'
  BY <1>9 DEF Reading, ReadsWaitForNothing, EndIsTold, Abort
<1>11. AcceptedInOrder'
  BY <1>4, <1>5 DEF AcceptedInOrder, With, Abort
<1> QED BY <1>7, <1>8, <1>10, <1>11

\* close() and fail(): whoever is pending hears of it, what is buffered stays.
LEMMA EndingStep ==
  ASSUME IInv, state = "open",
         NEW end \in {"closed", "failed"}, NEW o \in {"ended", "failed"},
         end = "closed" <=> o = "ended",
         state' = end,
         Settle(ToSet(writers), "refused"), writers' = <<>>,
         Move(ToSet(readers), o), readers' = <<>>,
         UNCHANGED <<options, items, size, accepted, delivered>>
  PROVE  IInv'
<1> USE DEF IInv
<1>1. ToSet(writers) = With("waiting") /\ ToSet(readers) = At("waiting")
  BY DEF Writing, Reading, ReadsWaitForNothing, With, At
<1>2. /\ pushed' \in [Items -> Outcomes]
      /\ {j \in Items : pushed'[j] = "waiting"} = {}
      /\ {j \in Items : pushed'[j] = "accepted"} = With("accepted")
  <2>1. ToSet(writers) \in SUBSET Items
    BY <1>1 DEF With
  <2>2. /\ pushed' \in [Items -> Outcomes]
        /\ {j \in Items : pushed'[j] = "waiting"} = With("waiting") \ ToSet(writers)
        /\ {j \in Items : pushed'[j] = "accepted"} = With("accepted") \ ToSet(writers)
    BY <2>1, Settled DEF Typed, Outcomes
  <2>3. With("accepted") \cap With("waiting") = {}
    BY DEF With
  <2> QED BY <1>1, <2>2, <2>3
<1>3. /\ consumer' \in [Consumers -> Stations]
      /\ {c \in Consumers : consumer'[c] = "waiting"} = {}
      /\ At(o)' = At(o) \cup At("waiting")
      /\ \A x \in {"ended", "failed"} : x # o =>
           {c \in Consumers : consumer'[c] = x} = At(x) \ At("waiting")
  <2>1. ToSet(readers) \in SUBSET Consumers
    BY <1>1 DEF At
  <2>2. /\ consumer' \in [Consumers -> Stations]
        /\ At(o)' = At(o) \cup ToSet(readers)
        /\ \A x \in Stations : x # o =>
             {c \in Consumers : consumer'[c] = x} = At(x) \ ToSet(readers)
    BY <2>1, Moved DEF Typed, Stations
  <2>3. {c \in Consumers : consumer'[c] = "waiting"} = At("waiting") \ ToSet(readers)
    BY <2>2 DEF Stations
  <2> QED BY <1>1, <2>2, <2>3 DEF Stations
<1>4. Typed'
  BY <1>2, <1>3, EmptySeq DEF Typed
<1>5. Writing' /\ Reading'
  BY <1>2, <1>3, EmptyOnce DEF Writing, Reading, ReadsWaitForNothing
<1>6. At("ended") = {} /\ At("failed") = {}
  BY DEF EndIsTold, At
<1>7. At("waiting") # {} => items = <<>>
  BY <1>1, EmptyOnce DEF Reading, ReadsWaitForNothing
<1>8. EndIsTold'
  <2> SUFFICES ASSUME NEW c \in Consumers, consumer'[c] \in {"ended", "failed"}
               PROVE  consumer'[c] = o /\ c \in At("waiting")
    BY <1>7 DEF EndIsTold
  <2> QED BY <1>3, <1>6 DEF At
<1>9. AcceptedInOrder'
  BY <1>2 DEF AcceptedInOrder, With
<1> QED BY <1>4, <1>5, <1>8, <1>9

\* next() with something buffered: nobody else is reading, so the writers admitted
\* are a prefix of those that wait, and all of it goes to the buffer.
LEMMA TakeAdmits ==
  ASSUME IInv, NEW c \in Consumers, Take(c)
  PROVE  \E n \in 0..Len(writers) :
           /\ writers' = SubSeq(writers, n + 1, Len(writers))
           /\ readers' = <<>>
           /\ Move(ToSet(<<>>), "idle")
           /\ items' = Tail(items) \o SubSeq(writers, 1, n)
           /\ accepted' = accepted \o <<>> \o SubSeq(writers, 1, n)
           /\ delivered' = Append(delivered, Head(items)) \o <<>>
           /\ Settle(ToSet(<<>> \o SubSeq(writers, 1, n)), "accepted")
<1> USE DEF IInv
<1>0. items # <<>> /\ readers = <<>> /\ items \in Seq(Items) /\ writers \in Seq(Items)
      /\ accepted \in Seq(Items) /\ delivered \in Seq(Items) /\ IsInjective(writers)
      /\ ToSet(writers) = With("waiting")
  BY DEF Take, Typed, Reading, ReadsWaitForNothing, Writing, With
<1>a. Len(writers) \in Nat /\ Len(readers) = 0
  BY <1>0, LenProperties, EmptySeq
<1>b. /\ (IF Len(readers) < Len(writers) THEN Len(readers) ELSE Len(writers)) = 0
      /\ SubSeq(writers, 1, 0) = <<>>
      /\ SubSeq(writers, 0 + 1, Len(writers)) = writers
      /\ SubSeq(readers, 1, 0) = <<>> /\ SubSeq(readers, 0 + 1, Len(readers)) = <<>>
  BY <1>0, <1>a, SubSeqEmpty, SubSeqFull
<1> DEFINE k      == IF Len(readers) < Len(writers) THEN Len(readers) ELSE Len(writers)
           handed == SubSeq(writers, 1, k)
           rest   == SubSeq(writers, k + 1, Len(writers))
<1>c. PICK n \in 0..Len(rest) :
        /\ writers' = SubSeq(rest, n + 1, Len(rest))
        /\ readers' = SubSeq(readers, k + 1, Len(readers))
        /\ Move(ToSet(SubSeq(readers, 1, k)), "idle")
        /\ items' = Tail(items) \o SubSeq(rest, 1, n)
        /\ accepted' = accepted \o handed \o SubSeq(rest, 1, n)
        /\ delivered' = Append(delivered, Head(items)) \o handed
        /\ Settle(ToSet(handed \o SubSeq(rest, 1, n)), "accepted")
  BY DEF Take, AdmitWriters
<1>d. k = 0
  BY <1>b
<1>e. handed = <<>> /\ rest = writers
  BY <1>b, <1>d
<1>f. SubSeq(readers, k + 1, Len(readers)) = <<>> /\ SubSeq(readers, 1, k) = <<>>
  BY <1>b, <1>d
<1> HIDE DEF k, handed, rest
<1> QED BY <1>c, <1>e, <1>f

\* next() with something buffered: no reader is pending then, so the writers that
\* fit go behind the buffer, and what is delivered moves over.
LEMMA TakeStep ==
  ASSUME IInv, NEW c \in Consumers, Take(c)
  PROVE  IInv'
<1> USE DEF IInv
<1>0. items # <<>> /\ readers = <<>> /\ items \in Seq(Items) /\ writers \in Seq(Items)
      /\ accepted \in Seq(Items) /\ delivered \in Seq(Items) /\ IsInjective(writers)
      /\ ToSet(writers) = With("waiting")
  BY DEF Take, Typed, Reading, ReadsWaitForNothing, Writing, With
<1>1. PICK n \in 0..Len(writers) :
        /\ writers' = SubSeq(writers, n + 1, Len(writers))
        /\ readers' = <<>>
        /\ Move(ToSet(<<>>), "idle")
        /\ items' = Tail(items) \o SubSeq(writers, 1, n)
        /\ accepted' = accepted \o <<>> \o SubSeq(writers, 1, n)
        /\ delivered' = Append(delivered, Head(items)) \o <<>>
        /\ Settle(ToSet(<<>> \o SubSeq(writers, 1, n)), "accepted")
  BY TakeAdmits
<1> DEFINE room == SubSeq(writers, 1, n)
<1>2. /\ room \in Seq(Items) /\ IsInjective(room)
      /\ writers' \in Seq(Items) /\ IsInjective(writers')
      /\ ToSet(room) \cup ToSet(writers') = With("waiting")
      /\ ToSet(room) \cap ToSet(writers') = {}
  BY <1>0, <1>1, Cut
<1>3. /\ Head(items) \in Items /\ Tail(items) \in Seq(Items)
      /\ Append(delivered, Head(items)) \in Seq(Items)
  BY <1>0, HeadTailProperties, AppendProperties
<1> HIDE DEF room
<1>4. /\ items' = Tail(items) \o room
      /\ accepted' = accepted \o room
      /\ delivered' = Append(delivered, Head(items))
      /\ Settle(ToSet(room), "accepted")
  <2>1. <<>> \o room = room /\ accepted \o <<>> = accepted
        /\ Append(delivered, Head(items)) \o <<>> = Append(delivered, Head(items))
    BY <1>0, <1>2, <1>3, ConcatEmptySeq
  <2> QED BY <1>1, <2>1 DEF room
<1>5. /\ pushed' \in [Items -> Outcomes]
      /\ {j \in Items : pushed'[j] = "waiting"} = With("waiting") \ ToSet(room)
      /\ {j \in Items : pushed'[j] = "accepted"} = With("accepted") \cup ToSet(room)
  <2>1. ToSet(room) \in SUBSET Items
    BY <1>2 DEF With
  <2> QED BY <1>4, <2>1, Settled DEF Typed, Outcomes, With
<1>6. consumer' = consumer
  BY <1>1, EmptyOnce DEF Move, Typed
<1>7. items' \in Seq(Items) /\ accepted' \in Seq(Items) /\ delivered' \in Seq(Items)
  BY <1>0, <1>2, <1>3, <1>4, ConcatProperties
<1>8. options' = options /\ state' = state
  BY DEF Take
<1>9. Typed'
  BY <1>1, <1>2, <1>5, <1>6, <1>7, <1>8, EmptySeq DEF Typed
<1>10. state # "open" => writers' = <<>>
  <2>1. SUFFICES ASSUME state # "open", writers' # <<>> PROVE FALSE
    OBVIOUS
  <2>2. writers = <<>>
    BY <2>1 DEF Writing
  <2>3. With("waiting") = {}
    BY <1>0, <2>2, EmptyOnce
  <2> QED BY <1>2, <2>1, <2>3, NothingIn
<1>11. Writing'
  BY <1>2, <1>5, <1>8, <1>10 DEF Writing
<1>12. Reading'
  BY <1>0, <1>1, <1>6, EmptyOnce DEF Reading, ReadsWaitForNothing
<1>13. EndIsTold'
  BY <1>0, <1>6 DEF EndIsTold
<1>14. AcceptedInOrder'
  <2>1. ToSet(accepted) = With("accepted") /\ IsInjective(accepted)
    BY DEF AcceptedInOrder, With
  <2>a. accepted = delivered \o items
    BY DEF AcceptedInOrder
  <2> DEFINE h == <<Head(items)>>
             t == Tail(items)
  <2>b. h \in Seq(Items) /\ t \in Seq(Items)
    BY <1>3
  <2>c. items = h \o t
    BY <1>0, HeadAndTail
  <2>d. delivered' = delivered \o h
    BY <1>0, <1>3, <1>4, AppendIsConcat
  <2>e. items' = t \o room
    BY <1>4
  <2> HIDE DEF h, t
  <2>f. h \o items' = items \o room
    <3>1. room \in Seq(Items)
      BY <1>2
    <3> QED BY <3>1, <2>b, <2>c, <2>e, Regroup, SMTT(30)
  <2>g. delivered' \o items' = delivered \o (h \o items')
    <3>1. delivered \in Seq(Items) /\ items' \in Seq(Items)
      BY <1>0, <1>7
    <3> DEFINE r == h \o items'
    <3>2. r = h \o items'
      OBVIOUS
    <3> HIDE DEF r
    <3> DEFINE d == delivered'
               i == items'
    <3>3. d = delivered \o h /\ i \in Seq(Items) /\ r = h \o i
      BY <2>d, <3>1, <3>2
    <3> HIDE DEF d, i
    <3>4. h \in Seq(Items) /\ delivered \in Seq(Items)
      BY <3>1, <2>b
    <3>5. d \o i = delivered \o r
      BY <3>3, <3>4, Regroup, SMTT(30)
    <3> QED BY <3>2, <3>5 DEF d, i
  <2>h. delivered \o (items \o room) = accepted \o room
    <3>1. delivered \in Seq(Items) /\ items \in Seq(Items) /\ room \in Seq(Items)
      BY <1>0, <1>2
    <3> DEFINE r == items \o room
    <3>2. r = items \o room
      OBVIOUS
    <3> HIDE DEF r
    <3>3. accepted \o room = delivered \o r
      BY <3>1, <3>2, <2>a, Regroup, SMTT(30)
    <3> QED BY <3>2, <3>3
  <2>2. accepted' = delivered' \o items'
    BY <1>4, <2>f, <2>g, <2>h
  <2>3. ToSet(accepted) \cap ToSet(room) = {}
    BY <1>2, <2>1 DEF With
  <2>4. IsInjective(accepted \o room) /\ ToSet(accepted \o room) = ToSet(accepted) \cup ToSet(room)
    BY <1>0, <1>2, <2>1, <2>3, ConcatOnce, ConcatSet
  <2>5. IsInjective(accepted') /\ ToSet(accepted') = With("accepted") \cup ToSet(room)
    BY <1>4, <2>1, <2>4
  <2> QED BY <1>5, <2>2, <2>5 DEF AcceptedInOrder
<1> QED BY <1>9, <1>11, <1>12, <1>13, <1>14

\* next() on an empty channel that has ended, and a consumer that leaves.
LEMMA GoneStep ==
  ASSUME IInv, NEW c \in Consumers, consumer[c] = "idle", NEW o \in {"ended", "failed", "left"},
         o \in {"ended", "failed"} => items = <<>>,
         o = "ended" => state = "closed", o = "failed" => state = "failed",
         Move({c}, o), UNCHANGED <<channel, pushed, accepted, delivered>>
  PROVE  IInv'
<1> USE DEF IInv
<1>1. /\ consumer' \in [Consumers -> Stations]
      /\ {d \in Consumers : consumer'[d] = "waiting"} = At("waiting") \ {c}
  BY Moved DEF Typed, Stations
<1>2. c \notin At("waiting")
  BY DEF At
<1>3. Typed' /\ Writing' /\ AcceptedInOrder'
  BY <1>1 DEF Typed, Writing, AcceptedInOrder, channel
<1>4. Reading'
  BY <1>1, <1>2 DEF Reading, ReadsWaitForNothing, At, channel
<1>5. EndIsTold'
  BY DEF EndIsTold, Move, Typed, channel
<1> QED BY <1>3, <1>4, <1>5

\* next() on an empty open channel.
LEMMA AwaitStep ==
  ASSUME IInv, NEW c \in Consumers, Await(c)
  PROVE  IInv'
<1> USE DEF IInv
<1>0. /\ consumer[c] = "idle" /\ items = <<>> /\ state = "open"
      /\ UNCHANGED <<options, items, size, state>>
      /\ writers \in Seq(Items) /\ IsInjective(writers) /\ ToSet(writers) = With("waiting")
      /\ readers \in Seq(Consumers) /\ IsInjective(readers) /\ ToSet(readers) = At("waiting")
      /\ accepted \in Seq(Items) /\ delivered \in Seq(Items)
  BY DEF Await, Typed, Writing, Reading, ReadsWaitForNothing, With, At
<1>1. CASE writers # <<>>
  <2> DEFINE i == Head(writers)
  <2>1. /\ i \in Items /\ i \in With("waiting")
        /\ Tail(writers) \in Seq(Items) /\ IsInjective(Tail(writers))
        /\ ToSet(Tail(writers)) = With("waiting") \ {i}
    BY <1>0, <1>1, Behead
  <2>2. /\ Settle({i}, "accepted") /\ writers' = Tail(writers)
        /\ accepted' = Append(accepted, i) /\ delivered' = Append(delivered, i)
        /\ UNCHANGED <<readers, consumer>>
    BY <1>1 DEF Await
  <2> HIDE DEF i
  <2>3. /\ pushed' \in [Items -> Outcomes]
        /\ {j \in Items : pushed'[j] = "waiting"} = With("waiting") \ {i}
        /\ {j \in Items : pushed'[j] = "accepted"} = With("accepted") \cup {i}
    BY <2>1, <2>2, Settled DEF Typed, Outcomes, With
  <2>4. Append(accepted, i) \in Seq(Items) /\ Append(delivered, i) \in Seq(Items)
    BY <1>0, <2>1, AppendProperties
  <2>5. Typed'
    BY <1>0, <2>1, <2>2, <2>3, <2>4 DEF Typed
  <2>6. Writing'
    BY <1>0, <2>1, <2>2, <2>3 DEF Writing
  <2>7. readers = <<>>
    BY <1>1 DEF Reading, ReadsWaitForNothing
  <2>8. Reading' /\ EndIsTold'
    BY <1>0, <2>2, <2>7 DEF Reading, ReadsWaitForNothing, EndIsTold
  <2>9. AcceptedInOrder'
    <3>1. ToSet(accepted) = With("accepted") /\ IsInjective(accepted)
      BY DEF AcceptedInOrder, With
    <3>a. accepted = delivered \o items
      BY DEF AcceptedInOrder
    <3>2. accepted = delivered
      BY <1>0, <3>a, ConcatEmptySeq
    <3>3. accepted' = delivered' \o items'
      BY <1>0, <2>2, <2>4, <3>2, ConcatEmptySeq
    <3>4. i \notin ToSet(accepted)
      BY <2>1, <3>1 DEF With
    <3>5. /\ IsInjective(Append(accepted, i))
          /\ ToSet(Append(accepted, i)) = ToSet(accepted) \cup {i}
      BY <1>0, <2>1, <3>1, <3>4, AppendOnce, AppendSet
    <3>6. IsInjective(accepted') /\ ToSet(accepted') = With("accepted") \cup {i}
      BY <2>2, <3>1, <3>5
    <3> QED BY <2>3, <3>3, <3>6 DEF AcceptedInOrder
  <2> QED BY <2>5, <2>6, <2>8, <2>9
<1>2. CASE writers = <<>>
  <2>1. /\ readers' = Append(readers, c) /\ Move({c}, "waiting")
        /\ UNCHANGED <<writers, pushed, accepted, delivered>>
    BY <1>2 DEF Await
  <2>2. /\ consumer' \in [Consumers -> Stations]
        /\ {d \in Consumers : consumer'[d] = "waiting"} = At("waiting") \cup {c}
        /\ {d \in Consumers : consumer'[d] = "ended"} = At("ended") \ {c}
        /\ {d \in Consumers : consumer'[d] = "failed"} = At("failed") \ {c}
    BY <2>1, Moved DEF Typed, Stations, At
  <2>3. c \notin At("waiting")
    BY <1>0 DEF At
  <2>4. /\ readers' \in Seq(Consumers) /\ IsInjective(readers')
        /\ ToSet(readers') = At("waiting") \cup {c}
    BY <1>0, <2>1, <2>3, AppendOnce, AppendSet, AppendProperties
  <2>5. Typed'
    BY <1>0, <2>1, <2>2, <2>4 DEF Typed
  <2>6. Writing' /\ AcceptedInOrder'
    BY <1>0, <2>1 DEF Writing, AcceptedInOrder
  <2>7. Reading'
    BY <1>0, <1>2, <2>1, <2>2, <2>4 DEF Reading, ReadsWaitForNothing
  <2>8. EndIsTold'
    BY <1>0, <2>2 DEF EndIsTold, At
  <2> QED BY <2>5, <2>6, <2>7, <2>8
<1> QED BY <1>1, <1>2

\* Every step keeps the invariant.
LEMMA EveryStep == IInv /\ [Next]_vars => IInv'
<1> SUFFICES ASSUME IInv, [Next]_vars PROVE IInv'
  OBVIOUS
<1>1. CASE Close
  BY <1>1, EndingStep DEF Close
<1>2. CASE Fail
  BY <1>2, EndingStep DEF Fail
<1>3. ASSUME NEW i \in Items, Abort(i) PROVE IInv'
  BY <1>3, AbortStep
<1>4. ASSUME NEW i \in Items, NEW aborted \in BOOLEAN, Push(i, aborted) PROVE IInv'
  BY <1>4, PushStep
<1>5. ASSUME NEW c \in Consumers, Take(c) PROVE IInv'
  BY <1>5, TakeStep
<1>6. ASSUME NEW c \in Consumers, End(c) PROVE IInv'
  <2>1. state \in {"closed", "failed"}
    BY <1>6 DEF End, IInv, Typed
  <2>2. CASE state = "failed"
    BY <1>6, <2>2, GoneStep DEF End
  <2>3. CASE state = "closed"
    BY <1>6, <2>3, GoneStep DEF End
  <2> QED BY <2>1, <2>2, <2>3
<1>7. ASSUME NEW c \in Consumers, Await(c) PROVE IInv'
  BY <1>7, AwaitStep
<1>8. ASSUME NEW c \in Consumers, Leave(c) PROVE IInv'
  BY <1>8, GoneStep DEF Leave
<1>9. CASE UNCHANGED vars
  BY <1>9 DEF vars, channel, IInv, Typed, Writing, Reading, ReadsWaitForNothing,
              AcceptedInOrder, EndIsTold
<1> QED BY <1>1, <1>2, <1>3, <1>4, <1>5, <1>6, <1>7, <1>8, <1>9 DEF Next

\* The invariant holds for ever.
LEMMA Always == Spec => []IInv
BY Initially, EveryStep, PTL DEF Spec

-----------------------------------------------------------------------------
(* The theorems                                                            *)

\* What is accepted is delivered once and in order: push(), next(), close(),
\* fail() and aborts lose, repeat and reorder nothing.
THEOREM DeliversInOrder == Spec => []AcceptedInOrder
BY Always, PTL DEF IInv

\* A read is pending only beside an empty, open channel.
THEOREM NoReadIsForgotten == Spec => []ReadsWaitForNothing
BY Always, PTL DEF IInv, Reading

\* The end is told after the last item, and a failure is told as one.
THEOREM EndComesLast == Spec => []EndIsTold
BY Always, PTL DEF IInv

\* A step that leaves every waiting push as it was, or refuses or aborts it,
\* accepts none of them.
LEMMA NobodyAdmitted ==
  ASSUME IInv, \A i \in With("waiting") : pushed'[i] # "accepted"
  PROVE  \A m, n \in DOMAIN writers :
           m < n /\ pushed'[writers[n]] = "accepted" => pushed'[writers[m]] = "accepted"
BY DEF IInv, Writing, With, ToSet

\* A read admits a prefix of the waiting pushes.
LEMMA TurnOfTake ==
  ASSUME IInv, NEW c \in Consumers, Take(c), NEW m \in DOMAIN writers, NEW n \in DOMAIN writers,
         m < n, pushed'[writers[n]] = "accepted"
  PROVE  pushed'[writers[m]] = "accepted"
<1>1. PICK l \in 0..Len(writers) : Settle(ToSet(<<>> \o SubSeq(writers, 1, l)), "accepted")
  BY TakeAdmits
<1>2. /\ writers \in Seq(Items) /\ IsInjective(writers) /\ Len(writers) \in Nat
      /\ DOMAIN writers = 1..Len(writers)
      /\ \A k \in 1..Len(writers) : writers[k] \in Items /\ pushed[writers[k]] = "waiting"
  BY LenProperties DEF IInv, Typed, Writing, ToSet
<1> DEFINE room == SubSeq(writers, 1, l)
<1>3. /\ room \in Seq(Items) /\ Len(room) = l
      /\ \A k \in 1..l : room[k] = writers[k]
  BY <1>2, SubSeqProperties
<1>4. DOMAIN room = 1..l
  BY <1>3, LenProperties
<1>5. ToSet(room) = {writers[k] : k \in 1..l}
  BY <1>3, <1>4 DEF ToSet
<1> HIDE DEF room
<1>6. <<>> \o room = room
  BY <1>3, ConcatEmptySeq
<1>7. Settle(ToSet(room), "accepted")
  BY <1>1, <1>6 DEF room
<1>8. writers[n] \in ToSet(room)
  BY <1>2, <1>7 DEF Settle
<1>9. n \in 1..l
  BY <1>2, <1>5, <1>8 DEF IsInjective
<1>10. writers[m] \in ToSet(room)
  BY <1>2, <1>5, <1>9
<1> QED BY <1>2, <1>7, <1>10 DEF Settle

\* Only a read admits writers, and those that waited longest.
THEOREM WritersTakeTurns == Spec => WritersKeepTheirTurn
<1> DEFINE Turn == \A m, n \in DOMAIN writers :
                     m < n /\ pushed'[writers[n]] = "accepted" => pushed'[writers[m]] = "accepted"
<1>1. ASSUME IInv, [Next]_vars PROVE [Turn]_vars
  <2> USE <1>1
  <2>0. pushed \in [Items -> Outcomes] /\ With("waiting") \subseteq Items /\ ToSet(writers) = With("waiting")
    BY DEF IInv, Typed, Writing, With
  <2>1. CASE Close \/ Fail
    <3>1. \A i \in With("waiting") : pushed'[i] = "refused"
      BY <2>0, <2>1 DEF Close, Fail, Settle
    <3> QED BY <3>1, NobodyAdmitted
  <2>2. ASSUME NEW i \in Items, Abort(i) PROVE Turn
    <3>1. \A j \in With("waiting") : pushed'[j] \in {"aborted", "waiting"}
      BY <2>0, <2>2 DEF Abort, Settle, With
    <3> QED BY <3>1, NobodyAdmitted
  <2>3. ASSUME NEW i \in Items, NEW aborted \in BOOLEAN, Push(i, aborted) PROVE Turn
    <3>1. pushed[i] = "new"
      BY <2>3 DEF Push
    <3>2. \A j \in Items : j # i => pushed'[j] = pushed[j]
      BY <2>3 DEF Push, Settle
    <3>3. \A j \in With("waiting") : pushed'[j] = "waiting"
      BY <3>1, <3>2 DEF With
    <3> QED BY <3>3, NobodyAdmitted
  <2>4. ASSUME NEW c \in Consumers, Take(c) PROVE Turn
    BY <2>4, TurnOfTake
  <2>5. ASSUME NEW c \in Consumers, End(c) \/ Leave(c) PROVE Turn
    <3>1. pushed' = pushed
      BY <2>5 DEF End, Leave
    <3> QED BY <3>1, NobodyAdmitted DEF With
  <2>6. ASSUME NEW c \in Consumers, Await(c) PROVE Turn
    <3>1. CASE writers = <<>>
      BY <3>1, <2>0, EmptySeq
    <3>2. CASE writers # <<>>
      <4>1. Settle({Head(writers)}, "accepted")
        BY <2>6, <3>2 DEF Await
      <4>2. /\ writers \in Seq(Items) /\ IsInjective(writers) /\ DOMAIN writers = 1..Len(writers)
            /\ Len(writers) \in Nat
        BY LenProperties DEF IInv, Typed, Writing
      <4>3. Head(writers) = writers[1] /\ 1 \in DOMAIN writers
        BY <3>2, <4>2, EmptySeq
      <4>4. \A k \in DOMAIN writers : writers[k] \in Items /\ pushed[writers[k]] = "waiting"
        BY <2>0, <4>2 DEF With, ToSet
      <4>5. ASSUME NEW k \in DOMAIN writers, pushed'[writers[k]] = "accepted" PROVE k = 1
        <5>1. writers[k] = writers[1]
          BY <4>1, <4>3, <4>4, <4>5 DEF Settle
        <5> QED BY <4>2, <4>3, <5>1 DEF IsInjective
      <4> QED BY <4>2, <4>5
    <3> QED BY <3>1, <3>2
  <2>7. CASE UNCHANGED vars
    BY <2>7
  <2> QED BY <2>1, <2>2, <2>3, <2>4, <2>5, <2>6, <2>7 DEF Next
<1>2. Spec => [][Turn]_vars
  BY Always, <1>1, PTL DEF Spec
<1> QED BY <1>2 DEF WritersKeepTheirTurn

-----------------------------------------------------------------------------
(* Sums of sizes                                                           *)

\* f counts the sizes of the first m items of s.
Counts(f, s, m) ==
  /\ \A n \in 0..m : f[n] \in Nat
  /\ f[0] = 0
  /\ \A n \in 1..m : f[n] = f[n - 1] + SizeOf[s[n]]

\* From a on s has the m items of t.
Aligned(a, m, s, t) == \A n \in 1..m : s[a + n] = t[n] /\ SizeOf[t[n]] \in Nat

\* Where two counts go over the same items they grow by the same.
LEMMA SameGrowth ==
  ASSUME NEW a \in Nat, NEW m \in Nat, NEW s, NEW t, NEW f, NEW h,
         NEW k, k = a + m, Counts(f, s, k), Counts(h, t, m), Aligned(a, m, s, t)
  PROVE  f[k] = f[a] + h[m]
<1> DEFINE S == {n \in Nat : n <= m => f[a + n] = f[a] + h[n]}
<1>1. /\ (\A n \in 0..a + m : f[n] \in Nat) /\ (\A n \in 0..m : h[n] \in Nat) /\ h[0] = 0
      /\ \A n \in 1..a + m : f[n] = f[n - 1] + SizeOf[s[n]]
      /\ \A n \in 1..m : h[n] = h[n - 1] + SizeOf[t[n]]
  BY DEF Counts
<1>2. 0 \in S
  <2>1. a \in 0..a + m /\ a + 0 = a
    OBVIOUS
  <2>2. f[a] \in Nat
    BY <1>1, <2>1
  <2> QED BY <1>1, <2>1, <2>2
<1>3. ASSUME NEW n \in S PROVE n + 1 \in S
  <2> SUFFICES ASSUME n + 1 <= m PROVE f[a + (n + 1)] = f[a] + h[n + 1]
    OBVIOUS
  <2>1. /\ n \in Nat /\ n + 1 \in 1..m /\ n \in 0..m /\ a \in 0..a + m /\ a + n \in 0..a + m
        /\ a + (n + 1) \in 1..a + m /\ (a + (n + 1)) - 1 = a + n /\ (n + 1) - 1 = n
    OBVIOUS
  <2>2. f[a + n] = f[a] + h[n]
    BY <2>1
  <2>3. f[a + (n + 1)] = f[a + n] + SizeOf[s[a + (n + 1)]]
    BY <1>1, <2>1
  <2>4. h[n + 1] = h[n] + SizeOf[t[n + 1]]
    BY <1>1, <2>1
  <2>5. s[a + (n + 1)] = t[n + 1] /\ SizeOf[t[n + 1]] \in Nat
    BY <2>1 DEF Aligned
  <2>6. f[a] \in Nat /\ h[n] \in Nat
    BY <1>1, <2>1
  <2> QED BY <2>2, <2>3, <2>4, <2>5, <2>6
<1>4. S = Nat
  <2>1. S \in SUBSET Nat /\ \A n \in S : n + 1 \in S
    BY <1>3
  <2> HIDE DEF S
  <2> QED BY <1>2, <2>1, AllNat
<1>5. m \in S
  BY <1>4
<1> QED BY <1>5

\* There is a count of every sequence ...
LEMMA CountExists ==
  ASSUME NEW s \in Seq(Items)
  PROVE  \E f : Counts(f, s, Len(s)) /\ f = [n \in 0..Len(s) |-> f[n]]
<1> DEFINE S == {m \in Nat : m <= Len(s) => \E f : Counts(f, s, m) /\ f = [n \in 0..m |-> f[n]]}
<1>0. Len(s) \in Nat /\ \A n \in 1..Len(s) : SizeOf[s[n]] \in Nat
  BY SizeAssumption, LenProperties
<1>1. 0 \in S
  <2> DEFINE f == [n \in 0..0 |-> 0]
  <2>1. Counts(f, s, 0) /\ f = [n \in 0..0 |-> f[n]]
    BY DEF Counts
  <2> QED BY <2>1
<1>2. ASSUME NEW m \in S PROVE m + 1 \in S
  <2> SUFFICES ASSUME m + 1 <= Len(s) PROVE \E g : Counts(g, s, m + 1) /\ g = [n \in 0..m + 1 |-> g[n]]
    OBVIOUS
  <2>1. m \in Nat /\ m <= Len(s)
    BY <1>0
  <2>2. PICK f : Counts(f, s, m)
    BY <2>1
  <2> DEFINE g == [n \in 0..m + 1 |-> IF n = m + 1 THEN f[m] + SizeOf[s[m + 1]] ELSE f[n]]
  <2>3. (\A n \in 0..m : f[n] \in Nat) /\ f[0] = 0 /\ \A n \in 1..m : f[n] = f[n - 1] + SizeOf[s[n]]
    BY <2>2 DEF Counts
  <2>4. f[m] \in Nat /\ SizeOf[s[m + 1]] \in Nat
    BY <1>0, <2>1, <2>3
  <2>5. (\A n \in 0..m + 1 : g[n] \in Nat) /\ g[0] = 0 /\ g = [n \in 0..m + 1 |-> g[n]]
    BY <2>1, <2>3, <2>4
  <2>6. ASSUME NEW n \in 1..m + 1 PROVE g[n] = g[n - 1] + SizeOf[s[n]]
    <3>1. CASE n = m + 1
      <4>1. n - 1 = m /\ m \in 0..m + 1 /\ m # m + 1 /\ n \in 0..m + 1
        BY <2>1, <3>1
      <4> QED BY <3>1, <4>1
    <3>2. CASE n # m + 1
      <4>1. n \in 1..m /\ n \in 0..m + 1 /\ n - 1 \in 0..m + 1 /\ n - 1 # m + 1
        BY <2>1, <3>2
      <4> QED BY <2>3, <3>2, <4>1
    <3> QED BY <3>1, <3>2
  <2> HIDE DEF g
  <2>7. Counts(g, s, m + 1)
    BY <2>5, <2>6 DEF Counts
  <2> QED BY <2>5, <2>7
<1>3. S = Nat
  <2>1. S \in SUBSET Nat /\ \A n \in S : n + 1 \in S
    BY <1>2
  <2> HIDE DEF S
  <2> QED BY <1>1, <2>1, AllNat
<1>4. Len(s) \in S
  BY <1>0, <1>3
<1> QED BY <1>0, <1>4

\* ... and SumOf returns where it ends.
LEMMA SumCounts ==
  ASSUME NEW s \in Seq(Items)
  PROVE  \E f : Counts(f, s, Len(s)) /\ SumOf(s) = f[Len(s)]
<1> DEFINE Solves(f) == f = [n \in 0..Len(s) |-> IF n = 0 THEN 0 ELSE f[n - 1] + SizeOf[s[n]]]
           g == CHOOSE f : Solves(f)
<1>0. Len(s) \in Nat
  BY LenProperties
<1>1. PICK f : Counts(f, s, Len(s)) /\ f = [n \in 0..Len(s) |-> f[n]]
  BY CountExists
<1>2. f[0] = 0 /\ \A n \in 1..Len(s) : f[n] = f[n - 1] + SizeOf[s[n]]
  BY <1>1 DEF Counts
<1>3. Solves(f)
  <2>1. \A n \in 0..Len(s) : n # 0 => n \in 1..Len(s)
    BY <1>0
  <2>2. \A n \in 0..Len(s) : f[n] = IF n = 0 THEN 0 ELSE f[n - 1] + SizeOf[s[n]]
    BY <1>2, <2>1
  <2>3. f = [n \in 0..Len(s) |-> f[n]]
    BY <1>1
  <2> QED BY <2>2, <2>3
<1>4. Solves(g)
  BY <1>3
<1>5. SumOf(s) = g[Len(s)]
  BY DEF SumOf
<1> HIDE DEF g
<1>6. \A n \in 0..Len(s) : g[n] = IF n = 0 THEN 0 ELSE g[n - 1] + SizeOf[s[n]]
  BY <1>4, Zenon
<1> DEFINE S == {n \in Nat : n <= Len(s) => g[n] = f[n]}
<1>7. S = Nat
  <2>1. 0 \in S
    BY <1>0, <1>2, <1>6
  <2>2. ASSUME NEW n \in S PROVE n + 1 \in S
    <3> SUFFICES ASSUME n + 1 <= Len(s) PROVE g[n + 1] = f[n + 1]
      OBVIOUS
    <3>1. /\ n \in Nat /\ n + 1 \in 1..Len(s) /\ n + 1 \in 0..Len(s) /\ n + 1 # 0
          /\ (n + 1) - 1 = n /\ n <= Len(s)
      BY <1>0
    <3>2. g[n + 1] = g[n] + SizeOf[s[n + 1]]
      BY <1>6, <3>1
    <3>3. f[n + 1] = f[n] + SizeOf[s[n + 1]]
      BY <1>2, <3>1
    <3>4. g[n] = f[n]
      BY <3>1
    <3> QED BY <3>2, <3>3, <3>4
  <2>3. S \in SUBSET Nat /\ \A n \in S : n + 1 \in S
    BY <2>2
  <2> HIDE DEF S
  <2> QED BY <2>1, <2>3, AllNat
<1>8. Len(s) \in S
  BY <1>0, <1>7
<1>9. g[Len(s)] = f[Len(s)]
  BY <1>0, <1>8
<1> QED BY <1>1, <1>5, <1>9

\* The size of nothing, of one item, and of two parts.
LEMMA SumEmpty == SumOf(<<>>) = 0
<1>1. <<>> \in Seq(Items) /\ Len(<<>>) = 0
  BY EmptySeq
<1>2. PICK f : Counts(f, <<>>, Len(<<>>)) /\ SumOf(<<>>) = f[Len(<<>>)]
  BY <1>1, SumCounts
<1> QED BY <1>1, <1>2 DEF Counts

LEMMA SumOne ==
  ASSUME NEW i \in Items
  PROVE  SumOf(<<i>>) = SizeOf[i]
<1> DEFINE s == <<i>>
<1>1. s \in Seq(Items) /\ Len(s) = 1 /\ s[1] = i /\ SizeOf[i] \in Nat
  BY SizeAssumption
<1> HIDE DEF s
<1>2. PICK f : Counts(f, s, Len(s)) /\ SumOf(s) = f[Len(s)]
  BY <1>1, SumCounts
<1>3. f[0] = 0 /\ \A n \in 1..1 : f[n] = f[n - 1] + SizeOf[s[n]]
  BY <1>1, <1>2 DEF Counts
<1>4. f[1] = f[0] + SizeOf[s[1]]
  BY <1>3
<1>5. SumOf(s) = SizeOf[i]
  BY <1>1, <1>2, <1>3, <1>4
<1> QED BY <1>5 DEF s

LEMMA SumNat ==
  ASSUME NEW s \in Seq(Items)
  PROVE  SumOf(s) \in Nat
<1>1. PICK f : Counts(f, s, Len(s)) /\ SumOf(s) = f[Len(s)]
  BY SumCounts
<1>2. Len(s) \in 0..Len(s)
  BY LenProperties
<1> QED BY <1>1, <1>2 DEF Counts

LEMMA SumParts ==
  ASSUME NEW s \in Seq(Items), NEW t \in Seq(Items)
  PROVE  SumOf(s \o t) = SumOf(s) + SumOf(t)
<1> DEFINE u == s \o t
<1>1. /\ u \in Seq(Items) /\ Len(u) = Len(s) + Len(t) /\ Len(s) \in Nat /\ Len(t) \in Nat
      /\ \A n \in 1..Len(u) : u[n] = IF n <= Len(s) THEN s[n] ELSE t[n - Len(s)]
  BY ConcatProperties, LenProperties
<1>2. /\ \A n \in 1..Len(s) : s[n] \in Items
      /\ \A n \in 1..Len(t) : t[n] \in Items
  BY LenProperties
<1>3. \A i \in Items : SizeOf[i] \in Nat
  BY SizeAssumption
<1> HIDE DEF u
<1>4. PICK f : Counts(f, s, Len(s)) /\ SumOf(s) = f[Len(s)]
  BY SumCounts
<1>5. PICK h : Counts(h, t, Len(t)) /\ SumOf(t) = h[Len(t)]
  BY SumCounts
<1>6. PICK g : Counts(g, u, Len(u)) /\ SumOf(u) = g[Len(u)]
  BY <1>1, SumCounts
<1>7. g[Len(s)] = f[Len(s)]
  <2>1. Counts(g, u, Len(s))
    <3>1. /\ (\A n \in 0..Len(u) : g[n] \in Nat) /\ g[0] = 0
          /\ \A n \in 1..Len(u) : g[n] = g[n - 1] + SizeOf[u[n]]
      BY <1>6 DEF Counts
    <3> QED BY <1>1, <3>1 DEF Counts
  <2>2. Aligned(0, Len(s), u, s)
    BY <1>1, <1>2, <1>3 DEF Aligned
  <2>3. 0 \in Nat /\ Len(s) \in Nat /\ Len(s) = 0 + Len(s)
    BY <1>1
  <2>4. g[Len(s)] = g[0] + f[Len(s)]
    BY <1>4, <2>1, <2>2, <2>3, SameGrowth
  <2>5. g[0] = 0 /\ f[Len(s)] \in Nat
    BY <1>1, <1>4, <1>6 DEF Counts
  <2> QED BY <2>4, <2>5
<1>8. g[Len(u)] = g[Len(s)] + h[Len(t)]
  <2>1. Aligned(Len(s), Len(t), u, t)
    <3> SUFFICES ASSUME NEW n \in 1..Len(t) PROVE u[Len(s) + n] = t[n] /\ SizeOf[t[n]] \in Nat
      BY DEF Aligned
    <3>1. Len(s) + n \in 1..Len(u) /\ ~(Len(s) + n <= Len(s)) /\ (Len(s) + n) - Len(s) = n
      BY <1>1
    <3>2. u[Len(s) + n] = t[(Len(s) + n) - Len(s)]
      BY <1>1, <3>1
    <3>3. SizeOf[t[n]] \in Nat
      BY <1>2, <1>3
    <3> QED BY <3>1, <3>2, <3>3
  <2> QED BY <1>1, <1>5, <1>6, <2>1, SameGrowth
<1> QED BY <1>1, <1>4, <1>5, <1>6, <1>7, <1>8 DEF u

-----------------------------------------------------------------------------
(* The bounds of the buffer                                                *)

\* What is buffered is counted and within both bounds; whoever waits to write
\* waits behind something, and would fit by itself.
InBounds ==
  /\ size = SumOf(items)
  /\ Len(items) <= options.capacity
  /\ size <= options.maxSize \/ (options.oversized /\ Len(items) = 1)
  /\ writers # <<>> => items # <<>> /\ state = "open"
  /\ \A i \in ToSet(writers) : SizeOf[i] <= options.maxSize \/ options.oversized

\* The limits of a channel.
LEMMA Limits ==
  ASSUME Typed
  PROVE  /\ options.capacity \in Nat \ {0} /\ options.maxSize \in Nat \ {0}
         /\ options.oversized \in BOOLEAN
BY OptionsAssumption DEF Typed

\* Room for one more keeps the bounds.
LEMMA OneMore ==
  ASSUME Typed, NEW buffer \in Seq(Items), NEW i \in Items, CanBuffer(buffer, SumOf(buffer), i)
  PROVE  /\ SumOf(Append(buffer, i)) = SumOf(buffer) + SizeOf[i]
         /\ Len(Append(buffer, i)) <= options.capacity
         /\ \/ SumOf(Append(buffer, i)) <= options.maxSize
            \/ options.oversized /\ Len(Append(buffer, i)) = 1
<1> DEFINE t == <<i>>
<1>1. t \in Seq(Items) /\ Append(buffer, i) = buffer \o t /\ SumOf(t) = SizeOf[i]
  BY SumOne, AppendIsConcat
<1> HIDE DEF t
<1>2. SumOf(Append(buffer, i)) = SumOf(buffer) + SizeOf[i]
  BY <1>1, SumParts
<1>3. Len(Append(buffer, i)) = Len(buffer) + 1 /\ Len(buffer) \in Nat
  BY AppendProperties, LenProperties
<1>4. buffer = <<>> => Len(buffer) = 0
  BY EmptySeq
<1>5. /\ Len(buffer) < options.capacity
      /\ \/ SumOf(buffer) + SizeOf[i] <= options.maxSize
         \/ options.oversized /\ buffer = <<>>
  BY DEF CanBuffer
<1> QED BY <1>2, <1>3, <1>4, <1>5, Limits

\* An empty buffer has room for whatever fits by itself.
LEMMA EmptyHasRoom ==
  ASSUME Typed, NEW i \in Items, SizeOf[i] <= options.maxSize \/ options.oversized
  PROVE  CanBuffer(<<>>, 0, i)
<1>1. Len(<<>>) = 0 /\ SizeOf[i] \in Nat
  BY EmptySeq, SizeAssumption
<1> QED BY <1>1, Limits DEF CanBuffer

\* What a read leaves: the tail of the buffer and a prefix of the writers, as many
\* as fit.
LEMMA TakeFits ==
  ASSUME IInv, NEW c \in Consumers, Take(c)
  PROVE  \E n \in 0..Len(writers) :
           LET room(m) == SubSeq(writers, 1, m)
               fits(m) == CanBuffer(Tail(items) \o room(m - 1),
                                    (size - SizeOf[Head(items)]) + SumOf(room(m - 1)), writers[m])
           IN /\ \A m \in 1..n : fits(m)
              /\ n < Len(writers) => ~fits(n + 1)
              /\ writers' = SubSeq(writers, n + 1, Len(writers))
              /\ items' = Tail(items) \o room(n)
              /\ size' = (size - SizeOf[Head(items)]) + SumOf(room(n))
<1> USE DEF IInv
<1>0. items # <<>> /\ readers = <<>> /\ items \in Seq(Items) /\ writers \in Seq(Items)
  BY DEF Take, Typed, Reading, ReadsWaitForNothing
<1>a. Len(writers) \in Nat /\ Len(readers) = 0
  BY <1>0, LenProperties, EmptySeq
<1>b. /\ (IF Len(readers) < Len(writers) THEN Len(readers) ELSE Len(writers)) = 0
      /\ SubSeq(writers, 0 + 1, Len(writers)) = writers
  BY <1>0, <1>a, SubSeqFull
<1> DEFINE k     == IF Len(readers) < Len(writers) THEN Len(readers) ELSE Len(writers)
           rest  == SubSeq(writers, k + 1, Len(writers))
           total == size - SizeOf[Head(items)]
           fits(m) == CanBuffer(Tail(items) \o SubSeq(rest, 1, m - 1),
                                total + SumOf(SubSeq(rest, 1, m - 1)), rest[m])
<1>c. PICK n \in 0..Len(rest) :
        /\ \A m \in 1..n : fits(m)
        /\ n < Len(rest) => ~fits(n + 1)
        /\ writers' = SubSeq(rest, n + 1, Len(rest))
        /\ items' = Tail(items) \o SubSeq(rest, 1, n)
        /\ size' = total + SumOf(SubSeq(rest, 1, n))
  BY DEF Take, AdmitWriters
<1>d. rest = writers
  BY <1>b
<1> HIDE DEF rest, k
<1> QED BY <1>c, <1>d

\* A prefix that is one longer.
LEMMA LongerPrefix ==
  ASSUME NEW s \in Seq(Items), NEW n \in 1..Len(s)
  PROVE  /\ SubSeq(s, 1, n) = Append(SubSeq(s, 1, n - 1), s[n])
         /\ SubSeq(s, 1, n - 1) \in Seq(Items) /\ s[n] \in Items
<1>1. Len(s) \in Nat /\ n \in Nat
  BY LenProperties
<1>2. \A m \in 1..Len(s) : s[m] \in Items
  BY LenProperties
<1> DEFINE a == SubSeq(s, 1, n)
           b == SubSeq(s, 1, n - 1)
<1>3. a \in Seq(Items) /\ Len(a) = n /\ \A m \in 1..n : a[m] = s[m]
  BY <1>1, SubSeqProperties
<1>4. b \in Seq(Items) /\ Len(b) = n - 1 /\ \A m \in 1..n - 1 : b[m] = s[m]
  BY <1>1, SubSeqProperties
<1> HIDE DEF a, b
<1>5. s[n] \in Items
  BY <1>2
<1>6. /\ Append(b, s[n]) \in Seq(Items) /\ Len(Append(b, s[n])) = n
      /\ \A m \in 1..n - 1 : Append(b, s[n])[m] = s[m]
      /\ Append(b, s[n])[n] = s[n]
  BY <1>1, <1>4, <1>5, AppendProperties
<1>7. a = Append(b, s[n])
  BY <1>1, <1>3, <1>6, SeqEqual
<1> QED BY <1>4, <1>5, <1>7 DEF a, b

\* A read makes room, and the writers that fit fill it.
LEMMA TakeInBounds ==
  ASSUME IInv, InBounds, NEW c \in Consumers, Take(c)
  PROVE  InBounds'
<1>0. /\ Typed /\ items # <<>> /\ items \in Seq(Items) /\ writers \in Seq(Items)
      /\ options' = options /\ state' = state
  BY DEF IInv, Take, Typed
<1> DEFINE h == <<Head(items)>>
           t == Tail(items)
           w == writers
           room(m) == SubSeq(w, 1, m)
           fits(m) == CanBuffer(t \o room(m - 1), SumOf(t) + SumOf(room(m - 1)), w[m])
<1>1. Head(items) \in Items /\ h \in Seq(Items) /\ t \in Seq(Items) /\ items = h \o t
      /\ SumOf(h) = SizeOf[Head(items)]
  BY <1>0, HeadAndTail, HeadTailProperties, SumOne
<1>2. /\ SumOf(items) = SumOf(h) + SumOf(t) /\ SumOf(h) \in Nat /\ SumOf(t) \in Nat
  <2> HIDE DEF h, t
  <2> QED BY <1>1, SumParts, SumNat
<1>3. size - SizeOf[Head(items)] = SumOf(t)
  BY <1>1, <1>2 DEF InBounds
<1>4. PICK n \in 0..Len(w) :
        /\ \A m \in 1..n : fits(m)
        /\ n < Len(w) => ~fits(n + 1)
        /\ writers' = SubSeq(w, n + 1, Len(w))
        /\ items' = t \o room(n)
        /\ size' = SumOf(t) + SumOf(room(n))
  BY <1>3, TakeFits
<1>5. Len(t) = Len(items) - 1 /\ Len(items) \in Nat /\ Len(w) \in Nat
  BY <1>0, HeadTailProperties, LenProperties
<1> HIDE DEF t, h
<1>6. room(n) \in Seq(Items)
  BY <1>0, <1>5, SubSeqProperties
<1>7. size' = SumOf(items') /\ items' \in Seq(Items)
  <2> DEFINE r == room(n)
  <2>1. r \in Seq(Items) /\ items' = t \o r /\ size' = SumOf(t) + SumOf(r)
    BY <1>4, <1>6
  <2> HIDE DEF r
  <2> QED BY <1>1, <2>1, SumParts, ConcatProperties
<1>8. /\ Len(items') <= options.capacity
      /\ SumOf(items') <= options.maxSize \/ (options.oversized /\ Len(items') = 1)
  <2>1. CASE n = 0
    <3>1. room(n) = <<>>
      BY <1>0, <2>1, SubSeqEmpty
    <3>2. items' = t
      BY <1>1, <1>4, <3>1, ConcatEmptySeq
    <3>3. CASE Len(items) = 1
      <4>1. Len(t) = 0
        BY <1>5, <3>3
      <4>2. t = <<>>
        BY <1>1, <4>1, EmptySeq
      <4> QED BY <3>2, <4>1, <4>2, SumEmpty, <1>0, Limits
    <3>4. CASE size <= options.maxSize
      BY <1>2, <1>5, <3>2, <3>4, <1>0, Limits DEF InBounds
    <3> QED BY <3>3, <3>4 DEF InBounds
  <2>2. CASE n # 0
    <3>1. n \in 1..Len(w)
      BY <1>5, <2>2
    <3> DEFINE b == room(n - 1)
               i == w[n]
    <3>2. room(n) = Append(b, i) /\ b \in Seq(Items) /\ i \in Items
      BY <1>0, <3>1, LongerPrefix
    <3>3. CanBuffer(t \o b, SumOf(t) + SumOf(b), i)
      BY <1>4, <3>1
    <3> HIDE DEF b, i
    <3> DEFINE buffer == t \o b
    <3>4. buffer \in Seq(Items) /\ SumOf(buffer) = SumOf(t) + SumOf(b)
      BY <1>1, <3>2, SumParts, ConcatProperties
    <3>5. items' = Append(buffer, i)
      <4> DEFINE o == <<i>>
                 r == Append(b, i)
      <4>1. o \in Seq(Items) /\ r = b \o o /\ Append(buffer, i) = buffer \o o
        BY <3>2, <3>4, AppendIsConcat
      <4>2. items' = t \o r
        BY <1>4, <3>2
      <4>3. buffer = t \o b
        OBVIOUS
      <4> HIDE DEF o, r, buffer
      <4>4. buffer \o o = t \o r
        <5>1. t \in Seq(Items) /\ b \in Seq(Items) /\ o \in Seq(Items)
          BY <1>1, <3>2, <4>1
        <5>2. r = b \o o
          BY <4>1
        <5> QED BY <5>1, <5>2, <4>3, Regroup, SMTT(60)
      <4> QED BY <4>1, <4>2, <4>4
    <3> HIDE DEF buffer
    <3>6. CanBuffer(buffer, SumOf(buffer), i)
      BY <3>3, <3>4 DEF buffer
    <3> QED BY <1>0, <3>2, <3>4, <3>5, <3>6, OneMore
  <2> QED BY <2>1, <2>2
<1>9. ASSUME writers' # <<>> PROVE items' # <<>> /\ state = "open" /\ w # <<>>
  <2>1. n < Len(w)
    <3>1. SUFFICES ASSUME ~(n < Len(w)) PROVE FALSE
      OBVIOUS
    <3>2. n = Len(w)
      BY <1>5, <3>1
    <3>3. writers' = <<>>
      BY <1>0, <1>4, <1>5, <3>2, SubSeqEmpty
    <3> QED BY <1>9, <3>3
  <2>2. w # <<>>
    BY <1>5, <2>1, EmptySeq
  <2>3. SUFFICES ASSUME items' = <<>> PROVE FALSE
    BY <2>2 DEF InBounds
  <2> DEFINE r == room(n)
  <2>4. r \in Seq(Items) /\ items' = t \o r
    BY <1>4, <1>6
  <2>5. ~CanBuffer(t \o r, SumOf(t) + SumOf(r), w[n + 1])
    <3>1. (n + 1) - 1 = n
      OBVIOUS
    <3> QED BY <1>4, <2>1, <3>1
  <2>6. size' = SumOf(t) + SumOf(r)
    BY <1>4
  <2> HIDE DEF r
  <2>7. ~CanBuffer(<<>>, 0, w[n + 1])
    BY <1>7, <2>3, <2>4, <2>5, <2>6, SumEmpty
  <2>8. w[n + 1] \in Items /\ w[n + 1] \in ToSet(w)
    BY <1>0, <1>5, <2>1, LenProperties DEF ToSet
  <2>9. SizeOf[w[n + 1]] <= options.maxSize \/ options.oversized
    BY <2>8 DEF InBounds
  <2> QED BY <1>0, <2>7, <2>8, <2>9, EmptyHasRoom
<1>10. ToSet(writers') \subseteq ToSet(w)
  <2>1. \A m \in 1..Len(w) - n : writers'[m] = w[m + n] /\ m + n \in 1..Len(w)
    BY <1>0, <1>4, <1>5, SubSeqProperties
  <2>2. writers' \in Seq(Items) /\ Len(writers') = Len(w) - n
    BY <1>0, <1>4, <1>5, SubSeqProperties
  <2>3. DOMAIN writers' = 1..Len(w) - n /\ DOMAIN w = 1..Len(w)
    BY <1>0, <2>2, LenProperties
  <2> QED BY <2>1, <2>3 DEF ToSet
<1> QED BY <1>0, <1>7, <1>8, <1>9, <1>10 DEF InBounds

\* Every other step.
LEMMA StepInBounds == IInv /\ InBounds /\ [Next]_vars => InBounds'
<1> SUFFICES ASSUME IInv, InBounds, [Next]_vars PROVE InBounds'
  OBVIOUS
<1>0. Typed /\ items \in Seq(Items) /\ writers \in Seq(Items) /\ size = SumOf(items)
      /\ IsInjective(writers)
  BY DEF IInv, Typed, InBounds, Writing
<1>e. ToSet(<<>>) = {}
  BY EmptyOnce
<1>1. CASE Close \/ Fail
  BY <1>1, <1>e DEF Close, Fail, InBounds
<1>2. ASSUME NEW i \in Items, Abort(i) PROVE InBounds'
  <2>1. PICK n \in DOMAIN writers : writers[n] = i /\ writers' = RemoveAt(writers, n)
    BY <1>2 DEF Abort
  <2>2. ToSet(writers') = ToSet(writers) \ {i}
    BY <1>0, <2>1, Without
  <2>3. writers # <<>>
    BY <2>1, <1>e DEF ToSet
  <2> QED BY <1>2, <2>2, <2>3 DEF Abort, InBounds
<1>3. ASSUME NEW i \in Items, NEW aborted \in BOOLEAN, Push(i, aborted) PROVE InBounds'
  <2>1. CASE UNCHANGED <<options, items, size, writers, state>>
    BY <2>1 DEF InBounds
  <2>2. CASE /\ state = "open" /\ CanBuffer(items, size, i)
             /\ Buffer(i) /\ UNCHANGED <<options, writers, state>>
    <3>1. items' = Append(items, i) /\ size' = size + SizeOf[i]
      BY <2>2 DEF Buffer
    <3>2. CanBuffer(items, SumOf(items), i)
      BY <1>0, <2>2
    <3>3. /\ size' = SumOf(items') /\ Len(items') <= options.capacity
          /\ SumOf(items') <= options.maxSize \/ (options.oversized /\ Len(items') = 1)
      BY <1>0, <3>1, <3>2, OneMore
    <3>4. items' # <<>>
      BY <1>0, <3>1, AppendProperties
    <3> QED BY <2>2, <3>3, <3>4 DEF InBounds
  <2>3. CASE /\ state = "open"
             /\ SizeOf[i] <= options.maxSize \/ options.oversized
             /\ ~CanBuffer(items, size, i)
             /\ writers' = Append(writers, i) /\ UNCHANGED <<options, items, size, state>>
    <3>1. items # <<>>
      BY <1>0, <2>3, SumEmpty, EmptyHasRoom
    <3>2. ToSet(writers') = ToSet(writers) \cup {i}
      BY <1>0, <2>3, AppendSet
    <3> QED BY <2>3, <3>1, <3>2 DEF InBounds
  <2> QED BY <1>3, <2>1, <2>2, <2>3 DEF Push, channel
<1>4. ASSUME NEW c \in Consumers, Take(c) PROVE InBounds'
  BY <1>4, TakeInBounds
<1>5. ASSUME NEW c \in Consumers, Await(c) PROVE InBounds'
  <2>1. writers = <<>>
    BY <1>5 DEF Await, InBounds
  <2> QED BY <1>5, <2>1 DEF Await, InBounds
<1>6. ASSUME NEW c \in Consumers, End(c) \/ Leave(c) PROVE InBounds'
  BY <1>6 DEF End, Leave, channel, InBounds
<1>7. CASE UNCHANGED vars
  BY <1>7 DEF vars, channel, InBounds
<1> QED BY <1>1, <1>2, <1>3, <1>4, <1>5, <1>6, <1>7 DEF Next

\* Both bounds hold of what is buffered, an oversized item is alone in the
\* buffer, and a push is pending only behind something buffered in an open channel
\* (#canBuffer(), push() and #admitWriters(), async-channel.ts).
THEOREM BoundsAreKept == Spec => []BufferIsUsed
<1>1. Init => InBounds
  <2> SUFFICES ASSUME Init PROVE InBounds
    OBVIOUS
  <2>1. Typed
    BY Initially DEF IInv
  <2>2. Len(<<>>) = 0
    BY EmptySeq
  <2> QED BY <2>1, <2>2, SumEmpty, EmptyOnce, Limits DEF Init, InBounds
<1>2. IInv /\ InBounds => BufferIsUsed
  <2> SUFFICES ASSUME IInv, InBounds PROVE BufferIsUsed
    OBVIOUS
  <2>1. size \in Nat
    BY SumNat DEF IInv, Typed, InBounds
  <2> QED BY <2>1 DEF IInv, Typed, TypeOK, Writing, InBounds, BufferIsUsed
<1>3. Spec => []InBounds
  BY <1>1, Always, StepInBounds, PTL DEF Spec
<1> QED BY <1>2, <1>3, Always, PTL
=============================================================================

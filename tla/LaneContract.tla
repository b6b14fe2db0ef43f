---------------------------- MODULE LaneContract ----------------------------
(***************************************************************************)
(* What a bounded work lane promises its users, with no queue in it: a     *)
(* submitted item is refused, waits, or runs; it never waits while a slot  *)
(* is free; at most Concurrency items run and at most MaxQueued wait; each *)
(* admitted item ends exactly once.  Which waiting item starts next is     *)
(* left open.  WorkLane implements it (packages/inference-core/src/        *)
(* bounded-work-lane.ts); InferenceScheduler is composed with it.          *)
(***************************************************************************)
EXTENDS Integers, FiniteSets

CONSTANTS Items, Concurrency, MaxQueued

VARIABLES stage,      \* where each item is
          open        \* the lane still accepts work

Ended  == {"refused", "cancelled", "completed", "failed"}
Stages == {"new", "waiting", "running"} \cup Ended

In(s) == {i \in Items : stage[i] = s}

Init ==
  /\ stage = [i \in Items |-> "new"]
  /\ open = TRUE

Refuse(i) ==
  /\ stage[i] = "new"
  /\ ~open \/ (Cardinality(In("waiting")) >= MaxQueued /\ Cardinality(In("running")) >= Concurrency)
  /\ stage' = [stage EXCEPT ![i] = "refused"]
  /\ UNCHANGED open

StartAtOnce(i) ==
  /\ stage[i] = "new" /\ open
  /\ Cardinality(In("running")) < Concurrency
  /\ stage' = [stage EXCEPT ![i] = "running"]
  /\ UNCHANGED open

Wait(i) ==
  /\ stage[i] = "new" /\ open
  /\ Cardinality(In("running")) >= Concurrency
  /\ Cardinality(In("waiting")) < MaxQueued
  /\ stage' = [stage EXCEPT ![i] = "waiting"]
  /\ UNCHANGED open

Drop(i) ==
  /\ stage[i] = "waiting"
  /\ stage' = [stage EXCEPT ![i] = "cancelled"]
  /\ UNCHANGED open

\* An item ends, and in the same step its slot goes to a waiting item.
End(i, how) ==
  /\ stage[i] = "running"
  /\ \/ /\ In("waiting") = {}
        /\ stage' = [stage EXCEPT ![i] = how]
     \/ \E w \in In("waiting") : stage' = [stage EXCEPT ![i] = how, ![w] = "running"]
  /\ UNCHANGED open

DropAll(stillOpen) ==
  /\ stage' = [i \in Items |-> IF stage[i] = "waiting" THEN "cancelled" ELSE stage[i]]
  /\ open' = stillOpen

Next ==
  \/ \E i \in Items : Refuse(i) \/ StartAtOnce(i) \/ Wait(i) \/ Drop(i)
  \/ \E i \in Items, how \in Ended \ {"refused"} : End(i, how)
  \/ DropAll(open)
  \/ DropAll(FALSE)

Spec == Init /\ [][Next]_<<stage, open>>
=============================================================================

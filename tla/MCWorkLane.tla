----------------------------- MODULE MCWorkLane -----------------------------
(* Four jobs of two users on a lane of two executors with one waiting place.  *)
EXTENDS WorkLane

CONSTANTS a1, a2, b1, b2, ann, bob

MCOwnerOf == [i \in Items |-> IF i \in {a1, a2} THEN ann ELSE bob]
=============================================================================

---------------------------- MODULE MCFairQueue -----------------------------
(* Three owners, two of them with two items each.                          *)
EXTENDS FairQueue

CONSTANTS a1, a2, b1, b2, c1, ann, bob, cid

MCOwnerOf ==
  [i \in Items |-> CASE i \in {a1, a2} -> ann [] i \in {b1, b2} -> bob [] i = c1 -> cid]
=============================================================================

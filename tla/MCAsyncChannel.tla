--------------------------- MODULE MCAsyncChannel ---------------------------
(* Small items, one as large as the smaller buffer and one larger than it. *)
EXTENDS AsyncChannel

CONSTANTS p, q, r, s, c1, c2

MCSizeOf == [i \in Items |-> CASE i \in {p, q} -> 1 [] i = r -> 2 [] i = s -> 3]

MCOptions == [capacity : {1, 2}, maxSize : {2, 3}, oversized : BOOLEAN]
=============================================================================

---------------------------- MODULE MCLifecycle -----------------------------
(* One pinned text model, a second text model and an image model.           *)
EXTENDS LifecycleManager

CONSTANTS chatty, other, paint

MCMaxGenerations == [r \in Recipes |-> 1]
MCBatch          == [r \in Recipes |-> IF r = chatty THEN 2 ELSE 1]

\* Slots are interchangeable, and so are engine identities.
Symmetry == Permutations(Slots) \cup Permutations(Engines)
=============================================================================

---------------------------- MODULE MCScheduler -----------------------------
(* Up to four jobs: two chats on the pinned model, a picture, a recipe test,  *)
(* a warm-up of the pinned model.                                             *)
EXTENDS InferenceScheduler, TLC

CONSTANTS chat1, chat2, picture, picture2, trial, warmup, default, other, paint

MCKindOf == [j \in Jobs |-> CASE j \in {chat1, chat2} -> "chat"
                             [] j \in {picture, picture2} -> "media"
                             [] j = trial -> "test"
                             [] j = warmup -> "warm"]
MCRecipeOf == [j \in Jobs |-> CASE j \in {chat1, chat2, warmup} -> default
                               [] j \in {picture, picture2} -> paint
                               [] j = trial -> other]
MCMaxGenerations == [r \in TextRecipes \cup MediaRecipes |-> IF r = default THEN 2 ELSE 1]

\* Engine identities are interchangeable.
Symmetry == Permutations(Engines)
=============================================================================

------------------------------- MODULE MCTrial -------------------------------
(* A warm-up loads the Default and a recipe test displaces it.  The history    *)
(* variable `displaced` holds the tests for which a loaded Default was stopped. *)
EXTENDS MCScheduler

VARIABLE displaced

trialVars == <<schedulerVars, displaced>>

TrialInit == SchedulerInit /\ displaced = {}

\* The Default's engine has been stopped for the test's recipe.
Displaces(j) ==
  /\ KindOf[j] = "test" /\ At(j, "stopOld")
  /\ recipe = pinned /\ handle \in alive
  /\ recipe' = RecipeOf[j] /\ alive' = {}

TrialNext ==
  /\ SchedulerNext
  /\ displaced' = displaced \cup {j \in Jobs : Displaces(j)}

TrialSpec == TrialInit /\ [][TrialNext]_trialVars

\* docs/model-residency.md: "An exact local recipe test may temporarily displace
\* Default, but Default is restored before the test completes."  A test that
\* displaced the Default, and that nobody stops by quiesce() or shutdown(), does not
\* end with its own engine left in the Default's place.
TestRestoresDefault ==
  [][\A j \in displaced :
       step[j] # "done" /\ step'[j] = "done" /\ ~Quiescing /\ closing = "open"
       => ~(recipe = RecipeOf[j] /\ handle \in alive)]_trialVars
=============================================================================

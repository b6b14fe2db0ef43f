CONSTANTS
  chat1 = chat1
  chat2 = chat2
  picture = picture
  picture2 = picture2
  trial = trial
  warmup = warmup
  default = default
  other = other
  paint = paint
  Slots = {picture, trial}
  KindOf <- MCKindOf
  RecipeOf <- MCRecipeOf
  Concurrency = 2
  MaxQueued = 1
  Admin = admin
  Hosts = {quiescer, closer}
  Quiescer = quiescer
  Closer = closer
  Evictor = evictor
  TextRecipes = {default, other}
  MediaRecipes = {paint}
  Evictable = {other}
  Defaults = {default, other}
  MaxGenerations <- MCMaxGenerations
  Engines = {e1, e2}
  StopOutcomes = {"stopped"}
  ThermalTrips = TRUE
  NoRecipe = NoRecipe
  NoEngine = NoEngine
SPECIFICATION SchedulerSpec
SYMMETRY Symmetry
CHECK_DEADLOCK FALSE
INVARIANTS
  BarrierHolds
  EndedMeansReleased
  DefaultComesBack
PROPERTY
  StoppedMeansEmpty

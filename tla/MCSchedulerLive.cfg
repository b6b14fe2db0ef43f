CONSTANTS
  chat1 = chat1
  chat2 = chat2
  picture = picture
  picture2 = picture2
  trial = trial
  warmup = warmup
  default = default
  other = other
  paint = paint
  Slots = {chat1, picture}
  KindOf <- MCKindOf
  RecipeOf <- MCRecipeOf
  Concurrency = 2
  MaxQueued = 1
  Admin = admin
  Hosts = {quiescer, closer}
  Quiescer = quiescer
  Closer = closer
  Evictor = evictor
  TextRecipes = {default}
  MediaRecipes = {paint}
  Evictable = {default}
  Defaults = {default}
  MaxGenerations <- MCMaxGenerations
  Engines = {e1}
  StopOutcomes = {"stopped"}
  ThermalTrips = FALSE
  NoRecipe = NoRecipe
  NoEngine = NoEngine
SPECIFICATION SchedulerFairSpec
CHECK_DEADLOCK FALSE
PROPERTIES
  WorkEnds
  BarrierEnds

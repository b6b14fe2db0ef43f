CONSTANTS
  chat1 = chat1
  chat2 = chat2
  picture = picture
  picture2 = picture2
  trial = trial
  warmup = warmup
  default = default
  other = other
  paint = paint
  Slots = {warmup, trial}
  KindOf <- MCKindOf
  RecipeOf <- MCRecipeOf
  Concurrency = 1
  MaxQueued = 1
  Admin = admin
  Hosts = {quiescer, closer}
  Quiescer = quiescer
  Closer = closer
  Evictor = evictor
  TextRecipes = {default, other}
  MediaRecipes = {paint}
  Evictable = {default, other}
  Defaults = {default}
  MaxGenerations <- MCMaxGenerations
  Engines = {e1, e2}
  StopOutcomes = {"stopped"}
  ThermalTrips = FALSE
  NoRecipe = NoRecipe
  NoEngine = NoEngine
SPECIFICATION TrialSpec
CHECK_DEADLOCK FALSE
PROPERTY
  TestRestoresDefault

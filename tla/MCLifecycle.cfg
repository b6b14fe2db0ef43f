CONSTANTS
  chatty = chatty
  other = other
  paint = paint
  Slots = {s1, s2}
  Admin = admin
  Hosts = {host}
  Evictor = evictor
  TextRecipes = {chatty}
  MediaRecipes = {paint}
  Evictable = {chatty}
  Defaults = {chatty}
  MaxGenerations <- MCBatch
  Engines = {e1, e2, e3}
  StopOutcomes = {"stopped", "survived", "threw"}
  ThermalTrips = FALSE
  NoRecipe = NoRecipe
  NoEngine = NoEngine
SPECIFICATION Spec
SYMMETRY Symmetry
INVARIANTS
  TypeOK
  EnginesAreKnown
  GenerationOwnsInstance
  LeasesCountHolders
  GenerationLimit
  WaitersHaveWaker
  EvictionIsTimely

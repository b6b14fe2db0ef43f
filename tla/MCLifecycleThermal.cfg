CONSTANTS
  chatty = chatty
  other = other
  paint = paint
  Slots = {s1, s2}
  Admin = admin
  Hosts = {host}
  Evictor = evictor
  TextRecipes = {chatty}
  MediaRecipes = {paint}
  Evictable = {chatty}
  Defaults = {chatty}
  MaxGenerations <- MCBatch
  Engines = {e1, e2}
  StopOutcomes = {"stopped"}
  ThermalTrips = TRUE
  NoRecipe = NoRecipe
  NoEngine = NoEngine
SPECIFICATION Spec
SYMMETRY Symmetry
INVARIANT
  GenerationOwnsInstance

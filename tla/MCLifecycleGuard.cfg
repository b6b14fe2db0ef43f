CONSTANTS
  chatty = chatty
  other = other
  paint = paint
  Slots = {s1}
  Admin = admin
  Hosts = {host}
  Evictor = evictor
  TextRecipes = {chatty}
  MediaRecipes = {paint}
  Evictable = {chatty}
  Defaults = {chatty}
  MaxGenerations <- MCBatch
  Engines = {e1, e2, e3}
  StopOutcomes = {"stopped", "survived", "threw"}
  ThermalTrips = TRUE
  NoRecipe = NoRecipe
  NoEngine = NoEngine
SPECIFICATION Spec
SYMMETRY Symmetry
INVARIANTS
  UnloadIsSafe

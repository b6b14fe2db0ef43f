CONSTANTS
  a1 = a1
  a2 = a2
  b1 = b1
  ann = ann
  bob = bob
  home = home
  Runs = {a1, a2, b1}
  Workspaces = {home}
  WorkspaceOf <- MCWorkspaceOf
  l1 = l1
  l2 = l2
  Locks = {l1, l2}
  NoLock = NoLock
  Owners = {ann, bob}
  OwnerOf <- MCOwnerOf
  NoOwner = NoOwner
  NoRun = NoRun
  MaxDepth = 2
  MaxConcurrent = 2
  MaxConcurrentPerOwner = 1
  MaxRestarts = 2
SPECIFICATION Spec
SYMMETRY Alike
CHECK_DEADLOCK FALSE
INVARIANTS
  ExclusiveLeases
  MemoryMatchesStore
  WorkConserving
  EndedTextIsSaved
  ContinuedOnce
  NothingOutlivesItsCall
PROPERTIES
  OutcomeIsFinal
  ShutdownIsComplete

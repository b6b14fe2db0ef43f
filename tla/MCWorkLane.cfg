CONSTANTS
  a1 = a1
  a2 = a2
  b1 = b1
  b2 = b2
  ann = ann
  bob = bob
  Items = {a1, a2, b1, b2}
  Owners = {ann, bob}
  OwnerOf <- MCOwnerOf
  NoOwner = NoOwner
  NoItem = NoItem
  Concurrency = 2
  MaxQueued = 1
  Closers = {c1}
  Drainers = {d1}
SPECIFICATION FairSpec
CHECK_DEADLOCK FALSE
INVARIANTS
  WorkConserving
  SettledOnce
PROPERTIES
  ImplementsContract
  LaneComesToRest

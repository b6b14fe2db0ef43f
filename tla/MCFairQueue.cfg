CONSTANTS
  a1 = a1
  a2 = a2
  b1 = b1
  b2 = b2
  c1 = c1
  ann = ann
  bob = bob
  cid = cid
  Items = {a1, a2, b1, c1}
  Owners = {ann, bob, cid}
  OwnerOf <- MCOwnerOf
  NoOwner = NoOwner
  NoItem = NoItem
  PerOwner = 1
SPECIFICATION FairSpec
INVARIANTS
  RotationMatchesBuckets
  BoundedBypass
  SnapshotIsServiceOrder
PROPERTY
  WaitingIsServed

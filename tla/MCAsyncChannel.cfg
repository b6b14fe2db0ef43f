CONSTANTS
  p = p
  q = q
  r = r
  s = s
  c1 = c1
  c2 = c2
  Items = {p, q, r, s}
  SizeOf <- MCSizeOf
  Consumers = {c1, c2}
  Options <- MCOptions
SPECIFICATION FairSpec
INVARIANTS
  BufferIsUsed
  ReadsWaitForNothing
  AcceptedInOrder
  EndIsTold
PROPERTIES
  WritersKeepTheirTurn
  PushSettles
CHECK_DEADLOCK FALSE

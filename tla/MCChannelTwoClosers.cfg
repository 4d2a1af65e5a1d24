SPECIFICATION Spec
CONSTANTS
  a = a
  b = b
  u = u
  A = a
  B = b
  Users <- MCUser
  UserEnd <- MCUserAtA
  Senders <- MCOnlyU
  Closers <- MCOnlyB
  MoreLoops <- MCNone
  Crashes <- MCNone
  Nobody = nobody
  Capacity = 1
  LowWater = 0
  MaxSends = 2
  Empty <- MCNone
INVARIANTS
  CloseSucceeds
CHECK_DEADLOCK FALSE

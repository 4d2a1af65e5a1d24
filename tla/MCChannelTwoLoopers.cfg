SPECIFICATION Spec
CONSTANTS
  a = a
  b = b
  u = u
  A = a
  B = b
  Users <- MCUser
  UserEnd <- MCUserAtA
  Senders <- MCOnlyB
  Closers <- MCNone
  MoreLoops <- MCOnlyU
  Crashes <- MCNone
  Nobody = nobody
  Capacity = 2
  LowWater = 0
  MaxSends = 2
  Empty <- MCNone
PROPERTIES
  PipeIsSafe
CHECK_DEADLOCK FALSE

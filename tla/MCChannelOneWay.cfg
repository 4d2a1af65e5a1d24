SPECIFICATION Spec
CONSTANTS
  a = a
  b = b
  u = u
  A = a
  B = b
  Users <- MCUser
  UserEnd <- MCUserAtA
  Senders <- MCAtA
  Closers <- MCOnlyU
  MoreLoops <- MCNone
  Crashes <- MCOnlyA
  Nobody = nobody
  Capacity = 2
  LowWater = 0
  MaxSends = 4
  Empty <- MCNone
PROPERTIES
  PipeDelivers
  HangUpIsNoticed
CHECK_DEADLOCK FALSE

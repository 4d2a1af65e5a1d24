SPECIFICATION Spec
CONSTANTS
  a = a
  b = b
  u = u
  A = a
  B = b
  Users <- MCUser
  UserEnd <- MCUserAtA
  Senders <- MCUandB
  Closers <- MCNone
  MoreLoops <- MCNone
  Crashes <- MCNone
  Nobody = nobody
  Capacity = 1
  LowWater = 0
  MaxSends = 2
  Empty <- MCNone
PROPERTIES
  ReadsDoNotBlock
CHECK_DEADLOCK FALSE

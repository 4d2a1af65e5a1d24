SPECIFICATION Spec
CONSTANTS
  a = a
  b = b
  u = u
  A = a
  B = b
  Users <- MCUser
  UserEnd <- MCUserAtA
  Senders <- MCOnlyA
  Closers <- MCOnlyU
  MoreLoops <- MCNone
  Crashes <- MCNone
  Nobody = nobody
  Capacity = 1
  LowWater = 0
  MaxSends = 2
  Empty <- MCNone
INVARIANTS
  PollCanReturn
CHECK_DEADLOCK FALSE

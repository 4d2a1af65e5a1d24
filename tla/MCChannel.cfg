SPECIFICATION Spec
CONSTANTS
  a = a
  b = b
  u = u
  A = a
  B = b
  Users <- MCUser
  UserEnd <- MCUserAtA
  Senders <- MCUandB
  Closers <- MCAll
  MoreLoops <- MCNone
  Crashes <- MCOnlyB
  Nobody = nobody
  Capacity = 2
  LowWater = 0
  MaxSends = 3
  Empty <- MCThird
INVARIANTS
  TypeOK
  NotifiedOnce
  NothingLost
  EofIsComplete
PROPERTIES
  PipeIsSafe
CHECK_DEADLOCK FALSE

SPECIFICATION Spec
CONSTANTS
  a = a
  b = b
  u = u
  A = a
  B = b
  Users <- MCNoUsers
  UserEnd <- MCNoUserEnd
  Senders <- MCBoth
  Closers <- MCBoth
  MoreLoops <- MCNone
  Crashes <- MCNone
  Nobody = nobody
  Capacity = 2
  LowWater = 0
  MaxSends = 3
  Empty <- MCSecond
INVARIANTS
  EofIsHangUp
CHECK_DEADLOCK FALSE

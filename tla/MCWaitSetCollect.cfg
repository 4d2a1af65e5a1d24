SPECIFICATION Spec
CONSTANTS
  c1 = c1
  c2 = c2
  t1 = t1
  t2 = t2
  Channels <- MCChannels
  Timers <- MCTimers
  MaxHandle = 3
  None = none
  LateUnschedule = FALSE
  CollectInCallback = TRUE
SYMMETRY MCSymmetry
INVARIANTS
  HandlerAlive

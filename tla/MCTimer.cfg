SPECIFICATION Spec
CONSTANTS
  None = none
  t1 = t1
  t2 = t2
  l1 = l1
  l2 = l2
  Timers <- MCTimers
  Loopers <- MCLoopers
  Intervals <- MCIntervals
  Width = 3
  NSEC_PER_SEC = 2
  SharedTimers = FALSE
  ManyTimers = FALSE
INVARIANTS
  TypeOK
  PeriodIsSignalled
  ReaderDoesNotBlock
PROPERTIES
  NotEarly
  TimerFires

SPECIFICATION Spec
CONSTANTS
  Owner = owner
  None = none
  t1 = t1
  t2 = t2
  s1 = s1
  Terminators <- MCTerminators
  Sources <- MCSources
  MaxDepth = 2
  PipeCapacity = 2
  OwnFlood = FALSE
INVARIANTS
  TypeOK
  NoLostWakeup
  OneWakePipe
  ReadNeverBlocks
PROPERTIES
  KeepsContract

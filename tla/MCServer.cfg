SPECIFICATION Spec
CONSTANTS
  s1 = s1
  s2 = s2
  s3 = s3
  c1 = c1
  c2 = c2
  l1 = l1
  l2 = l2
  Servers <- MCServers
  Clients <- MCClients
  None = none
  Loopers <- MCOneLoop
  MaxPending = 1
  BindFails <- MCNone
INVARIANTS
  TypeOK
  AcceptDoesNotBlock
  ListeningIsReachable
  NameIsRemoved
PROPERTIES
  ConstructorEnds
  NoLimbo
CHECK_DEADLOCK FALSE

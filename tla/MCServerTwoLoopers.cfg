SPECIFICATION Spec
CONSTANTS
  s1 = s1
  s2 = s2
  s3 = s3
  c1 = c1
  c2 = c2
  l1 = l1
  l2 = l2
  Servers <- MCTwoServers
  Clients <- MCClients
  None = none
  Loopers <- MCTwoLoops
  MaxPending = 1
  BindFails <- MCNone
INVARIANTS
  AcceptDoesNotBlock
CHECK_DEADLOCK FALSE

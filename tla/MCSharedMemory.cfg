SPECIFICATION Spec
CONSTANTS
  o1 = o1
  o2 = o2
  o3 = o3
  n1 = n1
  n2 = n2
  Objects <- MCObjects
  Names <- MCNames
  None = none
  MaxRetries = 2
  Failures = TRUE
INVARIANTS
  TypeOK
  BackingIsPrivate
  UnlinksOwnName
  NamesAreTemporary
PROPERTIES
  ConstructorEnds
CHECK_DEADLOCK FALSE

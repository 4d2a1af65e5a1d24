SPECIFICATION Spec
CONSTANTS
  char = char
  int = int
  f1 = f1
  f2 = f2
  Types <- MCTypes
  SizeOf <- MCSizeOf
  Reservations <- MCReservations
  Width = 8
  Shifts <- MCShifts
  Garbage = garbage
  None = none
  MaxBytes = 6
  MaxControlBufferItemCount = 1
  NullIsFirst = TRUE
  Numbers <- MCNumbers
  Files <- MCFiles
INVARIANTS
  AttachmentsArrive
CHECK_DEADLOCK FALSE

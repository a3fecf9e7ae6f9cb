CONSTANTS
  None = None
  Gulps <- MCGulps
  Settings <- MCSettings
  Scale = 4
  Divisor = 2
  Floor = 1
  Window = 4
SPECIFICATION Spec
CHECK_DEADLOCK FALSE
INVARIANTS
  ShedIsFair
  RowTells
  OrderMovesBordersOnly

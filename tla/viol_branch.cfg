\* Programs of floating-point compares, branches and one integer instruction.
SPECIFICATION Spec
CONSTANTS
  Programs <- FpLoops
  Start = 4
  ExitAddr = 0
  MaxInstr = 5
  Data <- Values
  Ccs = {0, 1, 2}
  PowerUpRes <- AnyRes
  PowerUpBr <- Quiet
PROPERTIES
  OffsetOnce
CHECK_DEADLOCK FALSE

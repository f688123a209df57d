\* Every program of three instructions that keeps the rules of ProgramOK.
SPECIFICATION Spec
CONSTANTS
  Programs <- Coded
  Start = 4
  ExitAddr = 0
  MaxInstr = 7
  Data <- Values
  Ccs = {0, 1, 2}
  PowerUpRes <- AnyRes
  PowerUpBr <- AsRecorded
INVARIANTS
  CpuTypeOK
PROPERTIES
  ImplementsIsa
CHECK_DEADLOCK FALSE

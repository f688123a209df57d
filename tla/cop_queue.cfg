\* Instructions with and without operand, invalid ones, every control,
\* the row past the end of the table.
SPECIFICATION Spec
CONSTANTS
  NSvMax = 1
  NSsMax = 2
  NFu = 2
  QSize = 2
  PseudoMaxIt = 1
  Instrs <- QueueWords
  Loads <- Nothing
  Controls <- AllControls
  Stretches <- OneByOne
  Matched = FALSE
  SvLoaded = 0
  NoInstr = NoInstr
  PowerUpIr <- Quiet
  PowerUpRt <- Zero
  PowerUpCpsr <- NoFlags
  PowerUpCol <- Zero
INVARIANTS
  TypeOK
  Exclusive
  OperandPaired
  FullFlagSettled
PROPERTIES
  IssuesInOrder

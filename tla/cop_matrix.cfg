\* The operations of one least-squares matrix, two satellites loaded.
SPECIFICATION FairSpec
CONSTANTS
  NSvMax = 2
  NSsMax = 1
  NFu = 2
  QSize = 1
  PseudoMaxIt = 1
  Instrs <- MatrixWords
  Loads <- MatrixLoads
  Controls <- Nothing
  Stretches <- OneByOne
  Matched = FALSE
  SvLoaded = 2
  NoInstr = NoInstr
  PowerUpIr <- Quiet
  PowerUpRt <- Zero
  PowerUpCpsr <- NoFlags
  PowerUpCol <- Zero
INVARIANTS
  NoDataHazard
  FlagsOwned
PROPERTIES
  IssueProgress
  StallEnds

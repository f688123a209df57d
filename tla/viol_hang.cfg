\* Three independent operations for two units.
SPECIFICATION FairSpec
CONSTANTS
  NSvMax = 2
  NSsMax = 1
  NFu = 2
  QSize = 1
  PseudoMaxIt = 1
  Instrs <- HangWords
  Loads <- OneMask
  Controls <- Nothing
  Stretches <- OneByOne
  Matched = FALSE
  SvLoaded = 1
  NoInstr = NoInstr
  PowerUpIr <- Quiet
  PowerUpRt <- Zero
  PowerUpCpsr <- NoFlags
  PowerUpCol <- Zero
PROPERTIES
  IssueProgress

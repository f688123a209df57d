\* BFDC2 in raim.s: the branch may come before the test.
SPECIFICATION ProgSpec
CONSTANTS
  NSvMax = 16
  NSsMax = 17
  NFu = 2
  QSize = 16
  PseudoMaxIt = 10
  Instrs <- ClientWords
  Loads <- ClientLoads
  Controls <- Nothing
  Stretches <- ClientStretches
  Matched = TRUE
  SvLoaded = 0
  NoInstr = NoInstr
  PowerUpIr <- Quiet
  PowerUpRt <- Zero
  PowerUpCpsr <- NoFlags
  PowerUpCol <- Zero
  NSat = 6
  Constellation <- TwoConstellations
  Masks <- Halves
INVARIANTS
  GlobalVerdict
CHECK_DEADLOCK FALSE

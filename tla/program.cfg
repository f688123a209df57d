\* raim.s with the tables and the queue of the code, six satellites, every
\* order of the threads.
SPECIFICATION ProgSpec
CONSTANTS
  NSvMax = 16
  NSsMax = 17
  NFu = 2
  QSize = 16
  PseudoMaxIt = 10
  Instrs <- ClientWords
  Loads <- ClientLoads
  Controls <- Nothing
  Stretches <- ClientStretches
  Matched = TRUE
  SvLoaded = 0
  NoInstr = NoInstr
  PowerUpIr <- Quiet
  PowerUpRt <- Zero
  PowerUpCpsr <- NoFlags
  PowerUpCol <- Zero
  NSat = 6
  Constellation <- TwoConstellations
  Masks <- Halves
INVARIANTS
  FlagsOwned
  RowsLoaded
  OnCurrentSubset
  NoFalseAlarm
  LocalVerdict
  NeverStalls
  DecodesAsWritten
PROPERTIES
  LoadsInTime
  IsClient
CHECK_DEADLOCK FALSE

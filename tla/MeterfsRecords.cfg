CONSTANTS
  SectorSz = 7
  SectorCnt = 3
  Shapes <- Roomy
  MaxWrites = 5
  MaxCuts = 1
  MaxResets = 1
  MaxFaults = 1
  MaxErrors = 1
  EarlyErase = TRUE
  Blank = Blank
  Torn = Torn
SPECIFICATION Spec
INVARIANTS FindsAll ReadsBack ContinuousByRecord
CHECK_DEADLOCK FALSE

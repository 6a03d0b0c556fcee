SPECIFICATION FairSpec

CONSTANTS
  Chunks <- KeysAndLines
  Sizes = {1, 2}
  Modes <- EveryWait
  DefaultMode <- Canonical
  Indices = 64
  MaxGiven = 3
  MaxLog = 2

INVARIANTS
  InOrder
  NoneMissed

PROPERTIES
  UndoGivesBack
  TimedReadEnds

CHECK_DEADLOCK FALSE

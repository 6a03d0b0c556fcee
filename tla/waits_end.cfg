SPECIFICATION FairSpec
CONSTANTS
  Signals = {1, 2}
  Alarm = 2
  HandsChoices <- OneRestarts
  HandlerMask <- NoMasks
  Masks = {{}}
  Durations = {2}
  Periods = {0}
  CheckEvery = 2
  Ahead = 1
  Jumps <- BackOnly
  MaxTime = 4
  Depth = 0

PROPERTIES
  DueComes

CHECK_DEADLOCK FALSE

SPECIFICATION Spec
CONSTANTS
  Signals = {1, 2}
  Alarm = 2
  HandsChoices <- OfEachKind
  HandlerMask <- NoMasks
  Masks = {{}, {2}}
  Durations = {2}
  Periods = {0, 2}
  CheckEvery = 2
  Ahead = 1
  Jumps <- BackOnly
  MaxTime = 4
  Depth = 0

INVARIANTS
  DeadlineKept
  NoSignalSleeps
  NothingDueUnseen
  TimerKeepsPhase
  CancelEndsOne

PROPERTIES
  MaskPutBack

CHECK_DEADLOCK FALSE

SPECIFICATION FairSpec

CONSTANTS
  Modes = {"module", "gas"}
  LongRunning = {"assembler", "linker"}
  Switches = 1
  Failing = {"download", "libraries"}
  Wakes = {"host", "timer", "both"}
  StepsMoving = FALSE
  MaxReplacements = 4
  MaxMachines = 3
  MaxHalts = 0

PROPERTIES
  NextBuildCanStart

CHECK_DEADLOCK FALSE

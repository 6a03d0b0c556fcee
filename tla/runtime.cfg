SPECIFICATION Spec

CONSTANTS
  Modes = {"module", "gas"}
  LongRunning = {"program", "assembler", "linker"}
  Switches = 1
  Failing = {"download", "assemble", "linker", "libraries"}
  Wakes = {"timer", "both"}
  StepsMoving = FALSE
  MaxReplacements = 3
  MaxMachines = 3
  MaxHalts = 2

INVARIANTS
  OwnCallbacks
  NoLostWake
  SomeoneFinishes

PROPERTIES
  NewestWins

CHECK_DEADLOCK FALSE

SPECIFICATION Spec

CONSTANTS
  Modes = {"module"}
  LongRunning = {"program"}
  Switches = 2
  Failing = {}
  Wakes = {"host", "timer", "both"}
  StepsMoving = TRUE
  MaxReplacements = 1
  MaxMachines = 1
  MaxHalts = 2

INVARIANTS
  OneDriver

CHECK_DEADLOCK FALSE

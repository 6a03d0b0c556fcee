SPECIFICATION Spec

CONSTANTS
  b0 = b0
  d0 = d0
  RegNames = {"ax", "sp"}
  RegValues = {0, 1}
  Addrs = {"m"}
  Bytes = {b0}
  Devices = {d0}
  Flows = {"call", "other"}
  Ends = {"next", "exit", "killed", "handled"}
  Capacities = {2}
  FirstSlots = 1
  Charge = 1
  Budget = 3
  Slack = 0
  SplitBudget = 1
  MaxEffects = 0
  MaxIdentity = 3
  MaxOutside = 1

INVARIANTS
  BeforeChain
  IdentitiesGrow

PROPERTIES
  UndoRestores

CHECK_DEADLOCK FALSE

SPECIFICATION SessionSpec

CONSTANTS
  b0 = b0
  d0 = d0
  RegNames = {"sp"}
  RegValues = {0}
  Addrs = {"m"}
  Bytes = {b0}
  Devices = {d0}
  Flows = {"other"}
  Ends = {"next"}
  Capacities = {2, 3}
  FirstSlots = 1
  Charge = 1
  Budget = 3
  Slack = 0
  SplitBudget = 0
  MaxEffects = 1
  MaxIdentity = 3
  MaxOutside = 1

INVARIANTS
  ReachExact
  PokeKnown
  RowsFresh
  RingShape
  BudgetExact

PROPERTIES
  PreflightKept

CHECK_DEADLOCK FALSE

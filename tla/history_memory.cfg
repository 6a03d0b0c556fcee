SPECIFICATION Spec

CONSTANTS
  b0 = b0
  b1 = b1
  d0 = d0
  d1 = d1
  RegNames = {"sp"}
  RegValues = {0}
  Addrs = {"m"}
  Bytes = {b0, b1}
  Devices = {d0, d1}
  Flows = {"other"}
  Ends = {"next"}
  Capacities = {2}
  FirstSlots = 1
  Charge = 1
  Budget = 3
  Slack = 0
  SplitBudget = 2
  MaxEffects = 2
  MaxIdentity = 3
  MaxOutside = 1

INVARIANTS
  NoUndoPastEffect

PROPERTIES
  KeepsPromise

SYMMETRY DataSymmetry

CHECK_DEADLOCK FALSE

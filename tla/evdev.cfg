SPECIFICATION Spec
CONSTANTS
  Readers = {r1, r2}
  Keys = {"a", "caps"}
  Locks <- MCLocks
  Limit = 6
  MaxVals = 6
  Packets <- MCPackets
  Sizes = {2}
  MaskTypes = {"KEY"}
  MaxReports = 2
  MaxCalls = 3

INVARIANTS
  PacketsWhole
  ReaderKnows
  NoMissedPacket
  ConsoleSettled

PROPERTIES
  UndoGivesBack

SYMMETRY ReaderSymmetry

CHECK_DEADLOCK FALSE

SPECIFICATION Spec

CONSTANTS
  Geometry <- MCGeometry
  Sizes = {1, 5}
  Cards <- MCCards
  MaxTime = 5
  MaxCalls = 5
  MaxLog = 3

INVARIANTS
  HostAgrees
  BytesOnce
  RoomExact

PROPERTIES
  UndoTakesBack

CHECK_DEADLOCK FALSE

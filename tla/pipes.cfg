SPECIFICATION Spec

CONSTANTS
  p1 = p1
  Pipes = {p1}
  Fds = {0, 1, 2, 3}
  Limit = 3
  Capacity = 3
  Atomic = 2
  Sizes = {2, 3}
  Serials = 4
  MaxFrames = 1

INVARIANTS
  EndsCounted
  StreamKept
  FarEndFinal
  NoMissedWake
  PollHonest

CHECK_DEADLOCK FALSE

SPECIFICATION Spec
CONSTANTS
  Producers = {p1}
  Subscribers = {s1}
  StartPositions = {0, 1}
  MaxEvents = 1
  BroadcastCapacity = 1
  MaxSequence = 3
PROPERTIES TrimmedReplayIsRefused
CHECK_DEADLOCK FALSE

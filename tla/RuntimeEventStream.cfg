SPECIFICATION FairSpec
CONSTANTS
  Producers = {p1, p2}
  Subscribers = {s1}
  StartPositions = {0, 1}
  MaxEvents = 1
  BroadcastCapacity = 1
  MaxSequence = 3
INVARIANTS TypeOK NoRequiredSkipped CaughtUpWhenQuiet RingBound
PROPERTIES FeedSpec RequiredEventuallyDelivered
CHECK_DEADLOCK FALSE

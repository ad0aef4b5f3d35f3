SPECIFICATION EventsSpec
CONSTANTS
  Sessions = {s1}
  Phones = {p1}
  AnySession = AnySession
  MaxSeq = 3
  MaxStreams = 1
  MaxReads = 1
  MaxCachedEvents = 2
  MaxPendingGlobalEvents = 2
  MaxSubscriberQueue = 2
CHECK_DEADLOCK FALSE
INVARIANTS
  LiveDelivered

SPECIFICATION MCSpec
CONSTANTS
  Asks = {a1, a2}
  AskPhones = {p1}
  NoAsk = NoAsk
  MaxConnects = 2
  MaxSubscribes = 2
  MaxAskQueue = 2
  MaxSubscriberSeen = 3
  Sessions = {s1}
  Phones = {p1}
  AnySession = AnySession
  MaxSeq = 3
  MaxStreams = 2
  MaxReads = 1
  MaxCachedEvents = 2
  MaxPendingGlobalEvents = 1
  MaxSubscriberQueue = 2
  Readers = {p1}
  CachedEvents = 2
  FeedAsks = {k1}
  QueueBound = 2
  SeenBound = 2
  DetailBound = 4
  TextOf <- MCTextOf
  LastEvent = 1
  MaxOpens = 1
CHECK_DEADLOCK FALSE
INVARIANTS
  BridgeSound
  EventsSound
  FeedSound
PROPERTIES
  WithdrawnWhenOver
  ArchivedSilent

SPECIFICATION BridgeSpec
CONSTANTS
  Asks = {a1, a2}
  AskPhones = {p1}
  NoAsk = NoAsk
  MaxConnects = 2
  MaxSubscribes = 1
  MaxAskQueue = 4
  MaxSubscriberSeen = 8
CHECK_DEADLOCK FALSE
INVARIANTS
  PendingIsShown

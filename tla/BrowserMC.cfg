SPECIFICATION MCSpec
CONSTANTS
  AskHosts = {h1, h2}
  MaxAskConnects = 2
  MaxOffers = 1
  Carriers = {h1, h2}
  NoCarrier = NoCarrier
  RawIds = {1}
  MaxRequests = 1
  AggHosts = {h1, h2}
  Ids = {1, 2}
  MaxChanges = 1
  MaxConnects = 3
  MaxPages = 2
  MaxLog = 6
  MaxTurns = 2
  MaxSteps = 2
  MaxAssistantChunks = 2
  MaxFollows = 2
  Records = {r1, r2}
  MaxEpochs = 2
  MaxItems = 1
  hLocal = hLocal
  Dirs = {0, 1, 2, 3}
  Up <- MCUp
  PickHosts = {hLocal, hRemote}
  MaxIntents = 4
CHECK_DEADLOCK FALSE
INVARIANTS
  AggregateAgrees
  AsksSound
  FollowSound
  PageSound
  PanesSound
PROPERTIES
  SearchesEnd
  SlowHostIgnored
  TargetKept

SPECIFICATION MCSpec
CONSTANTS
  SyncSessions = {s1}
  MaxScanPages = 1
  MaxSeq = 3
  MaxSyncs = 2
  AndroidSessions = {s1, s2}
  ScanPages = 2
  FitEvents = 2
  FitBytes = 2
  SizeOfEvent <- MCSizeOfEvent
  MaxTop = 2
  MaxReads = 2
  ScanLimit = 1
  EventLimit = 2
  MaxWritten = 3
  MaxLives = 2
  MaxAsks = 2
  Parents = {p1}
  Lookups = {l1, l2}
CHECK_DEADLOCK FALSE
INVARIANTS
  DeltaSound
  AndroidSound
  ReadsSound
PROPERTIES
  ColdTailsSettle
  AddressesHeal

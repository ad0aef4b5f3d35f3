SPECIFICATION Spec
CONSTANTS
  Streams <- MCStreams
  NoStream = NoStream
  MaxFrameBytes = 2
  MaxStreamQueuedBytes = 2
  MaxSocketQueuedBytes = 3
  PagePrefixes = {p1, p2}
  NoPrefix = NoPrefix
  ItemSizes <- MCSizes
  ErrorSizes <- MCErrorSizes
  EndBytes = 1
  OverflowBytes = 1
  MaxItems = 3
CHECK_DEADLOCK FALSE
INVARIANTS
  BytesAccounted
  StreamsInOrder
  StreamsServed
PROPERTIES
  KeepsPromise
  NoOvertaking

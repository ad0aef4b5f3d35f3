SPECIFICATION Spec
CONSTANTS
  Streams <- MCStreams
  NoStream = NoStream
  MaxFrameBytes = 2
  MaxStreamQueuedBytes = 2
  MaxSocketQueuedBytes = 4
  PagePrefixes = {p1, p2}
  NoPrefix = NoPrefix
  ItemSizes = {1}
  ErrorSizes = {1}
  EndBytes = 1
  OverflowBytes = 1
  MaxItems = 3
CHECK_DEADLOCK FALSE
PROPERTIES
  EndIsolated

SPECIFICATION MCSpec
CONSTANTS
  r1 = r1
  r2 = r2
  r3 = r3
  r4 = r4
  s1 = s1
  Requests <- MCRequests
  Sessions <- MCSessions
  GateSessions <- MCSessions
  NoSession = NoSession
  NoState = NoState
  BackgroundBootstrapLimit = 2
  None = None
  MaxActiveAttempts = 2
  MaxRetired = 1
  MaxBytes = 3
  FixedBytes = 1
  ChunkSizes <- MCChunkSizes
  MaxAgents = 2
  MaxAttempts = 3
  MaxRevision = 4
CHECK_DEADLOCK FALSE
INVARIANTS
  MirrorSound
  AttemptsCounted
  GateSound
PROPERTIES
  PublicRevisionGrows
  NoResurrection
  SessionOrder
  NoStarvation

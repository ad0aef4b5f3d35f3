SPECIFICATION Spec
CONSTANTS
  Sessions = {s1}
  None = None
  MaxActiveAttempts = 2
  MaxRetired = 1
  MaxBytes = 3
  FixedBytes = 1
  ChunkSizes <- MCChunkSizes
  MaxAgents = 1
  MaxAttempts = 2
  MaxRevision = 4
CHECK_DEADLOCK FALSE
PROPERTIES
  BaselineHeals

SPECIFICATION MCSpec
CONSTANTS
  Hosts = {h1}
  Sessions = {s1}
  ListCallers = {c1, c2}
  Windows = {w1}
  MaxRevision <- MCMaxRevision
  MaxVersion <- MCMaxVersion
  MaxGeneration <- MCMaxGeneration
  NoList = NoList
  Pending = Pending
  Callers = {c1, c2}
  Nobody = Nobody
  MaxRuns = 2
  Stored = {i1}
  ReadChunkSize = 2
  MaxWrites = 3
  Calls = {k1, k2}
  MaxAttached = 3
  MaxDials = 2
CHECK_DEADLOCK FALSE
INVARIANTS
  ListSound
  RestartSound
  PersistenceSound
  CarriersSound
PROPERTIES
  LateReachesAll
  CallsAnswered

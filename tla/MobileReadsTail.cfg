SPECIFICATION ReadsSpec
CONSTANTS
  ScanLimit = 1
  EventLimit = 2
  MaxWritten = 3
  MaxLives = 2
  MaxAsks = 2
CHECK_DEADLOCK FALSE
INVARIANTS
  TailProven

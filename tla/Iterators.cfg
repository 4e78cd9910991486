SPECIFICATION Spec
CONSTANTS
  MaxByte = 2
  kMaxSequenceNumber = 9
  block_size = 3
  block_restart_interval = 2
  kFilterBase = 2
  Probe <- MCProbe
  Keys <- MCKeys
  Targets <- MCTargets
  MaxSeq = 4
  FileSize = 3
  Deletions <- MCDeletions
  Big = {1}
INVARIANTS IteratorExact LookupExact
CHECK_DEADLOCK FALSE

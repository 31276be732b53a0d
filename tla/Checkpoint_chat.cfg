SPECIFICATION FairSpec
CONSTANTS
  MaxSeq = 3
  MaxSends = 0
  MaxCheckpoints = 2
  MaxFaults = 1
  MaxRepairs = 2
  Legacy = TRUE
  Process = {p1, p2}
INVARIANTS
  TypeOK
  RestoredIsDurable
  AbortedHasNoEntry
PROPERTIES
  LegacyAbortAuthorized
  ImplementsLedger
  OpenCheckpointSettles
CHECK_DEADLOCK FALSE

SPECIFICATION FairSpec
CONSTANTS
  MaxSeq = 2
  MaxSends = 0
  MaxCheckpoints = 1
  MaxFaults = 0
  MaxRepairs = 1
  Legacy = FALSE
  Process = {p1, p2}
PROPERTIES
  MatchingEntryIsReconciled
CHECK_DEADLOCK FALSE

SPECIFICATION FairSpec
CONSTANTS
  MaxSeq = 2
  MaxSends = 0
  MaxCheckpoints = 1
  MaxFaults = 1
  MaxRepairs = 0
  Legacy = FALSE
  Process = {p1, p2}
INVARIANTS
  TurnSeesRestored
CHECK_DEADLOCK FALSE

SPECIFICATION FairSpec
CONSTANTS
  MaxSeq = 3
  MaxSends = 1
  MaxFaults = 1
  Process = {p1, p2}
  NoSend = NoSend
  Echo <- MCEcho
PROPERTIES
  NextEventSettles
  GapSurfaces
CHECK_DEADLOCK FALSE

SPECIFICATION FairSpec
CONSTANTS
  Chat = {c1, c2}
  NoChat = NoChat
  Request = {r1}
  Concurrency = 2
  MaxFaults = 1
INVARIANTS
  TypeOK
  ReadyIsBacked
  DrainOrder
  CleanExit
PROPERTIES
  StopIsFinal
  TroubleEnds

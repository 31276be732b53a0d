SPECIFICATION FairSpec
CONSTANTS
  p1 = p1
  p2 = p2
  c1 = c1
  c2 = c2
  Chat = {c1, c2}
  Process = {p1, p2}
  None = None
  Deployments <- Deployed
INVARIANTS
  TypeOK
  AckedIsKept
  ReservationsHaveWorkers
  RedeliveryNeverConflicts
PROPERTIES
  EveryAcceptIsAnswered

SPECIFICATION FairSpec
CONSTANTS
  pn = pn
  lid = lid
  Ident = {m1}
  Sends <- NoSends
  Worker = {w1, w2}
  Policies = {"enabled", "removed", "disabled"}
  MaxAttempts = 2
  MaxSeq = 2
  MaxFaults = 2
INVARIANTS TypeOK AcceptedIsHeld PostsBounded
PROPERTIES TerminalIsFinal EveryNotificationEnds

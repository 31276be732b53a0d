SPECIFICATION Spec
CONSTANTS
  pn = pn
  lid = lid
  Ident = {m, pn, lid}
  Sends <- MCSends
  Worker = {w1}
  Policies = {"enabled", "removed", "disabled"}
  MaxAttempts = 2
  MaxSeq = 2
  MaxFaults = 1
INVARIANTS EchoNeverNotifies LiveIsNotified

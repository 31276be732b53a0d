SPECIFICATION Spec
CONSTANTS
  MaxSeq = 3
  MaxSends = 2
  MaxFaults = 2
  Process = {p1, p2}
  NoSend = NoSend
  Echo <- MCEcho
SYMMETRY Symmetry
INVARIANTS
  TypeOK
  AtMostOneTurn
  SendsAccounted
  CompletedIsDurable
  EchoNeverPrompts
  OneMarkerPerTurn
PROPERTIES
  TurnsStartSettled
  PausedChatIsFrozen
  ImplementsLedger
CHECK_DEADLOCK FALSE

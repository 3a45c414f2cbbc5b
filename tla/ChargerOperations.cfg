SPECIFICATION RecoverySpec
CONSTANTS
  Workers = {w1}
  Handlers = {h1}
  NoActor = NoActor
  Lease = 2
  CallTimeout = 1
  RetryDelay = 4
  Transit = 3
INVARIANTS
  OneSend
  AbsenceIsFinal
PROPERTIES
  TerminalStays
  OperationsConclude

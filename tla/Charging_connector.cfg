SPECIFICATION Spec
CONSTANTS
  i1 = i1
  i2 = i2
  c1 = c1
  c2 = c2
  w1 = w1
  w2 = w2
  Intents = {i1, i2}
  Connectors = {c1, c2}
  Wallets = {w1}
  NoIntent = NoIntent
  Reconcilers = {r1}
  ConnectorOf <- SameConnector
  WalletOf <- SameWallet
  Nominals = {2}
  Usages = {0, 2, 4}
  InitialBalance = 5
  MinBalance = 1
  Buffer = 1
  MaxTopUps = 0
  ChargerReplies = {"OCPP_ACCEPTED", "OCPP_REJECTED"}
  ReportedStates = {"OCPP_REJECTED"}
SYMMETRY StartSymmetry
INVARIANTS
  SingleOccupant
  HoldTracksOccupancy
  NoFabricatedSession
PROPERTIES
  ReleasedOnlyUnstarted
CHECK_DEADLOCK FALSE

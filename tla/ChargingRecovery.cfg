SPECIFICATION PartsSpec
CONSTANTS
  i1 = i1
  c1 = c1
  w1 = w1
  Intents = {i1}
  Connectors = {c1}
  Wallets = {w1}
  NoIntent = NoIntent
  Reconcilers = {r1, r2}
  ConnectorOf <- OneConnector
  WalletOf <- OneWallet
  Nominals = {2}
  Usages = {2}
  InitialBalance = 6
  MinBalance = 1
  Buffer = 0
  MaxTopUps = 0
  ChargerReplies = {"OCPP_ACCEPTED"}
  ReportedStates = {}
  Items = {1, 2}
  PassWorkers = {p1, p2}
  BatchLimit = 1
  Contested = {1}
  Unfunded = {2}
PROPERTIES
  LostWorkRecovered
  ReachedInTurn
CHECK_DEADLOCK FALSE

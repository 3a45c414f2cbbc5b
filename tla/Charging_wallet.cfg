SPECIFICATION Spec
CONSTANTS
  i1 = i1
  i2 = i2
  c1 = c1
  c2 = c2
  w1 = w1
  w2 = w2
  Intents = {i1, i2}
  Connectors = {c1, c2}
  Wallets = {w1}
  NoIntent = NoIntent
  Reconcilers = {r1}
  ConnectorOf <- OwnConnector
  WalletOf <- SameWallet
  Nominals = {3}
  Usages = {4, 5}
  InitialBalance = 7
  MinBalance = 1
  Buffer = 1
  MaxTopUps = 1
  ChargerReplies = {}
  ReportedStates = {}
SYMMETRY SwapSymmetry
INVARIANTS
  FundsCovered
PROPERTIES
  ImplementsLedger
CHECK_DEADLOCK FALSE

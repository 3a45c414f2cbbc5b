SPECIFICATION RecoverySpec
CONSTANTS
  Requests = {r1, r2}
  Keys = {k1}
  Amounts = {3, 5}
  Payments = {p1, p2}
  Verifiers = {v1, v2}
  NoRequest = NoRequest
  NoKey = NoKey
  NoPayment = NoPayment
INVARIANTS
  OneProviderOrder
PROPERTIES
  ImplementsLedger
  CapturedIsCredited
CHECK_DEADLOCK FALSE

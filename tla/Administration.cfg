SPECIFICATION AdministrationSpec
CONSTANTS
  Hubs = {h1}
  Chargers = {c1}
  Profiles = {g1}
  States = {s1, s2}
  Tariffs = {t1, t2}
  Schedules <- MCSchedules
  Requests = {q1, q2}
  Instants <- MCInstants
  None = None
  Operators = {o1, o2}
  First = o1
  People = {e1, e2}
  Founder = e1
  Overrides = {"none", "deny"}
  Absent = Absent
  PerUnit = 12
  PriceScale = 2
  Precision = 100
  Prices = {0, 1, 5, 14}
  TaxRates = {0, 18}
  Balances = {0, 1, 2, 5, 9}
  Buffers = {0, 1, 2}
  Minimum = 1
  LimitValues = {1, 2, 4}
  Readings = {0, 1, 3, 6, 12, 31}
SYMMETRY Symmetry
INVARIANTS
  ShownCanBeSold
  OnlyTariffsDeadlock
  TenantStands
  HoldCoversTheLimit
CHECK_DEADLOCK FALSE

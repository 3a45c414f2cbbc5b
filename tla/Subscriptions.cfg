SPECIFICATION SubscriptionsSpec
CONSTANTS
  Cpos = {c1}
  Subs = {s1, s2}
  Keys = {k1, k2, k3}
  Requests = {r1, r2}
  Instances = {i1}
  Period = 3
  Warnings <- MCWarnings
  MaxTime = 2
  Operations = {"ISSUE", "RENEW", "PAUSE", "EXPIRE", "CANCEL", "CHANGE_PLAN"}
  MaxVersions = 1
SYMMETRY Symmetry
INVARIANTS
  HistoryTellsTheStatus
PROPERTIES
  ReactivationOpens
CHECK_DEADLOCK FALSE

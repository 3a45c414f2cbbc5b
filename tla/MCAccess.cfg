SPECIFICATION AccessSpec
CONSTANTS
  Requests = {r1, r2}
  Admins = {a1, a2}
  Passwords = {p1, p2}
  MaxAttempts = 2
  LoginMaxAttempts = 1
  MaxChallenges = 2
  MaxCodes = 2
  MaxSessions = 1
  MaxTokens = 2
  MaxPassword = 2
  Window = 2
  MaxPasses = 2
  Keep = 3
  Horizon = 8
SYMMETRY Symmetry
INVARIANTS
  CodesWorkOnce
  AccessFollowsThePassword
  AdministratorRemains
  RateBounded
CHECK_DEADLOCK FALSE

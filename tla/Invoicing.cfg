SPECIFICATION FairSpec
CONSTANTS
  Sessions = {1, 2}
  Unissuable = {1}
  Historical = {1}
  Mailed = {2}
  Workers = {w1, w2}
  BatchSize = 2
  MaxAttempts = 2
  MaxSerial = 2
  MaxFaults = 1
  MaxDamage = 1
  MaxRecoveries = 1
INVARIANTS
  NumbersAreConsecutive
  IssuedGoesOutOnce
PROPERTIES
  InvoiceEnds
CHECK_DEADLOCK FALSE

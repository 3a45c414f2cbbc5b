SPECIFICATION CommunicationsSpec
CONSTANTS
  Jobs = {j1}
  Workers = {w1, w2}
  MaxAttempts = 3
  MaxCrashes = 2
  MaxRetries = 1
  TicketRequests = {t1, t2}
  ReplyKeys = {k1, k2}
  MaxEvents = 5
  RowIds = {1, 2, 3}
  Keys = {1, 2}
  Limit = 1
  Null = Null
  Absent = Absent
  HALEvents = {1, 2}
  CMSEvents = {3}
  Writers = {w1, w2}
  PageSize = 1
  MaxSequence = 4
  Nobody = Nobody
INVARIANTS
  DeliveryHonest
  TicketTellsItsStory
  ReadOnceAndWhole
  EvidenceIsWhole
PROPERTY JobEnds
CHECK_DEADLOCK FALSE

CONSTANTS
  w1 = w1
  w2 = w2
  Workers = {w1, w2}
  Contents <- MCContents
  Ageing = {"connection"}
  Batch = 1
SPECIFICATION FairSpec
INVARIANTS ChangeIsAnnounced
PROPERTIES FactsTakeEffectOnce FactAccepted StreamCatchesUp
CHECK_DEADLOCK FALSE

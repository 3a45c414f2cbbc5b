SPECIFICATION RecoverySpec
CONSTANTS
  Stops = {s1}
  Customers = {u1}
  Reconcilers = {r1}
  Replies = {"OCPP_ACCEPTED", "OCPP_REJECTED"}
  NoStop = NoStop
PROPERTIES
  EndedStaysEnded
  ReactivatedOnVerdict
  StopsAreResolved
CHECK_DEADLOCK FALSE

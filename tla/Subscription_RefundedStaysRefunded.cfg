SPECIFICATION Spec
CONSTANTS
  MaxRows = 1
  MaxSessions = 1
  MaxTime = 1
  Grace = 0
  Window = 1
  MaxUpdates = 0
  MaxRequests = 1
  MaxFaults = 0
  LateRedelivery = FALSE
PROPERTIES RefundedStaysRefunded
CHECK_DEADLOCK FALSE

\* One row and one checkout, with a request of the member or the organizer and a fault.
SPECIFICATION FairSpec
CONSTANTS
  MaxRows = 1
  MaxSessions = 1
  MaxTime = 1
  Grace = 0
  Window = 3
  MaxUpdates = 0
  MaxRequests = 1
  MaxFaults = 1
  LateRedelivery = FALSE
PROPERTIES ZombiesAreClosed PendingIsSettled NewestPaidIsKnown
CHECK_DEADLOCK FALSE

\* One member, two rows and two checkouts: revival, subscribing again, a lost call, an update in flight.
SPECIFICATION Spec
CONSTANTS
  MaxRows = 2
  MaxSessions = 2
  MaxTime = 1
  Grace = 0
  Window = 1
  MaxUpdates = 1
  MaxRequests = 0
  MaxFaults = 1
  LateRedelivery = FALSE
INVARIANTS TypeOK NoUnknownBilling BilledOnce PeriodCoversLedger
PROPERTIES TerminalIsFrozen
CHECK_DEADLOCK FALSE

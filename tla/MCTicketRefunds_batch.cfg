SPECIFICATION FairSpec
CONSTANTS
  p1 = p1
  p2 = p2
  Payment = {p1, p2}
  Price <- MCPrice
  Cancellable = {p2}
  Nil = Nil
  MaxRefunds = 2
  MaxFailed = 1
  MaxAmount = 3
INVARIANTS TypeOK LedgerHolds SweptIsAccountedFor
PROPERTIES DoubledOnlyAfterLoss RefundIsRecorded ImplementsLedger
CHECK_DEADLOCK FALSE

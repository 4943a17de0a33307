SPECIFICATION Spec
CONSTANTS
  p1 = p1
  p2 = p2
  Payment = {p1, p2}
  Price <- MCEvenPrice
  Cancellable = {}
  Nil = Nil
  MaxRefunds = 2
  MaxFailed = 1
  MaxAmount = 2
INVARIANT NoDoubleRefund
CHECK_DEADLOCK FALSE

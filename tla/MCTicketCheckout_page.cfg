SPECIFICATION Spec
CONSTANTS
  Prices <- TwoPrices
  Deliveries = {d1}
  Returns <- NoOne
  Failures = {f1}
  Cancels <- NoOne
  Checkouts = {k1}
  Frees <- NoOne
  Jobs <- NoOne
  Sweeps <- NoOne
  NoProc = NoProc
  Nil = Nil
  MaxFaults = 1
  MaxReprices = 2
  MaxDeclines = 1
CHECK_DEADLOCK FALSE
INVARIANTS ChargedAtMostOnce SeatsFollowOrder
PROPERTIES ReleasedOrderCannotBeCharged

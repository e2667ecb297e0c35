SPECIFICATION FairSpec
CONSTANTS
  Prices <- TwoPrices
  Deliveries <- NoOne
  Returns = {r1}
  Failures <- NoOne
  Cancels = {c1}
  Checkouts <- NoOne
  Frees <- NoOne
  Jobs <- NoOne
  Sweeps = {s1}
  NoProc = NoProc
  Nil = Nil
  MaxFaults = 0
  MaxReprices = 1
  MaxDeclines = 1
CHECK_DEADLOCK FALSE
PROPERTIES TimedOutOrderSettles ChargeIsResolved

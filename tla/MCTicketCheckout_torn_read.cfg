SPECIFICATION Spec
CONSTANTS
  Prices <- OnePrice
  Deliveries = {d1}
  Returns = {r1}
  Failures <- NoOne
  Cancels <- NoOne
  Checkouts <- NoOne
  Frees <- NoOne
  Jobs <- NoOne
  Sweeps <- NoOne
  NoProc = NoProc
  Nil = Nil
  MaxFaults = 0
  MaxReprices = 0
  MaxDeclines = 0
CHECK_DEADLOCK FALSE
INVARIANTS FulfilledChargeIsKept

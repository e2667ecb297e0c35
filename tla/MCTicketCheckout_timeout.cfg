SPECIFICATION Spec
CONSTANTS
  Prices <- FreeOrPaid
  Deliveries = {d1}
  Returns = {r1}
  Failures <- NoOne
  Cancels <- NoOne
  Checkouts <- NoOne
  Frees = {x1}
  Jobs = {j1}
  Sweeps <- NoOne
  NoProc = NoProc
  Nil = Nil
  MaxFaults = 1
  MaxReprices = 1
  MaxDeclines = 1
CHECK_DEADLOCK FALSE
INVARIANTS TypeOK PaidMeansConfirmed AttachedPaymentIsRecorded
PROPERTIES FreeOrderCannotBeCharged SeatsSoldAsPromised

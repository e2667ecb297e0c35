SPECIFICATION HalfwaySpec
CONSTANTS
  StripeEvents = {e1, e2}
  StructOnly = {e2}
  Bills = {b1}
  Deliveries = {d1}
  Workers = {w1}
  Retrier = retrier
  Reconciler = reconciler
  Nil = Nil
  MaxFailures = 1
  MaxFaults = 2
CHECK_DEADLOCK FALSE
INVARIANTS ClaimedByOne HandledOnce
PROPERTIES EveryEventIsProcessed NothingStaysTaken

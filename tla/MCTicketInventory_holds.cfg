SPECIFICATION Spec
CONSTANTS
  Buyers = {u1, u2}
  Bookings = {b1, b2}
  DoorSales <- NoOne
  Tier = Tier
  Tiers <- OneTier
  Quantity <- TwoSeats
  MaxAttendees = Nil
  MaxPerBuyer <- NoLimit
  Nil = Nil
  MaxRequest = 1
  MaxHolds = 2
  MaxHeld = 2
SYMMETRY Symmetry
INVARIANTS
  HoldsBackTheirOrder
  TierCapacityKept
PROPERTIES
  HoldsAreDecidedOnce
  SettledOrdersStay
CHECK_DEADLOCK FALSE

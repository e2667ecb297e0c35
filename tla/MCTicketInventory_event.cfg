SPECIFICATION Spec
CONSTANTS
  Buyers = {u1, u2}
  Bookings = {b1, b2, b3}
  DoorSales <- NoOne
  Tier = Tier
  Tiers <- OneTier
  Quantity <- NoLimit
  MaxAttendees = 1
  MaxPerBuyer <- NoLimit
  Nil = Nil
  MaxRequest = 1
  MaxHolds = 1
  MaxHeld = 1
SYMMETRY Symmetry
INVARIANTS
  EventCapacityKept
  OnePendingOrderPerBuyer
CHECK_DEADLOCK FALSE

SPECIFICATION Spec
CONSTANTS
  Buyers = {u1, u2}
  Bookings = {b1, b2}
  DoorSales <- NoOne
  Tier = Tier
  Tiers <- OneTier
  Quantity <- OneSeat
  MaxAttendees = Nil
  MaxPerBuyer <- OneSeat
  Nil = Nil
  MaxRequest = 1
  MaxHolds = 0
  MaxHeld = 1
INVARIANT CapacityNeverExceeded
CHECK_DEADLOCK FALSE

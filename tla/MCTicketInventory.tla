------------------------- MODULE MCTicketInventory -------------------------
(***************************************************************************)
(* Small instances of TicketInventory.  Buyers are interchangeable, and so  *)
(* are bookings that are no door sales.                                     *)
(***************************************************************************)
EXTENDS TicketInventory, TLC

CONSTANT Tier

OneTier == {Tier}
NoOne == {}
NoLimit == [t \in Tiers |-> 0]
OneSeat == [t \in Tiers |-> 1]
TwoSeats == [t \in Tiers |-> 2]

Symmetry == Permutations(Buyers) \cup Permutations(Bookings \ DoorSales)
=============================================================================

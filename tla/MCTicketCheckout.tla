-------------------------- MODULE MCTicketCheckout --------------------------
(***************************************************************************)
(* Small instances of TicketCheckout.  The processes are model values given *)
(* by each .cfg; the price sets are named here for what they allow.         *)
(***************************************************************************)
EXTENDS TicketCheckout

NoOne == {}

\* The price cannot change.
OnePrice == {1}

\* An organiser may change the price between two paid amounts.
TwoPrices == {1, 2}

\* A price change makes the order complimentary, or charges for one that was.
FreeOrPaid == {0, 1}
=============================================================================

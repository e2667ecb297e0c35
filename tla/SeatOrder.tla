------------------------------ MODULE SeatOrder ------------------------------
(***************************************************************************)
(* What selling seats promises, whatever handlers do it: the seats of an    *)
(* order are held until they are sold or given up, those given up by a      *)
(* timeout may still be sold, and a charge that Stripe has captured is      *)
(* booked once, for seats that are sold.  (Refunds and who may be charged   *)
(* are properties of TicketCheckout.)                                       *)
(***************************************************************************)
CONSTANT Charges

VARIABLES
    seats,   \* of one order, all together
    charges

vars == <<seats, charges>>

Init ==
    /\ seats = "pending"
    /\ charges = [c \in Charges |-> "open"]

Sell ==
    /\ seats \in {"pending", "expired"}
    /\ seats' = "confirmed"
    /\ UNCHANGED charges

GiveUp ==
    /\ seats = "pending"
    /\ seats' \in {"cancelled", "expired"}
    /\ UNCHANGED charges

Capture(c) ==
    /\ charges[c] = "open"
    /\ charges' = [charges EXCEPT ![c] = "captured"]
    /\ UNCHANGED seats

\* A transaction may sell the seats and book the charge at once.
Book(c) ==
    /\ seats # "cancelled"
    /\ seats' = "confirmed"
    /\ charges[c] = "captured"
    /\ charges' = [charges EXCEPT ![c] = "booked"]

Next == Sell \/ GiveUp \/ \E c \in Charges : Capture(c) \/ Book(c)

Spec == Init /\ [][Next]_vars
=============================================================================

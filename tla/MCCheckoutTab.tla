---------------------------- MODULE MCCheckoutTab ----------------------------
(* A small instance of CheckoutTab for TLC: two tiers, two clicks on "pay",  *)
(* one fault, and one change of price.                                       *)
EXTENDS CheckoutTab
=============================================================================

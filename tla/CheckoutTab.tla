---------------------------- MODULE CheckoutTab ----------------------------
(***************************************************************************)
(* One tab from choosing tickets to paying: TicketSelection until the      *)
(* buyer proceeds, CheckoutPage from then on.  The hook of the first step  *)
(* is gone when the second begins; they share the tab and nothing else.    *)
(***************************************************************************)
EXTENDS CheckoutPage, TicketSelection

VARIABLE stage
tabVars == <<stage, vars, selectionVars>>

TabInit == stage = "select" /\ Init /\ SelectionInit

\* The buttons marked data-ticket-proceed-checkout are live when the hook shows a
\* selection; the LiveView proceeds when it has one too.
MayProceed == /\ hook.pending = NoTier /\ \E t \in Tiers : hook.selected[t] > 0
              /\ joined /\ clicks = <<>> /\ \E t \in Tiers : chosen[t] > 0

\* What the first step leaves behind plays no part in the second.
Proceed ==
    /\ stage = "select" /\ MayProceed
    /\ stage' = "pay"
    /\ hook' = Reverted(Empty) /\ chosen' = Empty /\ dom' = Empty /\ answers' = <<>>
    /\ room' = [t \in Tiers |-> 0]
    /\ crossed' = FALSE /\ broadcasts' = 0 /\ losses' = 0
    /\ UNCHANGED <<joined, clicks, vars>>

TabNext ==
    \/ stage = "select" /\ SelectionNext /\ UNCHANGED <<stage, vars>>
    \/ Proceed
    \/ stage = "pay" /\ Next /\ UNCHANGED <<stage, selectionVars>>

TabTypeOK == TypeOK /\ SelectionTypeOK

TabSpec == TabInit /\ [][TabNext]_tabVars /\ Fairness
=============================================================================

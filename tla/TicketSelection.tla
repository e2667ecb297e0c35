--------------------------- MODULE TicketSelection ---------------------------
(***************************************************************************)
(* Choosing tickets on the event page: the TicketCheckout hook             *)
(* (assets/js/ticket_checkout.js) shows a click at once, pushes it to the  *)
(* LiveView, and takes it back when the LiveView refuses.  While a push is *)
(* pending the buttons are dead; any patch of the page (the answer, or a   *)
(* change of availability that somebody else caused) makes the hook read   *)
(* its state from the DOM again.                                           *)
(***************************************************************************)
EXTENDS Naturals, Sequences

CONSTANTS
    Tiers,
    NoTier,
    MaxQty,        \* bound: tickets of one tier
    MaxBroadcasts, \* bound: changes of availability
    MaxLosses      \* bound: losses of the connection

ASSUME TiersAssumption == NoTier \notin Tiers
ASSUME QtyAssumption == MaxQty \in Nat /\ MaxBroadcasts \in Nat /\ MaxLosses \in Nat

VARIABLES
    chosen,   \* selected_tickets of the LiveView
    room,     \* how many tickets of each tier the LiveView lets this buyer choose
    joined,   \* the channel is joined
    clicks,   \* clicks on their way to the LiveView
    answers,  \* patches and replies on their way to the browser
    dom,      \* data-selected, as the LiveView last patched it
    hook,     \* this.selected and this._pendingTier
    crossed,  \* a patch caused by somebody else has been applied while a click was pending
    broadcasts, losses

selectionVars == <<chosen, room, joined, clicks, answers, dom, hook, crossed,
                   broadcasts, losses>>

Selection == [Tiers -> 0..MaxQty]
Empty == [t \in Tiers |-> 0]

SelectionInit ==
    /\ chosen = Empty /\ dom = Empty /\ joined = TRUE
    /\ room = [t \in Tiers |-> MaxQty]
    /\ clicks = <<>> /\ answers = <<>>
    /\ hook = [selected |-> Empty, pending |-> NoTier]
    /\ crossed = FALSE /\ broadcasts = 0 /\ losses = 0

Patch(s) == [type |-> "patch", selected |-> s]
Refusal(click) == [type |-> "refusal", tier |-> click.tier, before |-> click.before]
Broadcast(s) == [type |-> "broadcast", selected |-> s]

-----------------------------------------------------------------------------
(* The hook.                                                                *)

\* revertSelection
Reverted(before) == [selected |-> before, pending |-> NoTier]

\* One click on "more" or "less" of a tier; without a channel it is taken back at once.
OnClick(tier, delta) ==
    LET next == IF delta = "increase" THEN hook.selected[tier] + 1
                ELSE hook.selected[tier] - 1
    IN /\ hook.pending = NoTier
       /\ IF delta = "increase" THEN hook.selected[tier] < MaxQty
                                ELSE hook.selected[tier] > 0
       /\ IF joined
          THEN /\ hook' = [selected |-> [hook.selected EXCEPT ![tier] = next], pending |-> tier]
               /\ clicks' = Append(clicks, [tier |-> tier, delta |-> delta,
                                            before |-> hook.selected])
          ELSE hook' = Reverted(hook.selected) /\ UNCHANGED clicks
       /\ UNCHANGED <<chosen, room, joined, answers, dom, crossed, broadcasts, losses>>

\* Variant: the hook keeps what it shows.
SyncedLater(s) == [hook EXCEPT !.pending = NoTier]

\* updated(): syncFromDOM, and nothing is pending any more.
Synced(s) == [selected |-> s, pending |-> NoTier]

ReceivePatch ==
    /\ answers # <<>> /\ Head(answers).type \in {"patch", "broadcast"}
    /\ dom' = Head(answers).selected
    /\ hook' = Synced(dom')
    /\ crossed' = (crossed \/ (Head(answers).type = "broadcast" /\ hook.pending # NoTier))
    /\ answers' = Tail(answers)
    /\ UNCHANGED <<chosen, room, joined, clicks, broadcasts, losses>>

\* The reply of a refused click carries nothing: the hook remembers what was before.
ReceiveRefusal ==
    /\ answers # <<>> /\ Head(answers).type = "refusal"
    /\ hook' = Reverted(Head(answers).before)
    /\ answers' = Tail(answers)
    /\ UNCHANGED <<chosen, room, joined, clicks, dom, crossed, broadcasts, losses>>

-----------------------------------------------------------------------------
(* The LiveView.                                                            *)

\* increase-ticket-quantity and decrease-ticket-quantity; an accepted click is answered
\* by the patch it causes, and a click that changes nothing by no patch at all.
HandleClick ==
    LET click == Head(clicks)
        tier == click.tier
        increase == click.delta = "increase"
        refused == increase /\ chosen[tier] >= room[tier]
        after == IF increase THEN chosen[tier] + 1
                 ELSE IF chosen[tier] = 0 THEN 0 ELSE chosen[tier] - 1
    IN /\ joined /\ clicks # <<>>
       /\ clicks' = Tail(clicks)
       /\ IF refused
          THEN answers' = Append(answers, Refusal(click)) /\ UNCHANGED chosen
          ELSE /\ chosen' = [chosen EXCEPT ![tier] = after]
               /\ answers' = IF chosen' = chosen THEN answers
                             ELSE Append(answers, Patch(chosen'))
       /\ UNCHANGED <<room, joined, dom, hook, crossed, broadcasts, losses>>

\* Somebody else buys or gives back tickets: the page is patched with what the buyer
\* has chosen so far, which is not checked again.
AvailabilityChanges ==
    /\ joined /\ broadcasts < MaxBroadcasts
    /\ broadcasts' = broadcasts + 1
    /\ \E t \in Tiers, q \in 0..MaxQty : room' = [room EXCEPT ![t] = q]
    /\ answers' = Append(answers, Broadcast(chosen))
    /\ UNCHANGED <<chosen, joined, clicks, dom, hook, crossed, losses>>

LoseConnection ==
    /\ joined /\ losses < MaxLosses
    /\ losses' = losses + 1
    /\ joined' = FALSE /\ clicks' = <<>> /\ answers' = <<>>
    /\ UNCHANGED <<chosen, room, dom, hook, crossed, broadcasts>>

\* A new LiveView process renders the page from nothing; the rejoined view is patched
\* in the same turn.
JoinAgain ==
    /\ ~joined
    /\ joined' = TRUE /\ chosen' = Empty
    /\ dom' = Empty /\ hook' = Synced(Empty)
    /\ UNCHANGED <<room, clicks, answers, crossed, broadcasts, losses>>

-----------------------------------------------------------------------------
Deliver == ReceivePatch \/ ReceiveRefusal
SelectionNext ==
    \/ Deliver \/ HandleClick \/ AvailabilityChanges \/ LoseConnection \/ JoinAgain
    \/ \E t \in Tiers, d \in {"increase", "decrease"} : OnClick(t, d)

SelectionSpec == SelectionInit /\ [][SelectionNext]_selectionVars

-----------------------------------------------------------------------------
SelectionTypeOK ==
    /\ chosen \in Selection /\ dom \in Selection
    /\ room \in [Tiers -> 0..MaxQty] /\ joined \in BOOLEAN /\ crossed \in BOOLEAN
    /\ hook \in [selected: Selection, pending: Tiers \cup {NoTier}]

\* When nothing is under way the page shows what the LiveView will sell, through
\* accepted and refused clicks, other buyers' changes and lost connections.  The
\* exception is named: a patch caused by somebody else that lands between a click and
\* its answer ends the wait, and a later refusal then restores a selection that is old.
SelectionIsWhatIsSold ==
    joined /\ clicks = <<>> /\ answers = <<>> /\ hook.pending = NoTier /\ ~crossed
        => hook.selected = chosen
=============================================================================

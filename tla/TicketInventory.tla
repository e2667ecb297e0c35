-------------------------- MODULE TicketInventory --------------------------
(***************************************************************************)
(* The seats of one event: how concurrent checkouts, late payments, door    *)
(* sales, timeouts and admin holds share the capacity of its ticket tiers   *)
(* (lib/ysc/tickets/booking_locker.ex, create_ticket_order in               *)
(* lib/ysc/tickets.ex and the reservations of lib/ysc/events.ex).           *)
(*                                                                          *)
(* A checkout is one transaction at READ COMMITTED: every SELECT has its    *)
(* own snapshot, so each count is a step; its writes appear when it         *)
(* commits.  It holds an advisory lock for its buyer and, once it has       *)
(* superseded an older order, that order's row.  No lock covers the counts. *)
(*                                                                          *)
(* Donation tiers never count towards capacity and are left out; sale       *)
(* windows, membership and prices do not touch the counts.                  *)
(***************************************************************************)
EXTENDS Totals

CONSTANTS
    Buyers,
    Bookings,     \* checkout attempts; each creates at most one order
    DoorSales,    \* those started at the door (bypass_guards)
    Tiers,
    Quantity,     \* seats per tier; 0 (or NULL in the table) is unlimited
    MaxAttendees, \* the event's limit, or Nil
    MaxPerBuyer,  \* limit per tier and buyer; 0 (NULL) is no limit
    Nil,
    MaxRequest,   \* bound: seats per tier in one selection
    MaxHolds,     \* bound: reservations ever created
    MaxHeld       \* bound: seats in one reservation

Holds == 1..MaxHolds     \* in the order of inserted_at

ASSUME BookingsAssumption == DoorSales \subseteq Bookings
ASSUME FiniteAssumption == IsFiniteSet(Bookings) /\ IsFiniteSet(Tiers)
ASSUME LimitsAssumption ==
    /\ Quantity \in [Tiers -> Nat] /\ MaxPerBuyer \in [Tiers -> Nat]
    /\ MaxAttendees \in Nat \cup {Nil}
ASSUME NilAssumption == Nil \notin Buyers \cup Bookings \cup Tiers \cup Nat
ASSUME BoundsAssumption == MaxRequest \in Nat /\ MaxHolds \in Nat /\ MaxHeld \in Nat

VARIABLES
    orders,    \* the committed ticket_orders with the seats of their tickets
    holds,     \* the committed ticket_reservations
    lapsed,    \* holds whose expires_at has passed
    pc,        \* next step of each booking
    ask,       \* buyer and selection of each booking
    supersede, \* older orders a checkout has cancelled but not yet committed
    seen,      \* the counts it has read
    plan,      \* seats it takes from each hold of its buyer
    stale,     \* history: bookings whose counts another commit has outdated
    beyond,    \* history: ways in which seats were taken beyond a count, see Reasons
    spared     \* history: open carts that a checkout of their buyer has left open

vars == <<orders, holds, lapsed, pc, ask, supersede, seen, plan, stale, beyond, spared>>
history == <<stale, beyond, spared>>

OrderStatus == {"none", "pending", "completed", "cancelled", "expired"}
HoldStatus == {"none", "active", "fulfilled", "cancelled"}
Seats == [Tiers -> Nat]
NoSeats == [t \in Tiers |-> 0]

Order == [status : OrderStatus, buyer : Buyers \cup {Nil}, seats : Seats]
Hold == [status : HoldStatus, buyer : Buyers \cup {Nil}, tier : Tiers \cup {Nil},
         seats : Nat, order : Bookings \cup {Nil}]
NoOrder == [status |-> "none", buyer |-> Nil, seats |-> NoSeats]
NoHold == [status |-> "none", buyer |-> Nil, tier |-> Nil, seats |-> 0, order |-> Nil]
NoCounts == [sold |-> NoSeats, held |-> NoSeats, mine |-> NoSeats]
NoRequest == [buyer |-> Nil, seats |-> NoSeats]
NoPlan == [h \in Holds |-> 0]

Labels == {"idle", "lock", "prepare", "sold", "held", "event", "plan", "book",
           "complete", "done"}
\* An outdated count, a door sale, a holder past the event's limit, a hold made
\* beyond the tier, a late payment that left its buyer's holds unused.
Reasons == {"race", "door", "holder", "overheld", "unclaimed"}

TypeOK ==
    /\ orders \in [Bookings -> Order]
    /\ holds \in [Holds -> Hold]
    /\ lapsed \subseteq Holds
    /\ pc \in [Bookings -> Labels]
    /\ ask \in [Bookings -> [buyer : Buyers \cup {Nil}, seats : Seats]]
    /\ supersede \in [Bookings -> SUBSET Bookings]
    /\ seen \in [Bookings -> [sold : Seats, held : Seats, mine : Seats]]
    /\ plan \in [Bookings -> [Holds -> Nat]]
    /\ stale \subseteq Bookings
    /\ beyond \subseteq Reasons
    /\ spared \subseteq Bookings

Init ==
    /\ orders = [b \in Bookings |-> NoOrder]
    /\ holds = [h \in Holds |-> NoHold]
    /\ lapsed = {}
    /\ pc = [b \in Bookings |-> "idle"]
    /\ ask = [b \in Bookings |-> NoRequest]
    /\ supersede = [b \in Bookings |-> {}]
    /\ seen = [b \in Bookings |-> NoCounts]
    /\ plan = [b \in Bookings |-> NoPlan]
    /\ stale = {}
    /\ beyond = {}
    /\ spared = {}

-----------------------------------------------------------------------------
(* What the queries count. *)

SeatsOf(t) == [b \in Bookings |-> orders[b].seats[t]]

\* Faulty variant: pending tickets are not counted.
SoldConfirmedOnly(t, without) ==
    Total(SeatsOf(t), {b \in Bookings \ without : orders[b].status = "completed"})

\* Pending and confirmed tickets of a tier, as seen by a transaction that has
\* itself cancelled the orders in without.
Sold(t, without) ==
    Total(SeatsOf(t), {b \in Bookings \ without :
                          orders[b].status \in {"pending", "completed"}})

\* where_ticket_reservation_hold_active
ActiveHolds == {h \in Holds : holds[h].status = "active" /\ h \notin lapsed}

HoldsOf(u, t) == {h \in ActiveHolds : holds[h].buyer = u /\ holds[h].tier = t}

SeatsIn(H) == Total([h \in Holds |-> holds[h].seats], H)

Held(t) == SeatsIn({h \in ActiveHolds : holds[h].tier = t})

Attendees(without) == Total([t \in Tiers |-> Sold(t, without)], Tiers)

Owned(u, t) ==
    Total(SeatsOf(t), {b \in Bookings : orders[b].buyer = u /\ orders[b].status = "completed"})

Pending(u) == {b \in Bookings : orders[b].buyer = u /\ orders[b].status = "pending"}

AtLeastZero(n) == IF n < 0 THEN 0 ELSE n
Least(m, n) == IF m < n THEN m ELSE n

-----------------------------------------------------------------------------
(* Locks and history. *)

\* Inside create_ticket_order_locked: the buyer's advisory lock is held.
InCheckout(b) ==
    /\ orders[b].status = "none"
    /\ pc[b] \in {"prepare", "sold", "held", "event", "plan", "book"}

\* The row of order o is not being cancelled by a checkout that has not ended.
Unlocked(o) == \A b \in Bookings : o \notin supersede[b]

HasCounted(b) == pc[b] \in {"held", "event", "plan", "book", "complete"}

\* Seats were taken: whoever has counted before, b aside, counted too few.
Outdate(b) == stale' = (stale \cup {c \in Bookings : HasCounted(c)}) \ {b}

\* The call returns: its locks are released, what it had read is gone.
Return(b) ==
    /\ pc' = [pc EXCEPT ![b] = "done"]
    /\ supersede' = [supersede EXCEPT ![b] = {}]
    /\ ask' = [ask EXCEPT ![b] = NoRequest]
    /\ seen' = [seen EXCEPT ![b] = NoCounts]
    /\ plan' = [plan EXCEPT ![b] = NoPlan]

\* It returns an error and its transaction leaves no order.
GiveUp(b) ==
    /\ Return(b)
    /\ stale' = stale \ {b}
    /\ UNCHANGED <<beyond, spared>>

-----------------------------------------------------------------------------
(* A checkout: Tickets.create_ticket_order. *)

\* Membership and per-buyer limits are checked before any lock is taken; only
\* confirmed tickets count as owned.
RequestSeats(b) ==
    /\ pc[b] = "idle"
    /\ \E u \in Buyers, wanted \in [Tiers -> 0..MaxRequest] :
         /\ \E t \in Tiers : wanted[t] > 0
         /\ \A t \in Tiers : wanted[t] > 0 /\ MaxPerBuyer[t] > 0
                => Owned(u, t) + wanted[t] <= MaxPerBuyer[t]
         /\ ask' = [ask EXCEPT ![b] = [buyer |-> u, seats |-> wanted]]
    /\ pc' = [pc EXCEPT ![b] = "lock"]
    /\ UNCHANGED <<orders, holds, lapsed, supersede, seen, plan, history>>

\* Faulty variant: checkouts of one buyer are not serialised.
LockCheckoutNever(b) ==
    /\ pc[b] = "lock"
    /\ pc' = [pc EXCEPT ![b] = "prepare"]
    /\ UNCHANGED <<orders, holds, lapsed, ask, supersede, seen, plan, history>>

\* lock_user_event_ticket_checkout!
LockCheckout(b) ==
    /\ pc[b] = "lock"
    /\ \A c \in Bookings \ {b} : ask[c].buyer = ask[b].buyer => ~InCheckout(c)
    /\ pc' = [pc EXCEPT ![b] = "prepare"]
    /\ UNCHANGED <<orders, holds, lapsed, ask, supersede, seen, plan, history>>

\* prepare_new_checkout_session: every pending order of the buyer is cancelled
\* at Stripe, found paid and fulfilled, or left alone because its payment is in
\* flight or Stripe cannot be asked.  A fulfilled order blocks the checkout, which
\* commits what was done.  One that was left alone is looked up at Stripe again
\* (blocking_pending_orders) and blocks it too, unless that second look finds
\* nothing in flight any more: then the checkout goes on beside it.
Prepare(b) ==
    /\ pc[b] = "prepare"
    /\ \/ \E cancelled \in SUBSET Pending(ask[b].buyer) :
            /\ supersede' = [supersede EXCEPT ![b] = cancelled]
            /\ spared' = spared \cup (Pending(ask[b].buyer) \ cancelled)
            /\ pc' = [pc EXCEPT ![b] = "sold"]
            /\ UNCHANGED <<orders, ask, seen, plan, stale, beyond>>
       \/ \E cancelled \in SUBSET Pending(ask[b].buyer) :
          \E paid \in SUBSET (Pending(ask[b].buyer) \ cancelled) :
            /\ cancelled # Pending(ask[b].buyer)
            /\ orders' = [o \in Bookings |->
                 CASE o \in cancelled -> [orders[o] EXCEPT !.status = "cancelled"]
                   [] o \in paid -> [orders[o] EXCEPT !.status = "completed"]
                   [] OTHER -> orders[o]]
            /\ GiveUp(b)
    /\ UNCHANGED <<holds, lapsed>>

\* batch_count_sold_tickets_for_tiers
CountSold(b) ==
    /\ pc[b] = "sold"
    /\ seen' = [seen EXCEPT ![b].sold = [t \in Tiers |-> Sold(t, supersede[b])]]
    /\ pc' = [pc EXCEPT ![b] = "held"]
    /\ stale' = stale \ {b}
    /\ UNCHANGED <<orders, holds, lapsed, ask, supersede, plan, beyond, spared>>

\* batch_count_reserved_tickets_for_tiers and batch_user_reserved_quantities,
\* then validate_tier_capacity for every tier of the selection.  The two SELECTs
\* are one step: a hold that ends between them only makes the check stricter, and
\* one that is made between them outdates the counts of b either way.
TierAllows(b, t, held, mine) ==
    LET available == AtLeastZero(Quantity[t] - seen[b].sold[t] - held) IN
    \/ b \in DoorSales \/ Quantity[t] = 0 \/ ask[b].seats[t] = 0
    \/ ask[b].seats[t] <= available + mine

CountHeld(b) ==
    LET held == [t \in Tiers |-> Held(t)]
        mine == [t \in Tiers |-> SeatsIn(HoldsOf(ask[b].buyer, t))] IN
    /\ pc[b] = "held"
    /\ \/ /\ \A t \in Tiers : TierAllows(b, t, held[t], mine[t])
          /\ seen' = [seen EXCEPT ![b].held = held, ![b].mine = mine]
          /\ pc' = [pc EXCEPT ![b] = "event"]
          /\ UNCHANGED <<supersede, ask, plan, history>>
       \/ /\ \E t \in Tiers : ~TierAllows(b, t, held[t], mine[t])
          /\ GiveUp(b)
    /\ UNCHANGED <<orders, holds, lapsed>>

Requested(b) == Total(ask[b].seats, Tiers)

HoldsSomething(u) == \E t \in Tiers : HoldsOf(u, t) # {}

\* Faulty variant: only what the event already has is compared with its limit.
CheckEventBeforeSale(b) ==
    /\ pc[b] = "event"
    /\ MaxAttendees # Nil => Attendees(supersede[b]) <= MaxAttendees
    /\ pc' = [pc EXCEPT ![b] = IF orders[b].status = "none" THEN "plan" ELSE "complete"]
    /\ UNCHANGED <<orders, holds, lapsed, ask, supersede, seen, plan, history>>

\* validate_event_capacity: a buyer with any active hold of the event passes.
CheckEvent(b) ==
    LET fits == MaxAttendees # Nil /\ b \notin DoorSales
                  => Attendees(supersede[b]) + Requested(b) <= MaxAttendees IN
    /\ pc[b] = "event"
    /\ \/ /\ fits \/ HoldsSomething(ask[b].buyer)
          /\ pc' = [pc EXCEPT ![b] =
                      IF orders[b].status = "none" THEN "plan" ELSE "complete"]
          /\ beyond' = IF fits THEN beyond ELSE beyond \cup {"holder"}
          /\ UNCHANGED <<supersede, ask, seen, plan, stale, spared>>
       \/ ~fits /\ ~HoldsSomething(ask[b].buyer) /\ GiveUp(b)
    /\ UNCHANGED <<orders, holds, lapsed>>

\* fulfill_reservations_for_tier: the buyer's holds cover the selection first in,
\* first out.
Covered(b, h) ==
    LET u == ask[b].buyer
        t == holds[h].tier
        earlier == {g \in HoldsOf(u, t) : g < h}
    IN  Least(holds[h].seats, AtLeastZero(ask[b].seats[t] - SeatsIn(earlier)))

PlanHolds(b) ==
    /\ pc[b] = "plan"
    /\ plan' = [plan EXCEPT ![b] = [h \in Holds |->
                  IF \E t \in Tiers : h \in HoldsOf(ask[b].buyer, t)
                  THEN Covered(b, h) ELSE 0]]
    /\ pc' = [pc EXCEPT ![b] = "book"]
    /\ UNCHANGED <<orders, holds, lapsed, ask, supersede, seen, history>>

Used(b) == {h \in Holds : plan[b][h] > 0}

\* maybe_split_reservation_for_fulfillment: what the order does not need becomes a
\* new active hold (rest names it).
Split(b) == {h \in Used(b) : plan[b][h] < holds[h].seats}

\* New reservations are inserted after the existing ones.
FreeHolds == {h \in Holds : holds[h].status = "none"}
NextFree(H) == \A h \in H, g \in FreeHolds : g < h => g \in H

\* Faulty variant: the hold that is split keeps its quantity.
HoldAfterWithoutShrinking(b, h, rest) ==
    CASE h \in Used(b) -> [holds[h] EXCEPT !.status = "fulfilled", !.order = b]
      [] \E g \in Split(b) : rest[g] = h ->
           LET g == CHOOSE g \in Split(b) : rest[g] = h
           IN  [holds[g] EXCEPT !.seats = @ - plan[b][g]]
      [] OTHER -> holds[h]

HoldAfter(b, h, rest) ==
    CASE h \in Used(b) ->
           [holds[h] EXCEPT !.status = "fulfilled", !.order = b, !.seats = plan[b][h]]
      [] \E g \in Split(b) : rest[g] = h ->
           LET g == CHOOSE g \in Split(b) : rest[g] = h
           IN  [holds[g] EXCEPT !.seats = @ - plan[b][g]]
      [] OTHER -> holds[h]

\* create_ticket_order_atomic, fulfill_reservations_in_transaction (a conditional
\* UPDATE per hold: one that is no longer active rolls everything back),
\* create_tickets_atomic and the commit.
Book(b) ==
    /\ pc[b] = "book"
    /\ \/ /\ Used(b) \subseteq ActiveHolds
          /\ \E rest \in [Split(b) -> FreeHolds] :
               /\ IsInjective(rest) /\ NextFree({rest[g] : g \in Split(b)})
               /\ holds' = [h \in Holds |-> HoldAfter(b, h, rest)]
          /\ orders' = [o \in Bookings |->
               CASE o = b -> [status |-> "pending", buyer |-> ask[b].buyer,
                              seats |-> ask[b].seats]
                 [] o \in supersede[b] -> [orders[o] EXCEPT !.status = "cancelled"]
                 [] OTHER -> orders[o]]
          /\ Outdate(b)
          /\ beyond' = beyond \cup (IF b \in stale THEN {"race"} ELSE {})
                              \cup (IF b \in DoorSales THEN {"door"} ELSE {})
          /\ Return(b)
          /\ UNCHANGED spared
       \/ /\ ~(Used(b) \subseteq ActiveHolds)
          /\ GiveUp(b) /\ UNCHANGED <<orders, holds>>
    /\ UNCHANGED lapsed

-----------------------------------------------------------------------------
(* What happens to an order afterwards.  Each is one conditional UPDATE that    *)
(* waits for the row.                                                           *)

\* Faulty variant: an UPDATE that does not wait for the row.
SettleIgnoringLocks(o, from, to) ==
    /\ orders[o].status = from
    /\ orders' = [orders EXCEPT ![o].status = to]
    /\ UNCHANGED <<holds, lapsed>>

Settle(o, from, to) ==
    /\ orders[o].status = from /\ Unlocked(o)
    /\ orders' = [orders EXCEPT ![o].status = to]
    /\ UNCHANGED <<holds, lapsed>>

Aside == <<pc, ask, supersede, seen, plan, history>>

Pay(o) == Settle(o, "pending", "completed") /\ UNCHANGED Aside
Cancel(o) == Settle(o, "pending", "cancelled") /\ UNCHANGED Aside
Expire(o) == Settle(o, "pending", "expired") /\ UNCHANGED Aside

\* A success that arrives after the timeout: validate_fulfillment_capacity counts
\* again, in a transaction of its own, before the order is completed.  The
\* buyer's holds make room for it but are not used up.  (The event of a door sale
\* has started: expired_fulfillment_capacity_opts skips its checks.)
PayLate(o) ==
    /\ orders[o].status = "expired" /\ pc[o] = "done"
    /\ ask' = [ask EXCEPT ![o] = [buyer |-> orders[o].buyer, seats |-> orders[o].seats]]
    /\ pc' = [pc EXCEPT ![o] = "sold"]
    /\ UNCHANGED <<orders, holds, lapsed, supersede, seen, plan, history>>

CompleteLate(o) ==
    /\ pc[o] = "complete"
    /\ Settle(o, "expired", "completed")
    /\ Return(o)
    /\ Outdate(o)
    /\ beyond' = beyond
         \cup (IF o \in stale THEN {"race"} ELSE {})
         \cup (IF o \in DoorSales THEN {"door"} ELSE {})
         \cup (IF seen[o].mine # NoSeats THEN {"unclaimed"} ELSE {})
    /\ UNCHANGED spared

-----------------------------------------------------------------------------
(* Reservations that an admin makes for a member. *)

\* create_ticket_reservation inserts whatever the form asks for.
CreateHold(h) ==
    /\ h \in FreeHolds /\ NextFree({h})
    /\ \E u \in Buyers, t \in Tiers, n \in 1..MaxHeld :
         /\ holds' = [holds EXCEPT ![h] = [status |-> "active", buyer |-> u, tier |-> t,
                                           seats |-> n, order |-> Nil]]
         /\ beyond' = IF Quantity[t] # 0 /\ Sold(t, {}) + Held(t) + n > Quantity[t]
                      THEN beyond \cup {"overheld"} ELSE beyond
    /\ Outdate(Nil)
    /\ UNCHANGED <<orders, lapsed, pc, ask, supersede, seen, plan, spared>>

\* expires_at passes; a hold without one never lapses.
Lapse(h) ==
    /\ holds[h].status = "active" /\ h \notin lapsed
    /\ lapsed' = lapsed \cup {h}
    /\ UNCHANGED <<orders, holds, pc, ask, supersede, seen, plan, history>>

\* Faulty variant: a changeset update that does not look at the status.
CancelHoldAnyway(h) ==
    /\ holds[h].status # "none"
    /\ holds' = [holds EXCEPT ![h].status = "cancelled"]
    /\ UNCHANGED <<orders, lapsed, pc, ask, supersede, seen, plan, history>>

\* cancel_ticket_reservation
CancelHold(h) ==
    /\ holds[h].status = "active"
    /\ holds' = [holds EXCEPT ![h].status = "cancelled"]
    /\ UNCHANGED <<orders, lapsed, pc, ask, supersede, seen, plan, history>>

\* cancel_expired_ticket_reservation_atomically
ExpireHold(h) ==
    /\ holds[h].status = "active" /\ h \in lapsed
    /\ holds' = [holds EXCEPT ![h].status = "cancelled"]
    /\ UNCHANGED <<orders, lapsed, pc, ask, supersede, seen, plan, history>>

-----------------------------------------------------------------------------
Checkout(b) ==
    \/ RequestSeats(b) \/ LockCheckout(b) \/ Prepare(b) \/ CountSold(b)
    \/ CountHeld(b) \/ CheckEvent(b) \/ PlanHolds(b) \/ Book(b)

Afterwards(o) == Pay(o) \/ Cancel(o) \/ Expire(o) \/ PayLate(o) \/ CompleteLate(o)

Reservation(h) == CreateHold(h) \/ Lapse(h) \/ CancelHold(h) \/ ExpireHold(h)

Next ==
    \/ \E b \in Bookings : Checkout(b) \/ Afterwards(b)
    \/ \E h \in Holds : Reservation(h)

Spec == Init /\ [][Next]_vars

-----------------------------------------------------------------------------
\* Seats sold and held stay within a tier unless one of four things happened
\* (validate_tier_capacity; the moduledoc of BookingLocker names the first).
TierCapacityKept ==
    \A t \in Tiers : Quantity[t] # 0 /\ Sold(t, {}) + Held(t) > Quantity[t]
        => beyond \cap {"race", "door", "overheld", "unclaimed"} # {}

\* Tickets stay within the event's limit unless a count was outdated, seats were
\* sold at the door or a member with a hold was let past (validate_event_capacity).
EventCapacityKept ==
    MaxAttendees # Nil /\ Attendees({}) > MaxAttendees
        => beyond \cap {"race", "door", "holder"} # {}

\* A buyer has no second open cart for the event, whatever tabs are open, except
\* beside carts that a checkout has found in flight and then no longer in flight:
\* two would mean two confirmable payments (create_ticket_order_locked).  Of those the
\* code says "left pending, caught below by blocking_pending_orders", and they are not.
OnePendingOrderPerBuyer ==
    \A u \in Buyers : \A b, c \in Pending(u) \ spared : b = c

\* A cart that was paid or given up stays so: in particular a checkout that has
\* superseded it never cancels it after it was paid, because it holds the row until
\* it commits (prepare_new_checkout_session, complete_ticket_order_if_pending).
SettledOrdersStay ==
    [][\A b \in Bookings : orders[b].status \in {"completed", "cancelled"}
                             => orders'[b].status = orders[b].status]_vars

\* A hold is used or cancelled once and for all, by whoever is first: checkout, an
\* admin or the expiry job (the conditional UPDATEs of lib/ysc/events.ex).
HoldsAreDecidedOnce ==
    [][\A h \in Holds : holds[h].status \in {"fulfilled", "cancelled"}
                          => holds'[h] = holds[h]]_vars

\* The holds an order has used are its buyer's and cover no more seats than it has;
\* a hold that is split gives away what is left (maybe_split_reservation).
HoldsBackTheirOrder ==
    \A b \in Bookings, t \in Tiers :
        LET used == {h \in Holds : holds[h].order = b /\ holds[h].tier = t} IN
        /\ \A h \in used : holds[h].status = "fulfilled" /\ holds[h].buyer = orders[b].buyer
        /\ SeatsIn(used) <= orders[b].seats[t]

\* "Capacity is never exceeded" (docs/OVERBOOKING_PREVENTION.md).
CapacityNeverExceeded ==
    \A t \in Tiers : Quantity[t] # 0 => Sold(t, {}) <= Quantity[t]

=============================================================================

------------------------ MODULE TicketInventoryProofs ------------------------
(***************************************************************************)
(* Proofs about TicketInventory for any number of members, checkouts, tiers *)
(* and holds: but for carts that a checkout has spared a member has one     *)
(* open cart, and a hold is decided once; what is sold and held stays       *)
(* within a tier, what is sold within the event's limit, unless one of the  *)
(* named things has happened; and an order uses no more of its buyer's      *)
(* holds than it has seats.                                                 *)
(*                                                                          *)
(* One cart per member, beside those a checkout has spared, rests on two    *)
(* facts about checkouts that run: the advisory lock lets one of a member's *)
(* through at a time, and from the moment it has superseded or spared the   *)
(* member's carts until it books, no other cart of that member can appear.  *)
(*                                                                          *)
(* The seats rest on another: a checkout that nobody has outdated keeps the *)
(* room it was given, for what others have sold and hold can only have      *)
(* shrunk since it counted.  Its own holds may lapse meanwhile, but then    *)
(* the plan it has made from them no longer applies, or it takes all that   *)
(* is left of them.                                                         *)
(***************************************************************************)
EXTENDS TicketInventory, TotalsProofs

-----------------------------------------------------------------------------
(* One cart per member: the inductive invariant.                           *)

\* What is used of the types here.  The counts come with the seats,
\* below.
Shape ==
    /\ orders \in [Bookings -> Order]
    /\ holds = [h \in Holds |-> holds[h]]
    /\ pc \in [Bookings -> Labels]
    /\ ask \in [Bookings -> [buyer : Buyers \cup {Nil}, seats : Seats]]
    /\ supersede \in [Bookings -> SUBSET Bookings]

\* The advisory lock.
OneCheckoutPerBuyer ==
    \A b, c \in Bookings :
        InCheckout(b) /\ InCheckout(c) /\ ask[b].buyer = ask[c].buyer => b = c

\* o is an open cart of the buyer that checkout b serves.
CartOf(b, o) == orders[o].status = "pending" /\ orders[o].buyer = ask[b].buyer

\* The carts that a checkout has superseded are those its buyer has, but for carts
\* that were spared.
Superseded(b) ==
    \A o \in Bookings :
        /\ o \in supersede[b] => CartOf(b, o)
        /\ CartOf(b, o) => o \in supersede[b] \cup spared

\* This lasts until it commits: they stay pending because of their row locks, and
\* no other appears because of the advisory lock.
CheckoutSupersedesAll ==
    \A b \in Bookings : InCheckout(b) /\ pc[b] # "prepare" => Superseded(b)

\* Nothing else has superseded anything.
NothingSuperseded ==
    \A b \in Bookings : ~InCheckout(b) \/ pc[b] = "prepare" => supersede[b] = {}

\* A checkout that has not booked has no order.
NewUntilBooked ==
    \A b \in Bookings : pc[b] \in {"idle", "lock", "prepare", "plan", "book"}
        => orders[b].status = "none"

OneCart ==
    \A b, c \in Bookings :
        /\ orders[b].status = "pending" /\ orders[c].status = "pending"
        /\ orders[b].buyer = orders[c].buyer
        /\ b \notin spared /\ c \notin spared
        => b = c

IInv ==
    Shape /\ OneCheckoutPerBuyer /\ CheckoutSupersedesAll /\ NothingSuperseded
          /\ NewUntilBooked /\ OneCart

LEMMA IInvImplies == IInv => OnePendingOrderPerBuyer
BY DEF IInv, OneCart, OnePendingOrderPerBuyer, Pending

LEMMA InitIInv == ASSUME Init PROVE IInv
<1>1. NoOrder \in Order /\ NoRequest \in [buyer : Buyers \cup {Nil}, seats : Seats]
  BY DEF NoOrder, Order, OrderStatus, Seats, NoSeats, NoRequest
<1>2. Shape
  BY <1>1 DEF Init, Shape, Labels
<1>3. \A b \in Bookings : orders[b].status = "none" /\ pc[b] = "idle"
  BY DEF Init, NoOrder
<1>4. QED
  BY <1>2, <1>3 DEF IInv, OneCheckoutPerBuyer, CheckoutSupersedesAll, NewUntilBooked,
                    OneCart, InCheckout, NothingSuperseded, Init

-----------------------------------------------------------------------------
(* Steps. *)

\* Orders are only settled: none is created and none becomes a cart again.
OrdersSettle ==
    \A o \in Bookings :
        /\ orders'[o].buyer = orders[o].buyer
        /\ \/ orders'[o].status = orders[o].status
           \/ /\ orders[o].status \in {"pending", "expired"}
              /\ orders'[o].status \in {"completed", "cancelled", "expired"}

\* A step in which only b moves, and orders are only settled, keeps the invariant
\* if it leaves b where b's part of the invariant holds.
LEMMA MoveLemma ==
    ASSUME IInv, Shape', OrdersSettle, spared \subseteq spared', NEW b \in Bookings,
           \A c \in Bookings \ {b} :
               pc'[c] = pc[c] /\ ask'[c] = ask[c] /\ supersede'[c] = supersede[c],
           \A c \in Bookings \ {b} : \A o \in supersede[c] :
               orders'[o].status = orders[o].status,
           InCheckout(b)' =>
               /\ \A c \in Bookings \ {b} :
                    InCheckout(c) => ask[c].buyer # ask'[b].buyer
               /\ pc'[b] # "prepare" => Superseded(b)',
           ~InCheckout(b)' \/ pc'[b] = "prepare" => supersede'[b] = {},
           pc'[b] \in {"idle", "lock", "prepare", "plan", "book"}
               => orders[b].status = "none"
    PROVE  IInv'
<1>1. \A c \in Bookings \ {b} : InCheckout(c)' <=> InCheckout(c)
  BY DEF InCheckout, OrdersSettle
<1>2. OneCheckoutPerBuyer'
  BY <1>1 DEF OneCheckoutPerBuyer, IInv
<1>3. \A o \in Bookings : orders'[o].status = "pending" => orders[o].status = "pending"
  BY DEF OrdersSettle
<1>4. CheckoutSupersedesAll'
  <2>1. ASSUME NEW c \in Bookings \ {b}, InCheckout(c)', pc'[c] # "prepare",
               NEW o \in Bookings
        PROVE  /\ o \in supersede'[c] => CartOf(c, o)'
               /\ CartOf(c, o)' => o \in supersede'[c] \cup spared'
    <3>1. InCheckout(c) /\ pc[c] # "prepare" /\ supersede'[c] = supersede[c]
      BY <1>1, <2>1
    <3>2. /\ o \in supersede[c] => CartOf(c, o)
          /\ CartOf(c, o) => o \in supersede[c] \cup spared
      BY <3>1 DEF CheckoutSupersedesAll, Superseded, IInv
    <3>3. o \in supersede[c] => orders'[o].status = orders[o].status
      BY <3>1
    <3>4. QED
      BY <1>3, <3>1, <3>2, <3>3 DEF CartOf, OrdersSettle
  <2>2. QED
    BY <2>1 DEF CheckoutSupersedesAll, Superseded
<1>5. NewUntilBooked'
  BY DEF NewUntilBooked, IInv, OrdersSettle
<1>6. OneCart'
  BY <1>3 DEF OneCart, IInv, OrdersSettle
<1>7. NothingSuperseded'
  BY <1>1 DEF NothingSuperseded, IInv
<1>8. QED
  BY <1>2, <1>4, <1>5, <1>6, <1>7 DEF IInv

LEMMA RequestStep ==
    ASSUME IInv, NEW b \in Bookings, RequestSeats(b)
    PROVE  IInv'
<1>1. PICK u \in Buyers, wanted \in [Tiers -> 0..MaxRequest] :
        ask' = [ask EXCEPT ![b] = [buyer |-> u, seats |-> wanted]]
  BY DEF RequestSeats
<1>2. 0..MaxRequest \subseteq Nat
  BY BoundsAssumption
<1>3. wanted \in Seats
  BY <1>2 DEF Seats
<1>4. Shape'
  BY <1>1, <1>3 DEF RequestSeats, IInv, Shape, Labels
<1>5. pc'[b] = "lock" /\ orders[b].status = "none"
  BY DEF RequestSeats, IInv, Shape, NewUntilBooked
<1>6. QED
  BY <1>4, <1>5, MoveLemma DEF RequestSeats, IInv, Shape, OrdersSettle, InCheckout,
                              NothingSuperseded, history

LEMMA LockStep ==
    ASSUME IInv, NEW b \in Bookings, LockCheckout(b)
    PROVE  IInv'
<1>1. Shape'
  BY DEF LockCheckout, IInv, Shape, Labels
<1>2. pc'[b] = "prepare" /\ orders[b].status = "none" /\ supersede[b] = {}
  BY DEF LockCheckout, IInv, Shape, NewUntilBooked, NothingSuperseded, InCheckout
<1>3. QED
  BY <1>1, <1>2, MoveLemma DEF LockCheckout, IInv, Shape, OrdersSettle, history

\* A call that returns leaves nothing to be kept about it.
LEMMA ReturnShape ==
    ASSUME Shape, NEW b \in Bookings, Return(b)
    PROVE  /\ pc' \in [Bookings -> Labels]
           /\ ask' \in [Bookings -> [buyer : Buyers \cup {Nil}, seats : Seats]]
           /\ supersede' \in [Bookings -> SUBSET Bookings]
           /\ pc'[b] = "done" /\ supersede'[b] = {}
           /\ \A c \in Bookings \ {b} :
                pc'[c] = pc[c] /\ ask'[c] = ask[c] /\ supersede'[c] = supersede[c]
<1>1. NoRequest \in [buyer : Buyers \cup {Nil}, seats : Seats]
  BY DEF NoRequest, Seats, NoSeats
<1>2. QED
  BY <1>1 DEF Return, Shape, Labels

\* A checkout that gives up, with the carts it has settled on the way.
LEMMA ReturnStep ==
    ASSUME IInv, NEW b \in Bookings, Return(b), OrdersSettle, spared' = spared,
           orders' \in [Bookings -> Order], holds' = holds,
           \A c \in Bookings \ {b} : \A o \in supersede[c] :
               orders'[o].status = orders[o].status
    PROVE  IInv'
<1>1. Shape'
  BY ReturnShape DEF IInv, Shape
<1>2. QED
  BY <1>1, ReturnShape, MoveLemma DEF IInv, InCheckout

LEMMA GiveUpStep ==
    ASSUME IInv, NEW b \in Bookings, GiveUp(b), orders' = orders, holds' = holds
    PROVE  IInv'
BY ReturnStep DEF GiveUp, IInv, Shape, OrdersSettle

LEMMA PrepareStep ==
    ASSUME IInv, NEW b \in Bookings, Prepare(b)
    PROVE  IInv'
<1>1. ASSUME NEW cancelled \in SUBSET Pending(ask[b].buyer),
             supersede' = [supersede EXCEPT ![b] = cancelled],
             spared' = spared \cup (Pending(ask[b].buyer) \ cancelled),
             pc' = [pc EXCEPT ![b] = "sold"], UNCHANGED <<orders, ask>>
      PROVE  IInv'
  <2>1. cancelled \subseteq Bookings
    BY DEF Pending
  <2>2. Shape'
    BY <1>1, <2>1 DEF Prepare, IInv, Shape, Labels
  <2>3. pc'[b] = "sold" /\ supersede'[b] = cancelled /\ ask'[b] = ask[b]
    BY <1>1 DEF IInv, Shape
  <2>4. InCheckout(b)
    BY DEF Prepare, IInv, NewUntilBooked, InCheckout
  <2>5. \A c \in Bookings \ {b} : InCheckout(c) => ask[c].buyer # ask'[b].buyer
    BY <2>3, <2>4 DEF IInv, OneCheckoutPerBuyer
  <2>6. InCheckout(b)'
    BY <1>1, <2>3, <2>4 DEF InCheckout
  <2>7. Superseded(b)'
    BY <1>1, <2>3 DEF Superseded, CartOf, Pending
  <2>8. OrdersSettle
    BY <1>1 DEF OrdersSettle
  <2>9. \A c \in Bookings \ {b} :
          pc'[c] = pc[c] /\ ask'[c] = ask[c] /\ supersede'[c] = supersede[c]
    BY <1>1 DEF IInv, Shape
  <2>10. orders' = orders /\ spared \subseteq spared'
    BY <1>1
  <2>11. QED
    BY <2>2, <2>3, <2>5, <2>6, <2>7, <2>8, <2>9, <2>10, MoveLemma
<1>2. CASE \E cancelled \in SUBSET Pending(ask[b].buyer) :
           \E paid \in SUBSET (Pending(ask[b].buyer) \ cancelled) :
             /\ orders' = [o \in Bookings |->
                  CASE o \in cancelled -> [orders[o] EXCEPT !.status = "cancelled"]
                    [] o \in paid -> [orders[o] EXCEPT !.status = "completed"]
                    [] OTHER -> orders[o]]
             /\ GiveUp(b)
  <2>1. PICK cancelled \in SUBSET Pending(ask[b].buyer),
             paid \in SUBSET Pending(ask[b].buyer) :
             orders' = [o \in Bookings |->
                  CASE o \in cancelled -> [orders[o] EXCEPT !.status = "cancelled"]
                    [] o \in paid -> [orders[o] EXCEPT !.status = "completed"]
                    [] OTHER -> orders[o]]
    BY <1>2
  <2>2. orders' \in [Bookings -> Order]
    BY <2>1 DEF IInv, Shape, Order, OrderStatus
  <2>3. OrdersSettle
    BY <2>1 DEF OrdersSettle, IInv, Shape, Order, Pending
  <2>4. InCheckout(b)
    BY DEF Prepare, IInv, NewUntilBooked, InCheckout
  <2>5. ASSUME NEW c \in Bookings \ {b}, NEW o \in supersede[c]
        PROVE  orders'[o].status = orders[o].status
    <3>1. InCheckout(c) /\ pc[c] # "prepare" /\ o \in Bookings
      BY DEF IInv, NothingSuperseded, Shape
    <3>2. ask[c].buyer # ask[b].buyer
      BY <2>4, <3>1 DEF IInv, OneCheckoutPerBuyer
    <3>3. o \notin Pending(ask[b].buyer)
      BY <3>1, <3>2 DEF IInv, CheckoutSupersedesAll, Superseded, CartOf, Pending
    <3>4. QED
      BY <2>1, <3>1, <3>3
  <2>6. QED
    BY <1>2, <2>2, <2>3, <2>5, ReturnStep DEF Prepare, GiveUp
<1>3. QED
  BY <1>1, <1>2 DEF Prepare

\* A checkout that only reads goes on to its next step.
LEMMA ReadStep ==
    ASSUME IInv, NEW b \in Bookings,
           NEW l \in {"held", "event", "plan", "book", "complete"},
           pc' = [pc EXCEPT ![b] = l], pc[b] \in {"sold", "held", "event", "plan"},
           l \in {"plan", "book"} => orders[b].status = "none",
           l = "complete" => orders[b].status # "none",
           UNCHANGED <<orders, holds, ask, supersede, spared>>
    PROVE  IInv'
<1>1. Shape'
  BY DEF IInv, Shape, Labels
<1>2. pc'[b] = l
  BY DEF IInv, Shape
<1>3. InCheckout(b)' => InCheckout(b) /\ pc[b] # "prepare"
  BY DEF InCheckout
<1>4. InCheckout(b)' => \A c \in Bookings \ {b} :
        InCheckout(c) => ask[c].buyer # ask'[b].buyer
  BY <1>3 DEF IInv, OneCheckoutPerBuyer
<1>5. InCheckout(b)' => Superseded(b)'
  BY <1>3 DEF IInv, CheckoutSupersedesAll, Superseded, CartOf
<1>6. ~InCheckout(b)' => supersede'[b] = {}
  BY <1>2 DEF IInv, NothingSuperseded, InCheckout, NewUntilBooked
<1>7. QED
  BY <1>1, <1>2, <1>4, <1>5, <1>6, MoveLemma DEF IInv, Shape, OrdersSettle

LEMMA ReadSteps ==
    ASSUME IInv, NEW b \in Bookings,
           CountSold(b) \/ CountHeld(b) \/ CheckEvent(b) \/ PlanHolds(b)
    PROVE  IInv'
<1>1. CASE CountSold(b)
  BY <1>1, ReadStep DEF CountSold
<1>2. CASE CountHeld(b)
  <2>1. CASE pc' = [pc EXCEPT ![b] = "event"] /\ UNCHANGED <<supersede, ask, spared>>
    BY <1>2, <2>1, ReadStep DEF CountHeld
  <2>2. CASE GiveUp(b)
    BY <1>2, <2>2, GiveUpStep DEF CountHeld
  <2>3. QED
    BY <1>2, <2>1, <2>2 DEF CountHeld, history
<1>3. CASE CheckEvent(b)
  <2>1. CASE /\ pc' = [pc EXCEPT ![b] = IF orders[b].status = "none"
                                         THEN "plan" ELSE "complete"]
             /\ UNCHANGED <<supersede, ask, spared>>
    BY <1>3, <2>1, ReadStep DEF CheckEvent
  <2>2. CASE GiveUp(b)
    BY <1>3, <2>2, GiveUpStep DEF CheckEvent
  <2>3. QED
    BY <1>3, <2>1, <2>2 DEF CheckEvent
<1>4. CASE PlanHolds(b)
  BY <1>4, ReadStep DEF PlanHolds, IInv, NewUntilBooked, history
<1>5. QED
  BY <1>1, <1>2, <1>3, <1>4

-----------------------------------------------------------------------------
(* The commit of a checkout. *)

LEMMA BookStep ==
    ASSUME IInv, NEW b \in Bookings, Book(b)
    PROVE  IInv'
<1>1. CASE ~(Used(b) \subseteq ActiveHolds)
  BY <1>1, GiveUpStep DEF Book
<1>2. CASE Used(b) \subseteq ActiveHolds
  <2>1. /\ Return(b) /\ spared' = spared
        /\ \E rest : holds' = [h \in Holds |-> HoldAfter(b, h, rest)]
        /\ orders' = [o \in Bookings |->
               CASE o = b -> [status |-> "pending", buyer |-> ask[b].buyer,
                              seats |-> ask[b].seats]
                 [] o \in supersede[b] -> [orders[o] EXCEPT !.status = "cancelled"]
                 [] OTHER -> orders[o]]
    BY <1>2 DEF Book
  <2>2. orders' \in [Bookings -> Order]
    <3>1. [status |-> "pending", buyer |-> ask[b].buyer, seats |-> ask[b].seats] \in Order
      BY DEF IInv, Shape, Order, OrderStatus
    <3>2. \A o \in Bookings :
            orders[o] \in Order /\ [orders[o] EXCEPT !.status = "cancelled"] \in Order
      BY DEF IInv, Shape, Order, OrderStatus
    <3>3. QED
      BY <2>1, <3>1, <3>2
  <2>3. Shape'
    <3>1. PICK rest : holds' = [h \in Holds |-> HoldAfter(b, h, rest)]
      BY <2>1
    <3>2. holds' = [h \in Holds |-> holds'[h]]
      BY <3>1
    <3>3. QED
      BY <2>1, <2>2, <3>2, ReturnShape DEF IInv, Shape
  <2>4. orders[b].status = "none" /\ InCheckout(b) /\ pc[b] # "prepare"
    BY DEF Book, IInv, NewUntilBooked, InCheckout
  <2>5. orders'[b].status = "pending" /\ orders'[b].buyer = ask[b].buyer
    <3>1. b \notin supersede[b]
      BY <2>4 DEF IInv, CheckoutSupersedesAll, Superseded, CartOf
    <3>2. QED
      BY <2>1, <3>1
  <2>6. \A o \in Bookings \ {b} :
          /\ orders'[o].buyer = orders[o].buyer
          /\ orders'[o].status = IF o \in supersede[b] THEN "cancelled" ELSE orders[o].status
    BY <2>1 DEF IInv, Shape, Order
  <2>7. \A c \in Bookings : InCheckout(c)' =>
          InCheckout(c) /\ c # b /\ pc'[c] = pc[c] /\ ask'[c] = ask[c]
            /\ supersede'[c] = supersede[c] /\ ask[c].buyer # ask[b].buyer
    <3>1. \A c \in Bookings \ {b} : InCheckout(c)' => orders[c].status # "pending"
      BY <2>6 DEF InCheckout
    <3>2. QED
      BY <2>1, <2>4, <2>6, ReturnShape DEF InCheckout, IInv, OneCheckoutPerBuyer, Shape
  <2>8. OneCheckoutPerBuyer'
    BY <2>7 DEF OneCheckoutPerBuyer, IInv
  <2>9. CheckoutSupersedesAll'
    <3>1. ASSUME NEW c \in Bookings, InCheckout(c)', pc'[c] # "prepare",
                 NEW o \in Bookings
          PROVE  /\ o \in supersede'[c] => CartOf(c, o)'
                 /\ CartOf(c, o)' => o \in supersede'[c] \cup spared'
      <4>1. /\ o \in supersede[c] => CartOf(c, o)
            /\ CartOf(c, o) => o \in supersede[c] \cup spared
        BY <2>7, <3>1 DEF IInv, CheckoutSupersedesAll, Superseded
      <4>2. o \in supersede[b] => orders[o].buyer = ask[b].buyer
        BY <2>4 DEF IInv, CheckoutSupersedesAll, Superseded, CartOf
      <4>3. QED
        BY <2>1, <2>4, <2>5, <2>6, <2>7, <3>1, <4>1, <4>2 DEF CartOf
    <3>2. QED
      BY <3>1 DEF CheckoutSupersedesAll, Superseded
  <2>10. NewUntilBooked'
    <3>1. pc'[b] = "done"
      BY <2>1, ReturnShape DEF IInv
    <3>2. \A c \in Bookings \ {b} : pc'[c] = pc[c]
      BY <2>1, ReturnShape DEF IInv
    <3>3. \A c \in Bookings \ {b} :
            c \in supersede[b] => orders[c].status = "pending"
      BY <2>4 DEF IInv, CheckoutSupersedesAll, Superseded, CartOf
    <3>4. QED
      BY <2>6, <3>1, <3>2, <3>3 DEF NewUntilBooked, IInv
  <2>11. OneCart'
    BY <2>1, <2>4, <2>5, <2>6 DEF OneCart, CheckoutSupersedesAll, Superseded, CartOf, IInv
  <2>12. NothingSuperseded'
    <3>1. supersede'[b] = {}
      BY <2>1, ReturnShape DEF IInv
    <3>2. ASSUME NEW c \in Bookings \ {b}, supersede[c] # {}
          PROVE  InCheckout(c)' /\ pc'[c] # "prepare"
      <4>1. InCheckout(c) /\ pc[c] # "prepare" /\ pc'[c] = pc[c]
        BY <2>1, <3>2, ReturnShape DEF IInv, NothingSuperseded
      <4>2. c \notin supersede[b]
        BY <2>4, <4>1 DEF IInv, CheckoutSupersedesAll, Superseded, CartOf, InCheckout
      <4>3. QED
        BY <2>6, <4>1, <4>2 DEF InCheckout
    <3>3. \A c \in Bookings \ {b} : supersede'[c] = supersede[c]
      BY <2>1, ReturnShape DEF IInv
    <3>4. QED
      BY <3>1, <3>2, <3>3 DEF NothingSuperseded
  <2>13. QED
    BY <2>3, <2>8, <2>9, <2>10, <2>11, <2>12 DEF IInv
<1>3. QED
  BY <1>1, <1>2

-----------------------------------------------------------------------------
(* What happens to an order afterwards, and reservations. *)

LEMMA SettledOrders ==
    ASSUME IInv, NEW o \in Bookings,
           NEW from \in {"pending", "expired"},
           NEW to \in {"completed", "cancelled", "expired"}, Settle(o, from, to)
    PROVE  /\ orders' \in [Bookings -> Order] /\ holds' = holds
           /\ OrdersSettle
           /\ \A c \in Bookings : \A q \in supersede[c] :
                orders'[q].status = orders[q].status
<1>1. orders' = [orders EXCEPT ![o].status = to] /\ holds' = holds
  BY DEF Settle
<1>2. orders' \in [Bookings -> Order]
  BY <1>1 DEF IInv, Shape, Order, OrderStatus
<1>3. OrdersSettle
  BY <1>1 DEF Settle, IInv, Shape, Order, OrdersSettle
<1>4. \A c \in Bookings : o \notin supersede[c]
  BY DEF Settle, Unlocked
<1>5. \A c \in Bookings : \A q \in supersede[c] : q \in Bookings /\ q # o
  BY <1>4 DEF IInv, Shape
<1>6. QED
  BY <1>1, <1>2, <1>3, <1>5 DEF IInv, Shape

\* Where nobody moves.
LEMMA StillStep ==
    ASSUME IInv, OrdersSettle, UNCHANGED <<pc, ask, supersede, spared>>,
           orders' \in [Bookings -> Order], holds' = [h \in Holds |-> holds'[h]],
           \A c \in Bookings : \A q \in supersede[c] :
               orders'[q].status = orders[q].status
    PROVE  IInv'
<1>1. Shape'
  BY DEF IInv, Shape
<1>2. CASE Bookings = {}
  BY <1>1, <1>2 DEF IInv, OneCheckoutPerBuyer, CheckoutSupersedesAll, NothingSuperseded,
                    NewUntilBooked, OneCart
<1>3. CASE Bookings # {}
  <2>1. PICK b \in Bookings : TRUE
    BY <1>3
  <2>2. InCheckout(b)' <=> InCheckout(b)
    BY DEF InCheckout, OrdersSettle
  <2>3. InCheckout(b) /\ pc[b] # "prepare"
          => Superseded(b)'
    BY DEF IInv, CheckoutSupersedesAll, Superseded, CartOf, OrdersSettle
  <2>4. QED
    BY <1>1, <2>1, <2>2, <2>3, MoveLemma
       DEF IInv, OneCheckoutPerBuyer, NothingSuperseded, NewUntilBooked
<1>4. QED
  BY <1>2, <1>3

LEMMA AfterwardsSteps ==
    ASSUME IInv, NEW o \in Bookings, Afterwards(o)
    PROVE  IInv'
<1>1. CASE Pay(o) \/ Cancel(o) \/ Expire(o)
  <2>1. UNCHANGED <<pc, ask, supersede, spared>>
    BY <1>1 DEF Pay, Cancel, Expire, Aside, history
  <2>2. PICK to \in {"completed", "cancelled", "expired"} : Settle(o, "pending", to)
    BY <1>1 DEF Pay, Cancel, Expire
  <2>3. holds' = [h \in Holds |-> holds'[h]]
    BY <2>2, SettledOrders DEF IInv, Shape
  <2>4. QED
    BY <2>1, <2>2, <2>3, SettledOrders, StillStep
<1>2. CASE PayLate(o)
  <2>1. Shape'
    BY <1>2 DEF PayLate, IInv, Shape, Labels, Order
  <2>2. pc'[o] = "sold" /\ orders'[o].status # "none" /\ supersede'[o] = {}
    BY <1>2 DEF PayLate, IInv, Shape, NothingSuperseded, InCheckout
  <2>3. QED
    BY <1>2, <2>1, <2>2, MoveLemma DEF PayLate, IInv, Shape, OrdersSettle, InCheckout, history
<1>3. CASE CompleteLate(o)
  <2>1. Settle(o, "expired", "completed") /\ Return(o) /\ spared' = spared
    BY <1>3 DEF CompleteLate
  <2>2. QED
    BY <2>1, SettledOrders, ReturnStep
<1>4. QED
  BY <1>1, <1>2, <1>3 DEF Afterwards

LEMMA ReservationSteps ==
    ASSUME IInv, NEW h \in Holds, Reservation(h)
    PROVE  IInv'
<1>1. UNCHANGED <<orders, pc, ask, supersede, spared>>
  BY DEF Reservation, CreateHold, Lapse, CancelHold, ExpireHold, history
<1>2. holds' = [g \in Holds |-> holds'[g]]
  BY DEF Reservation, CreateHold, Lapse, CancelHold, ExpireHold, IInv, Shape
<1>3. QED
  BY <1>1, <1>2, StillStep DEF OrdersSettle, IInv, Shape

-----------------------------------------------------------------------------
(* What no step does. *)

OrdersStay ==
    \A b \in Bookings : orders[b].status \in {"completed", "cancelled"}
                            => orders'[b].status = orders[b].status

HoldsStay ==
    \A h \in Holds : holds[h].status \in {"fulfilled", "cancelled"}
                         => holds'[h] = holds[h]

LEMMA BookStays ==
    ASSUME IInv, NEW b \in Bookings, Book(b)
    PROVE  OrdersStay /\ HoldsStay
<1>1. CASE UNCHANGED <<orders, holds>>
  BY <1>1 DEF OrdersStay, HoldsStay
<1>2. CASE
        /\ Used(b) \subseteq ActiveHolds
        /\ \E rest \in [Split(b) -> FreeHolds] :
             holds' = [h \in Holds |-> HoldAfter(b, h, rest)]
        /\ orders' = [o \in Bookings |->
             CASE o = b -> [status |-> "pending", buyer |-> ask[b].buyer,
                            seats |-> ask[b].seats]
               [] o \in supersede[b] -> [orders[o] EXCEPT !.status = "cancelled"]
               [] OTHER -> orders[o]]
  <2>1. OrdersStay
    <3>1. orders[b].status = "none"
      BY DEF Book, IInv, NewUntilBooked
    <3>2. \A o \in supersede[b] : orders[o].status = "pending"
      BY <3>1 DEF Book, IInv, CheckoutSupersedesAll, Superseded, CartOf, InCheckout, Shape
    <3>3. QED
      BY <1>2, <3>1, <3>2 DEF OrdersStay
  <2>2. ASSUME NEW h \in Holds, holds[h].status \in {"fulfilled", "cancelled"}
        PROVE  holds'[h] = holds[h]
    <3>1. PICK rest \in [Split(b) -> FreeHolds] :
            holds' = [g \in Holds |-> HoldAfter(b, g, rest)]
      BY <1>2
    <3>2. h \notin Used(b)
      BY <1>2, <2>2 DEF ActiveHolds
    <3>3. \A g \in Split(b) : rest[g] # h
      BY <2>2, <3>1 DEF FreeHolds
    <3>4. HoldAfter(b, h, rest) = holds[h]
      BY <3>2, <3>3 DEF HoldAfter
    <3>5. QED
      BY <3>1, <3>4
  <2>3. QED
    BY <2>1, <2>2 DEF HoldsStay
<1>3. QED
  BY <1>1, <1>2 DEF Book

LEMMA StepsStay ==
    ASSUME IInv, [Next]_vars
    PROVE  OrdersStay /\ HoldsStay
<1>1. CASE UNCHANGED vars
  BY <1>1 DEF vars, OrdersStay, HoldsStay
<1>2. ASSUME NEW b \in Bookings, Checkout(b)
      PROVE  OrdersStay /\ HoldsStay
  <2>1. CASE Book(b)
    BY <2>1, BookStays
  <2>2. CASE Prepare(b)
    BY <2>2 DEF Prepare, OrdersStay, HoldsStay, Pending
  <2>3. CASE ~(Book(b) \/ Prepare(b))
    <3>1. UNCHANGED <<orders, holds>>
      BY <1>2, <2>3 DEF Checkout, RequestSeats, LockCheckout, CountSold, CountHeld,
                        CheckEvent, PlanHolds
    <3>2. QED
      BY <3>1 DEF OrdersStay, HoldsStay
  <2>4. QED
    BY <2>1, <2>2, <2>3
<1>3. ASSUME NEW o \in Bookings, Afterwards(o)
      PROVE  OrdersStay /\ HoldsStay
  <2>1. HoldsStay
    BY <1>3 DEF Afterwards, Pay, Cancel, Expire, PayLate, CompleteLate, Settle, HoldsStay
  <2>2. OrdersStay
    BY <1>3 DEF Afterwards, Pay, Cancel, Expire, PayLate, CompleteLate, Settle, OrdersStay,
                IInv, Shape
  <2>3. QED
    BY <2>1, <2>2
<1>4. ASSUME NEW h \in Holds, Reservation(h)
      PROVE  OrdersStay /\ HoldsStay
  BY <1>4 DEF Reservation, CreateHold, Lapse, CancelHold, ExpireHold, OrdersStay,
              HoldsStay, FreeHolds, IInv, Shape
<1>5. QED
  BY <1>1, <1>2, <1>3, <1>4 DEF Next

LEMMA NextIInv ==
    ASSUME IInv, [Next]_vars
    PROVE  IInv'
<1>1. CASE UNCHANGED vars
  BY <1>1 DEF vars, IInv, Shape, OneCheckoutPerBuyer, CheckoutSupersedesAll, Superseded,
              CartOf, NothingSuperseded, NewUntilBooked, OneCart, InCheckout
<1>2. ASSUME NEW b \in Bookings, Checkout(b)
      PROVE  IInv'
  BY <1>2, RequestStep, LockStep, PrepareStep, ReadSteps, BookStep DEF Checkout
<1>3. QED
  BY <1>1, <1>2, AfterwardsSteps, ReservationSteps DEF Next

-----------------------------------------------------------------------------
(* The theorems. *)

\* The invariant of the advisory lock and the row locks holds throughout.
THEOREM Invariance == Spec => []IInv
<1>1. Init => IInv
  BY InitIInv
<1>2. IInv /\ [Next]_vars => IInv'
  BY NextIInv
<1>3. QED
  BY <1>1, <1>2, PTL DEF Spec

\* No buyer has two open carts, but beside one that a checkout has looked up twice
\* at Stripe and left open (create_ticket_order_locked).
THEOREM OneCartPerBuyer == Spec => []OnePendingOrderPerBuyer
<1>1. IInv => OnePendingOrderPerBuyer
  BY IInvImplies
<1>2. QED
  BY <1>1, Invariance, PTL

\* A paid or given-up cart stays so, also against the checkout that has superseded
\* it (prepare_new_checkout_session).
THEOREM SettledAlwaysStay == Spec => SettledOrdersStay
<1>1. IInv /\ [Next]_vars
        => [\A b \in Bookings : orders[b].status \in {"completed", "cancelled"}
                                  => orders'[b].status = orders[b].status]_vars
  BY StepsStay DEF OrdersStay
<1>2. QED
  BY <1>1, Invariance, PTL DEF Spec, SettledOrdersStay

\* A reservation is used or cancelled once and never touched again (the conditional
\* UPDATEs of lib/ysc/events.ex).
THEOREM HoldsDecidedOnce == Spec => HoldsAreDecidedOnce
<1>1. IInv /\ [Next]_vars
        => [\A h \in Holds : holds[h].status \in {"fulfilled", "cancelled"}
                                => holds'[h] = holds[h]]_vars
  BY StepsStay DEF HoldsStay
<1>2. QED
  BY <1>1, Invariance, PTL DEF Spec, HoldsAreDecidedOnce

-----------------------------------------------------------------------------
(* Seats: the inductive invariant.                                         *)

\* The active holds of a tier that are not the buyer's.
HoldsOfOthers(b, t) ==
    {h \in ActiveHolds : holds[h].tier = t /\ holds[h].buyer # ask[b].buyer}

UsedOf(b, t) == {h \in Used(b) : holds[h].tier = t}

Uncounted == {"race", "door", "overheld", "unclaimed"}
Unlimited == {"race", "door", "holder"}

HasChecked(b) == pc[b] \in {"event", "plan", "book", "complete"}

\* A hold that is not used names no order, and one that is in use is of a tier.
HoldsMakeSense ==
    \A h \in Holds :
        /\ holds[h].status = "active" => holds[h].tier \in Tiers /\ holds[h].order = Nil
        /\ holds[h].status = "none" => holds[h].order = Nil
        /\ holds[h].order # Nil => /\ holds[h].status = "fulfilled"
                                   /\ orders[holds[h].order].status # "none"

\* A late payment asks for what its order has.
LateAsksForItsOrder(b) ==
    pc[b] \in {"sold", "held", "event", "complete"} /\ orders[b].status # "none"
        => ask[b].seats = orders[b].seats

\* Until a count is outdated there is no more than it says.
SoldWasCounted(b) ==
    pc[b] = "held" /\ b \notin stale
        => \A t \in Tiers : Sold(t, supersede[b]) <= seen[b].sold[t]
MineWasCounted(b) ==
    HasChecked(b) /\ b \notin stale
        => \A t \in Tiers : SeatsIn(HoldsOf(ask[b].buyer, t)) <= seen[b].mine[t]

\* What was let through fits beside what others have sold and held.
RoomInTier(b) ==
    beyond \cap Uncounted = {} /\ b \notin DoorSales /\ HasChecked(b) /\ b \notin stale
        => \A t \in Tiers : Quantity[t] # 0
             => Sold(t, supersede[b]) + SeatsIn(HoldsOfOthers(b, t)) + ask[b].seats[t]
                  <= Quantity[t]
RoomInEvent(b) ==
    /\ MaxAttendees # Nil /\ beyond \cap Unlimited = {} /\ b \notin DoorSales
    /\ pc[b] \in {"plan", "book", "complete"} /\ b \notin stale
    => Attendees(supersede[b]) + Requested(b) <= MaxAttendees

\* A plan takes from the buyer's holds no more than they have and the order needs, and
\* while they are as they were found it takes all they have or all it needs.
PlanFits(b) ==
    pc[b] = "book" =>
        /\ \A h \in Used(b) :
             /\ holds[h].status # "none" /\ holds[h].buyer = ask[b].buyer
             /\ holds[h].status = "active" => plan[b][h] <= holds[h].seats
        /\ \A t \in Tiers : Total(plan[b], UsedOf(b, t)) <= ask[b].seats[t]
PlanCovers(b) ==
    pc[b] = "book" /\ b \notin stale /\ Used(b) \subseteq ActiveHolds =>
        \A t \in Tiers :
            \/ ask[b].seats[t] <= Total(plan[b], UsedOf(b, t))
            \/ SeatsIn(HoldsOf(ask[b].buyer, t)) <= Total(plan[b], UsedOf(b, t))

RoomIsKept(b) ==
    /\ LateAsksForItsOrder(b)
    /\ SoldWasCounted(b) /\ MineWasCounted(b) /\ RoomInTier(b) /\ RoomInEvent(b)
    /\ PlanFits(b) /\ PlanCovers(b)

SeatsInv ==
    /\ TypeOK /\ HoldsMakeSense
    /\ \A b \in Bookings : RoomIsKept(b)
    /\ HoldsBackTheirOrder /\ TierCapacityKept /\ EventCapacityKept

-----------------------------------------------------------------------------
(* What the queries count, as a function of the rows they count.            *)

SoldIn(ords, t, without) ==
    Total([b \in Bookings |-> ords[b].seats[t]],
          {b \in Bookings \ without : ords[b].status \in {"pending", "completed"}})
AttendeesIn(ords, without) == Total([t \in Tiers |-> SoldIn(ords, t, without)], Tiers)
SeatsAmong(hs, H) == Total([h \in Holds |-> hs[h].seats], H)

LEMMA Queries ==
  /\ \A t, w : Sold(t, w) = SoldIn(orders, t, w)
  /\ \A w : Attendees(w) = AttendeesIn(orders, w)
  /\ \A H : SeatsIn(H) = SeatsAmong(holds, H)
  BY DEF Sold, SeatsOf, SoldIn, Attendees, AttendeesIn, SeatsIn, SeatsAmong

LEMMA HoldsFinite == IsFiniteSet(Holds) /\ \A H \in SUBSET Holds : IsFiniteSet(H)
  <1>1. IsFiniteSet(Holds)
    BY BoundsAssumption, FS_Interval DEF Holds
  <1>2. QED
    BY <1>1, FS_Subset

LEMMA SoldType ==
  ASSUME NEW ords \in [Bookings -> Order], NEW w
  PROVE  /\ \A t \in Tiers : SoldIn(ords, t, w) \in Nat
         /\ AttendeesIn(ords, w) \in Nat
  <1>1. ASSUME NEW t \in Tiers
        PROVE  SoldIn(ords, t, w) \in Nat
    <2> DEFINE C == {b \in Bookings \ w : ords[b].status \in {"pending", "completed"}}
               f == [b \in Bookings |-> ords[b].seats[t]]
    <2>1. IsFiniteSet(C)
      BY FiniteAssumption, FS_Subset
    <2>2. \A b \in C : f[b] \in Nat
      BY DEF Order, Seats
    <2> HIDE DEF C, f
    <2>3. Total(f, C) \in Nat
      BY <2>1, <2>2, TotalType
    <2>4. QED
      BY <2>3 DEF SoldIn, C, f
  <1>2. AttendeesIn(ords, w) \in Nat
    <2> DEFINE f == [t \in Tiers |-> SoldIn(ords, t, w)]
    <2>1. \A t \in Tiers : f[t] \in Nat
      BY <1>1
    <2> HIDE DEF f
    <2>2. Total(f, Tiers) \in Nat
      BY <2>1, FiniteAssumption, TotalType
    <2>3. QED
      BY <2>2 DEF AttendeesIn, f
  <1>3. QED
    BY <1>1, <1>2

\* No more is sold when every order that counts has counted before, as much.
LEMMA SoldFalls ==
  ASSUME NEW ords \in [Bookings -> Order], NEW after \in [Bookings -> Order],
         NEW w, NEW v,
         \A b \in Bookings \ v : after[b].status \in {"pending", "completed"} =>
            /\ b \notin w /\ ords[b].status \in {"pending", "completed"}
            /\ after[b].seats = ords[b].seats
  PROVE  /\ \A t \in Tiers : SoldIn(after, t, v) <= SoldIn(ords, t, w)
         /\ AttendeesIn(after, v) <= AttendeesIn(ords, w)
  <1>1. ASSUME NEW t \in Tiers
        PROVE  SoldIn(after, t, v) <= SoldIn(ords, t, w)
    <2> DEFINE C == {b \in Bookings \ w : ords[b].status \in {"pending", "completed"}}
               D == {b \in Bookings \ v : after[b].status \in {"pending", "completed"}}
               f == [b \in Bookings |-> ords[b].seats[t]]
               g == [b \in Bookings |-> after[b].seats[t]]
    <2>1. IsFiniteSet(C) /\ D \in SUBSET C
      BY FiniteAssumption, FS_Subset
    <2>2. \A b \in C : f[b] \in Nat
      BY DEF Order, Seats
    <2>3. \A b \in D : g[b] \in Nat /\ g[b] <= f[b]
      BY DEF Order, Seats
    <2> HIDE DEF C, D, f, g
    <2>4. Total(g, D) <= Total(f, C)
      BY <2>1, <2>2, <2>3, TotalBelow
    <2>5. QED
      BY <2>4 DEF SoldIn, C, D, f, g
  <1>2. AttendeesIn(after, v) <= AttendeesIn(ords, w)
    <2> DEFINE f == [t \in Tiers |-> SoldIn(ords, t, w)]
               g == [t \in Tiers |-> SoldIn(after, t, v)]
    <2>1. \A t \in Tiers : f[t] \in Nat /\ g[t] \in Nat /\ g[t] <= f[t]
      BY <1>1, SoldType
    <2> HIDE DEF f, g
    <2>2. Total(g, Tiers) <= Total(f, Tiers)
      BY <2>1, FiniteAssumption, TotalBelow
    <2>3. QED
      BY <2>2 DEF AttendeesIn, f, g
  <1>3. QED
    BY <1>1, <1>2

LEMMA SeatsFall ==
  ASSUME NEW hs \in [Holds -> Hold], NEW after \in [Holds -> Hold],
         NEW H \in SUBSET Holds, NEW K \in SUBSET H,
         \A h \in K : after[h].seats = hs[h].seats
  PROVE  /\ SeatsAmong(after, K) <= SeatsAmong(hs, H)
         /\ SeatsAmong(after, K) \in Nat /\ SeatsAmong(hs, H) \in Nat
  <1> DEFINE f == [h \in Holds |-> hs[h].seats]
             g == [h \in Holds |-> after[h].seats]
  <1>1. IsFiniteSet(H) /\ IsFiniteSet(K) /\ K \in SUBSET Holds
    BY HoldsFinite
  <1>2. (\A h \in H : f[h] \in Nat) /\ \A h \in K : g[h] \in Nat /\ g[h] <= f[h]
    BY <1>1 DEF Hold
  <1> HIDE DEF f, g
  <1>3. /\ Total(g, K) <= Total(f, H)
        /\ Total(g, K) \in Nat /\ Total(f, H) \in Nat
    BY <1>1, <1>2, TotalBelow, TotalType
  <1>4. QED
    BY <1>3 DEF SeatsAmong, f, g

\* The holds of a tier are the buyer's and those of others.
LEMMA HeldSplits ==
  ASSUME TypeOK, NEW b \in Bookings, NEW t \in Tiers
  PROVE  /\ Held(t) = SeatsIn(HoldsOf(ask[b].buyer, t)) + SeatsIn(HoldsOfOthers(b, t))
         /\ SeatsIn(HoldsOf(ask[b].buyer, t)) \in Nat /\ SeatsIn(HoldsOfOthers(b, t)) \in Nat
         /\ Held(t) \in Nat
  <1> DEFINE A == HoldsOf(ask[b].buyer, t)
             B == HoldsOfOthers(b, t)
             f == [h \in Holds |-> holds[h].seats]
  <1>1. /\ A \in SUBSET Holds /\ B \in SUBSET Holds /\ A \cap B = {}
        /\ A \cup B = {h \in ActiveHolds : holds[h].tier = t}
    BY DEF HoldsOf, HoldsOfOthers, ActiveHolds
  <1>2. IsFiniteSet(A) /\ IsFiniteSet(B)
    BY <1>1, HoldsFinite
  <1>3. \A h \in A \cup B : f[h] \in Nat
    BY <1>1 DEF TypeOK, Hold
  <1>4. SeatsIn(A \cup B) = Held(t)
    BY <1>1, Zenon DEF Held
  <1>5. SeatsIn(A) = Total(f, A) /\ SeatsIn(B) = Total(f, B) /\ SeatsIn(A \cup B) = Total(f, A \cup B)
    BY DEF SeatsIn
  <1> HIDE DEF f, A, B
  <1>6. /\ Total(f, A \cup B) = Total(f, A) + Total(f, B)
        /\ Total(f, A) \in Nat /\ Total(f, B) \in Nat
    BY <1>1, <1>2, <1>3, TotalUnion, TotalType
  <1>7. QED
    BY <1>4, <1>5, <1>6 DEF A, B

\* What a booking compares are numbers.
CountsAreNumbers ==
    \A b \in Bookings :
        /\ Attendees(supersede[b]) \in Nat /\ Requested(b) \in Nat
        /\ \A t \in Tiers :
             /\ Sold(t, supersede[b]) \in Nat
             /\ SeatsIn(HoldsOf(ask[b].buyer, t)) \in Nat /\ SeatsIn(HoldsOfOthers(b, t)) \in Nat
             /\ seen[b].sold[t] \in Nat /\ seen[b].mine[t] \in Nat /\ ask[b].seats[t] \in Nat
             /\ Total(plan[b], UsedOf(b, t)) \in Nat

LEMMA CountsType == TypeOK => CountsAreNumbers
  <1> SUFFICES ASSUME TypeOK, NEW b \in Bookings
               PROVE  /\ Attendees(supersede[b]) \in Nat /\ Requested(b) \in Nat
                      /\ \A t \in Tiers :
                           /\ Sold(t, supersede[b]) \in Nat
                           /\ SeatsIn(HoldsOf(ask[b].buyer, t)) \in Nat
                           /\ SeatsIn(HoldsOfOthers(b, t)) \in Nat
                           /\ seen[b].sold[t] \in Nat /\ seen[b].mine[t] \in Nat
                           /\ ask[b].seats[t] \in Nat
                           /\ Total(plan[b], UsedOf(b, t)) \in Nat
    BY DEF CountsAreNumbers
  <1>1. \A t \in Tiers : ask[b].seats[t] \in Nat
    BY DEF TypeOK, Seats
  <1>2. \A t \in Tiers : seen[b].sold[t] \in Nat /\ seen[b].mine[t] \in Nat
    BY DEF TypeOK, Seats
  <1>3. Requested(b) \in Nat
    BY <1>1, FiniteAssumption, TotalType DEF Requested
  <1>4. ASSUME NEW t \in Tiers
        PROVE  Total(plan[b], UsedOf(b, t)) \in Nat
    <2>1. IsFiniteSet(UsedOf(b, t)) /\ \A h \in UsedOf(b, t) : plan[b][h] \in Nat
      BY HoldsFinite DEF TypeOK, UsedOf, Used
    <2>2. QED
      BY <2>1, TotalType
  <1>5. /\ Attendees(supersede[b]) \in Nat
        /\ \A t \in Tiers : Sold(t, supersede[b]) \in Nat
    BY SoldType, Queries DEF TypeOK
  <1>6. QED
    BY <1>1, <1>2, <1>3, <1>4, <1>5, HeldSplits

LEMMA CountsTypeAfter == TypeOK' => CountsAreNumbers'
  BY CountsType, PTL

-----------------------------------------------------------------------------
(* Steps that take no seats.                                                *)

Counted(o) == o.status \in {"pending", "completed"}

\* A booking that does not move in this step, and whose order stays an order.
Still(b) ==
    /\ pc'[b] = pc[b] /\ ask'[b] = ask[b] /\ supersede'[b] = supersede[b]
    /\ seen'[b] = seen[b] /\ plan'[b] = plan[b]
    /\ orders'[b].seats = orders[b].seats
    /\ orders[b].status = "none" <=> orders'[b].status = "none"

\* Holds are used and cancelled, and new ones made.
HoldsMove ==
    \A h \in Holds : holds[h].status # "none" =>
        /\ holds'[h].status # "none"
        /\ holds'[h].buyer = holds[h].buyer /\ holds'[h].tier = holds[h].tier
        /\ holds'[h].status = "active"
             => holds[h].status = "active" /\ holds'[h].seats = holds[h].seats

\* No order begins to count.
OrdersCalm ==
    \A o \in Bookings :
        /\ orders'[o].buyer = orders[o].buyer /\ orders'[o].seats = orders[o].seats
        /\ orders[o].status = "none" <=> orders'[o].status = "none"
        /\ Counted(orders'[o]) => Counted(orders[o])

\* No hold begins to be active.
HoldsCalm ==
    /\ \A h \in Holds :
         \/ holds'[h] = holds[h]
         \/ /\ holds[h].status = "active"
            /\ holds'[h] = [holds[h] EXCEPT !.status = "cancelled"]
    /\ lapsed \subseteq lapsed'

Calm == OrdersCalm /\ HoldsCalm /\ beyond \subseteq beyond'

LEMMA CalmHolds ==
  ASSUME TypeOK, HoldsCalm
  PROVE  /\ HoldsMove
         /\ \A h \in ActiveHolds' : h \in ActiveHolds /\ holds'[h] = holds[h]
  <1>1. ASSUME NEW h \in Holds
        PROVE  \/ holds'[h] = holds[h]
               \/ /\ holds[h].status = "active" /\ holds'[h].status = "cancelled"
                  /\ holds'[h].buyer = holds[h].buyer /\ holds'[h].tier = holds[h].tier
    <2>1. holds[h] \in Hold
      BY DEF TypeOK
    <2>2. QED
      BY <2>1 DEF Hold, HoldsCalm
  <1>2. HoldsMove
    BY <1>1 DEF HoldsMove
  <1>3. QED
    BY <1>1, <1>2 DEF HoldsCalm, ActiveHolds

\* What a booking has counted still holds after a step of others that takes no seats,
\* or one that outdates it.
LEMMA OthersStay ==
  ASSUME SeatsInv, TypeOK', HoldsMove, beyond \subseteq beyond', NEW b \in Bookings, Still(b),
         b \notin stale' => b \notin stale /\ ((OrdersCalm /\ HoldsCalm) \/ ~HasCounted(b))
  PROVE  RoomIsKept(b)'
  <1>0. RoomIsKept(b) /\ TypeOK
    BY DEF SeatsInv
  <1>1. LateAsksForItsOrder(b)'
    BY <1>0 DEF RoomIsKept, LateAsksForItsOrder, Still
  <1>2. ASSUME HasCounted(b), b \notin stale'
        PROVE  /\ b \notin stale /\ OrdersCalm /\ HoldsCalm
               /\ \A t \in Tiers : Sold(t, supersede[b])' <= Sold(t, supersede[b])
               /\ Attendees(supersede[b])' <= Attendees(supersede[b])
               /\ \A t \in Tiers : SeatsIn(HoldsOf(ask[b].buyer, t))'
                                     <= SeatsIn(HoldsOf(ask[b].buyer, t))
               /\ \A t \in Tiers : SeatsIn(HoldsOfOthers(b, t))' <= SeatsIn(HoldsOfOthers(b, t))
               /\ ActiveHolds' \subseteq ActiveHolds
    <2>1. b \notin stale /\ OrdersCalm /\ HoldsCalm
      BY <1>2
    <2>2. \A h \in ActiveHolds' : h \in ActiveHolds /\ holds'[h] = holds[h]
      BY <1>0, <2>1, CalmHolds
    <2>3. /\ \A t \in Tiers : SoldIn(orders', t, supersede[b]) <= SoldIn(orders, t, supersede[b])
          /\ AttendeesIn(orders', supersede[b]) <= AttendeesIn(orders, supersede[b])
      BY <1>0, <2>1, SoldFalls DEF OrdersCalm, Counted, TypeOK
    <2>4. /\ \A t \in Tiers : Sold(t, supersede[b])' <= Sold(t, supersede[b])
          /\ Attendees(supersede[b])' <= Attendees(supersede[b])
      BY <2>3 DEF Sold, SeatsOf, SoldIn, Attendees, AttendeesIn, Still
    <2>5. ASSUME NEW t \in Tiers
          PROVE  /\ SeatsIn(HoldsOf(ask[b].buyer, t))' <= SeatsIn(HoldsOf(ask[b].buyer, t))
                 /\ SeatsIn(HoldsOfOthers(b, t))' <= SeatsIn(HoldsOfOthers(b, t))
      <3>1. /\ HoldsOf(ask[b].buyer, t)' \in SUBSET HoldsOf(ask[b].buyer, t)
            /\ HoldsOf(ask[b].buyer, t) \in SUBSET Holds
            /\ \A h \in HoldsOf(ask[b].buyer, t)' : holds'[h].seats = holds[h].seats
        BY <2>2 DEF HoldsOf, Still, ActiveHolds
      <3>2. /\ HoldsOfOthers(b, t)' \in SUBSET HoldsOfOthers(b, t)
            /\ HoldsOfOthers(b, t) \in SUBSET Holds
            /\ \A h \in HoldsOfOthers(b, t)' : holds'[h].seats = holds[h].seats
        BY <2>2 DEF HoldsOfOthers, Still, ActiveHolds
      <3>3. /\ SeatsAmong(holds', HoldsOf(ask[b].buyer, t)')
                 <= SeatsAmong(holds, HoldsOf(ask[b].buyer, t))
            /\ SeatsAmong(holds', HoldsOfOthers(b, t)') <= SeatsAmong(holds, HoldsOfOthers(b, t))
        BY <1>0, <3>1, <3>2, SeatsFall DEF TypeOK
      <3>4. QED
        BY <3>3 DEF SeatsIn, SeatsAmong
    <2>6. QED
      BY <2>1, <2>2, <2>4, <2>5
  <1>10. CountsAreNumbers /\ CountsAreNumbers'
    BY <1>0, CountsType, CountsTypeAfter
  <1> USE DEF HasCounted, HasChecked
  <1>3. SoldWasCounted(b)'
    <2> SUFFICES ASSUME pc'[b] = "held", b \notin stale', NEW t \in Tiers
                 PROVE  Sold(t, supersede[b])' <= seen'[b].sold[t]
      BY DEF SoldWasCounted
    <2>1. Sold(t, supersede[b])' <= Sold(t, supersede[b]) /\ b \notin stale /\ pc[b] = "held"
      BY <1>2 DEF Still
    <2>2. Sold(t, supersede[b]) <= seen[b].sold[t]
      BY <1>0, <2>1 DEF RoomIsKept, SoldWasCounted
    <2>3. /\ Sold(t, supersede[b]) \in Nat /\ Sold(t, supersede[b])' \in Nat
          /\ seen[b].sold[t] \in Nat
      BY <1>10 DEF CountsAreNumbers
    <2>4. QED
      BY <2>1, <2>2, <2>3 DEF Still
  <1>4. MineWasCounted(b)'
    <2> SUFFICES ASSUME HasChecked(b)', b \notin stale', NEW t \in Tiers
                 PROVE  SeatsIn(HoldsOf(ask[b].buyer, t))' <= seen'[b].mine[t]
      BY DEF MineWasCounted
    <2>1. /\ SeatsIn(HoldsOf(ask[b].buyer, t))' <= SeatsIn(HoldsOf(ask[b].buyer, t))
          /\ b \notin stale /\ HasChecked(b)
      BY <1>2 DEF Still
    <2>2. SeatsIn(HoldsOf(ask[b].buyer, t)) <= seen[b].mine[t]
      BY <1>0, <2>1 DEF RoomIsKept, MineWasCounted
    <2>3. /\ SeatsIn(HoldsOf(ask[b].buyer, t)) \in Nat /\ SeatsIn(HoldsOf(ask[b].buyer, t))' \in Nat
          /\ seen[b].mine[t] \in Nat
      BY <1>10 DEF CountsAreNumbers
    <2>4. QED
      BY <2>1, <2>2, <2>3 DEF Still
  <1>5. RoomInTier(b)'
    <2> SUFFICES ASSUME beyond' \cap Uncounted = {}, b \notin DoorSales, HasChecked(b)',
                        b \notin stale', NEW t \in Tiers, Quantity[t] # 0
                 PROVE  Sold(t, supersede[b])' + SeatsIn(HoldsOfOthers(b, t))' + ask'[b].seats[t]
                          <= Quantity[t]
      BY DEF RoomInTier
    <2>1. /\ Sold(t, supersede[b])' <= Sold(t, supersede[b])
          /\ SeatsIn(HoldsOfOthers(b, t))' <= SeatsIn(HoldsOfOthers(b, t))
          /\ b \notin stale /\ HasChecked(b) /\ beyond \cap Uncounted = {}
          /\ ask'[b] = ask[b]
      BY <1>2 DEF Still
    <2>2. Sold(t, supersede[b]) + SeatsIn(HoldsOfOthers(b, t)) + ask[b].seats[t] <= Quantity[t]
      BY <1>0, <2>1 DEF RoomIsKept, RoomInTier
    <2>3. /\ Sold(t, supersede[b]) \in Nat /\ Sold(t, supersede[b])' \in Nat
          /\ SeatsIn(HoldsOfOthers(b, t)) \in Nat /\ SeatsIn(HoldsOfOthers(b, t))' \in Nat
          /\ ask[b].seats[t] \in Nat /\ Quantity[t] \in Nat
      BY <1>10, LimitsAssumption DEF CountsAreNumbers
    <2>4. QED
      BY <2>1, <2>2, <2>3
  <1>6. RoomInEvent(b)'
    <2> SUFFICES ASSUME MaxAttendees # Nil, beyond' \cap Unlimited = {}, b \notin DoorSales,
                        pc'[b] \in {"plan", "book", "complete"}, b \notin stale'
                 PROVE  Attendees(supersede[b])' + Requested(b)' <= MaxAttendees
      BY DEF RoomInEvent
    <2>1. /\ Attendees(supersede[b])' <= Attendees(supersede[b])
          /\ b \notin stale /\ pc[b] \in {"plan", "book", "complete"}
          /\ beyond \cap Unlimited = {}
      BY <1>2 DEF Still
    <2>2. Attendees(supersede[b]) + Requested(b) <= MaxAttendees
      BY <1>0, <2>1 DEF RoomIsKept, RoomInEvent
    <2>3. Requested(b)' = Requested(b)
      BY DEF Requested, Still
    <2>4. /\ Attendees(supersede[b]) \in Nat /\ Attendees(supersede[b])' \in Nat
          /\ Requested(b) \in Nat /\ MaxAttendees \in Nat
      BY <1>10, LimitsAssumption DEF CountsAreNumbers
    <2>5. QED
      BY <2>1, <2>2, <2>3, <2>4
  <1>7. PlanFits(b)'
    <2> SUFFICES ASSUME pc'[b] = "book"
                 PROVE  /\ \A h \in Used(b)' :
                             /\ holds'[h].status # "none" /\ holds'[h].buyer = ask'[b].buyer
                             /\ holds'[h].status = "active" => plan'[b][h] <= holds'[h].seats
                        /\ \A t \in Tiers : Total(plan[b], UsedOf(b, t))' <= ask'[b].seats[t]
      BY DEF PlanFits
    <2>1. PlanFits(b) /\ pc[b] = "book"
      BY <1>0 DEF RoomIsKept, Still
    <2>2. Used(b)' = Used(b) /\ Used(b) \subseteq Holds
      BY DEF Used, Still
    <2>3. \A h \in Used(b) :
             /\ holds'[h].status # "none" /\ holds'[h].buyer = ask[b].buyer
             /\ holds'[h].tier = holds[h].tier
             /\ holds'[h].status = "active" => plan[b][h] <= holds'[h].seats
      BY <2>1, <2>2 DEF PlanFits, HoldsMove
    <2>4. \A t : UsedOf(b, t)' = UsedOf(b, t)
      BY <2>2, <2>3 DEF UsedOf
    <2>5. \A t \in Tiers : Total(plan[b], UsedOf(b, t))' = Total(plan[b], UsedOf(b, t))
      BY <2>4 DEF Still
    <2>6. \A t \in Tiers : Total(plan[b], UsedOf(b, t)) <= ask[b].seats[t]
      BY <2>1 DEF PlanFits
    <2>7. QED
      BY <2>2, <2>3, <2>5, <2>6 DEF Still
  <1>8. PlanCovers(b)'
    <2> SUFFICES ASSUME pc'[b] = "book", b \notin stale', Used(b)' \subseteq ActiveHolds',
                        NEW t \in Tiers
                 PROVE  \/ ask'[b].seats[t] <= Total(plan[b], UsedOf(b, t))'
                        \/ SeatsIn(HoldsOf(ask[b].buyer, t))' <= Total(plan[b], UsedOf(b, t))'
      BY DEF PlanCovers
    <2>1. /\ pc[b] = "book" /\ b \notin stale /\ PlanFits(b)
          /\ ActiveHolds' \subseteq ActiveHolds
          /\ SeatsIn(HoldsOf(ask[b].buyer, t))' <= SeatsIn(HoldsOf(ask[b].buyer, t))
          /\ ask'[b] = ask[b]
      BY <1>0, <1>2 DEF RoomIsKept, Still
    <2>2. Used(b)' = Used(b) /\ Used(b) \subseteq Holds
      BY DEF Used, Still
    <2>3. \A h \in Used(b) : holds'[h].tier = holds[h].tier
      BY <2>1, <2>2 DEF PlanFits, HoldsMove
    <2>4. UsedOf(b, t)' = UsedOf(b, t)
      BY <2>2, <2>3 DEF UsedOf
    <2>5. Total(plan[b], UsedOf(b, t))' = Total(plan[b], UsedOf(b, t))
      BY <2>4 DEF Still
    <2>6. Used(b) \subseteq ActiveHolds
      BY <2>1, <2>2
    <2>7. \/ ask[b].seats[t] <= Total(plan[b], UsedOf(b, t))
          \/ SeatsIn(HoldsOf(ask[b].buyer, t)) <= Total(plan[b], UsedOf(b, t))
      BY <1>0, <2>1, <2>6 DEF RoomIsKept, PlanCovers
    <2>8. /\ SeatsIn(HoldsOf(ask[b].buyer, t)) \in Nat
          /\ SeatsIn(HoldsOf(ask[b].buyer, t))' \in Nat
          /\ Total(plan[b], UsedOf(b, t)) \in Nat
      BY <1>10 DEF CountsAreNumbers
    <2>9. QED
      BY <2>1, <2>5, <2>7, <2>8
  <1>9. QED
    BY <1>1, <1>3, <1>4, <1>5, <1>6, <1>7, <1>8 DEF RoomIsKept

\* A step that takes no seats keeps the invariant if the bookings that move are where
\* their part of it holds.
LEMMA CalmStep ==
  ASSUME SeatsInv, TypeOK', Calm, NEW M \in SUBSET Bookings,
         \A b \in Bookings \ M : Still(b) /\ (b \in stale => b \in stale'),
         \A b \in M : RoomIsKept(b)'
  PROVE  SeatsInv'
  <1>0. TypeOK /\ OrdersCalm /\ HoldsCalm /\ beyond \subseteq beyond'
    BY DEF SeatsInv, Calm
  <1>1. HoldsMove /\ \A h \in ActiveHolds' : h \in ActiveHolds /\ holds'[h] = holds[h]
    BY <1>0, CalmHolds
  <1>2. \A b \in Bookings : RoomIsKept(b)'
    BY <1>0, <1>1, OthersStay
  <1>3. ASSUME NEW h \in Holds
        PROVE  /\ holds'[h].order = holds[h].order
               /\ \/ holds'[h] = holds[h]
                  \/ /\ holds[h].status = "active" /\ holds'[h].status = "cancelled"
                     /\ holds'[h].seats = holds[h].seats
    <2>1. holds[h] \in Hold
      BY <1>0 DEF TypeOK
    <2>2. QED
      BY <1>0, <2>1 DEF Hold, HoldsCalm
  <1>4. ASSUME NEW h \in Holds, holds[h].order # Nil
        PROVE  holds[h].order \in Bookings /\ holds[h].status = "fulfilled"
    BY <1>0, <1>4 DEF TypeOK, Hold, SeatsInv, HoldsMakeSense
  <1>5. HoldsMakeSense'
    <2> SUFFICES ASSUME NEW h \in Holds
                 PROVE  /\ holds'[h].status = "active"
                             => holds'[h].tier \in Tiers /\ holds'[h].order = Nil
                        /\ holds'[h].status = "none" => holds'[h].order = Nil
                        /\ holds'[h].order # Nil => /\ holds'[h].status = "fulfilled"
                                                    /\ orders'[holds'[h].order].status # "none"
      BY DEF HoldsMakeSense
    <2>1. CASE holds'[h] = holds[h]
      BY <1>0, <1>4, <2>1 DEF SeatsInv, HoldsMakeSense, OrdersCalm
    <2>2. CASE holds[h].status = "active" /\ holds'[h].status = "cancelled"
      BY <1>3, <2>2 DEF SeatsInv, HoldsMakeSense
    <2>3. QED
      BY <1>3, <2>1, <2>2
  <1>6. HoldsBackTheirOrder'
    <2> DEFINE U(hs, b, t) == {h \in Holds : hs[h].order = b /\ hs[h].tier = t}
    <2>1. ASSUME NEW b \in Bookings, NEW t \in Tiers
          PROVE  /\ \A h \in U(holds', b, t) :
                      holds'[h].status = "fulfilled" /\ holds'[h].buyer = orders'[b].buyer
                 /\ SeatsAmong(holds', U(holds', b, t)) <= orders'[b].seats[t]
      <3>0. b # Nil
        BY NilAssumption
      <3>1. ASSUME NEW h \in Holds, holds'[h].order = b
            PROVE  holds'[h] = holds[h]
        BY <1>3, <1>4, <3>0, <3>1
      <3>2. U(holds', b, t) \in SUBSET U(holds, b, t) /\ U(holds, b, t) \in SUBSET Holds
        BY <3>1
      <3>3. /\ \A h \in U(holds, b, t) :
                 holds[h].status = "fulfilled" /\ holds[h].buyer = orders[b].buyer
            /\ SeatsAmong(holds, U(holds, b, t)) <= orders[b].seats[t]
        BY DEF SeatsInv, HoldsBackTheirOrder, SeatsIn, SeatsAmong
      <3>4. \A h \in U(holds', b, t) :
              holds'[h].status = "fulfilled" /\ holds'[h].buyer = orders'[b].buyer
        BY <1>0, <3>1, <3>2, <3>3 DEF OrdersCalm
      <3>5. \A h \in U(holds', b, t) : holds'[h].seats = holds[h].seats
        BY <3>1
      <3> HIDE DEF U
      <3>6. /\ SeatsAmong(holds', U(holds', b, t)) <= SeatsAmong(holds, U(holds, b, t))
            /\ SeatsAmong(holds', U(holds', b, t)) \in Nat /\ SeatsAmong(holds, U(holds, b, t)) \in Nat
        BY <1>0, <3>2, <3>5, SeatsFall DEF TypeOK
      <3>7. orders[b].seats[t] \in Nat /\ orders'[b].seats = orders[b].seats
        BY <1>0 DEF TypeOK, Order, Seats, OrdersCalm
      <3>8. QED
        BY <3>3, <3>4, <3>6, <3>7
    <2>2. QED
      BY <2>1 DEF HoldsBackTheirOrder, SeatsIn, SeatsAmong
  <1>7. /\ \A t \in Tiers : SoldIn(orders', t, {}) <= SoldIn(orders, t, {})
        /\ AttendeesIn(orders', {}) <= AttendeesIn(orders, {})
    BY <1>0, SoldFalls DEF OrdersCalm, Counted, TypeOK
  <1>8. /\ \A t \in Tiers : SoldIn(orders, t, {}) \in Nat /\ SoldIn(orders', t, {}) \in Nat
        /\ AttendeesIn(orders, {}) \in Nat /\ AttendeesIn(orders', {}) \in Nat
    BY <1>0, SoldType DEF TypeOK
  <1>9. TierCapacityKept'
    <2>1. ASSUME NEW t \in Tiers, Quantity[t] # 0,
                 SoldIn(orders', t, {}) + SeatsAmong(holds', {h \in ActiveHolds' : holds'[h].tier = t})
                   > Quantity[t]
          PROVE  beyond' \cap {"race", "door", "overheld", "unclaimed"} # {}
      <3> DEFINE K == {h \in ActiveHolds' : holds'[h].tier = t}
                 H == {h \in ActiveHolds : holds[h].tier = t}
      <3>1. /\ H \in SUBSET Holds /\ K \in SUBSET H
            /\ \A h \in K : holds'[h].seats = holds[h].seats
        BY <1>1 DEF ActiveHolds
      <3>2. /\ SeatsAmong(holds', K) <= SeatsAmong(holds, H)
            /\ SeatsAmong(holds', K) \in Nat /\ SeatsAmong(holds, H) \in Nat
        <4> HIDE DEF K, H
        <4>1. QED
          BY <1>0, <3>1, SeatsFall DEF TypeOK
      <3>3. SoldIn(orders', t, {}) + SeatsAmong(holds', K) > Quantity[t]
        BY <2>1
      <3>4. Sold(t, {}) = SoldIn(orders, t, {}) /\ Held(t) = SeatsAmong(holds, H)
        BY Queries DEF Held
      <3> HIDE DEF K, H
      <3>5. Sold(t, {}) + Held(t) > Quantity[t]
        BY <1>7, <1>8, <3>2, <3>3, <3>4, LimitsAssumption
      <3>6. QED
        BY <1>0, <2>1, <3>5 DEF SeatsInv, TierCapacityKept
    <2>2. QED
      BY <2>1 DEF TierCapacityKept, Sold, SeatsOf, SoldIn, Held, SeatsIn, SeatsAmong
  <1>10. EventCapacityKept'
    <2>1. ASSUME MaxAttendees # Nil, AttendeesIn(orders', {}) > MaxAttendees
          PROVE  beyond' \cap {"race", "door", "holder"} # {}
      <3>1. AttendeesIn(orders, {}) > MaxAttendees
        BY <1>7, <1>8, <2>1, LimitsAssumption
      <3>2. QED
        BY <1>0, <2>1, <3>1, Queries DEF SeatsInv, EventCapacityKept
    <2>2. QED
      BY <2>1 DEF EventCapacityKept, Attendees, AttendeesIn, Sold, SeatsOf, SoldIn
  <1>11. QED
    BY <1>2, <1>5, <1>6, <1>9, <1>10 DEF SeatsInv

\* The same when one booking moves.
LEMMA CalmMove ==
  ASSUME SeatsInv, TypeOK', Calm, NEW b \in Bookings,
         \A c \in Bookings \ {b} : Still(c) /\ (c \in stale => c \in stale'),
         RoomIsKept(b)'
  PROVE  SeatsInv'
  <1>1. \A c \in {b} : RoomIsKept(c)'
    <2> SUFFICES ASSUME NEW c \in {b}
                 PROVE  RoomIsKept(c)'
      OBVIOUS
    <2>1. c = b
      OBVIOUS
    <2>2. QED
      BY <2>1, Zenon
  <1>2. {b} \in SUBSET Bookings
    OBVIOUS
  <1>3. QED
    BY <1>1, <1>2, CalmStep

\* A booking that has counted nothing, or returned, has nothing to keep.
LEMMA NothingToKeep ==
  ASSUME NEW b \in Bookings, pc'[b] \in {"idle", "lock", "prepare", "done"}
  PROVE  RoomIsKept(b)'
  BY DEF RoomIsKept, LateAsksForItsOrder, SoldWasCounted, MineWasCounted, RoomInTier,
         RoomInEvent, PlanFits, PlanCovers, HasChecked

LEMMA Untouched ==
  ASSUME TypeOK, UNCHANGED <<orders, holds, lapsed>>, beyond \subseteq beyond'
  PROVE  Calm
  BY DEF Calm, OrdersCalm, HoldsCalm

LEMMA OnlyMoves ==
  ASSUME TypeOK, NEW b \in Bookings, OrdersCalm,
         NEW l, pc' = [pc EXCEPT ![b] = l],
         NEW a, ask' = [ask EXCEPT ![b] = a],
         NEW s, supersede' = [supersede EXCEPT ![b] = s],
         NEW n, seen' = [seen EXCEPT ![b] = n],
         NEW p, plan' = [plan EXCEPT ![b] = p]
  PROVE  \A c \in Bookings \ {b} : Still(c)
  BY DEF TypeOK, Still, OrdersCalm

LEMMA ReturnType ==
  ASSUME TypeOK, NEW b \in Bookings, Return(b)
  PROVE  /\ pc' \in [Bookings -> Labels]
         /\ ask' \in [Bookings -> [buyer : Buyers \cup {Nil}, seats : Seats]]
         /\ supersede' \in [Bookings -> SUBSET Bookings]
         /\ seen' \in [Bookings -> [sold : Seats, held : Seats, mine : Seats]]
         /\ plan' \in [Bookings -> [Holds -> Nat]]
         /\ pc'[b] = "done"
  <1>1. NoRequest \in [buyer : Buyers \cup {Nil}, seats : Seats]
    BY DEF NoRequest, Seats, NoSeats
  <1>2. NoCounts \in [sold : Seats, held : Seats, mine : Seats]
    BY DEF NoCounts, Seats, NoSeats
  <1>3. NoPlan \in [Holds -> Nat]
    BY DEF NoPlan
  <1>4. QED
    BY <1>1, <1>2, <1>3 DEF Return, TypeOK, Labels

LEMMA ReturnMoves ==
  ASSUME TypeOK, NEW b \in Bookings, Return(b), OrdersCalm
  PROVE  \A c \in Bookings \ {b} : Still(c)
  BY OnlyMoves DEF Return

\* A checkout that gives up, whatever carts it has settled on the way.
LEMMA GiveUpSeats ==
  ASSUME SeatsInv, NEW b \in Bookings, GiveUp(b), OrdersCalm, orders' \in [Bookings -> Order],
         UNCHANGED <<holds, lapsed>>
  PROVE  SeatsInv'
  <1>0. TypeOK /\ Return(b) /\ stale' = stale \ {b} /\ UNCHANGED <<beyond, spared>>
    BY DEF SeatsInv, GiveUp
  <1>1. TypeOK'
    BY <1>0, ReturnType DEF TypeOK
  <1>2. Calm
    BY <1>0 DEF Calm, HoldsCalm
  <1>3. \A c \in Bookings \ {b} : Still(c) /\ (c \in stale => c \in stale')
    BY <1>0, ReturnMoves
  <1>4. RoomIsKept(b)'
    BY <1>0, ReturnType, NothingToKeep
  <1>5. QED
    BY <1>1, <1>2, <1>3, <1>4, CalmMove

-----------------------------------------------------------------------------
(* A checkout up to its plan.                                               *)

LEMMA RequestSeatsKeeps ==
  ASSUME SeatsInv, NEW b \in Bookings, RequestSeats(b)
  PROVE  SeatsInv'
  <1>0. TypeOK
    BY DEF SeatsInv
  <1>1. PICK u \in Buyers, wanted \in [Tiers -> 0..MaxRequest] :
          ask' = [ask EXCEPT ![b] = [buyer |-> u, seats |-> wanted]]
    BY DEF RequestSeats
  <1>2. [buyer |-> u, seats |-> wanted] \in [buyer : Buyers \cup {Nil}, seats : Seats]
    BY BoundsAssumption DEF Seats
  <1>3. /\ pc' = [pc EXCEPT ![b] = "lock"]
        /\ UNCHANGED <<orders, holds, lapsed, supersede, seen, plan, stale, beyond, spared>>
    BY DEF RequestSeats, history
  <1>4. TypeOK'
    BY <1>0, <1>1, <1>2, <1>3 DEF TypeOK, Labels
  <1>5. Calm
    BY <1>0, <1>3, Untouched
  <1>6. \A c \in Bookings \ {b} : Still(c)
    BY <1>0, <1>1, <1>3 DEF TypeOK, Still
  <1>7. RoomIsKept(b)'
    BY <1>0, <1>3, NothingToKeep DEF TypeOK
  <1>8. QED
    BY <1>3, <1>4, <1>5, <1>6, <1>7, CalmMove

LEMMA LockCheckoutKeeps ==
  ASSUME SeatsInv, NEW b \in Bookings, LockCheckout(b)
  PROVE  SeatsInv'
  <1>0. TypeOK
    BY DEF SeatsInv
  <1>1. /\ pc' = [pc EXCEPT ![b] = "prepare"]
        /\ UNCHANGED <<orders, holds, lapsed, ask, supersede, seen, plan, stale, beyond, spared>>
    BY DEF LockCheckout, history
  <1>2. TypeOK'
    BY <1>0, <1>1 DEF TypeOK, Labels
  <1>3. Calm
    BY <1>0, <1>1, Untouched
  <1>4. \A c \in Bookings \ {b} : Still(c)
    BY <1>0, <1>1 DEF TypeOK, Still
  <1>5. RoomIsKept(b)'
    BY <1>0, <1>1, NothingToKeep DEF TypeOK
  <1>6. QED
    BY <1>1, <1>2, <1>3, <1>4, <1>5, CalmMove

\* A checkout that is about to count has nothing to keep yet.
LEMMA NothingCounted ==
  ASSUME NEW b \in Bookings, pc'[b] = "sold",
         orders'[b].status # "none" => ask'[b].seats = orders'[b].seats
  PROVE  RoomIsKept(b)'
  BY DEF RoomIsKept, LateAsksForItsOrder, SoldWasCounted, MineWasCounted, RoomInTier,
         RoomInEvent, PlanFits, PlanCovers, HasChecked

LEMMA PrepareKeeps ==
  ASSUME IInv, SeatsInv, NEW b \in Bookings, Prepare(b)
  PROVE  SeatsInv'
  <1>0. TypeOK /\ orders[b].status = "none" /\ UNCHANGED <<holds, lapsed>>
    BY DEF SeatsInv, IInv, NewUntilBooked, Prepare
  <1>1. ASSUME NEW cancelled \in SUBSET Pending(ask[b].buyer),
               supersede' = [supersede EXCEPT ![b] = cancelled],
               spared' = spared \cup (Pending(ask[b].buyer) \ cancelled),
               pc' = [pc EXCEPT ![b] = "sold"],
               UNCHANGED <<orders, ask, seen, plan, stale, beyond>>
        PROVE  SeatsInv'
    <2>1. Pending(ask[b].buyer) \subseteq Bookings
      BY DEF Pending
    <2>2. TypeOK'
      BY <1>0, <1>1, <2>1 DEF TypeOK, Labels
    <2>3. Calm
      BY <1>0, <1>1, Untouched
    <2>4. \A c \in Bookings \ {b} : Still(c) /\ (c \in stale => c \in stale')
      BY <1>0, <1>1 DEF TypeOK, Still
    <2>5. RoomIsKept(b)'
      BY <1>0, <1>1, NothingCounted DEF TypeOK
    <2>6. QED
      BY <2>2, <2>3, <2>4, <2>5, CalmMove
  <1>2. CASE \E cancelled \in SUBSET Pending(ask[b].buyer) :
             \E paid \in SUBSET (Pending(ask[b].buyer) \ cancelled) :
               /\ orders' = [o \in Bookings |->
                    CASE o \in cancelled -> [orders[o] EXCEPT !.status = "cancelled"]
                      [] o \in paid -> [orders[o] EXCEPT !.status = "completed"]
                      [] OTHER -> orders[o]]
               /\ GiveUp(b)
    <2>1. PICK cancelled \in SUBSET Pending(ask[b].buyer),
               paid \in SUBSET Pending(ask[b].buyer) :
               orders' = [o \in Bookings |->
                    CASE o \in cancelled -> [orders[o] EXCEPT !.status = "cancelled"]
                      [] o \in paid -> [orders[o] EXCEPT !.status = "completed"]
                      [] OTHER -> orders[o]]
      BY <1>2
    <2>2. ASSUME NEW o \in Bookings
          PROVE  /\ orders'[o] \in Order
                 /\ orders'[o].buyer = orders[o].buyer /\ orders'[o].seats = orders[o].seats
                 /\ orders[o].status = "none" <=> orders'[o].status = "none"
                 /\ Counted(orders'[o]) => Counted(orders[o])
      <3>1. orders[o] \in Order
        BY <1>0 DEF TypeOK
      <3>2. o \in cancelled \cup paid => orders[o].status = "pending"
        BY DEF Pending
      <3>3. orders'[o] = CASE o \in cancelled -> [orders[o] EXCEPT !.status = "cancelled"]
                           [] o \in paid -> [orders[o] EXCEPT !.status = "completed"]
                           [] OTHER -> orders[o]
        BY <2>1
      <3>4. CASE o \in cancelled
        BY <3>1, <3>2, <3>3, <3>4 DEF Order, OrderStatus, Counted
      <3>5. CASE o \notin cancelled /\ o \in paid
        BY <3>1, <3>2, <3>3, <3>5 DEF Order, OrderStatus, Counted
      <3>6. CASE o \notin cancelled /\ o \notin paid
        BY <3>1, <3>3, <3>6
      <3>7. QED
        BY <3>4, <3>5, <3>6
    <2>3. OrdersCalm
      BY <2>2 DEF OrdersCalm
    <2>4. orders' \in [Bookings -> Order]
      BY <2>1, <2>2
    <2>5. QED
      BY <1>0, <1>2, <2>3, <2>4, GiveUpSeats
  <1>3. QED
    BY <1>1, <1>2 DEF Prepare

LEMMA CountSoldKeeps ==
  ASSUME SeatsInv, NEW b \in Bookings, CountSold(b)
  PROVE  SeatsInv'
  <1>0. TypeOK /\ RoomIsKept(b)
    BY DEF SeatsInv
  <1>1. /\ pc[b] = "sold" /\ pc' = [pc EXCEPT ![b] = "held"] /\ stale' = stale \ {b}
        /\ seen' = [seen EXCEPT ![b].sold = [t \in Tiers |-> Sold(t, supersede[b])]]
        /\ UNCHANGED <<orders, holds, lapsed, ask, supersede, plan, beyond, spared>>
    BY DEF CountSold
  <1>2. [t \in Tiers |-> Sold(t, supersede[b])] \in Seats
    BY <1>0, CountsType DEF CountsAreNumbers, Seats
  <1>3. TypeOK'
    <2>1. seen' \in [Bookings -> [sold : Seats, held : Seats, mine : Seats]]
      BY <1>0, <1>1, <1>2 DEF TypeOK
    <2>2. QED
      BY <1>0, <1>1, <2>1 DEF TypeOK, Labels
  <1>4. Calm
    BY <1>0, <1>1, Untouched
  <1>5. \A c \in Bookings \ {b} : Still(c) /\ (c \in stale => c \in stale')
    BY <1>0, <1>1 DEF TypeOK, Still
  <1>6. RoomIsKept(b)'
    <2>1. pc'[b] = "held" /\ ask' = ask /\ orders' = orders
      BY <1>0, <1>1 DEF TypeOK
    <2>2. LateAsksForItsOrder(b)'
      BY <1>0, <1>1, <2>1 DEF RoomIsKept, LateAsksForItsOrder
    <2>3. SoldWasCounted(b)'
      <3>1. \A t \in Tiers : seen'[b].sold[t] = Sold(t, supersede[b])
        BY <1>0, <1>1 DEF TypeOK
      <3>2. \A t \in Tiers : Sold(t, supersede[b])' = Sold(t, supersede[b])
        BY <1>1 DEF Sold, SeatsOf
      <3>3. \A t \in Tiers : Sold(t, supersede[b]) \in Nat
        BY <1>0, CountsType DEF CountsAreNumbers
      <3>4. QED
        BY <3>1, <3>2, <3>3 DEF SoldWasCounted
    <2>4. QED
      BY <2>1, <2>2, <2>3 DEF RoomIsKept, MineWasCounted, RoomInTier, RoomInEvent,
                              PlanFits, PlanCovers, HasChecked
  <1>7. QED
    BY <1>3, <1>4, <1>5, <1>6, CalmMove

\* A selection that the tier allows fits beside what others have, as long as the tier is
\* within its limits.
LEMMA AllowedFits ==
  ASSUME SeatsInv, NEW b \in Bookings, pc[b] = "held", b \notin stale, b \notin DoorSales,
         beyond \cap Uncounted = {}, NEW t \in Tiers, Quantity[t] # 0,
         TierAllows(b, t, Held(t), SeatsIn(HoldsOf(ask[b].buyer, t)))
  PROVE  Sold(t, supersede[b]) + SeatsIn(HoldsOfOthers(b, t)) + ask[b].seats[t] <= Quantity[t]
  <1> DEFINE sold == Sold(t, supersede[b])
             mine == SeatsIn(HoldsOf(ask[b].buyer, t))
             others == SeatsIn(HoldsOfOthers(b, t))
             wanted == ask[b].seats[t]
  <1>0. TypeOK /\ RoomIsKept(b)
    BY DEF SeatsInv
  <1>1. /\ sold \in Nat /\ mine \in Nat /\ others \in Nat /\ wanted \in Nat
        /\ seen[b].sold[t] \in Nat /\ Quantity[t] \in Nat /\ Held(t) = mine + others
    BY <1>0, CountsType, HeldSplits, LimitsAssumption DEF CountsAreNumbers
  <1>2. sold <= seen[b].sold[t]
    BY <1>0 DEF RoomIsKept, SoldWasCounted
  <1>3. sold + Held(t) <= Quantity[t]
    <2>1. SoldIn(orders, t, supersede[b]) <= SoldIn(orders, t, {})
      BY <1>0, SoldFalls DEF TypeOK
    <2>2. SoldIn(orders, t, {}) \in Nat
      BY <1>0, SoldType DEF TypeOK
    <2>3. sold <= Sold(t, {}) /\ Sold(t, {}) \in Nat
      BY <2>1, <2>2, Queries
    <2>4. ~(Sold(t, {}) + Held(t) > Quantity[t])
      BY DEF SeatsInv, TierCapacityKept, Uncounted
    <2> HIDE DEF sold, mine, others
    <2>5. QED
      BY <1>1, <2>3, <2>4
  <1>4. wanted = 0 \/ wanted <= AtLeastZero(Quantity[t] - seen[b].sold[t] - Held(t)) + mine
    BY DEF TierAllows
  <1> HIDE DEF sold, mine, others, wanted
  <1>5. sold + others + wanted <= Quantity[t]
    BY <1>1, <1>2, <1>3, <1>4 DEF AtLeastZero
  <1>6. QED
    BY <1>5 DEF sold, others, wanted

LEMMA CountHeldKeeps ==
  ASSUME SeatsInv, NEW b \in Bookings, CountHeld(b)
  PROVE  SeatsInv'
  <1> DEFINE held == [t \in Tiers |-> Held(t)]
             mine == [t \in Tiers |-> SeatsIn(HoldsOf(ask[b].buyer, t))]
  <1>0. TypeOK /\ RoomIsKept(b) /\ pc[b] = "held" /\ UNCHANGED <<orders, holds, lapsed>>
    BY DEF SeatsInv, CountHeld
  <1>1. CASE GiveUp(b)
    <2>1. OrdersCalm /\ orders' \in [Bookings -> Order]
      BY <1>0 DEF OrdersCalm, TypeOK
    <2>2. QED
      BY <1>0, <1>1, <2>1, GiveUpSeats
  <1>2. CASE /\ \A t \in Tiers : TierAllows(b, t, held[t], mine[t])
             /\ seen' = [seen EXCEPT ![b].held = held, ![b].mine = mine]
             /\ pc' = [pc EXCEPT ![b] = "event"]
             /\ UNCHANGED <<supersede, ask, plan, history>>
    <2>1. held \in Seats /\ mine \in Seats
      BY <1>0, CountsType, HeldSplits DEF CountsAreNumbers, Seats
    <2>2. \A t \in Tiers : TierAllows(b, t, Held(t), SeatsIn(HoldsOf(ask[b].buyer, t)))
      BY <1>2
    <2>3. \A t \in Tiers : mine[t] = SeatsIn(HoldsOf(ask[b].buyer, t))
      OBVIOUS
    <2> HIDE DEF held, mine
    <2>4. UNCHANGED <<orders, holds, lapsed, supersede, ask, plan, stale, beyond, spared>> /\ pc'[b] = "event"
      BY <1>0, <1>2 DEF history, TypeOK
    <2>5. seen' \in [Bookings -> [sold : Seats, held : Seats, mine : Seats]]
      BY <1>0, <1>2, <2>1 DEF TypeOK
    <2>6. TypeOK'
      BY <1>0, <1>2, <2>4, <2>5 DEF TypeOK, Labels
    <2>7. Calm
      BY <1>0, <2>4, Untouched
    <2>8. \A c \in Bookings \ {b} : Still(c) /\ (c \in stale => c \in stale')
      BY <1>0, <1>2, <2>4 DEF TypeOK, Still
    <2>9. RoomIsKept(b)'
      <3>1. LateAsksForItsOrder(b)'
        BY <1>0, <2>4 DEF RoomIsKept, LateAsksForItsOrder
      <3>2. \A t \in Tiers :
              /\ SeatsIn(HoldsOf(ask[b].buyer, t))' = SeatsIn(HoldsOf(ask[b].buyer, t))
              /\ SeatsIn(HoldsOfOthers(b, t))' = SeatsIn(HoldsOfOthers(b, t))
              /\ Sold(t, supersede[b])' = Sold(t, supersede[b])
        BY <2>4 DEF SeatsIn, HoldsOf, HoldsOfOthers, ActiveHolds, Sold, SeatsOf
      <3>3. \A t \in Tiers : seen'[b].mine[t] = SeatsIn(HoldsOf(ask[b].buyer, t))
        BY <1>0, <1>2, <2>3 DEF TypeOK
      <3>4. \A t \in Tiers : SeatsIn(HoldsOf(ask[b].buyer, t)) \in Nat
        BY <1>0, CountsType DEF CountsAreNumbers
      <3>5. MineWasCounted(b)'
        BY <3>2, <3>3, <3>4 DEF MineWasCounted
      <3>6. RoomInTier(b)'
        BY <1>0, <2>2, <2>4, <3>2, AllowedFits DEF RoomInTier
      <3>7. QED
        BY <2>4, <3>1, <3>5, <3>6 DEF RoomIsKept, SoldWasCounted, RoomInEvent,
                                      PlanFits, PlanCovers
    <2>10. QED
      BY <2>6, <2>7, <2>8, <2>9, CalmMove
  <1>3. QED
    BY <1>1, <1>2 DEF CountHeld

LEMMA CheckEventKeeps ==
  ASSUME IInv, SeatsInv, NEW b \in Bookings, CheckEvent(b)
  PROVE  SeatsInv'
  <1> DEFINE fits == MaxAttendees # Nil /\ b \notin DoorSales
                       => Attendees(supersede[b]) + Requested(b) <= MaxAttendees
             next == IF orders[b].status = "none" THEN "plan" ELSE "complete"
  <1>0. TypeOK /\ RoomIsKept(b) /\ pc[b] = "event" /\ UNCHANGED <<orders, holds, lapsed>>
    BY DEF SeatsInv, CheckEvent
  <1>1. CASE GiveUp(b)
    <2>1. OrdersCalm /\ orders' \in [Bookings -> Order]
      BY <1>0 DEF OrdersCalm, TypeOK
    <2>2. QED
      BY <1>0, <1>1, <2>1, GiveUpSeats
  <1>2. CASE /\ pc' = [pc EXCEPT ![b] = next]
             /\ beyond' = IF fits THEN beyond ELSE beyond \cup {"holder"}
             /\ UNCHANGED <<supersede, ask, seen, plan, stale, spared>>
    <2>1. fits \/ "holder" \in beyond'
      BY <1>2
    <2>2. beyond \subseteq beyond' /\ beyond' \subseteq beyond \cup {"holder"}
      BY <1>2
    <2>3. pc'[b] \in {"plan", "complete"} /\ pc' \in [Bookings -> Labels]
      BY <1>0, <1>2 DEF TypeOK, Labels
    <2>4. TypeOK'
      BY <1>0, <1>2, <2>2, <2>3 DEF TypeOK, Reasons
    <2>5. Calm
      BY <1>0, <2>2, Untouched
    <2>6. \A c \in Bookings \ {b} : Still(c) /\ (c \in stale => c \in stale')
      BY <1>0, <1>2 DEF TypeOK, Still
    <2>7. UNCHANGED <<orders, holds, lapsed, supersede, ask, seen, plan, stale>>
      BY <1>0, <1>2
    <2>8. RoomIsKept(b)'
      <3>1. LateAsksForItsOrder(b)'
        BY <1>0, <2>3, <2>7 DEF RoomIsKept, LateAsksForItsOrder
      <3>2. /\ Attendees(supersede[b])' = Attendees(supersede[b]) /\ Requested(b)' = Requested(b)
            /\ \A t \in Tiers :
                 /\ SeatsIn(HoldsOf(ask[b].buyer, t))' = SeatsIn(HoldsOf(ask[b].buyer, t))
                 /\ SeatsIn(HoldsOfOthers(b, t))' = SeatsIn(HoldsOfOthers(b, t))
                 /\ Sold(t, supersede[b])' = Sold(t, supersede[b])
        BY <2>7 DEF SeatsIn, HoldsOf, HoldsOfOthers, ActiveHolds, Sold, SeatsOf, Attendees, Requested
      <3>3. MineWasCounted(b)'
        BY <1>0, <2>7, <3>2 DEF RoomIsKept, MineWasCounted, HasChecked
      <3>4. RoomInTier(b)'
        <4>1. beyond' \cap Uncounted = {} => beyond \cap Uncounted = {}
          BY <2>2
        <4>2. QED
          BY <1>0, <2>7, <3>2, <4>1 DEF RoomIsKept, RoomInTier, HasChecked
      <3>5. RoomInEvent(b)'
        BY <2>1, <3>2 DEF RoomInEvent, Unlimited
      <3>6. QED
        BY <2>3, <3>1, <3>3, <3>4, <3>5 DEF RoomIsKept, SoldWasCounted, PlanFits, PlanCovers
    <2>9. QED
      BY <2>4, <2>5, <2>6, <2>8, CalmMove
  <1>3. QED
    BY <1>1, <1>2 DEF CheckEvent

\* Holds that are taken first in, first out until the order is covered give it all it
\* needs or all they have.
LEMMA FirstInFirstOut ==
  ASSUME NEW H \in SUBSET Holds, NEW s, \A h \in H : s[h] \in Nat, NEW q \in Nat,
         NEW p, \A h \in H : p[h] = Least(s[h], AtLeastZero(q - Total(s, {g \in H : g < h})))
  PROVE  Total(p, H) = Least(q, Total(s, H))
  <1> DEFINE Up(n) == H \cap 1..n
             Bad == {T \in SUBSET Holds : \E n \in 0..MaxHolds :
                       T = 1..n /\ Total(p, Up(n)) # Least(q, Total(s, Up(n)))}
  <1>0. H \subseteq 1..MaxHolds /\ MaxHolds \in Nat
    BY BoundsAssumption DEF Holds
  <1>1. ASSUME NEW K \in SUBSET H
        PROVE  IsFiniteSet(K) /\ Total(s, K) \in Nat
    <2>1. IsFiniteSet(K)
      BY HoldsFinite
    <2>2. QED
      BY <2>1, TotalType
  <1>2. \A h \in H : p[h] \in Nat
    <2>1. ASSUME NEW h \in H
          PROVE  p[h] \in Nat
      <3>1. {g \in H : g < h} \in SUBSET H
        OBVIOUS
      <3>2. Total(s, {g \in H : g < h}) \in Nat
        BY <1>1, <3>1
      <3>3. p[h] = Least(s[h], AtLeastZero(q - Total(s, {g \in H : g < h})))
        OBVIOUS
      <3>4. QED
        BY <3>2, <3>3 DEF Least, AtLeastZero
    <2>2. QED
      BY <2>1
  <1>3. ASSUME NEW T \in Bad
        PROVE  \E U \in Bad : U \subseteq T /\ U # T
    <2>1. PICK n \in 0..MaxHolds : T = 1..n /\ Total(p, Up(n)) # Least(q, Total(s, Up(n)))
      BY <1>3
    <2>2. n # 0
      <3>1. Up(0) = {}
        OBVIOUS
      <3> HIDE DEF Up
      <3>2. Total(p, Up(0)) = 0 /\ Total(s, Up(0)) = 0
        BY <3>1, TotalEmpty
      <3>3. Total(p, Up(0)) = Least(q, Total(s, Up(0)))
        BY <3>2 DEF Least
      <3>4. QED
        BY <2>1, <3>3
    <2>3. n - 1 \in 0..MaxHolds /\ 1..(n - 1) \in SUBSET Holds
      BY <1>0, <2>2 DEF Holds
    <2>4. 1..(n - 1) \subseteq T /\ 1..(n - 1) # T
      BY <2>1, <2>2
    <2>5. Total(p, Up(n - 1)) # Least(q, Total(s, Up(n - 1)))
      <3> SUFFICES ASSUME Total(p, Up(n - 1)) = Least(q, Total(s, Up(n - 1)))
                   PROVE  Total(p, Up(n)) = Least(q, Total(s, Up(n)))
        BY <2>1
      <3>1. CASE n \notin H
        <4>1. Up(n) = Up(n - 1)
          BY <1>0, <2>2, <3>1
        <4>2. QED
          BY <4>1, Zenon
      <3>2. CASE n \in H
        <4>1. {g \in H : g < n} = Up(n - 1) /\ Up(n) \ {n} = Up(n - 1) /\ n \in Up(n)
          <5>1. \A g \in H : g \in Nat /\ g >= 1
            BY <1>0
          <5>2. n \in Nat /\ n >= 1
            BY <1>0, <2>2
          <5>3. {g \in H : g < n} = Up(n - 1)
            BY <5>1, <5>2
          <5>4. Up(n) \ {n} = Up(n - 1)
            BY <5>1, <5>2
          <5>5. n \in Up(n)
            BY <3>2, <5>2
          <5>6. QED
            BY <5>3, <5>4, <5>5
        <4>2. Up(n) \in SUBSET H /\ Up(n - 1) \in SUBSET H
          OBVIOUS
        <4> HIDE DEF Up
        <4>3. IsFiniteSet(Up(n)) /\ Total(s, Up(n - 1)) \in Nat
          BY <1>1, <4>2
        <4>4. Total(p, Up(n)) = p[n] + Total(p, Up(n) \ {n})
          BY <1>2, <4>1, <4>2, <4>3, TotalTakes
        <4>5. Total(s, Up(n)) = s[n] + Total(s, Up(n) \ {n})
          BY <4>1, <4>2, <4>3, TotalTakes
        <4>6. /\ Total(p, Up(n) \ {n}) = Total(p, Up(n - 1))
              /\ Total(s, Up(n) \ {n}) = Total(s, Up(n - 1))
              /\ Total(s, {g \in H : g < n}) = Total(s, Up(n - 1))
          BY <4>1, Zenon
        <4>7. p[n] = Least(s[n], AtLeastZero(q - Total(s, Up(n - 1)))) /\ s[n] \in Nat
          BY <3>2, <4>6
        <4>8. QED
          BY <4>3, <4>4, <4>5, <4>6, <4>7 DEF Least, AtLeastZero
      <3>3. QED
        BY <3>1, <3>2
    <2>6. 1..(n - 1) \in Bad
      BY <2>3, <2>5
    <2>7. QED
      BY <2>4, <2>6
  <1>4. Bad = {}
    <2> HIDE DEF Bad
    <2>1. Bad \in SUBSET SUBSET Holds
      BY DEF Bad
    <2>2. QED
      BY <1>3, <2>1, HoldsFinite, NoException
  <1>5. Total(p, Up(MaxHolds)) = Least(q, Total(s, Up(MaxHolds)))
    <2>1. 1..MaxHolds \in SUBSET Holds /\ MaxHolds \in 0..MaxHolds
      BY <1>0 DEF Holds
    <2>2. QED
      BY <1>4, <2>1
  <1>6. Up(MaxHolds) = H
    BY <1>0
  <1>7. QED
    BY <1>5, <1>6, Zenon

LEMMA PlanHoldsKeeps ==
  ASSUME SeatsInv, NEW b \in Bookings, PlanHolds(b)
  PROVE  SeatsInv'
  <1> DEFINE u == ask[b].buyer
             s == [h \in Holds |-> holds[h].seats]
  <1>0. TypeOK /\ RoomIsKept(b) /\ pc[b] = "plan"
    BY DEF SeatsInv, PlanHolds
  <1>1. /\ pc' = [pc EXCEPT ![b] = "book"]
        /\ plan' = [plan EXCEPT ![b] = [h \in Holds |->
                      IF \E t \in Tiers : h \in HoldsOf(u, t) THEN Covered(b, h) ELSE 0]]
        /\ UNCHANGED <<orders, holds, lapsed, ask, supersede, seen, stale, beyond, spared>>
    BY DEF PlanHolds, history
  <1>2. pc'[b] = "book" /\ \A h \in Holds :
          plan'[b][h] = IF \E t \in Tiers : h \in HoldsOf(u, t) THEN Covered(b, h) ELSE 0
    BY <1>0, <1>1 DEF TypeOK
  <1>3. \A h \in Holds : s[h] \in Nat /\ s[h] = holds[h].seats
    BY <1>0 DEF TypeOK, Hold
  <1>4. \A H : SeatsIn(H) = Total(s, H)
    BY DEF SeatsIn
  <1> HIDE DEF s
  <1>5. ASSUME NEW t \in Tiers, NEW h \in HoldsOf(u, t)
        PROVE  /\ plan'[b][h] = Least(s[h], AtLeastZero(ask[b].seats[t]
                                   - Total(s, {g \in HoldsOf(u, t) : g < h})))
               /\ plan'[b][h] \in Nat /\ plan'[b][h] <= s[h]
    <2>1. h \in Holds /\ holds[h].tier = t /\ holds[h].buyer = u
      BY DEF HoldsOf, ActiveHolds
    <2>2. plan'[b][h] = Covered(b, h)
      BY <1>2, <2>1
    <2>3. Covered(b, h) = Least(holds[h].seats, AtLeastZero(ask[b].seats[t]
                             - SeatsIn({g \in HoldsOf(u, t) : g < h})))
      BY <2>1 DEF Covered
    <2>4. SeatsIn({g \in HoldsOf(u, t) : g < h}) = Total(s, {g \in HoldsOf(u, t) : g < h})
      BY <1>4
    <2>5. Total(s, {g \in HoldsOf(u, t) : g < h}) \in Nat
      <3>1. {g \in HoldsOf(u, t) : g < h} \in SUBSET Holds
        BY DEF HoldsOf, ActiveHolds
      <3>2. IsFiniteSet({g \in HoldsOf(u, t) : g < h})
        BY <3>1, HoldsFinite
      <3>3. QED
        BY <1>3, <3>1, <3>2, TotalType
    <2>6. ask[b].seats[t] \in Nat
      BY <1>0, CountsType DEF CountsAreNumbers
    <2>7. QED
      BY <1>3, <2>1, <2>2, <2>3, <2>4, <2>5, <2>6 DEF Least, AtLeastZero
  <1>6. plan'[b] \in [Holds -> Nat]
    <2>1. ASSUME NEW h \in Holds
          PROVE  plan'[b][h] \in Nat
      <3>1. CASE \E t \in Tiers : h \in HoldsOf(u, t)
        BY <1>5, <3>1
      <3>2. CASE ~(\E t \in Tiers : h \in HoldsOf(u, t))
        BY <1>2, <3>2
      <3>3. QED
        BY <3>1, <3>2
    <2>2. plan'[b] = [h \in Holds |->
                        IF \E t \in Tiers : h \in HoldsOf(u, t) THEN Covered(b, h) ELSE 0]
      BY <1>0, <1>1 DEF TypeOK
    <2>3. QED
      BY <2>1, <2>2
  <1>7. TypeOK'
    <2>1. plan' \in [Bookings -> [Holds -> Nat]]
      BY <1>0, <1>1, <1>6 DEF TypeOK
    <2>2. QED
      BY <1>0, <1>1, <2>1 DEF TypeOK, Labels
  <1>8. Calm
    BY <1>0, <1>1, Untouched
  <1>9. \A c \in Bookings \ {b} : Still(c) /\ (c \in stale => c \in stale')
    BY <1>0, <1>1 DEF TypeOK, Still
  <1>10. ASSUME NEW t \in Tiers
         PROVE  Total(plan'[b], UsedOf(b, t)') = Least(ask[b].seats[t], SeatsIn(HoldsOf(u, t)))
    <2> DEFINE H == HoldsOf(u, t)
               p == plan'[b]
               R == UsedOf(b, t)'
    <2>1. H \in SUBSET Holds /\ IsFiniteSet(H)
      BY HoldsFinite DEF HoldsOf, ActiveHolds
    <2>2. R = {h \in H : p[h] > 0}
      <3>1. R = {h \in Holds : p[h] > 0 /\ holds[h].tier = t}
        BY <1>1 DEF UsedOf, Used
      <3>2. ASSUME NEW h \in Holds, p[h] > 0, holds[h].tier = t
            PROVE  h \in H
        <4>1. PICK r \in Tiers : h \in HoldsOf(u, r)
          BY <1>2, <3>2
        <4>2. QED
          BY <3>2, <4>1 DEF HoldsOf
      <3>3. \A h \in H : holds[h].tier = t
        BY DEF HoldsOf
      <3>4. QED
        BY <2>1, <3>1, <3>2, <3>3
    <2>3. \A h \in H : /\ p[h] = Least(s[h], AtLeastZero(ask[b].seats[t]
                                   - Total(s, {g \in H : g < h})))
                       /\ p[h] \in Nat
      BY <1>5
    <2>4. ask[b].seats[t] \in Nat /\ \A h \in H : s[h] \in Nat
      BY <1>0, <1>3, <2>1, CountsType DEF CountsAreNumbers
    <2> HIDE DEF H, p, R
    <2>5. Total(p, H) = Least(ask[b].seats[t], Total(s, H))
      BY <2>1, <2>3, <2>4, FirstInFirstOut
    <2>6. R \in SUBSET H /\ \A h \in H : p[h] = IF h \in R THEN p[h] ELSE 0
      <3>1. ASSUME NEW h \in H, h \notin R
            PROVE  p[h] = 0
        <4>1. p[h] \in Nat /\ ~(p[h] > 0)
          BY <2>2, <2>3, <3>1
        <4>2. QED
          BY <4>1
      <3>2. QED
        BY <2>2, <3>1
    <2>9. \A h \in R : p[h] \in Nat
      BY <2>3, <2>6
    <2>7. Total(p, R) = Total(p, H)
      BY <2>1, <2>6, <2>9, TotalMasked
    <2>8. QED
      BY <1>4, <2>5, <2>7 DEF H, p, R
  <1>11. RoomIsKept(b)'
    <2>1. /\ Attendees(supersede[b])' = Attendees(supersede[b]) /\ Requested(b)' = Requested(b)
          /\ \A t \in Tiers :
               /\ SeatsIn(HoldsOf(ask[b].buyer, t))' = SeatsIn(HoldsOf(ask[b].buyer, t))
               /\ SeatsIn(HoldsOfOthers(b, t))' = SeatsIn(HoldsOfOthers(b, t))
               /\ Sold(t, supersede[b])' = Sold(t, supersede[b])
      BY <1>1 DEF SeatsIn, HoldsOf, HoldsOfOthers, ActiveHolds, Sold, SeatsOf, Attendees, Requested
    <2>2. MineWasCounted(b)'
      BY <1>0, <1>1, <2>1 DEF RoomIsKept, MineWasCounted, HasChecked
    <2>3. RoomInTier(b)'
      BY <1>0, <1>1, <2>1 DEF RoomIsKept, RoomInTier, HasChecked
    <2>4. RoomInEvent(b)'
      BY <1>0, <1>1, <2>1 DEF RoomIsKept, RoomInEvent
    <2>5. \A t \in Tiers :
            /\ Total(plan[b], UsedOf(b, t))' = Least(ask[b].seats[t], SeatsIn(HoldsOf(u, t)))
            /\ ask[b].seats[t] \in Nat /\ SeatsIn(HoldsOf(u, t)) \in Nat
      BY <1>0, <1>10, CountsType DEF CountsAreNumbers
    <2>6. PlanFits(b)'
      <3>1. ASSUME NEW h \in Used(b)'
            PROVE  /\ holds'[h].status # "none" /\ holds'[h].buyer = ask'[b].buyer
                   /\ plan'[b][h] <= holds'[h].seats
        <4>1. h \in Holds /\ plan'[b][h] > 0
          BY DEF Used
        <4>2. PICK t \in Tiers : h \in HoldsOf(u, t)
          BY <1>2, <4>1
        <4>3. plan'[b][h] <= holds[h].seats
          BY <1>3, <1>5, <4>1, <4>2
        <4>4. holds[h].status = "active" /\ holds[h].buyer = u
          BY <4>2 DEF HoldsOf, ActiveHolds
        <4>5. QED
          BY <1>1, <4>3, <4>4
      <3>2. \A t \in Tiers : Total(plan[b], UsedOf(b, t))' <= ask'[b].seats[t]
        BY <1>1, <2>5 DEF Least
      <3>3. QED
        BY <3>1, <3>2 DEF PlanFits
    <2>7. PlanCovers(b)'
      <3>1. \A t \in Tiers :
              \/ ask'[b].seats[t] <= Total(plan[b], UsedOf(b, t))'
              \/ SeatsIn(HoldsOf(ask[b].buyer, t))' <= Total(plan[b], UsedOf(b, t))'
        BY <1>1, <2>1, <2>5 DEF Least
      <3>2. QED
        BY <3>1 DEF PlanCovers
    <2>8. QED
      BY <1>2, <2>2, <2>3, <2>4, <2>6, <2>7 DEF RoomIsKept, LateAsksForItsOrder, SoldWasCounted
  <1>12. QED
    BY <1>7, <1>8, <1>9, <1>11, CalmMove

-----------------------------------------------------------------------------
(* Steps that take no seats and move no checkout.                           *)

LEMMA NobodyMoves ==
  ASSUME SeatsInv, TypeOK', Calm, UNCHANGED <<pc, ask, supersede, seen, plan, stale>>
  PROVE  SeatsInv'
  <1>1. \A c \in Bookings \ {} : Still(c) /\ (c \in stale => c \in stale')
    BY DEF Still, Calm, OrdersCalm
  <1>2. {} \in SUBSET Bookings /\ \A c \in {} : RoomIsKept(c)'
    OBVIOUS
  <1>3. QED
    BY <1>1, <1>2, CalmStep

LEMMA StutterKeeps ==
  ASSUME SeatsInv, UNCHANGED vars
  PROVE  SeatsInv'
  <1>1. /\ TypeOK /\ TypeOK' /\ UNCHANGED <<orders, holds, lapsed, beyond>>
        /\ UNCHANGED <<pc, ask, supersede, seen, plan, stale>>
    BY DEF SeatsInv, vars, TypeOK
  <1>2. QED
    BY <1>1, Untouched, NobodyMoves

\* An order that is settled keeps its buyer and seats.
LEMMA SettleType ==
  ASSUME TypeOK, NEW o \in Bookings, NEW from, NEW to \in OrderStatus \ {"none"},
         from # "none", Settle(o, from, to)
  PROVE  /\ orders' \in [Bookings -> Order] /\ UNCHANGED <<holds, lapsed>>
         /\ orders'[o].status = to /\ orders[o].status = from
         /\ \A c \in Bookings :
              /\ orders'[c].buyer = orders[c].buyer /\ orders'[c].seats = orders[c].seats
              /\ orders[c].status = "none" <=> orders'[c].status = "none"
              /\ c # o => orders'[c] = orders[c]
  <1>1. orders[o] \in Order /\ to \in OrderStatus /\ to # "none"
    BY DEF TypeOK
  <1>2. [orders[o] EXCEPT !.status = to] \in Order
    BY <1>1 DEF Order
  <1>3. orders' = [orders EXCEPT ![o] = [orders[o] EXCEPT !.status = to]]
    BY <1>1 DEF Settle, TypeOK
  <1>4. orders' \in [Bookings -> Order]
    BY <1>2, <1>3 DEF TypeOK
  <1>5. /\ orders'[o] = [orders[o] EXCEPT !.status = to]
        /\ \A c \in Bookings : c # o => orders'[c] = orders[c]
    BY <1>3 DEF TypeOK
  <1>6. /\ orders'[o].status = to /\ orders'[o].buyer = orders[o].buyer
        /\ orders'[o].seats = orders[o].seats
    BY <1>1, <1>5 DEF Order
  <1>7. QED
    BY <1>1, <1>4, <1>5, <1>6 DEF Settle

LEMMA SettleKeeps ==
  ASSUME SeatsInv, NEW o \in Bookings,
         NEW to \in OrderStatus \ {"none", "pending"}, Settle(o, "pending", to), UNCHANGED Aside
  PROVE  SeatsInv'
  <1>1. TypeOK /\ UNCHANGED <<pc, ask, supersede, seen, plan, stale, beyond, spared>>
    BY DEF SeatsInv, Aside, history
  <1>2. /\ orders' \in [Bookings -> Order] /\ UNCHANGED <<holds, lapsed>>
        /\ orders[o].status = "pending"
        /\ \A c \in Bookings :
             /\ orders'[c].buyer = orders[c].buyer /\ orders'[c].seats = orders[c].seats
             /\ orders[c].status = "none" <=> orders'[c].status = "none"
             /\ c # o => orders'[c] = orders[c]
    BY <1>1, SettleType
  <1>3. TypeOK'
    BY <1>1, <1>2 DEF TypeOK
  <1>4. Calm
    BY <1>1, <1>2 DEF Calm, OrdersCalm, HoldsCalm, Counted
  <1>5. QED
    BY <1>1, <1>3, <1>4, NobodyMoves

LEMMA PayLateKeeps ==
  ASSUME SeatsInv, NEW o \in Bookings, PayLate(o)
  PROVE  SeatsInv'
  <1>0. TypeOK
    BY DEF SeatsInv
  <1>1. /\ pc' = [pc EXCEPT ![o] = "sold"]
        /\ ask' = [ask EXCEPT ![o] = [buyer |-> orders[o].buyer, seats |-> orders[o].seats]]
        /\ UNCHANGED <<orders, holds, lapsed, supersede, seen, plan, stale, beyond, spared>>
    BY DEF PayLate, history
  <1>2. [buyer |-> orders[o].buyer, seats |-> orders[o].seats]
          \in [buyer : Buyers \cup {Nil}, seats : Seats]
    BY <1>0 DEF TypeOK, Order
  <1>3. TypeOK'
    BY <1>0, <1>1, <1>2 DEF TypeOK, Labels
  <1>4. Calm
    BY <1>0, <1>1, Untouched
  <1>5. \A c \in Bookings \ {o} : Still(c) /\ (c \in stale => c \in stale')
    BY <1>0, <1>1 DEF TypeOK, Still
  <1>6. pc'[o] = "sold" /\ ask'[o].seats = orders'[o].seats
    BY <1>0, <1>1 DEF TypeOK
  <1>7. RoomIsKept(o)'
    BY <1>6, NothingCounted
  <1>8. QED
    BY <1>3, <1>4, <1>5, <1>7, CalmMove

LEMMA LapseKeeps ==
  ASSUME SeatsInv, NEW h \in Holds, Lapse(h)
  PROVE  SeatsInv'
  <1>1. TypeOK /\ lapsed' = lapsed \cup {h}
        /\ UNCHANGED <<orders, holds, pc, ask, supersede, seen, plan, stale, beyond, spared>>
    BY DEF SeatsInv, Lapse, history
  <1>2. TypeOK' /\ Calm
    BY <1>1 DEF TypeOK, Calm, OrdersCalm, HoldsCalm
  <1>3. QED
    BY <1>1, <1>2, NobodyMoves

LEMMA HoldCancelled ==
  ASSUME SeatsInv, NEW h \in Holds, CancelHold(h) \/ ExpireHold(h)
  PROVE  SeatsInv'
  <1>1. /\ TypeOK /\ holds[h].status = "active"
        /\ holds' = [holds EXCEPT ![h].status = "cancelled"]
        /\ UNCHANGED <<orders, lapsed, pc, ask, supersede, seen, plan, stale, beyond, spared>>
    BY DEF SeatsInv, CancelHold, ExpireHold, history
  <1>2. holds' \in [Holds -> Hold]
    <2>1. holds[h] \in Hold /\ "cancelled" \in HoldStatus
      BY <1>1 DEF TypeOK, HoldStatus
    <2>2. [holds[h] EXCEPT !.status = "cancelled"] \in Hold
      BY <2>1 DEF Hold
    <2>3. holds' = [holds EXCEPT ![h] = [holds[h] EXCEPT !.status = "cancelled"]]
      BY <1>1 DEF TypeOK
    <2>4. QED
      BY <1>1, <2>2, <2>3 DEF TypeOK
  <1>3. TypeOK'
    BY <1>1, <1>2 DEF TypeOK
  <1>4. Calm
    BY <1>1 DEF TypeOK, Calm, OrdersCalm, HoldsCalm
  <1>5. QED
    BY <1>1, <1>3, <1>4, NobodyMoves

-----------------------------------------------------------------------------
(* Steps that take seats.                                                   *)

\* Whoever has counted before is outdated.
LEMMA Outdated ==
  ASSUME SeatsInv, TypeOK', HoldsMove, beyond \subseteq beyond', NEW x, Outdate(x),
         NEW b \in Bookings, b # x, Still(b)
  PROVE  RoomIsKept(b)'
  BY OthersStay DEF Outdate

\* With the order of b, no more is sold than b has and was sold without what b supersedes.
LEMMA SoldRises ==
  ASSUME NEW ords \in [Bookings -> Order], NEW after \in [Bookings -> Order],
         NEW b \in Bookings, NEW w,
         \A c \in Bookings \ {b} : Counted(after[c]) =>
            c \notin w /\ Counted(ords[c]) /\ after[c].seats = ords[c].seats
  PROVE  /\ \A t \in Tiers : SoldIn(after, t, {}) <= SoldIn(ords, t, w) + after[b].seats[t]
         /\ AttendeesIn(after, {}) <= AttendeesIn(ords, w) + Total(after[b].seats, Tiers)
  <1>1. ASSUME NEW t \in Tiers
        PROVE  SoldIn(after, t, {}) <= SoldIn(ords, t, w) + after[b].seats[t]
    <2> DEFINE D == {c \in Bookings \ {} : after[c].status \in {"pending", "completed"}}
               f == [c \in Bookings |-> after[c].seats[t]]
    <2>1. IsFiniteSet(D) /\ \A c \in D : f[c] \in Nat
      BY FiniteAssumption, FS_Subset DEF Order, Seats
    <2>2. f[b] \in Nat /\ f[b] = after[b].seats[t]
      BY DEF Order, Seats
    <2>3. SoldIn(after, t, {b}) <= SoldIn(ords, t, w)
      BY SoldFalls DEF Counted
    <2>4. SoldIn(after, t, {b}) = Total(f, D \ {b})
      <3>1. {c \in Bookings \ {b} : after[c].status \in {"pending", "completed"}} = D \ {b}
        OBVIOUS
      <3>2. QED
        BY <3>1, Zenon DEF SoldIn
    <2>5. SoldIn(after, t, {}) = Total(f, D)
      BY DEF SoldIn
    <2>6. SoldIn(after, t, {b}) \in Nat /\ SoldIn(ords, t, w) \in Nat
      BY SoldType
    <2> HIDE DEF D, f
    <2>7. CASE b \in D
      <3>1. Total(f, D) = f[b] + Total(f, D \ {b})
        BY <2>1, <2>7, TotalTakes
      <3>2. QED
        BY <2>2, <2>3, <2>4, <2>5, <2>6, <3>1
    <2>8. CASE b \notin D
      <3>1. D \ {b} = D
        BY <2>8
      <3>2. Total(f, D \ {b}) = Total(f, D)
        BY <3>1, Zenon
      <3>3. QED
        BY <2>2, <2>3, <2>4, <2>5, <2>6, <3>2
    <2>9. QED
      BY <2>7, <2>8
  <1>2. AttendeesIn(after, {}) <= AttendeesIn(ords, w) + Total(after[b].seats, Tiers)
    <2> DEFINE f == [t \in Tiers |-> SoldIn(ords, t, w)]
               g == after[b].seats
               h == [t \in Tiers |-> SoldIn(after, t, {})]
               sum == [t \in Tiers |-> f[t] + g[t]]
    <2>1. ASSUME NEW t \in Tiers
          PROVE  /\ f[t] \in Nat /\ g[t] \in Nat /\ sum[t] = f[t] + g[t]
                 /\ sum[t] \in Nat /\ h[t] \in Nat /\ h[t] <= sum[t]
      <3>1. SoldIn(ords, t, w) \in Nat /\ SoldIn(after, t, {}) \in Nat
        BY SoldType
      <3>2. after[b].seats[t] \in Nat
        BY DEF Order, Seats
      <3>3. QED
        BY <1>1, <3>1, <3>2
    <2>2. AttendeesIn(after, {}) = Total(h, Tiers) /\ AttendeesIn(ords, w) = Total(f, Tiers)
      BY DEF AttendeesIn
    <2> HIDE DEF f, g, h, sum
    <2>3. Total(sum, Tiers) = Total(f, Tiers) + Total(g, Tiers)
      BY <2>1, FiniteAssumption, TotalAdds
    <2>4. Total(h, Tiers) <= Total(sum, Tiers)
      BY <2>1, FiniteAssumption, TotalBelow
    <2>5. Total(h, Tiers) <= Total(f, Tiers) + Total(g, Tiers)
      BY <2>3, <2>4
    <2>6. QED
      BY <2>2, <2>5 DEF g
  <1>3. QED
    BY <1>1, <1>2

LEMMA CreateHoldKeeps ==
  ASSUME SeatsInv, NEW h \in Holds, CreateHold(h)
  PROVE  SeatsInv'
  <1>0. TypeOK /\ HoldsMakeSense
    BY DEF SeatsInv
  <1>1. PICK u \in Buyers, t \in Tiers, n \in 1..MaxHeld :
          /\ holds' = [holds EXCEPT ![h] = [status |-> "active", buyer |-> u, tier |-> t,
                                            seats |-> n, order |-> Nil]]
          /\ beyond' = IF Quantity[t] # 0 /\ Sold(t, {}) + Held(t) + n > Quantity[t]
                       THEN beyond \cup {"overheld"} ELSE beyond
    BY DEF CreateHold
  <1>2. /\ holds[h].status = "none" /\ Outdate(Nil)
        /\ UNCHANGED <<orders, lapsed, pc, ask, supersede, seen, plan, spared>>
    BY DEF CreateHold, FreeHolds
  <1>3. n \in Nat
    BY BoundsAssumption
  <1>4. /\ holds' \in [Holds -> Hold]
        /\ holds'[h].status = "active" /\ holds'[h].buyer = u /\ holds'[h].tier = t
        /\ holds'[h].seats = n /\ holds'[h].order = Nil
        /\ \A g \in Holds \ {h} : holds'[g] = holds[g]
    <2>1. [status |-> "active", buyer |-> u, tier |-> t, seats |-> n, order |-> Nil] \in Hold
      BY <1>3 DEF Hold, HoldStatus
    <2>2. QED
      BY <1>0, <1>1, <2>1 DEF TypeOK
  <1>5. beyond \subseteq beyond' /\ beyond' \subseteq beyond \cup {"overheld"}
    BY <1>1
  <1>6. TypeOK'
    <2>1. stale' \subseteq Bookings
      BY <1>0, <1>2 DEF Outdate, TypeOK
    <2>2. QED
      BY <1>0, <1>2, <1>4, <1>5, <2>1 DEF TypeOK, Reasons
  <1>7. HoldsMove
    BY <1>2, <1>4 DEF HoldsMove
  <1>8. \A b \in Bookings : RoomIsKept(b)'
    <2>1. \A b \in Bookings : b # Nil /\ Still(b)
      BY <1>2, NilAssumption DEF Still
    <2>2. QED
      BY <1>2, <1>5, <1>6, <1>7, <2>1, Outdated
  <1>9. HoldsMakeSense'
    BY <1>0, <1>2, <1>4 DEF HoldsMakeSense
  <1>10. HoldsBackTheirOrder'
    <2> DEFINE U(hs, b, r) == {g \in Holds : hs[g].order = b /\ hs[g].tier = r}
    <2>1. ASSUME NEW b \in Bookings, NEW r \in Tiers
          PROVE  /\ \A g \in U(holds', b, r) :
                      holds'[g].status = "fulfilled" /\ holds'[g].buyer = orders'[b].buyer
                 /\ SeatsAmong(holds', U(holds', b, r)) <= orders'[b].seats[r]
      <3>0. b # Nil
        BY NilAssumption
      <3>1. /\ U(holds', b, r) \in SUBSET U(holds, b, r) /\ U(holds, b, r) \in SUBSET Holds
            /\ \A g \in U(holds', b, r) : holds'[g] = holds[g]
        BY <1>4, <3>0
      <3>2. /\ \A g \in U(holds, b, r) :
                 holds[g].status = "fulfilled" /\ holds[g].buyer = orders[b].buyer
            /\ SeatsAmong(holds, U(holds, b, r)) <= orders[b].seats[r]
        BY DEF SeatsInv, HoldsBackTheirOrder, SeatsIn, SeatsAmong
      <3> HIDE DEF U
      <3>3. /\ SeatsAmong(holds', U(holds', b, r)) <= SeatsAmong(holds, U(holds, b, r))
            /\ SeatsAmong(holds', U(holds', b, r)) \in Nat /\ SeatsAmong(holds, U(holds, b, r)) \in Nat
        BY <1>0, <1>4, <3>1, SeatsFall DEF TypeOK
      <3>4. orders[b].seats[r] \in Nat /\ orders' = orders
        BY <1>0, <1>2 DEF TypeOK, Order, Seats
      <3>5. QED
        BY <3>1, <3>2, <3>3, <3>4
    <2>2. QED
      BY <2>1 DEF HoldsBackTheirOrder, SeatsIn, SeatsAmong
  <1>11. TierCapacityKept'
    <2>1. ASSUME NEW r \in Tiers, Quantity[r] # 0, beyond' \cap Uncounted = {}
          PROVE  SoldIn(orders', r, {}) + SeatsAmong(holds', {g \in ActiveHolds' : holds'[g].tier = r})
                   <= Quantity[r]
      <3> DEFINE K == {g \in ActiveHolds' : holds'[g].tier = r}
                 H == {g \in ActiveHolds : holds[g].tier = r}
                 s == [g \in Holds |-> holds'[g].seats]
      <3>1. /\ H \in SUBSET Holds /\ K \in SUBSET Holds /\ IsFiniteSet(K) /\ K \ {h} \in SUBSET H
            /\ \A g \in K \ {h} : holds'[g].seats = holds[g].seats
        <4>1. ActiveHolds' \subseteq Holds /\ ActiveHolds \subseteq Holds
          BY DEF ActiveHolds
        <4>2. ActiveHolds' \ {h} \subseteq ActiveHolds
          BY <1>2, <1>4 DEF ActiveHolds
        <4>3. K \in SUBSET Holds /\ H \in SUBSET Holds
          BY <4>1
        <4>4. IsFiniteSet(K)
          BY <4>3, HoldsFinite
        <4>5. QED
          BY <1>4, <4>1, <4>2, <4>3, <4>4
      <3>2. \A g \in K : s[g] \in Nat
        BY <1>4, <3>1 DEF Hold
      <3>3. SeatsAmong(holds', K) = Total(s, K) /\ SeatsAmong(holds', K \ {h}) = Total(s, K \ {h})
        BY DEF SeatsAmong
      <3>4. h \in K => r = t /\ s[h] = n
        BY <1>4
      <3>5. Sold(r, {}) = SoldIn(orders', r, {}) /\ Held(r) = SeatsAmong(holds, H)
        BY <1>2, Queries DEF Held
      <3> HIDE DEF K, H, s
      <3>6. /\ SeatsAmong(holds', K \ {h}) <= SeatsAmong(holds, H)
            /\ SeatsAmong(holds', K \ {h}) \in Nat /\ SeatsAmong(holds, H) \in Nat
        BY <1>0, <1>4, <3>1, SeatsFall DEF TypeOK
      <3>7. SoldIn(orders', r, {}) \in Nat /\ Quantity[r] \in Nat
        BY <1>6, SoldType, LimitsAssumption DEF TypeOK
      <3>8. beyond \cap Uncounted = {}
        BY <1>5, <2>1
      <3>9. ~(Sold(r, {}) + Held(r) > Quantity[r])
        BY <2>1, <3>8 DEF SeatsInv, TierCapacityKept, Uncounted
      <3>10. CASE h \in K
        <4>1. Total(s, K) = s[h] + Total(s, K \ {h})
          BY <3>1, <3>2, <3>10, TotalTakes
        <4>2. ~(Sold(r, {}) + Held(r) + n > Quantity[r])
          BY <1>1, <2>1, <3>4, <3>10 DEF Uncounted
        <4>3. SeatsAmong(holds', K) <= SeatsAmong(holds, H) + n
          BY <1>3, <3>3, <3>4, <3>6, <3>10, <4>1
        <4>4. SeatsAmong(holds', K) \in Nat
          BY <1>3, <3>3, <3>4, <3>6, <3>10, <4>1
        <4>5. SoldIn(orders', r, {}) + SeatsAmong(holds', K) <= Quantity[r]
          BY <1>3, <3>5, <3>6, <3>7, <4>2, <4>3, <4>4
        <4>6. QED
          BY <4>5 DEF K
      <3>11. CASE h \notin K
        <4>1. K \ {h} = K
          BY <3>11
        <4>2. SeatsAmong(holds', K \ {h}) = SeatsAmong(holds', K)
          BY <4>1, Zenon
        <4>3. SoldIn(orders', r, {}) + SeatsAmong(holds', K) <= Quantity[r]
          BY <3>5, <3>6, <3>7, <3>9, <4>2
        <4>4. QED
          BY <4>3 DEF K
      <3>12. QED
        BY <3>10, <3>11
    <2>2. ASSUME NEW r \in Tiers
          PROVE  /\ SoldIn(orders', r, {}) \in Nat
                 /\ SeatsAmong(holds', {g \in ActiveHolds' : holds'[g].tier = r}) \in Nat
      <3>1. {g \in ActiveHolds' : holds'[g].tier = r} \in SUBSET Holds
        BY DEF ActiveHolds
      <3>2. QED
        BY <1>4, <1>6, <3>1, SoldType, SeatsFall DEF TypeOK
    <2>3. \A r \in Tiers : Quantity[r] # 0 /\ SoldIn(orders', r, {})
                   + SeatsAmong(holds', {g \in ActiveHolds' : holds'[g].tier = r}) > Quantity[r]
            => beyond' \cap Uncounted # {}
      BY <2>1, <2>2, LimitsAssumption
    <2>4. QED
      BY <2>3 DEF TierCapacityKept, Sold, SeatsOf, SoldIn, Held, SeatsIn, SeatsAmong, Uncounted
  <1>12. EventCapacityKept'
    BY <1>2, <1>5 DEF SeatsInv, EventCapacityKept, Attendees, Sold, SeatsOf
  <1>13. QED
    BY <1>6, <1>8, <1>9, <1>10, <1>11, <1>12 DEF SeatsInv

\* A checkout that nobody has outdated keeps the event within its limit.
LEMMA TakenFitsEvent ==
  ASSUME SeatsInv, NEW b \in Bookings, pc[b] \in {"plan", "book", "complete"},
         NEW after \in [Bookings -> Order], after[b].seats = ask[b].seats,
         \A c \in Bookings \ {b} : Counted(after[c]) =>
            c \notin supersede[b] /\ Counted(orders[c]) /\ after[c].seats = orders[c].seats,
         MaxAttendees # Nil, beyond \cap Unlimited = {}, b \notin stale, b \notin DoorSales
  PROVE  AttendeesIn(after, {}) <= MaxAttendees
  <1>1. TypeOK /\ RoomIsKept(b)
    BY DEF SeatsInv
  <1>2. AttendeesIn(after, {}) <= AttendeesIn(orders, supersede[b]) + Total(after[b].seats, Tiers)
    BY <1>1, SoldRises DEF TypeOK
  <1>3. Attendees(supersede[b]) + Requested(b) <= MaxAttendees
    BY <1>1 DEF RoomIsKept, RoomInEvent
  <1>4. Requested(b) = Total(after[b].seats, Tiers)
    BY DEF Requested
  <1>5. Attendees(supersede[b]) = AttendeesIn(orders, supersede[b])
    BY Queries
  <1>6. /\ AttendeesIn(after, {}) \in Nat /\ AttendeesIn(orders, supersede[b]) \in Nat
        /\ Requested(b) \in Nat /\ MaxAttendees \in Nat
    BY <1>1, SoldType, CountsType, LimitsAssumption DEF CountsAreNumbers, TypeOK
  <1>7. QED
    BY <1>2, <1>3, <1>4, <1>5, <1>6

LEMMA CompleteLateKeeps ==
  ASSUME IInv, SeatsInv, NEW o \in Bookings, CompleteLate(o)
  PROVE  SeatsInv'
  <1>0. TypeOK /\ HoldsMakeSense /\ RoomIsKept(o)
    BY DEF SeatsInv
  <1>1. /\ pc[o] = "complete" /\ Return(o) /\ Outdate(o) /\ Settle(o, "expired", "completed")
        /\ UNCHANGED spared
        /\ beyond' = beyond
             \cup (IF o \in stale THEN {"race"} ELSE {})
             \cup (IF o \in DoorSales THEN {"door"} ELSE {})
             \cup (IF seen[o].mine # NoSeats THEN {"unclaimed"} ELSE {})
    BY DEF CompleteLate
  <1>2. /\ orders' \in [Bookings -> Order] /\ UNCHANGED <<holds, lapsed>>
        /\ orders'[o].status = "completed" /\ orders[o].status = "expired"
        /\ \A c \in Bookings :
             /\ orders'[c].buyer = orders[c].buyer /\ orders'[c].seats = orders[c].seats
             /\ orders[c].status = "none" <=> orders'[c].status = "none"
             /\ c # o => orders'[c] = orders[c]
    BY <1>0, <1>1, SettleType DEF OrderStatus
  <1>3. beyond \subseteq beyond' /\ beyond' \subseteq beyond \cup {"race", "door", "unclaimed"}
    BY <1>1
  <1>4. TypeOK'
    <2>1. stale' \subseteq Bookings
      BY <1>0, <1>1 DEF Outdate, TypeOK
    <2>2. QED
      BY <1>0, <1>1, <1>2, <1>3, <2>1, ReturnType DEF TypeOK, Reasons
  <1>5. \A b \in Bookings : RoomIsKept(b)'
    <2>1. ASSUME NEW b \in Bookings \ {o}
          PROVE  Still(b)
      BY <1>0, <1>1, <1>2 DEF Return, Still, TypeOK
    <2>2. HoldsMove
      BY <1>2 DEF HoldsMove
    <2>3. \A b \in Bookings \ {o} : RoomIsKept(b)'
      BY <1>1, <1>3, <1>4, <2>1, <2>2, Outdated
    <2>4. \A b \in {o} : RoomIsKept(b)'
      <3>1. pc'[o] = "done"
        BY <1>0, <1>1, ReturnType
      <3>2. \A b \in {o} : pc'[b] = "done" /\ b \in Bookings
        BY <3>1
      <3>3. QED
        BY <3>2, NothingToKeep
    <2>5. QED
      BY <2>3, <2>4
  <1>6. HoldsMakeSense'
    <2>1. \A h \in Holds : holds[h].order \in Bookings \cup {Nil}
      BY <1>0 DEF TypeOK, Hold
    <2>2. QED
      BY <1>0, <1>2, <2>1 DEF HoldsMakeSense
  <1>7. HoldsBackTheirOrder'
    <2> DEFINE U(hs, b, t) == {h \in Holds : hs[h].order = b /\ hs[h].tier = t}
    <2>1. ASSUME NEW b \in Bookings, NEW t \in Tiers
          PROVE  /\ \A h \in U(holds', b, t) :
                      holds'[h].status = "fulfilled" /\ holds'[h].buyer = orders'[b].buyer
                 /\ SeatsAmong(holds', U(holds', b, t)) <= orders'[b].seats[t]
      <3>1. /\ \A h \in U(holds, b, t) :
                 holds[h].status = "fulfilled" /\ holds[h].buyer = orders[b].buyer
            /\ SeatsAmong(holds, U(holds, b, t)) <= orders[b].seats[t]
        BY DEF SeatsInv, HoldsBackTheirOrder, SeatsIn, SeatsAmong
      <3>2. holds' = holds
        BY <1>2
      <3>3. SeatsAmong(holds', U(holds', b, t)) = SeatsAmong(holds, U(holds, b, t))
        BY <3>2, Zenon
      <3>4. QED
        BY <1>2, <3>1, <3>2, <3>3
    <2>2. QED
      BY <2>1 DEF HoldsBackTheirOrder, SeatsIn, SeatsAmong
  <1>8. supersede[o] = {} /\ ask[o].seats = orders[o].seats
    BY <1>0, <1>1, <1>2 DEF IInv, NothingSuperseded, InCheckout, RoomIsKept, LateAsksForItsOrder
  <1>9. \A c \in Bookings \ {o} : Counted(orders'[c]) =>
          c \notin supersede[o] /\ Counted(orders[c]) /\ orders'[c].seats = orders[c].seats
    BY <1>2, <1>8
  <1>10. TierCapacityKept'
    <2>1. ASSUME NEW t \in Tiers, Quantity[t] # 0, beyond' \cap Uncounted = {}
          PROVE  SoldIn(orders', t, {}) + Held(t) <= Quantity[t]
      <3>1. SoldIn(orders', t, {}) <= SoldIn(orders, t, supersede[o]) + orders'[o].seats[t]
        BY <1>0, <1>2, <1>9, SoldRises DEF TypeOK
      <3>2. /\ o \notin stale /\ o \notin DoorSales /\ seen[o].mine = NoSeats
            /\ beyond \cap Uncounted = {}
        BY <1>1, <1>3, <2>1 DEF Uncounted
      <3>3. Sold(t, supersede[o]) + SeatsIn(HoldsOfOthers(o, t)) + ask[o].seats[t] <= Quantity[t]
        BY <1>0, <1>1, <2>1, <3>2 DEF RoomIsKept, RoomInTier, HasChecked
      <3>4. SeatsIn(HoldsOf(ask[o].buyer, t)) <= 0
        BY <1>0, <1>1, <3>2 DEF RoomIsKept, MineWasCounted, HasChecked, NoSeats
      <3>5. /\ Held(t) = SeatsIn(HoldsOf(ask[o].buyer, t)) + SeatsIn(HoldsOfOthers(o, t))
            /\ SeatsIn(HoldsOf(ask[o].buyer, t)) \in Nat /\ SeatsIn(HoldsOfOthers(o, t)) \in Nat
        BY <1>0, HeldSplits
      <3>6. /\ SoldIn(orders', t, {}) \in Nat /\ SoldIn(orders, t, supersede[o]) \in Nat
            /\ ask[o].seats[t] \in Nat /\ Quantity[t] \in Nat
        BY <1>0, <1>2, SoldType, CountsType, LimitsAssumption DEF CountsAreNumbers, TypeOK
      <3>7. Sold(t, supersede[o]) = SoldIn(orders, t, supersede[o])
        BY Queries
      <3>8. orders'[o].seats[t] = ask[o].seats[t]
        BY <1>2, <1>8
      <3>9. QED
        BY <3>1, <3>3, <3>4, <3>5, <3>6, <3>7, <3>8
    <2>2. \A t \in Tiers : SoldIn(orders', t, {}) \in Nat /\ Held(t) \in Nat /\ Quantity[t] \in Nat
      BY <1>0, <1>2, SoldType, HeldSplits, LimitsAssumption
    <2>3. \A t \in Tiers : Held(t)' = Held(t)
      BY <1>2 DEF Held, SeatsIn, ActiveHolds
    <2>4. \A t \in Tiers : Quantity[t] # 0 /\ SoldIn(orders', t, {}) + Held(t)' > Quantity[t]
            => beyond' \cap Uncounted # {}
      BY <2>1, <2>2, <2>3
    <2>5. QED
      BY <2>4 DEF TierCapacityKept, Sold, SeatsOf, SoldIn, Uncounted
  <1>11. EventCapacityKept'
    <2>1. ASSUME MaxAttendees # Nil, beyond' \cap Unlimited = {}
          PROVE  AttendeesIn(orders', {}) <= MaxAttendees
      <3>1. o \notin stale /\ o \notin DoorSales /\ beyond \cap Unlimited = {}
        BY <1>1, <1>3, <2>1 DEF Unlimited
      <3>2. orders'[o].seats = ask[o].seats
        BY <1>2, <1>8
      <3>3. QED
        BY <1>1, <1>2, <1>9, <2>1, <3>1, <3>2, TakenFitsEvent
    <2>2. AttendeesIn(orders', {}) \in Nat /\ MaxAttendees \in Nat \cup {Nil}
      BY <1>2, SoldType, LimitsAssumption
    <2>3. MaxAttendees # Nil /\ AttendeesIn(orders', {}) > MaxAttendees
            => beyond' \cap Unlimited # {}
      BY <2>1, <2>2
    <2>4. QED
      BY <2>3 DEF EventCapacityKept, Attendees, AttendeesIn, Sold, SeatsOf, SoldIn, Unlimited
  <1>12. QED
    BY <1>4, <1>5, <1>6, <1>7, <1>10, <1>11 DEF SeatsInv

\* A hold that an order uses for n seats, and what is left of one that it splits.
UsedUp(r, b, n) == [r EXCEPT !.status = "fulfilled", !.order = b, !.seats = n]
LeftOf(r, n) == [r EXCEPT !.seats = @ - n]

\* What an order does to its buyer's holds: those it uses are its own, what it does not
\* need of them are new holds, the others are as before.
LEMMA BookedHolds ==
  ASSUME TypeOK, NEW b \in Bookings, Used(b) \subseteq ActiveHolds,
         NEW rest \in [Split(b) -> FreeHolds], IsInjective(rest),
         holds' = [h \in Holds |-> HoldAfter(b, h, rest)]
  PROVE  /\ \A h \in Used(b) :
              holds'[h] = UsedUp(holds[h], b, plan[b][h])
         /\ \A g \in Split(b) :
              /\ rest[g] \in FreeHolds /\ rest[g] \notin Used(b)
              /\ holds'[rest[g]] = LeftOf(holds[g], plan[b][g])
         /\ \A h \in Holds : h \notin Used(b) /\ (\A g \in Split(b) : rest[g] # h)
              => holds'[h] = holds[h]
  <1>1. Used(b) \subseteq Holds /\ Split(b) \subseteq Used(b) /\ FreeHolds \subseteq Holds
    BY DEF Used, Split, FreeHolds
  <1>2. Used(b) \cap FreeHolds = {}
    BY DEF ActiveHolds, FreeHolds
  <1>3. \A g \in Split(b) : rest[g] \in FreeHolds
    OBVIOUS
  <1>4. \A g, h \in Split(b) : rest[g] = rest[h] => g = h
    BY DEF IsInjective
  <1>5. ASSUME NEW h \in Used(b)
        PROVE  holds'[h] = UsedUp(holds[h], b, plan[b][h])
    <2>1. h \in Holds /\ ~(\E g \in Split(b) : rest[g] = h)
      BY <1>1, <1>2, <1>3, <1>5
    <2>2. HoldAfter(b, h, rest)
            = UsedUp(holds[h], b, plan[b][h])
      BY <1>5, <2>1 DEF HoldAfter, UsedUp
    <2>3. QED
      BY <2>1, <2>2
  <1>6. ASSUME NEW g \in Split(b)
        PROVE  /\ rest[g] \in FreeHolds /\ rest[g] \notin Used(b)
               /\ holds'[rest[g]] = LeftOf(holds[g], plan[b][g])
    <2> DEFINE h == rest[g]
    <2>1. h \in FreeHolds /\ h \notin Used(b) /\ h \in Holds
      BY <1>1, <1>2, <1>3
    <2>2. (CHOOSE k \in Split(b) : rest[k] = h) = g
      BY <1>4
    <2>3. HoldAfter(b, h, rest) =
            LET k == CHOOSE k \in Split(b) : rest[k] = h
            IN  LeftOf(holds[k], plan[b][k])
      BY <2>1 DEF HoldAfter, LeftOf
    <2>4. HoldAfter(b, h, rest) = LeftOf(holds[g], plan[b][g])
      BY <2>2, <2>3, Zenon
    <2>5. QED
      BY <2>1, <2>4
  <1>7. ASSUME NEW h \in Holds, h \notin Used(b), \A g \in Split(b) : rest[g] # h
        PROVE  holds'[h] = holds[h]
    BY <1>7 DEF HoldAfter
  <1>8. QED
    BY <1>5, <1>6, <1>7

LEMMA HoldChanges ==
  ASSUME NEW r \in Hold, NEW n \in Nat
  PROVE  /\ \A b \in Bookings :
              /\ UsedUp(r, b, n) \in Hold
              /\ UsedUp(r, b, n).status = "fulfilled" /\ UsedUp(r, b, n).order = b
              /\ UsedUp(r, b, n).seats = n
              /\ UsedUp(r, b, n).buyer = r.buyer /\ UsedUp(r, b, n).tier = r.tier
         /\ r.seats - n \in Nat =>
              /\ LeftOf(r, n) \in Hold
              /\ LeftOf(r, n).seats = r.seats - n /\ LeftOf(r, n).status = r.status
              /\ LeftOf(r, n).order = r.order /\ LeftOf(r, n).buyer = r.buyer
              /\ LeftOf(r, n).tier = r.tier
  <1> DEFINE U == Buyers \cup {Nil}
             T == Tiers \cup {Nil}
             O == Bookings \cup {Nil}
  <1>1. Hold = [status : HoldStatus, buyer : U, tier : T, seats : Nat, order : O]
    BY DEF Hold
  <1>2. "fulfilled" \in HoldStatus /\ \A b \in Bookings : b \in O
    BY DEF HoldStatus
  <1> HIDE DEF U, T, O
  <1>3. ASSUME NEW b \in Bookings
        PROVE  /\ UsedUp(r, b, n) \in Hold
               /\ UsedUp(r, b, n).status = "fulfilled" /\ UsedUp(r, b, n).order = b
               /\ UsedUp(r, b, n).seats = n
               /\ UsedUp(r, b, n).buyer = r.buyer /\ UsedUp(r, b, n).tier = r.tier
    BY <1>1, <1>2 DEF UsedUp
  <1>4. ASSUME r.seats - n \in Nat
        PROVE  /\ LeftOf(r, n) \in Hold
               /\ LeftOf(r, n).seats = r.seats - n /\ LeftOf(r, n).status = r.status
               /\ LeftOf(r, n).order = r.order /\ LeftOf(r, n).buyer = r.buyer
               /\ LeftOf(r, n).tier = r.tier
    BY <1>1, <1>4 DEF LeftOf
  <1>5. QED
    BY <1>3, <1>4

LEMMA BookedTypes ==
  ASSUME TypeOK, NEW b \in Bookings, Used(b) \subseteq ActiveHolds,
         NEW rest \in [Split(b) -> FreeHolds], IsInjective(rest),
         holds' = [h \in Holds |-> HoldAfter(b, h, rest)]
  PROVE  /\ holds' \in [Holds -> Hold]
         /\ HoldsMove
         /\ \A h \in Holds :
              \/ /\ h \in Used(b) /\ holds'[h].status = "fulfilled" /\ holds'[h].order = b
                 /\ holds'[h].seats = plan[b][h]
                 /\ holds'[h].buyer = holds[h].buyer /\ holds'[h].tier = holds[h].tier
              \/ /\ h \in FreeHolds /\ h \notin Used(b)
                 /\ \E g \in Split(b) :
                      /\ rest[g] = h /\ holds'[h].status = "active"
                      /\ holds'[h].order = holds[g].order /\ holds'[h].tier = holds[g].tier
                      /\ holds'[h].buyer = holds[g].buyer
                      /\ holds'[h].seats = holds[g].seats - plan[b][g]
              \/ /\ h \notin Used(b) /\ holds'[h] = holds[h]
                 /\ \A g \in Split(b) : rest[g] # h
  <1>1. ASSUME NEW h \in Used(b)
        PROVE  /\ holds'[h] \in Hold /\ holds'[h].status = "fulfilled" /\ holds'[h].order = b
               /\ holds'[h].seats = plan[b][h]
               /\ holds'[h].buyer = holds[h].buyer /\ holds'[h].tier = holds[h].tier
    <2>1. holds[h] \in Hold /\ plan[b][h] \in Nat
      BY DEF TypeOK, Used
    <2>2. holds'[h] = UsedUp(holds[h], b, plan[b][h])
      BY BookedHolds
    <2>3. QED
      BY <2>1, <2>2, HoldChanges
  <1>2. ASSUME NEW g \in Split(b)
        PROVE  /\ rest[g] \in FreeHolds /\ rest[g] \notin Used(b)
               /\ holds'[rest[g]] \in Hold /\ holds'[rest[g]].status = "active"
               /\ holds'[rest[g]].order = holds[g].order /\ holds'[rest[g]].tier = holds[g].tier
               /\ holds'[rest[g]].buyer = holds[g].buyer
               /\ holds'[rest[g]].seats = holds[g].seats - plan[b][g]
    <2>1. g \in Holds /\ g \in Used(b) /\ plan[b][g] < holds[g].seats
      BY DEF Split, Used
    <2>2. holds[g] \in Hold /\ plan[b][g] \in Nat /\ holds[g].status = "active"
      BY <2>1 DEF TypeOK, ActiveHolds
    <2>3. holds[g].seats \in Nat /\ holds[g].seats - plan[b][g] \in Nat
      BY <2>1, <2>2 DEF Hold
    <2>4. /\ rest[g] \in FreeHolds /\ rest[g] \notin Used(b)
          /\ holds'[rest[g]] = LeftOf(holds[g], plan[b][g])
      BY BookedHolds
    <2>5. /\ LeftOf(holds[g], plan[b][g]) \in Hold
          /\ LeftOf(holds[g], plan[b][g]).seats = holds[g].seats - plan[b][g]
          /\ LeftOf(holds[g], plan[b][g]).status = holds[g].status
          /\ LeftOf(holds[g], plan[b][g]).order = holds[g].order
          /\ LeftOf(holds[g], plan[b][g]).buyer = holds[g].buyer
          /\ LeftOf(holds[g], plan[b][g]).tier = holds[g].tier
      BY <2>2, <2>3, HoldChanges
    <2>6. QED
      BY <2>2, <2>4, <2>5
  <1>3. \A h \in Holds : h \notin Used(b) /\ (\A g \in Split(b) : rest[g] # h)
          => holds'[h] = holds[h]
    BY BookedHolds
  <1>4. ASSUME NEW h \in Holds
        PROVE  holds'[h] \in Hold
    <2>1. CASE h \in Used(b)
      BY <1>1, <2>1
    <2>2. CASE \E g \in Split(b) : rest[g] = h
      BY <1>2, <2>2
    <2>3. CASE h \notin Used(b) /\ \A g \in Split(b) : rest[g] # h
      BY <1>3, <2>3 DEF TypeOK
    <2>4. QED
      BY <2>1, <2>2, <2>3
  <1>5. holds' \in [Holds -> Hold]
    BY <1>4
  <1>6. ASSUME NEW h \in Holds
        PROVE  \/ /\ h \in Used(b) /\ holds'[h].status = "fulfilled" /\ holds'[h].order = b
                  /\ holds'[h].seats = plan[b][h]
                  /\ holds'[h].buyer = holds[h].buyer /\ holds'[h].tier = holds[h].tier
               \/ /\ h \in FreeHolds /\ h \notin Used(b)
                  /\ \E g \in Split(b) :
                       /\ rest[g] = h /\ holds'[h].status = "active"
                       /\ holds'[h].order = holds[g].order /\ holds'[h].tier = holds[g].tier
                       /\ holds'[h].buyer = holds[g].buyer
                       /\ holds'[h].seats = holds[g].seats - plan[b][g]
               \/ /\ h \notin Used(b) /\ holds'[h] = holds[h]
                  /\ \A g \in Split(b) : rest[g] # h
    <2>1. CASE h \in Used(b)
      BY <1>1, <2>1
    <2>2. CASE \E g \in Split(b) : rest[g] = h
      BY <1>2, <2>2
    <2>3. CASE h \notin Used(b) /\ \A g \in Split(b) : rest[g] # h
      BY <1>3, <2>3
    <2>4. QED
      BY <2>1, <2>2, <2>3
  <1>7. HoldsMove
    <2> SUFFICES ASSUME NEW h \in Holds, holds[h].status # "none"
                 PROVE  /\ holds'[h].status # "none"
                        /\ holds'[h].buyer = holds[h].buyer /\ holds'[h].tier = holds[h].tier
                        /\ holds'[h].status = "active"
                             => holds[h].status = "active" /\ holds'[h].seats = holds[h].seats
      BY DEF HoldsMove
    <2>1. h \notin FreeHolds
      BY DEF FreeHolds
    <2>2. CASE h \in Used(b)
      BY <1>1, <2>2
    <2>3. CASE h \notin Used(b) /\ holds'[h] = holds[h]
      BY <2>3
    <2>4. QED
      BY <1>6, <2>1, <2>2, <2>3
  <1>8. QED
    BY <1>5, <1>6, <1>7

\* What an order uses of its buyer's holds is no longer held.
LEMMA BookedHeld ==
  ASSUME TypeOK, NEW b \in Bookings, Used(b) \subseteq ActiveHolds,
         \A h \in Used(b) : plan[b][h] <= holds[h].seats,
         NEW rest \in [Split(b) -> FreeHolds], IsInjective(rest), lapsed' = lapsed,
         holds' = [h \in Holds |-> HoldAfter(b, h, rest)], NEW t \in Tiers
  PROVE  SeatsAmong(holds', {h \in ActiveHolds' : holds'[h].tier = t})
           + Total(plan[b], UsedOf(b, t)) <= Held(t)
  <1> DEFINE H == {h \in ActiveHolds : holds[h].tier = t}
             K == {h \in ActiveHolds' : holds'[h].tier = t}
             U == UsedOf(b, t)
             G == {g \in U : g \in Split(b)}
             R == {rest[g] : g \in G}
             s == [h \in Holds |-> holds[h].seats]
             after == [h \in Holds |-> holds'[h].seats]
             left == [h \in Holds |-> s[h] - plan[b][h]]
  <1>0. /\ holds' \in [Holds -> Hold]
        /\ \A h \in Holds :
              \/ /\ h \in Used(b) /\ holds'[h].status = "fulfilled" /\ holds'[h].order = b
                 /\ holds'[h].seats = plan[b][h]
                 /\ holds'[h].buyer = holds[h].buyer /\ holds'[h].tier = holds[h].tier
              \/ /\ h \in FreeHolds /\ h \notin Used(b)
                 /\ \E g \in Split(b) :
                      /\ rest[g] = h /\ holds'[h].status = "active"
                      /\ holds'[h].order = holds[g].order /\ holds'[h].tier = holds[g].tier
                      /\ holds'[h].buyer = holds[g].buyer
                      /\ holds'[h].seats = holds[g].seats - plan[b][g]
              \/ /\ h \notin Used(b) /\ holds'[h] = holds[h]
                 /\ \A g \in Split(b) : rest[g] # h
    BY BookedTypes
  <1>1. /\ Used(b) \subseteq Holds /\ Split(b) \subseteq Used(b) /\ FreeHolds \subseteq Holds
        /\ ActiveHolds \subseteq Holds /\ ActiveHolds' \subseteq Holds
        /\ ActiveHolds \cap FreeHolds = {}
    BY DEF Used, Split, FreeHolds, ActiveHolds
  <1>2. \A g \in Split(b) : rest[g] \in FreeHolds
    OBVIOUS
  <1>3. /\ H \in SUBSET Holds /\ K \in SUBSET Holds /\ U \in SUBSET H /\ G \in SUBSET U
        /\ R \in SUBSET FreeHolds /\ R \in SUBSET Holds
    BY <1>1, <1>2 DEF UsedOf
  <1>4. /\ IsFiniteSet(H) /\ IsFiniteSet(K) /\ IsFiniteSet(U) /\ IsFiniteSet(G) /\ IsFiniteSet(R)
        /\ IsFiniteSet(H \ U) /\ IsFiniteSet((H \ U) \cup R)
    <2>1. H \ U \in SUBSET Holds /\ (H \ U) \cup R \in SUBSET Holds /\ G \in SUBSET Holds
          /\ U \in SUBSET Holds
      BY <1>3
    <2>2. QED
      BY <1>3, <2>1, HoldsFinite
  <1>5. /\ (H \ U) \cap R = {} /\ (H \ U) \cap U = {} /\ (H \ U) \cup U = H
    BY <1>1, <1>3
  <1>6. \A h \in Holds : /\ s[h] \in Nat /\ s[h] = holds[h].seats /\ plan[b][h] \in Nat
                         /\ after[h] \in Nat /\ after[h] = holds'[h].seats
    BY <1>0 DEF TypeOK, Hold
  <1>7. \A h \in U : left[h] \in Nat /\ s[h] = plan[b][h] + left[h]
    <2>1. ASSUME NEW h \in U
          PROVE  left[h] \in Nat /\ s[h] = plan[b][h] + left[h]
      <3>1. h \in Holds /\ plan[b][h] <= s[h] /\ left[h] = s[h] - plan[b][h]
        BY <1>1, <1>3, <1>6 DEF UsedOf
      <3>2. QED
        BY <1>6, <3>1
    <2>2. QED
      BY <2>1
  <1>8. K \in SUBSET ((H \ U) \cup R)
    <2>1. ASSUME NEW h \in K
          PROVE  h \in (H \ U) \cup R
      <3>1. h \in Holds /\ holds'[h].status = "active" /\ h \notin lapsed /\ holds'[h].tier = t
        BY DEF ActiveHolds
      <3>2. CASE h \in Used(b) /\ holds'[h].status = "fulfilled"
        BY <3>1, <3>2
      <3>3. CASE \E g \in Split(b) : rest[g] = h /\ holds'[h].tier = holds[g].tier
        <4>1. PICK g \in Split(b) : rest[g] = h /\ holds[g].tier = t
          BY <3>1, <3>3
        <4>2. g \in G
          BY <1>1, <4>1 DEF UsedOf
        <4>3. QED
          BY <4>1, <4>2
      <3>4. CASE h \notin Used(b) /\ holds'[h] = holds[h]
        <4>1. h \in H /\ h \notin U
          BY <3>1, <3>4 DEF ActiveHolds, UsedOf
        <4>2. QED
          BY <4>1
      <3>5. QED
        BY <1>0, <3>1, <3>2, <3>3, <3>4
    <2>2. QED
      BY <2>1
  <1>9. \A h \in H \ U : after[h] = s[h] /\ after[h] \in Nat
    <2>1. ASSUME NEW h \in H \ U
          PROVE  holds'[h] = holds[h]
      <3>1. h \in Holds /\ h \notin FreeHolds /\ h \notin Used(b)
        BY <1>1, <1>3 DEF UsedOf
      <3>2. QED
        BY <1>0, <3>1
    <2>2. QED
      BY <1>3, <1>6, <2>1
  <1>10. \A g \in G : after[rest[g]] \in Nat /\ left[g] = after[rest[g]]
    <2>1. ASSUME NEW g \in G
          PROVE  after[rest[g]] = left[g] /\ rest[g] \in Holds
      <3>1. g \in Split(b) /\ rest[g] \in FreeHolds /\ g \in Holds /\ rest[g] \in Holds
        BY <1>1, <1>2
      <3>2. PICK k \in Split(b) : rest[k] = rest[g]
                                  /\ holds'[rest[g]].seats = holds[k].seats - plan[b][k]
        BY <1>0, <1>1, <3>1
      <3>3. k = g
        BY <3>1, <3>2 DEF IsInjective
      <3>4. QED
        BY <1>6, <3>1, <3>2, <3>3
    <2>2. QED
      BY <1>6, <2>1
  <1>11. \A g, k \in G : rest[g] = rest[k] => g = k
    BY DEF IsInjective
  <1>12. Held(t) = Total(s, H) /\ SeatsAmong(holds', K) = Total(after, K)
    BY DEF Held, SeatsIn, SeatsAmong
  <1> HIDE DEF H, K, U, G, s, after, left
  <1>13. Total(after, K) <= Total(after, (H \ U) \cup R)
    <2>1. \A h \in (H \ U) \cup R : after[h] \in Nat
      BY <1>3, <1>6
    <2>2. \A h \in K : after[h] \in Nat /\ after[h] <= after[h]
      BY <1>3, <1>6
    <2> HIDE DEF R
    <2>3. QED
      BY <1>4, <1>8, <2>1, <2>2, TotalBelow
  <1>14. Total(after, (H \ U) \cup R) = Total(after, H \ U) + Total(after, R)
    <2>1. \A h \in (H \ U) \cup R : after[h] \in Nat
      BY <1>3, <1>6
    <2> HIDE DEF R
    <2>2. QED
      BY <1>4, <1>5, <2>1, TotalUnion
  <1>15. Total(after, H \ U) = Total(s, H \ U)
    BY <1>4, <1>9, TotalSame
  <1>16. Total(after, R) = Total(left, G)
    BY <1>4, <1>10, <1>11, TotalRenamed
  <1>17. Total(left, G) <= Total(left, U)
    <2>1. (\A h \in U : left[h] \in Nat) /\ \A h \in G : left[h] \in Nat /\ left[h] <= left[h]
      BY <1>3, <1>7
    <2>2. QED
      BY <1>3, <1>4, <2>1, TotalBelow
  <1>18. Total(s, U) = Total(plan[b], U) + Total(left, U)
    <2>1. \A h \in U : plan[b][h] \in Nat /\ left[h] \in Nat /\ s[h] = plan[b][h] + left[h]
      BY <1>3, <1>6, <1>7
    <2>2. QED
      BY <1>4, <2>1, TotalAdds
  <1>19. Total(s, H) = Total(s, H \ U) + Total(s, U)
    <2>1. \A h \in (H \ U) \cup U : s[h] \in Nat
      BY <1>3, <1>5, <1>6
    <2>2. Total(s, (H \ U) \cup U) = Total(s, H \ U) + Total(s, U)
      BY <1>4, <1>5, <2>1, TotalUnion
    <2>3. Total(s, (H \ U) \cup U) = Total(s, H)
      BY <1>5, Zenon
    <2>4. QED
      BY <2>2, <2>3
  <1>20. /\ Total(after, K) \in Nat /\ Total(after, H \ U) \in Nat /\ Total(after, R) \in Nat
         /\ Total(plan[b], U) \in Nat /\ Total(left, U) \in Nat /\ Total(left, G) \in Nat
         /\ Total(s, H \ U) \in Nat
    <2>1. \A h \in K : after[h] \in Nat
      BY <1>3, <1>6
    <2>2. Total(after, K) \in Nat
      BY <1>4, <2>1, TotalType
    <2>3. Total(after, H \ U) \in Nat
      BY <1>4, <1>9, TotalType
    <2>4. \A h \in G : left[h] \in Nat
      BY <1>3, <1>7
    <2>5. Total(left, U) \in Nat /\ Total(left, G) \in Nat
      BY <1>4, <1>7, <2>4, TotalType
    <2>6. \A h \in U : plan[b][h] \in Nat
      BY <1>3, <1>6
    <2>7. Total(plan[b], U) \in Nat
      BY <1>4, <2>6, TotalType
    <2>8. QED
      BY <1>15, <1>16, <2>2, <2>3, <2>5, <2>7
  <1>21. Total(after, K) + Total(plan[b], U) <= Total(s, H)
    BY <1>13, <1>14, <1>15, <1>16, <1>17, <1>18, <1>19, <1>20
  <1>22. QED
    BY <1>12, <1>21 DEF K, U

LEMMA BookKeeps ==
  ASSUME IInv, SeatsInv, NEW b \in Bookings, Book(b)
  PROVE  SeatsInv'
  <1>0. /\ TypeOK /\ HoldsMakeSense /\ RoomIsKept(b) /\ pc[b] = "book" /\ orders[b].status = "none"
        /\ UNCHANGED lapsed
    BY DEF SeatsInv, Book, IInv, NewUntilBooked
  <1>1. CASE GiveUp(b) /\ UNCHANGED <<orders, holds>>
    <2>1. OrdersCalm /\ orders' \in [Bookings -> Order]
      BY <1>0, <1>1 DEF OrdersCalm, TypeOK
    <2>2. QED
      BY <1>0, <1>1, <2>1, GiveUpSeats
  <1>2. ASSUME Used(b) \subseteq ActiveHolds,
               NEW rest \in [Split(b) -> FreeHolds], IsInjective(rest),
               holds' = [h \in Holds |-> HoldAfter(b, h, rest)],
               orders' = [o \in Bookings |->
                 CASE o = b -> [status |-> "pending", buyer |-> ask[b].buyer,
                                seats |-> ask[b].seats]
                   [] o \in supersede[b] -> [orders[o] EXCEPT !.status = "cancelled"]
                   [] OTHER -> orders[o]],
               Outdate(b), Return(b), spared' = spared,
               beyond' = beyond \cup (IF b \in stale THEN {"race"} ELSE {})
                                \cup (IF b \in DoorSales THEN {"door"} ELSE {})
        PROVE  SeatsInv'
    <2>1. /\ holds' \in [Holds -> Hold] /\ HoldsMove
          /\ \A h \in Holds :
              \/ /\ h \in Used(b) /\ holds'[h].status = "fulfilled" /\ holds'[h].order = b
                 /\ holds'[h].seats = plan[b][h]
                 /\ holds'[h].buyer = holds[h].buyer /\ holds'[h].tier = holds[h].tier
              \/ /\ h \in FreeHolds /\ h \notin Used(b)
                 /\ \E g \in Split(b) :
                      /\ rest[g] = h /\ holds'[h].status = "active"
                      /\ holds'[h].order = holds[g].order /\ holds'[h].tier = holds[g].tier
                      /\ holds'[h].buyer = holds[g].buyer
                      /\ holds'[h].seats = holds[g].seats - plan[b][g]
              \/ /\ h \notin Used(b) /\ holds'[h] = holds[h]
                 /\ \A g \in Split(b) : rest[g] # h
      BY <1>0, <1>2, BookedTypes
    <2>2. b \notin supersede[b]
      <3>1. InCheckout(b)
        BY <1>0 DEF InCheckout
      <3>2. b \in supersede[b] => CartOf(b, b)
        BY <1>0, <3>1 DEF IInv, CheckoutSupersedesAll, Superseded
      <3>3. QED
        BY <1>0, <3>2 DEF CartOf
    <2>3. /\ orders' \in [Bookings -> Order]
          /\ orders'[b].status = "pending" /\ orders'[b].buyer = ask[b].buyer
          /\ orders'[b].seats = ask[b].seats
          /\ \A c \in Bookings \ {b} :
               /\ orders'[c].buyer = orders[c].buyer /\ orders'[c].seats = orders[c].seats
               /\ orders[c].status = "none" <=> orders'[c].status = "none"
               /\ Counted(orders'[c]) => c \notin supersede[b] /\ Counted(orders[c])
      <3>1. /\ orders'[b] \in Order
            /\ orders'[b].status = "pending" /\ orders'[b].buyer = ask[b].buyer
            /\ orders'[b].seats = ask[b].seats
        <4>1. orders'[b] = [status |-> "pending", buyer |-> ask[b].buyer, seats |-> ask[b].seats]
          BY <1>2, <2>2
        <4>2. ask[b].buyer \in Buyers \cup {Nil} /\ ask[b].seats \in Seats
          BY <1>0 DEF TypeOK
        <4>3. QED
          BY <4>1, <4>2 DEF Order, OrderStatus
      <3>2. ASSUME NEW c \in Bookings \ {b}
            PROVE  /\ orders'[c] \in Order
                   /\ orders'[c].buyer = orders[c].buyer /\ orders'[c].seats = orders[c].seats
                   /\ orders[c].status = "none" <=> orders'[c].status = "none"
                   /\ Counted(orders'[c]) => c \notin supersede[b] /\ Counted(orders[c])
        <4>1. orders[c] \in Order
          BY <1>0 DEF TypeOK
        <4>2. CASE c \in supersede[b]
          <5>1. orders'[c] = [orders[c] EXCEPT !.status = "cancelled"]
            BY <1>2, <4>2
          <5>2. orders[c].status # "none"
            <6>1. InCheckout(b)
              BY <1>0 DEF InCheckout
            <6>2. CartOf(b, c)
              BY <1>0, <4>2, <6>1 DEF IInv, CheckoutSupersedesAll, Superseded
            <6>3. QED
              BY <6>2 DEF CartOf
          <5>3. QED
            BY <4>1, <5>1, <5>2 DEF Order, OrderStatus, Counted
        <4>3. CASE c \notin supersede[b]
          <5>1. orders'[c] = orders[c]
            BY <1>2, <4>3
          <5>2. QED
            BY <4>1, <4>3, <5>1
        <4>4. QED
          BY <4>2, <4>3
      <3>3. orders' \in [Bookings -> Order]
        <4>1. \A c \in Bookings : orders'[c] \in Order
          BY <3>1, <3>2
        <4>2. QED
          BY <1>2, <4>1
      <3>4. QED
        BY <3>1, <3>2, <3>3
    <2>4. beyond \subseteq beyond' /\ beyond' \subseteq beyond \cup {"race", "door"}
      BY <1>2
    <2>5. TypeOK'
      <3>1. stale' \subseteq Bookings
        BY <1>0, <1>2 DEF Outdate, TypeOK
      <3>2. QED
        BY <1>0, <1>2, <2>1, <2>3, <2>4, <3>1, ReturnType DEF TypeOK, Reasons
    <2>6. \A c \in Bookings : RoomIsKept(c)'
      <3>1. ASSUME NEW c \in Bookings \ {b}
            PROVE  Still(c)
        BY <1>0, <1>2, <2>3 DEF Return, Still, TypeOK
      <3>2. \A c \in Bookings \ {b} : RoomIsKept(c)'
        BY <1>2, <2>1, <2>4, <2>5, <3>1, Outdated
      <3>3. \A c \in {b} : RoomIsKept(c)'
        <4>1. pc'[b] = "done"
          BY <1>0, <1>2, ReturnType
        <4>2. \A c \in {b} : pc'[c] = "done" /\ c \in Bookings
          BY <4>1
        <4>3. QED
          BY <4>2, NothingToKeep
      <3>4. QED
        BY <3>2, <3>3
    <2>7. \A h \in Used(b) :
            /\ h \in Holds /\ holds[h].status = "active" /\ holds[h].tier \in Tiers
            /\ holds[h].order = Nil /\ holds[h].buyer = ask[b].buyer
            /\ plan[b][h] <= holds[h].seats
      BY <1>0, <1>2 DEF ActiveHolds, HoldsMakeSense, RoomIsKept, PlanFits
    <2>8. \A g \in Split(b) : g \in Used(b)
      BY DEF Split
    <2>9. HoldsMakeSense'
      <3> SUFFICES ASSUME NEW h \in Holds
                   PROVE  /\ holds'[h].status = "active"
                               => holds'[h].tier \in Tiers /\ holds'[h].order = Nil
                          /\ holds'[h].status = "none" => holds'[h].order = Nil
                          /\ holds'[h].order # Nil => /\ holds'[h].status = "fulfilled"
                                                      /\ orders'[holds'[h].order].status # "none"
        BY DEF HoldsMakeSense
      <3>1. CASE h \in Used(b) /\ holds'[h].status = "fulfilled" /\ holds'[h].order = b
        BY <2>3, <3>1
      <3>2. CASE \E g \in Split(b) : /\ holds'[h].status = "active"
                                     /\ holds'[h].order = holds[g].order
                                     /\ holds'[h].tier = holds[g].tier
        BY <2>7, <2>8, <3>2
      <3>3. CASE holds'[h] = holds[h]
        <4>1. holds[h].order \in Bookings \cup {Nil}
          BY <1>0 DEF TypeOK, Hold
        <4>2. QED
          BY <1>0, <2>3, <3>3, <4>1 DEF HoldsMakeSense
      <3>4. QED
        BY <2>1, <3>1, <3>2, <3>3
    <2>10. HoldsBackTheirOrder'
      <3> DEFINE U(hs, c, t) == {h \in Holds : hs[h].order = c /\ hs[h].tier = t}
      <3>1. ASSUME NEW c \in Bookings, NEW t \in Tiers
            PROVE  /\ \A h \in U(holds', c, t) :
                        holds'[h].status = "fulfilled" /\ holds'[h].buyer = orders'[c].buyer
                   /\ SeatsAmong(holds', U(holds', c, t)) <= orders'[c].seats[t]
        <4>0. c # Nil
          BY NilAssumption
        <4>1. CASE c = b
          <5>1. ASSUME NEW h \in Holds, holds'[h].order = b
                PROVE  h \in Used(b) /\ holds'[h].status = "fulfilled" /\ holds'[h].seats = plan[b][h]
                       /\ holds'[h].buyer = holds[h].buyer /\ holds'[h].tier = holds[h].tier
            <6>1. ~(holds'[h] = holds[h])
              BY <1>0, <4>0, <4>1, <5>1 DEF HoldsMakeSense
            <6>2. ~(\E g \in Split(b) : holds'[h].order = holds[g].order)
              BY <2>7, <2>8, <4>0, <4>1, <5>1
            <6>3. QED
              BY <2>1, <6>1, <6>2
          <5>2. U(holds', b, t) = UsedOf(b, t)
            <6>1. U(holds', b, t) \subseteq UsedOf(b, t)
              BY <5>1 DEF UsedOf
            <6>2. UsedOf(b, t) \subseteq U(holds', b, t)
              BY <2>1, <2>7 DEF UsedOf
            <6>3. QED
              BY <6>1, <6>2
          <5>3. \A h \in U(holds', b, t) :
                  holds'[h].status = "fulfilled" /\ holds'[h].buyer = orders'[b].buyer
            BY <2>3, <2>7, <5>1
          <5>4. SeatsAmong(holds', UsedOf(b, t)) = Total(plan[b], UsedOf(b, t))
            <6> DEFINE f == [h \in Holds |-> holds'[h].seats]
            <6>1. IsFiniteSet(UsedOf(b, t)) /\ UsedOf(b, t) \in SUBSET Holds
              BY HoldsFinite DEF UsedOf, Used
            <6>2. \A h \in UsedOf(b, t) : f[h] \in Nat /\ f[h] = plan[b][h]
              <7>1. \A h \in Holds : plan[b][h] \in Nat
                BY <1>0 DEF TypeOK
              <7>2. \A h \in UsedOf(b, t) : h \in Holds /\ holds'[h].order = b
                BY <5>2, <6>1
              <7>3. QED
                BY <5>1, <7>1, <7>2
            <6>3. SeatsAmong(holds', UsedOf(b, t)) = Total(f, UsedOf(b, t))
              BY DEF SeatsAmong
            <6> HIDE DEF f
            <6>4. QED
              BY <6>1, <6>2, <6>3, TotalSame
          <5>5. Total(plan[b], UsedOf(b, t)) <= ask[b].seats[t]
            BY <1>0 DEF RoomIsKept, PlanFits
          <5>6. SeatsAmong(holds', U(holds', b, t)) = SeatsAmong(holds', UsedOf(b, t))
            BY <5>2, Zenon
          <5>7. QED
            BY <2>3, <4>1, <5>3, <5>4, <5>5, <5>6
        <4>2. CASE c # b
          <5>1. ASSUME NEW h \in Holds, holds'[h].order = c
                PROVE  holds'[h] = holds[h]
            <6>1. ~(holds'[h].order = b)
              BY <4>2, <5>1
            <6>2. ~(\E g \in Split(b) : holds'[h].order = holds[g].order)
              BY <2>7, <2>8, <4>0, <5>1
            <6>3. QED
              BY <2>1, <6>1, <6>2
          <5>2. /\ U(holds', c, t) \in SUBSET U(holds, c, t) /\ U(holds, c, t) \in SUBSET Holds
                /\ \A h \in U(holds', c, t) : holds'[h] = holds[h]
            BY <5>1
          <5>3. /\ \A h \in U(holds, c, t) :
                     holds[h].status = "fulfilled" /\ holds[h].buyer = orders[c].buyer
                /\ SeatsAmong(holds, U(holds, c, t)) <= orders[c].seats[t]
            BY DEF SeatsInv, HoldsBackTheirOrder, SeatsIn, SeatsAmong
          <5> HIDE DEF U
          <5>4. /\ SeatsAmong(holds', U(holds', c, t)) <= SeatsAmong(holds, U(holds, c, t))
                /\ SeatsAmong(holds', U(holds', c, t)) \in Nat
                /\ SeatsAmong(holds, U(holds, c, t)) \in Nat
            BY <1>0, <2>1, <5>2, SeatsFall DEF TypeOK
          <5>5. /\ orders[c].seats[t] \in Nat /\ orders'[c].seats = orders[c].seats
                /\ orders'[c].buyer = orders[c].buyer
            BY <1>0, <2>3, <4>2 DEF TypeOK, Order, Seats
          <5>6. QED
            BY <5>2, <5>3, <5>4, <5>5
        <4>3. QED
          BY <4>1, <4>2
      <3>2. QED
        BY <3>1 DEF HoldsBackTheirOrder, SeatsIn, SeatsAmong
    <2>11. \A c \in Bookings \ {b} : Counted(orders'[c]) =>
             c \notin supersede[b] /\ Counted(orders[c]) /\ orders'[c].seats = orders[c].seats
      BY <2>3
    <2>12. TierCapacityKept'
      <3>1. ASSUME NEW t \in Tiers
            PROVE  /\ SoldIn(orders', t, {}) \in Nat
                   /\ SeatsAmong(holds', {h \in ActiveHolds' : holds'[h].tier = t}) \in Nat
        <4>1. {h \in ActiveHolds' : holds'[h].tier = t} \in SUBSET Holds
          BY DEF ActiveHolds
        <4>2. QED
          BY <2>1, <2>3, <4>1, SoldType, SeatsFall
      <3>2. ASSUME NEW t \in Tiers, Quantity[t] # 0, beyond' \cap Uncounted = {}
            PROVE  SoldIn(orders', t, {})
                     + SeatsAmong(holds', {h \in ActiveHolds' : holds'[h].tier = t}) <= Quantity[t]
        <4> DEFINE after == SoldIn(orders', t, {})
                   held == SeatsAmong(holds', {h \in ActiveHolds' : holds'[h].tier = t})
                   sold == SoldIn(orders, t, supersede[b])
                   used == Total(plan[b], UsedOf(b, t))
                   mine == SeatsIn(HoldsOf(ask[b].buyer, t))
                   others == SeatsIn(HoldsOfOthers(b, t))
                   wanted == ask[b].seats[t]
        <4>1. b \notin stale /\ b \notin DoorSales /\ beyond \cap Uncounted = {}
          BY <1>2, <2>4, <3>2 DEF Uncounted
        <4>2. after <= sold + wanted
          BY <1>0, <2>3, <2>11, SoldRises DEF TypeOK
        <4>3. held + used <= Held(t)
          BY <1>0, <1>2, <2>7, BookedHeld
        <4>4. wanted <= used \/ mine <= used
          BY <1>0, <1>2, <4>1 DEF RoomIsKept, PlanCovers
        <4>5. sold + others + wanted <= Quantity[t]
          BY <1>0, <3>2, <4>1, Queries DEF RoomIsKept, RoomInTier, HasChecked
        <4>6. sold + Held(t) <= Quantity[t]
          <5>1. SoldIn(orders, t, supersede[b]) <= SoldIn(orders, t, {})
            BY <1>0, SoldFalls DEF TypeOK
          <5>2. SoldIn(orders, t, {}) \in Nat /\ SoldIn(orders, t, supersede[b]) \in Nat
                /\ Held(t) \in Nat /\ Quantity[t] \in Nat
            BY <1>0, SoldType, HeldSplits, LimitsAssumption DEF TypeOK
          <5>3. ~(SoldIn(orders, t, {}) + Held(t) > Quantity[t])
            BY <3>2, <4>1, Queries DEF SeatsInv, TierCapacityKept, Uncounted
          <5>4. QED
            BY <5>1, <5>2, <5>3
        <4>7. /\ sold \in Nat /\ used \in Nat /\ mine \in Nat /\ others \in Nat /\ wanted \in Nat
              /\ Held(t) = mine + others /\ Quantity[t] \in Nat
          BY <1>0, SoldType, CountsType, HeldSplits, LimitsAssumption DEF CountsAreNumbers, TypeOK
        <4>8. after \in Nat /\ held \in Nat
          BY <3>1
        <4> HIDE DEF after, held, sold, used, mine, others, wanted
        <4>9. after + held <= Quantity[t]
          BY <4>2, <4>3, <4>4, <4>5, <4>6, <4>7, <4>8
        <4>10. QED
          BY <4>9 DEF after, held
      <3>3. \A t \in Tiers : Quantity[t] # 0 /\ SoldIn(orders', t, {})
                     + SeatsAmong(holds', {h \in ActiveHolds' : holds'[h].tier = t}) > Quantity[t]
              => beyond' \cap Uncounted # {}
        BY <3>1, <3>2, LimitsAssumption
      <3>4. QED
        BY <3>3 DEF TierCapacityKept, Sold, SeatsOf, SoldIn, Held, SeatsIn, SeatsAmong, Uncounted
    <2>13. EventCapacityKept'
      <3>1. ASSUME MaxAttendees # Nil, beyond' \cap Unlimited = {}
            PROVE  AttendeesIn(orders', {}) <= MaxAttendees
        <4>1. b \notin stale /\ b \notin DoorSales /\ beyond \cap Unlimited = {}
          BY <1>2, <2>4, <3>1 DEF Unlimited
        <4>2. QED
          BY <1>0, <2>3, <2>11, <3>1, <4>1, TakenFitsEvent
      <3>2. AttendeesIn(orders', {}) \in Nat /\ MaxAttendees \in Nat \cup {Nil}
        BY <2>3, SoldType, LimitsAssumption
      <3>3. MaxAttendees # Nil /\ AttendeesIn(orders', {}) > MaxAttendees
              => beyond' \cap Unlimited # {}
        BY <3>1, <3>2
      <3>4. QED
        BY <3>3 DEF EventCapacityKept, Attendees, AttendeesIn, Sold, SeatsOf, SoldIn, Unlimited
    <2>14. QED
      BY <2>5, <2>6, <2>9, <2>10, <2>12, <2>13 DEF SeatsInv
  <1>3. CASE /\ Used(b) \subseteq ActiveHolds
             /\ \E rest \in [Split(b) -> FreeHolds] :
                  /\ IsInjective(rest) /\ NextFree({rest[g] : g \in Split(b)})
                  /\ holds' = [h \in Holds |-> HoldAfter(b, h, rest)]
             /\ orders' = [o \in Bookings |->
                  CASE o = b -> [status |-> "pending", buyer |-> ask[b].buyer,
                                 seats |-> ask[b].seats]
                    [] o \in supersede[b] -> [orders[o] EXCEPT !.status = "cancelled"]
                    [] OTHER -> orders[o]]
             /\ Outdate(b)
             /\ beyond' = beyond \cup (IF b \in stale THEN {"race"} ELSE {})
                                 \cup (IF b \in DoorSales THEN {"door"} ELSE {})
             /\ Return(b) /\ UNCHANGED spared
    BY <1>2, <1>3
  <1>4. QED
    BY <1>1, <1>3 DEF Book

-----------------------------------------------------------------------------
(* The theorems. *)

LEMMA InitSeats == ASSUME Init PROVE SeatsInv
  <1>1. TypeOK
    <2>1. NoOrder \in Order /\ NoHold \in Hold
      BY DEF NoOrder, Order, OrderStatus, Seats, NoSeats, NoHold, Hold, HoldStatus
    <2>2. NoRequest \in [buyer : Buyers \cup {Nil}, seats : Seats]
      BY DEF NoRequest, Seats, NoSeats
    <2>3. NoCounts \in [sold : Seats, held : Seats, mine : Seats] /\ NoPlan \in [Holds -> Nat]
      BY DEF NoCounts, Seats, NoSeats, NoPlan
    <2>4. QED
      BY <2>1, <2>2, <2>3 DEF Init, TypeOK, Labels
  <1>2. /\ \A b \in Bookings : orders[b].status = "none" /\ pc[b] = "idle"
        /\ \A h \in Holds : holds[h].status = "none" /\ holds[h].order = Nil
        /\ \A b \in Bookings, t \in Tiers : orders[b].seats[t] = 0
    BY DEF Init, NoOrder, NoHold, NoSeats
  <1>3. HoldsMakeSense
    BY <1>2 DEF HoldsMakeSense
  <1>4. \A b \in Bookings : RoomIsKept(b)
    BY <1>2 DEF RoomIsKept, LateAsksForItsOrder, SoldWasCounted, MineWasCounted, RoomInTier,
                RoomInEvent, PlanFits, PlanCovers, HasChecked
  <1>5. HoldsBackTheirOrder
    <2>1. ASSUME NEW b \in Bookings, NEW t \in Tiers
          PROVE  /\ {h \in Holds : holds[h].order = b /\ holds[h].tier = t} = {}
                 /\ SeatsIn({}) <= orders[b].seats[t]
      <3>1. {h \in Holds : holds[h].order = b /\ holds[h].tier = t} = {}
        BY <1>2, NilAssumption
      <3>2. SeatsIn({}) = 0
        BY TotalEmpty DEF SeatsIn
      <3>3. QED
        BY <1>2, <3>1, <3>2
    <2>2. QED
      BY <2>1 DEF HoldsBackTheirOrder
  <1>6. \A t \in Tiers : Sold(t, {}) = 0
    <2>1. ASSUME NEW t \in Tiers
          PROVE  Sold(t, {}) = 0
      <3>1. {b \in Bookings \ {} : orders[b].status \in {"pending", "completed"}} = {}
        BY <1>2
      <3>2. Sold(t, {}) = Total(SeatsOf(t), {})
        BY <3>1, Zenon DEF Sold
      <3>3. QED
        BY <3>2, TotalEmpty
    <2>2. QED
      BY <2>1
  <1>7. TierCapacityKept
    <2>1. ASSUME NEW t \in Tiers
          PROVE  Held(t) = 0
      <3>1. {h \in ActiveHolds : holds[h].tier = t} = {}
        BY <1>2 DEF ActiveHolds
      <3>2. Held(t) = SeatsIn({})
        BY <3>1, Zenon DEF Held
      <3>3. QED
        BY <3>2, TotalEmpty DEF SeatsIn
    <2>2. QED
      BY <1>6, <2>1, LimitsAssumption DEF TierCapacityKept
  <1>8. EventCapacityKept
    <2> DEFINE g == [t \in Tiers |-> Sold(t, {})]
    <2>1. {} \in SUBSET Tiers /\ \A t \in Tiers : g[t] = IF t \in {} THEN g[t] ELSE 0
      BY <1>6
    <2>2. Attendees({}) = Total(g, Tiers)
      BY DEF Attendees
    <2> HIDE DEF g
    <2>3. Total(g, {}) = Total(g, Tiers)
      BY <2>1, FiniteAssumption, TotalMasked
    <2>4. Attendees({}) = 0
      BY <2>2, <2>3, TotalEmpty
    <2>5. QED
      BY <2>4, LimitsAssumption DEF EventCapacityKept
  <1>9. QED
    BY <1>1, <1>3, <1>4, <1>5, <1>7, <1>8 DEF SeatsInv

LEMMA NextSeats ==
  ASSUME IInv, SeatsInv, [Next]_vars
  PROVE  SeatsInv'
  <1>1. CASE UNCHANGED vars
    BY <1>1, StutterKeeps
  <1>2. ASSUME NEW b \in Bookings, Checkout(b)
        PROVE  SeatsInv'
    BY <1>2, RequestSeatsKeeps, LockCheckoutKeeps, PrepareKeeps, CountSoldKeeps, CountHeldKeeps,
       CheckEventKeeps, PlanHoldsKeeps, BookKeeps DEF Checkout
  <1>3. ASSUME NEW o \in Bookings, Afterwards(o)
        PROVE  SeatsInv'
    <2>1. CASE Pay(o)
      BY <2>1, SettleKeeps DEF Pay, OrderStatus
    <2>2. CASE Cancel(o)
      BY <2>2, SettleKeeps DEF Cancel, OrderStatus
    <2>3. CASE Expire(o)
      BY <2>3, SettleKeeps DEF Expire, OrderStatus
    <2>4. CASE PayLate(o) \/ CompleteLate(o)
      BY <2>4, PayLateKeeps, CompleteLateKeeps
    <2>5. QED
      BY <1>3, <2>1, <2>2, <2>3, <2>4 DEF Afterwards
  <1>4. ASSUME NEW h \in Holds, Reservation(h)
        PROVE  SeatsInv'
    BY <1>4, CreateHoldKeeps, LapseKeeps, HoldCancelled DEF Reservation
  <1>5. QED
    BY <1>1, <1>2, <1>3, <1>4 DEF Next

\* What every checkout has been given room for, it still has, together with what is said
\* of the rows themselves.
THEOREM SeatsInvariance == Spec => []SeatsInv
  <1>1. Init => SeatsInv
    BY InitSeats
  <1>2. IInv /\ SeatsInv /\ [Next]_vars => SeatsInv'
    BY NextSeats
  <1>3. QED
    BY <1>1, <1>2, Invariance, PTL DEF Spec

\* Orders, holds and everything a checkout has read or planned have their types.
THEOREM InventoryTypeCorrect == Spec => []TypeOK
  <1>1. SeatsInv => TypeOK
    BY DEF SeatsInv
  <1>2. QED
    BY <1>1, SeatsInvariance, PTL

\* The holds an order has used are its buyer's and cover no more seats than it has
\* (maybe_split_reservation_for_fulfillment).
THEOREM HoldsAlwaysBackTheirOrder == Spec => []HoldsBackTheirOrder
  <1>1. SeatsInv => HoldsBackTheirOrder
    BY DEF SeatsInv
  <1>2. QED
    BY <1>1, SeatsInvariance, PTL

\* Seats sold and held exceed a tier only after an outdated count, a door sale, a hold
\* made beyond it or a late payment that left its buyer's holds (validate_tier_capacity).
THEOREM TierNeverOversoldOtherwise == Spec => []TierCapacityKept
  <1>1. SeatsInv => TierCapacityKept
    BY DEF SeatsInv
  <1>2. QED
    BY <1>1, SeatsInvariance, PTL

\* Tickets exceed the event's limit only after an outdated count, a door sale or a member
\* with a hold who was let past it (validate_event_capacity).
THEOREM EventNeverOversoldOtherwise == Spec => []EventCapacityKept
  <1>1. SeatsInv => EventCapacityKept
    BY DEF SeatsInv
  <1>2. QED
    BY <1>1, SeatsInvariance, PTL
=============================================================================

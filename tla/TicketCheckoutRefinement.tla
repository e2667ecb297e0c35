---------------------- MODULE TicketCheckoutRefinement ----------------------
(***************************************************************************)
(* TicketCheckout implements SeatOrder: its initial states are initial      *)
(* there, and every step of every handler is a step there or changes        *)
(* nothing there.  Most steps change nothing; those that do are the         *)
(* release, the confirmation of the tickets, the booking of the charge, the *)
(* commit of a transaction that does both, and Stripe's captures.           *)
(***************************************************************************)
EXTENDS TicketCheckoutProofs

-----------------------------------------------------------------------------
(* Steps of the rows, seen from SeatOrder. *)

Quiet(d, e) == e.order.tickets = d.order.tickets /\ e.ledger = d.ledger

SellsRows(d, e) ==
    /\ d.order.tickets \in {"pending", "expired"} /\ e.order.tickets = "confirmed"
    /\ e.ledger = d.ledger

GivesUpRows(d, e) ==
    /\ d.order.tickets = "pending" /\ e.order.tickets \in {"cancelled", "expired"}
    /\ e.ledger = d.ledger

\* With st the intents at Stripe.
BooksRows(d, e, st) ==
    /\ d.order.tickets # "cancelled" /\ e.order.tickets = "confirmed"
    /\ \E i \in Intents :
         /\ st[i] = "succeeded" /\ d.ledger[i] = Nil /\ e.ledger[i] # Nil
         /\ \A j \in Intents \ {i} : e.ledger[j] = d.ledger[j]

RowStep(d, e, st) ==
    Quiet(d, e) \/ SellsRows(d, e) \/ GivesUpRows(d, e) \/ BooksRows(d, e, st)

SameCaptures == \A i \in Intents : stripe'[i] = "succeeded" <=> stripe[i] = "succeeded"

Step == RowStep(db, db', stripe) /\ SameCaptures

LEMMA ChargeValues ==
    ASSUME NEW i \in Intents
    PROVE  /\ Charge(i) = "booked" <=> db.ledger[i] # Nil
           /\ Charge(i) = "captured" <=> db.ledger[i] = Nil /\ stripe[i] = "succeeded"
           /\ Charge(i) = "open" <=> db.ledger[i] = Nil /\ stripe[i] # "succeeded"
BY DEF Charge

LEMMA ChargeValuesNext ==
    ASSUME NEW i \in Intents
    PROVE  /\ Charge(i)' = "booked" <=> db'.ledger[i] # Nil
           /\ Charge(i)' = "captured" <=> db'.ledger[i] = Nil /\ stripe'[i] = "succeeded"
           /\ Charge(i)' = "open" <=> db'.ledger[i] = Nil /\ stripe'[i] # "succeeded"
BY DEF Charge

LEMMA SameCharge ==
    ASSUME NEW i \in Intents, db'.ledger[i] = db.ledger[i],
           stripe'[i] = "succeeded" <=> stripe[i] = "succeeded"
    PROVE  Charge(i)' = Charge(i)
BY DEF Charge

LEMMA StepMaps ==
    ASSUME Step
    PROVE  [Sale!Next]_(Sale!vars)
<1> DEFINE charges == [i \in Intents |-> Charge(i)]
<1>1. CASE db'.ledger = db.ledger
  <2>1. charges' = charges
    BY <1>1, SameCharge DEF Step, SameCaptures
  <2>2. db'.order.tickets = db.order.tickets \/ SellsRows(db, db') \/ GivesUpRows(db, db')
          \/ BooksRows(db, db', stripe)
    BY DEF Step, RowStep, Quiet
  <2>3. ~BooksRows(db, db', stripe)
    BY <1>1 DEF BooksRows
  <2>4. QED
    BY <2>1, <2>2, <2>3
       DEF SellsRows, GivesUpRows, Sale!Next, Sale!Sell, Sale!GiveUp, Sale!vars
<1>2. CASE BooksRows(db, db', stripe)
  <2>1. PICK i \in Intents :
          /\ stripe[i] = "succeeded" /\ db.ledger[i] = Nil /\ db'.ledger[i] # Nil
          /\ \A j \in Intents \ {i} : db'.ledger[j] = db.ledger[j]
    BY <1>2 DEF BooksRows
  <2>2. charges[i] = "captured" /\ Charge(i)' = "booked"
    BY <2>1, ChargeValues, ChargeValuesNext
  <2>3. \A j \in Intents \ {i} : Charge(j)' = Charge(j)
    BY <2>1, SameCharge DEF Step, SameCaptures
  <2>4. charges' = [charges EXCEPT ![i] = "booked"]
    BY <2>2, <2>3
  <2>5. Sale!Book(i)
    BY <1>2, <2>2, <2>4 DEF BooksRows, Sale!Book
  <2>6. QED
    BY <2>5 DEF Sale!Next
<1>3. QED
  BY <1>1, <1>2 DEF Step, RowStep, Quiet, SellsRows, GivesUpRows

-----------------------------------------------------------------------------
(* The row operators. *)

LEMMA QuietTotal ==
    ASSUME NEW d \in Rows, NEW total
    PROVE  Quiet(d, [d EXCEPT !.order.total = total])
BY DEF Quiet, Rows, Struct

LEMMA CommitRows ==
    ASSUME NEW d \in Rows, NEW p, NEW l, Commit(p, d, l), NEW st, RowStep(db, d, st)
    PROVE  RowStep(db, db', st)
<1>1. Quiet(d, db')
  BY QuietTotal DEF Commit, Quiet
<1>2. QED
  BY <1>1 DEF RowStep, Quiet, SellsRows, GivesUpRows, BooksRows

LEMMA DbRows == ASSUME IInv PROVE db \in Rows
BY DEF IInv, Consistent

LEMMA CommitSame ==
    ASSUME IInv, NEW p, NEW l, Commit(p, db, l)
    PROVE  RowStep(db, db', stripe)
BY DbRows, CommitRows DEF RowStep, Quiet

LEMMA FailSame ==
    ASSUME IInv, NEW p, Fail(p)
    PROVE  RowStep(db, db', stripe)
BY CommitSame DEF Fail, Rollback, RowStep, Quiet

LEMMA ReleasedStep ==
    ASSUME NEW d \in Rows, NEW to \in {"cancelled", "expired"}
    PROVE  Released(d, to) \in Rows
           /\ (Quiet(d, Released(d, to)) \/ GivesUpRows(d, Released(d, to)))
BY DEF Released, Quiet, GivesUpRows, Rows, Struct, OrderStatus, TicketStatus

LEMMA CompletedQuiet ==
    ASSUME NEW d \in Rows, NEW from
    PROVE  Completed(d, from) \in Rows /\ Quiet(d, Completed(d, from))
BY DEF Completed, Quiet, Rows, Struct, OrderStatus, MaybeIntent

LEMMA ConfirmedStep ==
    ASSUME NEW d \in Rows
    PROVE  Confirmed(d) \in Rows
           /\ (Quiet(d, Confirmed(d)) \/ SellsRows(d, Confirmed(d)))
BY DEF Confirmed, Quiet, SellsRows, Rows, Struct, TicketStatus

LEMMA RecordedStep ==
    ASSUME NEW d \in Rows, NEW i \in Intents, stripe[i] = "succeeded", NEW total \in Totals,
           d.order.tickets = "confirmed"
    PROVE  Recorded(d, i, total) \in Rows
           /\ (Quiet(d, Recorded(d, i, total)) \/ BooksRows(d, Recorded(d, i, total), stripe))
<1>1. total # Nil
  BY TotalsInNat
<1>2. QED
  BY <1>1 DEF Recorded, Quiet, BooksRows, Rows, Struct

LEMMA AttachedQuiet ==
    ASSUME NEW d \in Rows, NEW i \in Intents
    PROVE  Attached(d, i) \in Rows /\ Quiet(d, Attached(d, i))
BY DEF Attached, Quiet, Rows, Struct, MaybeIntent

\* Confirming, booking and attaching at once sells the seats if they are not sold,
\* and books the charge if it is not booked.
LEMMA FinishedStep ==
    ASSUME NEW d \in Rows, d.order.tickets # "cancelled", NEW p \in Proc,
           arg[p] \in Intents, stripe[arg[p]] = "succeeded", seen[p].total \in Totals
    PROVE  Finished(d, p) \in Rows /\ RowStep(d, Finished(d, p), stripe)
<1> DEFINE c == Confirmed(d)
           r == Recorded(c, arg[p], seen[p].total)
<1>1. c \in Rows /\ c.order.tickets = "confirmed" /\ c.ledger = d.ledger
      /\ (Quiet(d, c) \/ SellsRows(d, c))
  BY ConfirmedStep DEF Confirmed, Rows, Struct, TicketStatus
<1> HIDE DEF c
<1>2. r \in Rows /\ (Quiet(c, r) \/ BooksRows(c, r, stripe))
  BY <1>1, RecordedStep
<1> HIDE DEF r
<1>3. Attached(r, arg[p]) \in Rows /\ Quiet(r, Attached(r, arg[p]))
  BY <1>2, AttachedQuiet
<1>4. RowStep(d, Attached(r, arg[p]), stripe)
  BY <1>1, <1>2, <1>3 DEF RowStep, Quiet, SellsRows, BooksRows
<1>5. QED
  BY <1>3, <1>4 DEF Finished, r, c

-----------------------------------------------------------------------------
(* The actions. *)

LEMMA SameStripe == ASSUME UNCHANGED stripe PROVE SameCaptures
BY DEF SameCaptures

LEMMA StillRows == ASSUME UNCHANGED db PROVE RowStep(db, db', stripe)
BY DEF RowStep, Quiet

LEMMA StartMaps ==
    ASSUME NEW p \in Proc, Start(p)
    PROVE  Step
<1>1. UNCHANGED <<db, stripe>>
  BY DEF Start, Deliver, ReturnFromStripe, RedirectFailed, CancelOrder, OpenCheckout,
         ConfirmFree, ExpireSpecific, ExpireBatch, rowVars, stripeVars
<1>2. QED
  BY <1>1, SameStripe, StillRows DEF Step

LEMMA LoadTicketsMaps ==
    ASSUME IInv, NEW p \in Proc, LoadTickets(p)
    PROVE  Step
<1>1. UNCHANGED stripe
  BY DEF LoadTickets, stripeVars
<1>2. UNCHANGED db \/ Commit(p, db, "done")
  BY DEF LoadTickets, rowVars
<1>3. QED
  BY <1>1, <1>2, SameStripe, StillRows, CommitSame DEF Step

LEMMA RepriceMaps ==
    ASSUME IInv, NEW p \in Proc, NEW next, Reprice(p, next)
    PROVE  Step
<1>1. UNCHANGED stripe
  BY DEF Reprice, stripeVars
<1>2. UNCHANGED db \/ \E total : db' = [db EXCEPT !.order.total = total]
  BY DEF Reprice, rowVars
<1>3. RowStep(db, db', stripe)
  BY <1>2, DbRows, QuietTotal, StillRows DEF RowStep
<1>4. QED
  BY <1>1, <1>3, SameStripe DEF Step

\* A process that fulfils has a captured charge; rows are those of the invariant.
LEMMA Fulfilled ==
    ASSUME IInv, NEW p \in Proc, pc[p] \in Fulfilling
    PROVE  arg[p] \in Intents /\ stripe[arg[p]] = "succeeded" /\ seen[p].total \in Totals
BY DEF IInv, Charges, ProcType, Struct

LEMMA CompleteOrderMaps ==
    ASSUME IInv, NEW p \in Proc, CompleteOrder(p)
    PROVE  Step
<1> DEFINE d == Completed(db, {"pending", "expired"})
<1>1. UNCHANGED stripe /\ pc[p] \in Fulfilling
  BY DEF CompleteOrder, stripeVars, Fulfilling
<1>2. d \in Rows /\ Quiet(db, d)
  BY DbRows, CompletedQuiet
<1>3. d.order.status = "completed" => d.order.tickets # "cancelled"
  BY SameRows, CompletedRows DEF Consistent
<1>4. Fail(p) \/ (d.order.status = "completed" /\ Commit(p, Finished(d, p), "done")) \/ db' = d
  BY DEF CompleteOrder
<1> HIDE DEF d
<1>5. CASE Fail(p)
  BY <1>1, <1>5, FailSame, SameStripe DEF Step
<1>6. CASE d.order.status = "completed" /\ Commit(p, Finished(d, p), "done")
  <2>1. Finished(d, p) \in Rows /\ RowStep(d, Finished(d, p), stripe)
    BY <1>1, <1>2, <1>3, <1>6, Fulfilled, FinishedStep
  <2>2. RowStep(db, Finished(d, p), stripe)
    BY <1>2, <2>1 DEF RowStep, Quiet, SellsRows, GivesUpRows, BooksRows
  <2>3. QED
    BY <1>1, <1>6, <2>1, <2>2, CommitRows, SameStripe DEF Step
<1>7. CASE db' = d
  BY <1>1, <1>2, <1>7, SameStripe DEF Step, RowStep
<1>8. QED
  BY <1>4, <1>5, <1>6, <1>7

LEMMA ConfirmTicketsMaps ==
    ASSUME IInv, NEW p \in Proc, ConfirmTickets(p)
    PROVE  Step
<1>1. UNCHANGED stripe /\ pc[p] \in Fulfilling
  BY DEF ConfirmTickets, stripeVars, Fulfilling
<1>2. db.order.tickets # "cancelled"
  BY DEF ConfirmTickets, IInv, Relies, Consistent
<1>3. CASE Commit(p, Finished(db, p), "done")
  <2>1. Finished(db, p) \in Rows /\ RowStep(db, Finished(db, p), stripe)
    BY <1>1, <1>2, DbRows, Fulfilled, FinishedStep
  <2>2. QED
    BY <1>1, <1>3, <2>1, CommitRows, SameStripe DEF Step
<1>4. CASE db' = Confirmed(db)
  BY <1>1, <1>4, DbRows, ConfirmedStep, SameStripe DEF Step, RowStep
<1>5. QED
  BY <1>3, <1>4 DEF ConfirmTickets

LEMMA RecordPaymentMaps ==
    ASSUME IInv, NEW p \in Proc, RecordPayment(p)
    PROVE  Step
<1>1. UNCHANGED stripe /\ pc[p] \in Fulfilling
  BY DEF RecordPayment, stripeVars, Fulfilling
<1>2. db.order.tickets = "confirmed"
  BY DEF RecordPayment, IInv, Relies
<1>3. QED
  BY <1>1, <1>2, DbRows, Fulfilled, RecordedStep, SameStripe DEF RecordPayment, Step, RowStep

LEMMA AttachPaymentMaps ==
    ASSUME IInv, NEW p \in Proc, AttachPayment(p)
    PROVE  Step
<1>1. UNCHANGED stripe /\ pc[p] \in Fulfilling
  BY DEF AttachPayment, stripeVars, Fulfilling
<1>2. Attached(db, arg[p]) \in Rows /\ RowStep(db, Attached(db, arg[p]), stripe)
  BY <1>1, DbRows, Fulfilled, AttachedQuiet DEF RowStep
<1>3. QED
  BY <1>1, <1>2, CommitRows, SameStripe DEF AttachPayment, Step

LEMMA FulfilMaps ==
    ASSUME IInv, NEW p \in Proc, Fulfil(p)
    PROVE  Step
<1>1. CASE SyncPricing(p) \/ ResyncPricing(p)
  BY <1>1, RepriceMaps DEF SyncPricing, ResyncPricing
<1>2. CASE CheckAmount(p) \/ ReloadOrder(p) \/ ReloadTickets(p) \/ DecideFulfilment(p)
           \/ RecheckAmount(p) \/ RefundMismatch(p)
  <2>1. UNCHANGED stripe
    BY <1>2 DEF CheckAmount, ReloadOrder, ReloadTickets, DecideFulfilment, RecheckAmount,
                RefundMismatch, stripeVars
  <2>2. UNCHANGED db \/ Fail(p) \/ Commit(p, db, "done")
    BY <1>2 DEF CheckAmount, ReloadOrder, ReloadTickets, DecideFulfilment, RecheckAmount,
                RefundMismatch, Rollback, rowVars
  <2>3. QED
    BY <2>1, <2>2, SameStripe, StillRows, FailSame, CommitSame DEF Step
<1>3. QED
  BY <1>1, <1>2, CompleteOrderMaps, ConfirmTicketsMaps, RecordPaymentMaps,
     AttachPaymentMaps DEF Fulfil

LEMMA AbandonMaps ==
    ASSUME IInv, NEW p \in Proc, Abandon(p)
    PROVE  Step
<1> DEFINE i == seen[p].intent
<1>1. stripe' = stripe
      \/ (i \in Intents /\ stripe[i] \in {"open", "action"}
            /\ stripe' = [stripe EXCEPT ![i] = "canceled"])
  BY DEF Abandon
<1>2. SameCaptures
  BY <1>1 DEF SameCaptures, IInv, WorldType
<1>3. UNCHANGED db \/ Fail(p) \/ Commit(p, db, "done")
  BY DEF Abandon, rowVars
<1>4. QED
  BY <1>2, <1>3, StillRows, FailSame, CommitSame DEF Step

LEMMA ReleaseMaps ==
    ASSUME IInv, NEW p \in Proc, Release(p)
    PROVE  Step
<1> DEFINE to == IF task[p] = "expire" THEN "expired" ELSE "cancelled"
<1>1. UNCHANGED stripe /\ Commit(p, Released(db, to), "done")
  BY DEF Release, stripeVars
<1>2. to \in {"cancelled", "expired"}
  OBVIOUS
<1>3. Released(db, to) \in Rows /\ RowStep(db, Released(db, to), stripe)
  BY <1>2, DbRows, ReleasedStep DEF RowStep
<1>4. QED
  BY <1>1, <1>3, CommitRows, SameStripe DEF Step

LEMMA CheckoutMaps ==
    ASSUME IInv, NEW p \in Proc, Checkout(p)
    PROVE  Step
<1>1. CASE RepriceCheckout(p) \/ RerepriceCheckout(p)
  BY <1>1, RepriceMaps DEF RepriceCheckout, RerepriceCheckout
<1>2. CASE QuoteCheckout(p) \/ RequoteCheckout(p) \/ RetrieveIntent(p)
  <2>1. UNCHANGED stripe
    BY <1>2 DEF QuoteCheckout, RequoteCheckout, Quote, RetrieveIntent, stripeVars
  <2>2. UNCHANGED db \/ Fail(p) \/ Commit(p, db, "done")
    BY <1>2 DEF QuoteCheckout, RequoteCheckout, Quote, RetrieveIntent, rowVars
  <2>3. QED
    BY <2>1, <2>2, SameStripe, StillRows, FailSame, CommitSame DEF Step
<1>3. CASE MintIntent(p)
  <2>1. SameCaptures
    BY <1>3 DEF MintIntent, SameCaptures, IInv, WorldType
  <2>2. UNCHANGED db \/ Fail(p)
    BY <1>3 DEF MintIntent, rowVars
  <2>3. QED
    BY <2>1, <2>2, StillRows, FailSame DEF Step
<1>4. CASE BindIntent(p)
  <2>1. UNCHANGED stripe
    BY <1>4 DEF BindIntent
  <2>2. CASE Fail(p)
    BY <2>1, <2>2, SameStripe, FailSame DEF Step
  <2>3. CASE Commit(p, [db EXCEPT !.order.intent = arg[p]], "done")
    <3>1. arg[p] \in MaybeIntent
      BY DEF IInv, ProcType
    <3>2. [db EXCEPT !.order.intent = arg[p]] \in Rows
          /\ Quiet(db, [db EXCEPT !.order.intent = arg[p]])
      BY <3>1, DbRows DEF Rows, Struct, Quiet
    <3>3. QED
      BY <2>1, <2>3, <3>2, CommitRows, SameStripe DEF Step, RowStep
  <2>4. QED
    BY <1>4, <2>2, <2>3 DEF BindIntent
<1>5. QED
  BY <1>1, <1>2, <1>3, <1>4 DEF Checkout

LEMMA FreeMaps ==
    ASSUME IInv, NEW p \in Proc, CompleteFree(p) \/ ConfirmFreeTickets(p)
    PROVE  Step
<1>1. UNCHANGED stripe
  BY DEF CompleteFree, ConfirmFreeTickets, stripeVars
<1>2. CASE CompleteFree(p)
  <2>1. Fail(p) \/ db' = Completed(db, {"pending"})
    BY <1>2 DEF CompleteFree
  <2>2. QED
    BY <1>1, <2>1, DbRows, CompletedQuiet, FailSame, SameStripe DEF Step, RowStep
<1>3. CASE ConfirmFreeTickets(p)
  <2>1. Confirmed(db) \in Rows /\ RowStep(db, Confirmed(db), stripe)
    BY DbRows, ConfirmedStep DEF RowStep
  <2>2. QED
    BY <1>1, <1>3, <2>1, CommitRows, SameStripe DEF ConfirmFreeTickets, Step
<1>4. QED
  BY <1>2, <1>3

\* Stripe captures a charge, or does not; an intent that was never booked.
LEMMA StripeMaps ==
    ASSUME IInv, NEW i \in Intents, Confirm(i) \/ Settle(i)
    PROVE  [Sale!Next]_(Sale!vars)
<1> DEFINE charges == [j \in Intents |-> Charge(j)]
<1>1. db' = db /\ stripe[i] # "succeeded"
  BY DEF Confirm, Settle, rowVars
<1>2. \A j \in Intents \ {i} : stripe'[j] = stripe[j]
  BY DEF Confirm, Settle, IInv, WorldType
<1>3. \A j \in Intents \ {i} : Charge(j)' = Charge(j)
  BY <1>1, <1>2, SameCharge
<1>4. db.ledger[i] = Nil
  BY <1>1 DEF IInv, Consistent
<1>5. CASE stripe'[i] = "succeeded"
  <2>1. Charge(i) = "open" /\ Charge(i)' = "captured"
    BY <1>1, <1>4, <1>5, ChargeValues, ChargeValuesNext
  <2>2. charges[i] = "open" /\ charges' = [charges EXCEPT ![i] = "captured"]
    BY <1>3, <2>1
  <2>3. Sale!Capture(i)
    BY <1>1, <2>2 DEF Sale!Capture
  <2>4. QED
    BY <2>3 DEF Sale!Next
<1>6. CASE stripe'[i] # "succeeded"
  <2>1. Charge(i)' = Charge(i)
    BY <1>1, <1>6, SameCharge
  <2>2. charges' = charges
    BY <1>3, <2>1
  <2>3. QED
    BY <1>1, <2>2 DEF Sale!vars
<1>7. QED
  BY <1>5, <1>6

LEMMA NextMaps ==
    ASSUME IInv, [Next]_vars
    PROVE  [Sale!Next]_(Sale!vars)
<1>1. ASSUME NEW p \in Proc, Start(p) \/ Continue(p) \/ Fault(p)
      PROVE  Step
  <2>1. CASE Continue(p)
    BY <2>1, LoadTicketsMaps, FulfilMaps, AbandonMaps, ReleaseMaps, CheckoutMaps, FreeMaps
       DEF Continue
  <2>2. CASE Fault(p)
    BY <2>2, SameStripe, StillRows DEF Fault, Rollback, stripeVars, Step
  <2>3. QED
    BY <1>1, <2>1, <2>2, StartMaps
<1>2. CASE ChangePrice \/ TimePasses \/ SeatsResold \/ UNCHANGED vars
  <2>1. UNCHANGED <<db, stripe>>
    BY <1>2 DEF ChangePrice, TimePasses, SeatsResold, rowVars, stripeVars, vars
  <2>2. QED
    BY <2>1, SameStripe, StillRows, StepMaps DEF Step
<1>3. QED
  BY <1>1, <1>2, StepMaps, StripeMaps DEF Next, Environment

LEMMA InitMaps == ASSUME Init PROVE Sale!Init
<1>1. db.order.tickets = "pending"
  BY DEF Init
<1>2. \A i \in Intents : db.ledger[i] = Nil /\ stripe[i] # "succeeded"
  BY DEF Init
<1>3. \A i \in Intents : Charge(i) = "open"
  BY <1>2, ChargeValues
<1>4. QED
  BY <1>1, <1>3 DEF Sale!Init

-----------------------------------------------------------------------------
\* Seats and charges move only as SeatOrder promises, whatever handlers run: seats
\* that a cancellation gave up are never sold and a charge is booked once, with the
\* seats sold (process_ticket_order_payment, cancel_ticket_order).
THEOREM ImplementsSeatOrder == Spec => SeatsSoldAsPromised
<1>1. Init => Sale!Init
  BY InitMaps
<1>2. IInv /\ [Next]_vars => [Sale!Next]_(Sale!vars)
  BY NextMaps
<1>3. QED
  BY <1>1, <1>2, Invariance, PTL DEF Spec, SeatsSoldAsPromised, Sale!Spec
=============================================================================

--------------------------- MODULE TicketCheckout ---------------------------
(***************************************************************************)
(* One ticket order from the moment its pending seats exist until it is    *)
(* completed, cancelled or expired, together with the PaymentIntents that  *)
(* Stripe keeps for it and every program that may touch it at the same     *)
(* time: webhook deliveries, the success return of the browser, the        *)
(* failure redirect, "cancel order", the checkout page minting an intent,  *)
(* the complimentary confirmation, the per-order timeout job and the       *)
(* periodic timeout sweep (lib/ysc/tickets.ex and lib/ysc/tickets).        *)
(*                                                                         *)
(* A step of a process is what the database or Stripe sees as one step: a  *)
(* SELECT, a conditional UPDATE, a Stripe call.  Between two steps a       *)
(* process only remembers the struct it has loaded, seen[p], which other   *)
(* processes make stale.  Webhook deliveries and the timeout job run in a  *)
(* database transaction: their writes become visible together when they    *)
(* commit and they hold the order's row lock from the first write on.      *)
(*                                                                         *)
(* All tickets of the order change status together, so they are one        *)
(* status.  Stripe's idempotency key is order reference + amount, so the   *)
(* order has at most one intent per amount and an intent is named by its   *)
(* amount.                                                                 *)
(***************************************************************************)
EXTENDS Naturals

CONSTANTS
    Prices,      \* the totals (cents) the order can have; 0 is complimentary
    Deliveries,  \* webhook deliveries (each handles one event, in a transaction)
    Returns,     \* success returns: /payment/success or the event page
    Failures,    \* failure redirects
    Cancels,     \* "cancel order" on My Tickets
    Checkouts,   \* checkout pages about to create or reuse an intent
    Frees,       \* complimentary confirmations
    Jobs,        \* TimeoutWorker jobs for this order (FOR UPDATE NOWAIT)
    Sweeps,      \* TimeoutWorker cron runs
    NoProc,      \* nobody holds the row lock
    Nil,    \* payment_intent_id / payment_id is nil
    MaxFaults,   \* bound: processes killed halfway and Stripe calls that fail
    MaxReprices, \* bound: price changes by an organiser
    MaxDeclines  \* bound: confirmations Stripe does not accept at once

Proc == Deliveries \cup Returns \cup Failures \cup Cancels \cup Checkouts
          \cup Frees \cup Jobs \cup Sweeps
Intents == Prices \ {0}

ASSUME PricesAssumption == Prices \subseteq Nat
ASSUME NamesAssumption == NoProc \notin Proc /\ Nil \notin Nat
\* A checkout page runs once and does nothing else.
ASSUME PagesAssumption ==
    Checkouts \cap (Deliveries \cup Returns \cup Failures \cup Cancels \cup Frees \cup Jobs
                     \cup Sweeps) = {}
ASSUME BoundsAssumption ==
    MaxFaults \in Nat /\ MaxReprices \in Nat /\ MaxDeclines \in Nat

VARIABLES
    db,       \* the committed rows: the order, its tickets, its ledger payments
    locked,   \* the transaction that holds the order's row lock
    stripe,   \* Stripe: status of each intent
    refunded, \* Stripe: intents that were refunded in full
    shown,    \* intents whose client secret a browser has received
    price,    \* the order's total at the current tier prices
    timedOut, \* expires_at has passed
    room,     \* the seats released by this order are still free
    pc,       \* next step of each process
    task,     \* what each process was started for
    seen,     \* the TicketOrder struct each process holds
    arg,      \* the intent each process works on
    unread,   \* history: intents given up unread, and so uncancelled (RetrieveIntent)
    faults, reprices, declines

rowVars == <<db, locked>>
stripeVars == <<stripe, refunded, shown>>
worldVars == <<price, timedOut, room>>
boundVars == <<unread, faults, reprices, declines>>
procVars == <<pc, task, seen, arg>>
vars == <<rowVars, stripeVars, worldVars, boundVars, procVars>>

OrderStatus == {"pending", "completed", "cancelled", "expired"}
TicketStatus == {"pending", "confirmed", "cancelled", "expired"}

\* requires_payment_method is "open"; requires_action and requires_confirmation
\* are "action".
IntentStatus == {"none", "open", "action", "processing", "succeeded", "canceled"}
InFlight == {"action", "processing", "succeeded"}   \* @blocked_pi_statuses

MaybeIntent == Intents \cup {Nil}

\* An order none of whose tickets is pending is priced at 0 (see Recalculated).
Totals == Prices \cup {0}
Struct == [status : OrderStatus, intent : MaybeIntent, total : Totals,
           payment : MaybeIntent, tickets : TicketStatus]
Blank == [status |-> "pending", intent |-> Nil, total |-> 0, payment |-> Nil,
          tickets |-> "pending"]
Rows == [order : Struct, ledger : [Intents -> Totals \cup {Nil}]]

Tasks == {"fulfil", "failed", "cancel", "expire", "checkout", "free"}
Labels == {"idle", "tix", "sync", "check", "refund", "release", "rerow", "retix",
           "decide", "resync", "recheck", "complete", "confirm", "ledger",
           "attach", "abandon", "quote", "reprice", "retrieve", "requote",
           "rereprice", "mint", "bind", "comp", "hand", "done", "error", "killed"}
Resting == {"idle", "done", "error", "killed"}

TypeOK ==
    /\ db \in Rows
    /\ locked \in Proc \cup {NoProc}
    /\ stripe \in [Intents -> IntentStatus]
    /\ refunded \subseteq Intents
    /\ shown \subseteq Intents
    /\ price \in Prices
    /\ timedOut \in BOOLEAN
    /\ room \in BOOLEAN
    /\ pc \in [Proc -> Labels]
    /\ task \in [Proc -> Tasks]
    /\ seen \in [Proc -> Struct]
    /\ arg \in [Proc -> MaybeIntent]
    /\ unread \subseteq Intents
    /\ faults \in Nat /\ reprices \in Nat /\ declines \in Nat

-----------------------------------------------------------------------------
(* The rows: what each UPDATE does to them. *)

Order == db.order

\* Faulty variant: the tickets are released whether or not the order was.
ReleasedTicketsAnyway(d, to) ==
    [d EXCEPT !.order.status = IF @ = "pending" THEN to ELSE @,
              !.order.tickets = IF @ = "pending" THEN to ELSE @]

\* do_cancel_ticket_order / do_expire_ticket_order: one transaction, conditional
\* on the order still being pending, that releases the pending tickets with it.
Released(d, to) ==
    IF d.order.status # "pending" THEN d
    ELSE [d EXCEPT !.order.status = to,
                   !.order.tickets = IF @ = "pending" THEN to ELSE @]

\* Faulty variant: a cancelled order is completed too.
CompletedAnyway(d, from) ==
    IF d.order.status \in from \cup {"cancelled"}
    THEN [d EXCEPT !.order.status = "completed", !.order.payment = Nil]
    ELSE d

\* complete_ticket_order_if_pending: from is [:pending, :expired], or [:pending]
\* for a complimentary order.
Completed(d, from) ==
    IF d.order.status \in from
    THEN [d EXCEPT !.order.status = "completed", !.order.payment = Nil]
    ELSE d

\* Faulty variant: the ticket status is written to the order as well.
ConfirmedOnOrder(d) ==
    [d EXCEPT !.order.status = "confirmed",
              !.order.tickets = IF @ \in {"pending", "expired"} THEN "confirmed" ELSE @]

\* confirm_tickets
Confirmed(d) ==
    [d EXCEPT !.order.tickets = IF @ \in {"pending", "expired"} THEN "confirmed" ELSE @]

\* process_ledger_payment: the payment is keyed by the intent, an existing one is
\* returned unchanged.
Recorded(d, i, total) ==
    [d EXCEPT !.ledger[i] = IF @ = Nil THEN total ELSE @]

\* attach_ledger_payment_to_order
Attached(d, i) ==
    [d EXCEPT !.order.payment = IF @ = Nil THEN i ELSE @]

\* recalculate_pending_order_pricing: an expired order is priced from its expired
\* tickets, any other from the tickets in the struct that are pending.
Recalculated(s) ==
    IF s.status = "expired"
    THEN IF Order.tickets = "expired" THEN price ELSE s.total
    ELSE IF s.tickets = "pending" THEN price ELSE 0

Finalized(s) ==
    s.status = "completed" /\ s.payment # Nil /\ s.tickets = "confirmed"

-----------------------------------------------------------------------------
(* Processes and the order's row lock. *)

InTransaction(p) == p \in Deliveries \cup Jobs

\* An UPDATE of the order row waits for the transaction that holds it.
MayWrite(p) == locked \in {NoProc, p}

\* What p reads: its own uncommitted total, everybody else's committed rows.
View(p) == IF locked = p THEN [Order EXCEPT !.total = seen[p].total] ELSE Order

\* Oban retries a job that failed; the cron starts every sweep again.
Rest(p, l) ==
    IF p \in Sweeps \/ (p \in Jobs /\ l # "done") THEN "idle" ELSE l

Goto(p, l) == pc' = [pc EXCEPT ![p] = l]

\* The handler returns and its struct is gone.
Return(p, l) ==
    /\ locked' = IF locked = p THEN NoProc ELSE locked
    /\ pc' = [pc EXCEPT ![p] = Rest(p, l)]
    /\ seen' = [seen EXCEPT ![p] = Blank]
    /\ UNCHANGED <<task, arg>>

\* A transaction commits d and the total it stored; without one d is all there is.
Commit(p, d, l) ==
    /\ db' = IF locked = p THEN [d EXCEPT !.order.total = seen[p].total] ELSE d
    /\ Return(p, l)

\* Nothing the transaction wrote survives.
Rollback(p, l) == Return(p, l) /\ UNCHANGED db

\* Webhook deliveries are acknowledged (and commit) whatever happened; the
\* timeout job rolls back.
Fail(p) == IF p \in Jobs THEN Rollback(p, "error") ELSE Commit(p, db, "error")

\* SELECT the order row; its tickets are preloaded by a SELECT of their own.
Begin(p, t, i) ==
    /\ task' = [task EXCEPT ![p] = t]
    /\ arg' = [arg EXCEPT ![p] = i]
    /\ seen' = [seen EXCEPT ![p] = View(p)]
    /\ Goto(p, "tix")

Init ==
    /\ price \in Prices
    /\ \E i \in MaybeIntent :
         /\ i # Nil => i = price
         /\ db = [order |-> [status |-> "pending", intent |-> i, total |-> price,
                             payment |-> Nil, tickets |-> "pending"],
                  ledger |-> [j \in Intents |-> Nil]]
         /\ stripe = [j \in Intents |-> IF j = i THEN "open" ELSE "none"]
         /\ shown = {i} \ {Nil}
    /\ locked = NoProc
    /\ refunded = {}
    /\ timedOut = FALSE
    /\ room = TRUE
    /\ pc = [p \in Proc |-> "idle"]
    /\ task = [p \in Proc |-> "fulfil"]
    /\ seen = [p \in Proc |-> Blank]
    /\ arg = [p \in Proc |-> Nil]
    /\ unread = {} /\ faults = 0 /\ reprices = 0 /\ declines = 0

-----------------------------------------------------------------------------
(* Entry points. *)

\* StripeService.handle_failed_payment: the intent is read first.  With
\* keep_retryable_order a decline that can be retried changes nothing.
HandleFailed(p, i, keep) ==
    \/ stripe[i] = "succeeded" /\ Begin(p, "fulfil", i)
    \/ stripe[i] # "succeeded" /\ (keep => stripe[i] = "canceled")
         /\ Begin(p, "failed", i)

Deliver(p) ==
    /\ p \in Deliveries /\ pc[p] = "idle"
    /\ \E i \in Intents :
         \/ stripe[i] = "succeeded" /\ Begin(p, "fulfil", i)
         \/ declines > 0 /\ stripe[i] # "none" /\ HandleFailed(p, i, TRUE)
         \/ stripe[i] = "canceled" /\ HandleFailed(p, i, FALSE)
    /\ UNCHANGED <<rowVars, stripeVars, worldVars, boundVars>>

ReturnFromStripe(p) ==
    /\ p \in Returns /\ pc[p] = "idle"
    /\ \E i \in shown : stripe[i] = "succeeded" /\ Begin(p, "fulfil", i)
    /\ UNCHANGED <<rowVars, stripeVars, worldVars, boundVars>>

RedirectFailed(p) ==
    /\ p \in Failures /\ pc[p] = "idle"
    /\ \E i \in shown : HandleFailed(p, i, FALSE)
    /\ UNCHANGED <<rowVars, stripeVars, worldVars, boundVars>>

CancelOrder(p) ==
    /\ p \in Cancels /\ pc[p] = "idle"
    /\ Begin(p, "cancel", Nil)
    /\ UNCHANGED <<rowVars, stripeVars, worldVars, boundVars>>

OpenCheckout(p) ==
    /\ p \in Checkouts /\ pc[p] = "idle"
    /\ Begin(p, "checkout", Nil)
    /\ UNCHANGED <<rowVars, stripeVars, worldVars, boundVars>>

ConfirmFree(p) ==
    /\ p \in Frees /\ pc[p] = "idle"
    /\ Begin(p, "free", Nil)
    /\ UNCHANGED <<rowVars, stripeVars, worldVars, boundVars>>

\* expire_specific_order: FOR UPDATE NOWAIT, then check status and deadline again.
ExpireSpecific(p) ==
    /\ p \in Jobs /\ pc[p] = "idle"
    /\ locked = NoProc /\ timedOut /\ Order.status = "pending"
    /\ locked' = p
    /\ Begin(p, "expire", Nil)
    /\ UNCHANGED <<db, stripeVars, worldVars, boundVars>>

\* expire_timed_out_orders: FOR UPDATE SKIP LOCKED outside a transaction, so
\* the lock is gone as soon as the batch is read.
ExpireBatch(p) ==
    /\ p \in Sweeps /\ pc[p] = "idle"
    /\ locked = NoProc /\ timedOut /\ Order.status = "pending"
    /\ Begin(p, "expire", Nil)
    /\ UNCHANGED <<rowVars, stripeVars, worldVars, boundVars>>

\* Faulty variant: the complimentary confirmation completes at once.
AfterLoadCompletingFirst(t) ==
    CASE t = "fulfil" -> "sync" [] t = "checkout" -> "quote" [] t = "free" -> "comp"
      [] OTHER -> "abandon"

\* The tickets arrive; each entry point looks at the struct and goes on, or
\* returns at once.
Wanted(t, s) ==
    /\ t = "failed" => s.status # "completed"
    /\ t \in {"checkout", "free"} => s.status = "pending"
    /\ t = "free" => ~timedOut /\ Recalculated(s) = 0

AfterLoad(t) ==
    CASE t = "fulfil" -> "sync" [] t = "checkout" -> "quote" [] OTHER -> "abandon"

LoadTickets(p) ==
    LET s == [seen[p] EXCEPT !.tickets = Order.tickets] IN
    /\ pc[p] = "tix"
    /\ \/ /\ Wanted(task[p], s)
          /\ seen' = [seen EXCEPT ![p] = s]
          /\ Goto(p, AfterLoad(task[p]))
          /\ UNCHANGED <<task, arg, rowVars>>
       \/ ~Wanted(task[p], s) /\ Commit(p, db, "done")
    /\ UNCHANGED <<stripeVars, worldVars, boundVars>>

-----------------------------------------------------------------------------
(* Fulfilment: StripeService.process_successful_payment and                *)
(* Tickets.process_ticket_order_payment.                                    *)

\* sync_pending_order_pricing_for_fulfillment: reprice and store by primary key.
Reprice(p, next) ==
    /\ LET total == IF seen[p].status \in {"pending", "expired"}
                    THEN Recalculated(seen[p]) ELSE seen[p].total
       IN  /\ seen' = [seen EXCEPT ![p].total = total]
           /\ IF total = seen[p].total
              THEN UNCHANGED rowVars
              ELSE /\ MayWrite(p)
                   /\ IF InTransaction(p)
                      THEN locked' = p /\ UNCHANGED db
                      ELSE db' = [db EXCEPT !.order.total = total] /\ UNCHANGED locked
    /\ Goto(p, next)
    /\ UNCHANGED <<task, arg, stripeVars, worldVars, boundVars>>

SyncPricing(p) == pc[p] = "sync" /\ Reprice(p, "check")
ResyncPricing(p) == pc[p] = "resync" /\ Reprice(p, "recheck")

\* Faulty variant: a mismatch is reported and the charge is kept.
CheckAmountWithoutRefund(p) ==
    /\ pc[p] = "check"
    /\ \/ Recalculated(seen[p]) = arg[p]
            /\ Goto(p, "rerow") /\ UNCHANGED <<rowVars, task, seen, arg>>
       \/ Recalculated(seen[p]) # arg[p] /\ Fail(p)
    /\ UNCHANGED <<stripeVars, worldVars, boundVars>>

\* validate_payment_intent in StripeService; a mismatch on an order the struct
\* shows as pending or expired is refunded, any other is only reported.
CheckAmount(p) ==
    /\ pc[p] = "check"
    /\ \/ Recalculated(seen[p]) = arg[p]
            /\ Goto(p, "rerow") /\ UNCHANGED <<rowVars, task, seen, arg>>
       \/ Recalculated(seen[p]) # arg[p] /\ seen[p].status \in {"pending", "expired"}
            /\ Goto(p, "refund") /\ UNCHANGED <<rowVars, task, seen, arg>>
       \/ Recalculated(seen[p]) # arg[p] /\ seen[p].status \notin {"pending", "expired"}
            /\ Fail(p)
    /\ UNCHANGED <<stripeVars, worldVars, boundVars>>

ReloadOrder(p) ==
    /\ pc[p] = "rerow"
    /\ seen' = [seen EXCEPT ![p] = View(p)]
    /\ Goto(p, "retix")
    /\ UNCHANGED <<task, arg, rowVars, stripeVars, worldVars, boundVars>>

ReloadTickets(p) ==
    /\ pc[p] = "retix"
    /\ seen' = [seen EXCEPT ![p].tickets = Order.tickets]
    /\ Goto(p, "decide")
    /\ UNCHANGED <<task, arg, rowVars, stripeVars, worldVars, boundVars>>

\* ticket_order_fully_finalized? / ticket_order_completed? (which asks the
\* database again) / otherwise the full fulfilment.
DecideFulfilment(p) ==
    /\ pc[p] = "decide"
    /\ \/ Finalized(seen[p]) /\ Commit(p, db, "done")
       \/ /\ ~Finalized(seen[p])
          /\ Goto(p, IF "completed" \in {seen[p].status, Order.status}
                     THEN "confirm" ELSE "resync")
          /\ UNCHANGED <<rowVars, task, seen, arg>>
    /\ UNCHANGED <<stripeVars, worldVars, boundVars>>

\* validate_fulfillable_order_status (which asks the database again),
\* validate_payment_intent on the struct and, for an expired order,
\* validate_expired_order_fulfillment_capacity, whose failure rolls its nested
\* transaction back and with it the caller's.
RecheckAmount(p) ==
    /\ pc[p] = "recheck"
    /\ \/ Order.status \notin {"pending", "expired"} /\ Fail(p)
       \/ /\ Order.status \in {"pending", "expired"}
          /\ Recalculated(seen[p]) # arg[p]
          /\ Goto(p, "refund") /\ UNCHANGED <<rowVars, task, seen, arg>>
       \/ /\ Order.status \in {"pending", "expired"}
          /\ Recalculated(seen[p]) = arg[p]
          /\ IF Order.status = "expired" /\ Order.tickets = "expired" /\ ~room
             THEN Rollback(p, "error")
             ELSE Goto(p, "complete") /\ UNCHANGED <<rowVars, task, seen, arg>>
    /\ UNCHANGED <<stripeVars, worldVars, boundVars>>

\* The remaining writes of a fulfilment: confirm_tickets, process_ledger_payment
\* and attach_ledger_payment_to_order.
Finished(d, p) ==
    Attached(Recorded(Confirmed(d), arg[p], seen[p].total), arg[p])

\* Faulty variant: the charge is booked before the tickets are confirmed.
CompleteOrderLedgerFirst(p) ==
    /\ pc[p] = "complete" /\ MayWrite(p)
    /\ LET d == Completed(db, {"pending", "expired"}) IN
         \/ d.order.status # "completed" /\ Fail(p)
         \/ d.order.status = "completed"
              /\ db' = d /\ Goto(p, "ledger") /\ UNCHANGED <<locked, task, seen, arg>>
    /\ UNCHANGED <<stripeVars, worldVars, boundVars>>

CompleteOrder(p) ==
    /\ pc[p] = "complete" /\ MayWrite(p)
    /\ LET d == Completed(db, {"pending", "expired"}) IN
         \/ d.order.status # "completed" /\ Fail(p)
         \/ d.order.status = "completed" /\ InTransaction(p)
              /\ Commit(p, Finished(d, p), "done")
         \/ d.order.status = "completed" /\ ~InTransaction(p)
              /\ db' = d /\ Goto(p, "confirm") /\ UNCHANGED <<locked, task, seen, arg>>
    /\ UNCHANGED <<stripeVars, worldVars, boundVars>>

\* Faulty variant: the payment is attached before it is booked.
ConfirmTicketsAttachFirst(p) ==
    /\ pc[p] = "confirm" /\ MayWrite(p)
    /\ db' = Confirmed(db) /\ Goto(p, "attach") /\ UNCHANGED <<locked, task, seen, arg>>
    /\ UNCHANGED <<stripeVars, worldVars, boundVars>>

ConfirmTickets(p) ==
    /\ pc[p] = "confirm" /\ MayWrite(p)
    /\ IF InTransaction(p) THEN Commit(p, Finished(db, p), "done")
       ELSE db' = Confirmed(db) /\ Goto(p, "ledger") /\ UNCHANGED <<locked, task, seen, arg>>
    /\ UNCHANGED <<stripeVars, worldVars, boundVars>>

RecordPayment(p) ==
    /\ pc[p] = "ledger"
    /\ db' = Recorded(db, arg[p], seen[p].total)
    /\ Goto(p, "attach")
    /\ UNCHANGED <<locked, task, seen, arg, stripeVars, worldVars, boundVars>>

AttachPayment(p) ==
    /\ pc[p] = "attach" /\ MayWrite(p)
    /\ Commit(p, Attached(db, arg[p]), "done")
    /\ UNCHANGED <<stripeVars, worldVars, boundVars>>

\* maybe_refund_unfulfilled_ticket_payment: the refund at Stripe, then the local
\* release (cancel_ticket_order with reconcile_with_stripe: false).
RefundMismatch(p) ==
    /\ pc[p] = "refund"
    /\ refunded' = refunded \cup {arg[p]}
    /\ task' = [task EXCEPT ![p] = "cancel"]
    /\ Goto(p, "release")
    /\ UNCHANGED <<rowVars, seen, arg, stripe, shown, worldVars, boundVars>>

-----------------------------------------------------------------------------
(* Abandonment: Stripe's cancel endpoint is asked first. *)

\* cancel_payment_intent_for_abandoned_checkout for the intent in the struct:
\* Stripe refuses to cancel only what is processing or has succeeded.
Dead(i) == i = Nil \/ (i \in Intents /\ (stripe[i] = "canceled" \/ i \in refunded))

\* Where each caller goes on {:cancel, _}.
AfterStripeCancel(t) ==
    CASE t = "free" -> "comp" [] t = "checkout" -> "requote" [] OTHER -> "release"

\* Faulty variants: the status is read instead of cancelled (the gap the
\* moduledoc of CheckoutCancel describes); a succeeded intent counts as
\* cancelled (StripeService.cancel_payment_intent); an intent in flight is left
\* to somebody else (pending_order_safe_to_cancel?).
AbandonByReading(p) ==
    LET i == seen[p].intent IN
    /\ pc[p] = "abandon"
    /\ ~Dead(i) => stripe[i] = "open"
    /\ Goto(p, AfterStripeCancel(task[p]))
    /\ UNCHANGED <<rowVars, stripeVars, task, seen, arg, worldVars, boundVars>>

AbandonCaptured(p) ==
    LET i == seen[p].intent IN
    /\ pc[p] = "abandon"
    /\ ~Dead(i) => stripe[i] \in {"open", "action", "succeeded"}
    /\ stripe' = IF ~Dead(i) /\ stripe[i] # "succeeded"
                 THEN [stripe EXCEPT ![i] = "canceled"] ELSE stripe
    /\ Goto(p, AfterStripeCancel(task[p]))
    /\ UNCHANGED <<rowVars, refunded, shown, task, seen, arg, worldVars, boundVars>>

AbandonUnlessInFlight(p) ==
    LET i == seen[p].intent IN
    /\ pc[p] = "abandon"
    /\ IF Dead(i) \/ stripe[i] = "open"
       THEN /\ stripe' = IF Dead(i) THEN stripe ELSE [stripe EXCEPT ![i] = "canceled"]
            /\ Goto(p, AfterStripeCancel(task[p]))
            /\ UNCHANGED <<rowVars, task, seen, arg>>
       ELSE Commit(p, db, "done") /\ UNCHANGED stripe
    /\ UNCHANGED <<refunded, shown, worldVars, boundVars>>

Abandon(p) ==
    LET i == seen[p].intent IN
    /\ pc[p] = "abandon"
    /\ \/ /\ Dead(i)
          /\ Goto(p, AfterStripeCancel(task[p]))
          /\ UNCHANGED <<rowVars, stripe, task, seen, arg>>
       \/ /\ i \in Intents \ refunded /\ stripe[i] \in {"open", "action"}
          /\ stripe' = [stripe EXCEPT ![i] = "canceled"]
          /\ Goto(p, AfterStripeCancel(task[p]))
          /\ UNCHANGED <<rowVars, task, seen, arg>>
       \/ /\ i \in Intents \ refunded /\ stripe[i] = "succeeded"
          /\ IF task[p] \in {"free", "checkout"} THEN Fail(p)
             ELSE Begin(p, "fulfil", i) /\ UNCHANGED rowVars
          /\ UNCHANGED stripe
       \/ /\ i \in Intents \ refunded /\ stripe[i] = "processing"
          /\ Commit(p, db, "done")
          /\ UNCHANGED stripe
    /\ UNCHANGED <<refunded, shown, worldVars, boundVars>>

Release(p) ==
    /\ pc[p] = "release" /\ MayWrite(p)
    /\ Commit(p, Released(db, IF task[p] = "expire" THEN "expired" ELSE "cancelled"),
              "done")
    /\ UNCHANGED <<stripeVars, worldVars, boundVars>>

-----------------------------------------------------------------------------
(* The checkout page: create_checkout_payment_intent_now. *)

\* sync_pending_order_pricing leaves the total alone while the intent in the
\* struct is in flight.
Quote(p, repriced, next) ==
    /\ Goto(p, IF seen[p].intent # Nil /\ stripe[seen[p].intent] \in InFlight
               THEN next ELSE repriced)
    /\ UNCHANGED <<task, seen, arg, rowVars, stripeVars, worldVars, boundVars>>

QuoteCheckout(p) == pc[p] = "quote" /\ Quote(p, "reprice", "retrieve")
RepriceCheckout(p) == pc[p] = "reprice" /\ Reprice(p, "retrieve")
RequoteCheckout(p) == pc[p] = "requote" /\ Quote(p, "rereprice", "mint")
RerepriceCheckout(p) == pc[p] = "rereprice" /\ Reprice(p, "mint")

\* retrieve_or_create_payment_intent: reuse an intent of the right amount, give up
\* on another that is in flight, cancel it at Stripe and mint a new one otherwise.
\* An error from Stripe, whatever it is, is taken for an intent that does not exist:
\* a new one is minted and the old one is left as it is.
RetrieveIntent(p) ==
    LET i == seen[p].intent IN
    /\ pc[p] = "retrieve"
    /\ \/ /\ i = Nil
          /\ Goto(p, "requote") /\ UNCHANGED <<shown, task, seen, arg, rowVars, boundVars>>
       \/ /\ i \in Intents /\ i = seen[p].total
          /\ stripe[i] \in {"open"} \cup InFlight
          /\ shown' = shown \cup {i} /\ Commit(p, db, "done") /\ UNCHANGED boundVars
       \/ /\ i \in Intents /\ i # seen[p].total /\ stripe[i] \in InFlight
          /\ Fail(p) /\ UNCHANGED <<shown, boundVars>>
       \/ /\ i \in Intents /\ stripe[i] \notin InFlight
          /\ i = seen[p].total => stripe[i] # "open"
          /\ Goto(p, "abandon") /\ UNCHANGED <<shown, task, seen, arg, rowVars, boundVars>>
       \/ /\ i \in Intents /\ faults < MaxFaults
          /\ faults' = faults + 1 /\ unread' = unread \cup {i}
          /\ Goto(p, "requote")
          /\ UNCHANGED <<shown, task, seen, arg, rowVars, reprices, declines>>
    /\ UNCHANGED <<stripe, refunded, worldVars>>

\* Stripe's create endpoint: the same key returns the same intent, whatever has
\* happened to it since.  An amount of 0 is refused.
MintIntent(p) ==
    /\ pc[p] = "mint"
    /\ IF seen[p].total \in Intents
       THEN /\ stripe' = [stripe EXCEPT ![seen[p].total] = IF @ = "none" THEN "open" ELSE @]
            /\ arg' = [arg EXCEPT ![p] = seen[p].total]
            /\ Goto(p, "bind") /\ UNCHANGED <<task, seen, rowVars>>
       ELSE Fail(p) /\ UNCHANGED stripe
    /\ UNCHANGED <<refunded, shown, worldVars, boundVars>>

\* update_payment_intent: only while the order is pending; the browser gets the
\* client secret only then.
BindIntent(p) ==
    /\ pc[p] = "bind" /\ MayWrite(p)
    /\ IF Order.status = "pending"
       THEN /\ Commit(p, [db EXCEPT !.order.intent = arg[p]], "done")
            /\ shown' = shown \cup {arg[p]}
       ELSE Fail(p) /\ UNCHANGED shown
    /\ UNCHANGED <<stripe, refunded, worldVars, boundVars>>

-----------------------------------------------------------------------------
(* The complimentary confirmation: process_free_ticket_order. *)

CompleteFree(p) ==
    /\ pc[p] = "comp" /\ MayWrite(p)
    /\ IF Order.status = "pending"
       THEN /\ db' = Completed(db, {"pending"})
            /\ Goto(p, "hand") /\ UNCHANGED <<locked, task, seen, arg>>
       ELSE Fail(p)
    /\ UNCHANGED <<stripeVars, worldVars, boundVars>>

ConfirmFreeTickets(p) ==
    /\ pc[p] = "hand"
    /\ Commit(p, Confirmed(db), "done")
    /\ UNCHANGED <<stripeVars, worldVars, boundVars>>

-----------------------------------------------------------------------------
(* Everything outside the application. *)

\* A process is killed, or its Stripe call fails and the handler gives up.
Fault(p) ==
    /\ pc[p] \notin Resting
    /\ faults < MaxFaults /\ faults' = faults + 1
    /\ Rollback(p, "killed")
    /\ UNCHANGED <<stripeVars, worldVars, unread, reprices, declines>>

\* The customer confirms an intent whose secret the browser holds.
Confirm(i) ==
    /\ i \in shown /\ stripe[i] \in {"open", "action"}
    /\ \/ \E s \in {"succeeded", "processing"} :
            stripe' = [stripe EXCEPT ![i] = s] /\ UNCHANGED declines
       \/ /\ declines < MaxDeclines /\ declines' = declines + 1
          /\ \E s \in {"open", "action"} : stripe' = [stripe EXCEPT ![i] = s]
    /\ UNCHANGED <<refunded, shown, rowVars, worldVars, unread, faults, reprices, procVars>>

\* A bank debit or wallet payment settles.
Settle(i) ==
    /\ stripe[i] = "processing"
    /\ \/ stripe' = [stripe EXCEPT ![i] = "succeeded"] /\ UNCHANGED declines
       \/ /\ declines < MaxDeclines /\ declines' = declines + 1
          /\ stripe' = [stripe EXCEPT ![i] = "open"]
    /\ UNCHANGED <<refunded, shown, rowVars, worldVars, unread, faults, reprices, procVars>>

ChangePrice ==
    /\ reprices < MaxReprices /\ reprices' = reprices + 1
    /\ price' \in Prices \ {price}
    /\ UNCHANGED <<rowVars, stripeVars, timedOut, room, unread, faults, declines, procVars>>

TimePasses ==
    /\ ~timedOut /\ timedOut' = TRUE
    /\ UNCHANGED <<rowVars, stripeVars, price, room, boundVars, procVars>>

SeatsResold ==
    /\ room /\ Order.status = "expired" /\ Order.tickets = "expired"
    /\ room' = FALSE
    /\ UNCHANGED <<rowVars, stripeVars, price, timedOut, boundVars, procVars>>

-----------------------------------------------------------------------------
Fulfil(p) ==
    \/ SyncPricing(p) \/ CheckAmount(p) \/ ReloadOrder(p) \/ ReloadTickets(p)
    \/ DecideFulfilment(p) \/ ResyncPricing(p) \/ RecheckAmount(p)
    \/ CompleteOrder(p) \/ ConfirmTickets(p) \/ RecordPayment(p) \/ AttachPayment(p)
    \/ RefundMismatch(p)

Checkout(p) ==
    \/ QuoteCheckout(p) \/ RepriceCheckout(p) \/ RetrieveIntent(p)
    \/ RequoteCheckout(p) \/ RerepriceCheckout(p) \/ MintIntent(p) \/ BindIntent(p)

Start(p) ==
    \/ Deliver(p) \/ ReturnFromStripe(p) \/ RedirectFailed(p) \/ CancelOrder(p)
    \/ OpenCheckout(p) \/ ConfirmFree(p) \/ ExpireSpecific(p) \/ ExpireBatch(p)

Continue(p) ==
    \/ LoadTickets(p) \/ Fulfil(p) \/ Abandon(p) \/ Release(p) \/ Checkout(p)
    \/ CompleteFree(p) \/ ConfirmFreeTickets(p)

Environment ==
    \/ \E i \in Intents : Confirm(i) \/ Settle(i)
    \/ ChangePrice \/ TimePasses \/ SeatsResold

Next ==
    \/ \E p \in Proc : Start(p) \/ Continue(p) \/ Fault(p)
    \/ Environment

Spec == Init /\ [][Next]_vars

-----------------------------------------------------------------------------
(* Fairness.  The BEAM runs every process on; Oban's cron starts the sweep     *)
(* every five minutes (config/config.exs); Stripe settles what it processes;   *)
(* the deadline passes.  Nothing is assumed of the customer, of webhooks       *)
(* arriving or of the browser coming back.                                     *)

Fairness ==
    /\ WF_vars(TimePasses)
    /\ \A i \in Intents : WF_vars(Settle(i))
    /\ \A p \in Proc : WF_vars(Continue(p))
    /\ \A p \in Sweeps : WF_vars(ExpireBatch(p))

FairSpec == Spec /\ Fairness

-----------------------------------------------------------------------------
(* Safety. *)

\* Tickets and order change together: a cancelled or expired order holds no seat
\* back (do_cancel_ticket_order, do_expire_ticket_order), seats are confirmed only
\* for an order that has been completed, and a pending order has pending tickets.
SeatsFollowOrder ==
    /\ Order.status \in {"pending", "cancelled", "expired"} => Order.tickets = Order.status
    /\ Order.status = "completed" => Order.tickets # "cancelled"

\* A charge is in the ledger only once its order is completed and its tickets are
\* confirmed (do_process_ticket_order_payment completes first for this reason).
PaidMeansConfirmed ==
    \A i \in Intents : db.ledger[i] # Nil =>
        Order.status = "completed" /\ Order.tickets = "confirmed"

\* The payment attached to an order is one the ledger knows and Stripe captured.
AttachedPaymentIsRecorded ==
    Order.payment # Nil =>
        /\ db.ledger[Order.payment] # Nil
        /\ stripe[Order.payment] = "succeeded"

\* An order never leaves completed or cancelled, whatever arrives late; a late
\* success may complete an expired one (complete_ticket_order_if_pending).
DecidedOrdersStay ==
    [][/\ Order.status \in {"completed", "cancelled"} => Order'.status = Order.status
       /\ Order.status = "expired" => Order'.status \in {"expired", "completed"}]_vars

\* The intent a process has dealt with before it releases the order: the one it
\* refunded, or else the one in the struct it holds.
Settled(p) == IF arg[p] \in refunded THEN arg[p] ELSE seen[p].intent

\* Seats are released only after their intent can capture no more: whoever releases
\* the order has killed its intent, unless a checkout page has attached another one
\* since, and an intent once dead stays the released order's (CheckoutCancel).
ReleasedOrderCannotBeCharged ==
    [][/\ \A p \in Proc :
            Release(p) /\ Order'.status # Order.status /\ Order.intent = Settled(p)
              => Dead(Order.intent)
       /\ Order.status \in {"cancelled", "expired"} =>
            Order'.intent = Order.intent /\ (Dead(Order.intent) => Dead(Order.intent)')]_vars

\* An order that was fulfilled for a charge keeps that charge: it is not refunded
\* as unfulfilled (maybe_refund_unfulfilled_ticket_payment).
FulfilledChargeIsKept ==
    \A i \in Intents : db.ledger[i] # Nil => i \notin refunded

\* The order is charged at most once (retrieve_or_create_payment_intent cancels
\* an intent before it mints another), but for an intent that could not be read:
\* that one stays payable, and its charge may be neither booked nor refunded.
ChargedAtMostOnce ==
    \A i, j \in Intents \ unread : i # j =>
        ~ (/\ stripe[i] = "succeeded" /\ i \notin refunded
           /\ stripe[j] = "succeeded" /\ j \notin refunded)

\* A complimentary completion leaves no intent behind that can still capture
\* (process_free_ticket_order cancels at Stripe before it completes), unless a
\* checkout page has attached it since the confirmation read the order.
FreeOrderCannotBeCharged ==
    [][\A p \in Proc :
         CompleteFree(p) /\ Order'.status = "completed" /\ Order.intent = seen[p].intent
           => Dead(Order.intent)]_vars

\* A handler that ran to its end on a completed order whose attached intent was
\* captured leaves the charge in the ledger once nobody is working any more
\* (finalize_already_completed_ticket_order recovers what did not finish).
UnfinishedOrderIsRecovered ==
    \A p \in Deliveries \cup Returns :
        (/\ pc[p] = "error" /\ \A q \in Proc : pc[q] \in Resting
         /\ Order.status = "completed" /\ Order.intent = arg[p])
        => db.ledger[arg[p]] # Nil

-----------------------------------------------------------------------------
(* What it implements. *)

\* What has become of the charge that intent i is.
Charge(i) ==
    CASE db.ledger[i] # Nil -> "booked"
      [] db.ledger[i] = Nil /\ stripe[i] = "succeeded" -> "captured"
      [] db.ledger[i] = Nil /\ stripe[i] # "succeeded" -> "open"

Sale == INSTANCE SeatOrder WITH
    Charges <- Intents, seats <- db.order.tickets, charges <- [i \in Intents |-> Charge(i)]

\* Seats and charges move as SeatOrder promises: a seat that a cancellation gave up
\* is never sold, a charge is booked once, after its capture, with seats that are
\* sold (process_ticket_order_payment, cancel_ticket_order, expire_ticket_order).
SeatsSoldAsPromised == Sale!Spec

-----------------------------------------------------------------------------
(* Liveness. *)

\* A timed-out order does not hold its seats forever (TimeoutWorker).
TimedOutOrderSettles ==
    (timedOut /\ Order.status = "pending") ~> (Order.status # "pending")

\* Every captured charge ends in the ledger with its order fulfilled, or is
\* refunded, even if no webhook ever arrives (expire_after_stripe_reconcile).
ChargeIsResolved ==
    \A i \in Intents :
        (stripe[i] = "succeeded") ~> (db.ledger[i] # Nil \/ i \in refunded)
=============================================================================

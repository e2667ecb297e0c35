# Verification of ysc.org: tickets, webhooks and the browser

ysc.org is the Phoenix application of the Young Scandinavians Club. Its hardest code sells
things: a cart holds scarce seats for a while, Stripe captures money on its own schedule, and
browsers, webhooks, cron jobs and organisers all decide the same order at the same time. The
pages in front of it carry hooks of their own (`assets/js`), each a small concurrent program of
events, timers, promises and answers of a server that may be gone. This project models both, and
the inbox through which webhooks arrive, in TLA+, checks them with TLC on small instances and
proves their main invariants with TLAPS for every size.

    tlc -workers 2 -config MCTicketCheckout_page.cfg MCTicketCheckout
    tlc -workers 2 -config MCSitePages_pages.cfg MCSitePages
    tlapm TicketCheckoutProofs.tla

## 1. The system

Each part with the state it keeps, what changes it, what makes it hard and what makes it correct.

| Part | State | Operations | Hard behaviour | Correct when |
|---|---|---|---|---|
| Ticket orders (`lib/ysc/tickets.ex`, `tickets/stripe_service.ex`, `checkout_cancel.ex`) | order status, `payment_intent_id`, total, `payment_id`; status of its tickets | create, mint or reuse an intent, fulfil, finalise, complimentary completion, cancel, expire, refund a mismatch | many handlers, Stripe calls between database steps, stale structs, processes that die halfway | seats follow the order, a charge is booked only for confirmed seats, a released order cannot be charged |
| Ticket event handling (`tickets/webhook_handler.ex`, `stripe/webhook_handler.ex`) | none of its own | handle succeeded, failed, canceled events, in one transaction | late, repeated or missing deliveries; failures are acknowledged | the same as above |
| Timeouts (`tickets/timeout_worker.ex`) | Oban jobs, cron every five minutes | expire one order (FOR UPDATE NOWAIT), expire a batch (SKIP LOCKED) | the timeout finds a charge captured or processing | a timed-out cart settles and no charge is left unresolved |
| Checkout pages (`event_details_live.ex`, `payment_success_live.ex`, `user_tickets_live.ex`) | the struct in the LiveView | see the operations of an order | several tabs; what they hold goes stale | one charge per order |
| Ticket inventory (`tickets/booking_locker.ex`) | tickets of all orders, tier quantities, event limit | check out, complete late | counts at READ COMMITTED without a lock | capacity, per tier and event |
| Ticket reservations (`events.ex`, reservation expiry worker) | holds: active, fulfilled, cancelled, and a deadline | create, use, split, cancel, expire | an admin, a checkout and the expiry job race | each hold is decided once and covers its order only |
| Admin grants (`tickets/admin_grants.ex`) | orders | grant, cancel open carts | no advisory lock | as inventory |
| Cabin bookings (`bookings/booking_locker.ex`, hold expiry workers) | nights per room, bookings, modification holds | hold, confirm, modify, cancel, expire | optimistic locks, expiry racing a payment | no night is booked twice |
| Webhook inbox (`webhooks.ex`, `stripe/webhook_handler.ex`, reconciliation and retry workers) | `webhook_events` rows: pending, processing, processed, failed | store, claim, handle in a transaction, mark failed, reconcile, retry | duplicate and missing deliveries, processes that die with a claimed row, nightly workers with stale lists | a row is claimed by one process, what an event does is done once, every event is processed in the end |
| QuickBooks payment events (controller, handler, job worker) | the same rows; Oban jobs with up to three attempts | store, enqueue, attempt, settle | attempts that fail or die, a job that is never enqueued | a claim ends, a job ends |
| Reprocessing by the operator (`webhooks/reprocessor.ex`) | the same rows | reset, replay | no claim | as the inbox |
| Stripe handlers (`stripe/webhook_handler.ex`) | mirrors of Stripe objects | handle an event | order of events | mirrors converge |
| Ledgers (`ledgers.ex`) | payments, entries, refunds, payouts | record, refund, pay out | repeated events | double entry balances, one payment per charge |
| QuickBooks sync | sync status per ledger row | export | remote calls that half succeed | one export per row |
| Subscriptions | mirrored subscriptions | webhooks, expiry | order of events | one current membership |
| Accounts, invites, codes | users, invites, codes | register, invite, verify | single use | a code or an invite is used once |
| Rate limiters, caches | counters in ETS; versioned entries | count; fill and invalidate | concurrent refills, several nodes | limits hold; no stale entry outlives its version |
| Messages and newsletter | idempotency rows | send | provider fails after accepting | a message is sent once |
| Merch and Printful | orders | order, fulfil, expire | as tickets | as tickets |
| Payment form (`stripe_elements.js`, `event_details_live.ex`, `countdown.js`) | fields of the hook, runs of `handleSubmit`, assigns of the LiveView | mount, take up an intent, click Pay, confirm, redirect, reprice, expire, rejoin | awaits, each of which may outlive the form it began in; a lost socket, lost replies | the intent confirmed is the form's own and its details are saved; one confirmation per form; every click ends |
| Ticket selection (`ticket_checkout.js`) | optimistic quantities, the pending tier | plus and minus, answer, refusal, patch, availability broadcast | patches that are not the answer | what is bought is what the tab shows |
| Passkeys (`passkey_auth.js`, login, reauthentication and registration LiveViews) | the challenge, the prompt, the button | ask, prompt, abort, answer, verify, rejoin | prompts that are overtaken, aborted or cut off | only the newest ceremony counts, the button comes back |
| Bot check (`phoenix_turnstile.js`, `guest_turnstile.ex`) | token, held submit, timers | load, submit, hold, release, refresh, verify | tokens that age, are spent or never come | a token is sent once, a held submit leaves |
| Sheets (`modal_sheet.js`, `swipe_sheet.js`, `spring.js`) | gesture, springs, timers, inline styles | drag, release, open, close, recheck | springs and timers of earlier gestures | a pull closes the modal it pulled; a surface comes to rest |
| Socket (`app.js`) | probe, timers, the socket | hide, show, probe, replace | a socket that looks open and is dead | it is replaced |
| Venue editor (`radar.js`, `radar_location_autocomplete.js`, `map_component.ex`, `admin_events_new.ex`) | map, pin, pending marker, retries, searches | click, look up, search, choose, rebuild | answers out of order, a lost WebGL context | the pin is where the form says, the list answers the newest search |
| Check-in desk (`event_checkin_keyboard.js`, `admin_event_check_in_live.ex`, `scanning.ex`) | rows and count in the assigns, rows on the page | key, search, check in, undo, reload | broadcasts of several desks, its own included | the list shows who is missing and the count is true |
| Scanner (`qr_scanner.js`, `admin_scanner_live.ex`) | the camera and the promises of its library | start, stop, destroy | destroyed between two awaits | the camera goes off with the hook |
| Post editor (`trix_hook.js`, `admin_post_editor.ex`, `posts.ex`) | texts, debounced closures, the row | edit, attach, save, create | closures that replace each other, copies that are old | the last edit is saved |
| Media library (infinite scroll hooks, `year_scrubber.js`, `admin_media_live.ex`) | cursor, cooldown, timers | scroll, load, jump to a year | an answer within the cooldown, a full page | the list goes on as the reader nears its end |
| History page (`timeline_filter.js`) | classes, styles and timers of items and decades | filter, fade | filters that change under a fade | what rests is what the filter asks for |
| Carousel (`image_carousel_autoplay.js`) | interval, restart timers | slide, hover, focus, click | several restarts at once | it rests under hands and goes on after |
| Expense reports, query console, other content, user interface | rows behind forms | CRUD | little shared | - |

How they interact. A checkout page calls `Tickets.create_ticket_order`, which takes an advisory
lock for the member, supersedes the member's older carts (each is cancelled at Stripe first) and
lets BookingLocker count, use holds and insert. The page then asks StripeService for an intent,
writes its id to the order and hands the client secret to the browser. From there on Stripe
decides when money moves. The succeeded event, the browser's return, the timeout job, a
cancellation that finds the money captured: each leads to `process_successful_payment`, which
completes the order, confirms its tickets, books the charge in the ledger and attaches it. Stripe
is the arbiter between giving a cart up and paying it: `CheckoutCancel` cancels the intent before
any seat is released, and takes the refusal to cancel as the answer that the customer has paid.

Every Stripe event goes through the webhook inbox first: it is stored, claimed by moving its row from
pending to processing, and handled in one transaction with the move to processed. The deliveries that
TicketCheckout starts with `Deliver` are such handler runs.

A page is a LiveView process and a browser tab, joined by two ordered channels: events go up,
diffs and replies come down. A hook is told of a patch by `updated()`, keeps what it has learnt in
fields of its own, and goes on after every `await` whether or not the page still holds it. When the
socket is lost, what is on it is lost, and a new LiveView process takes the page over. Other users
reach a LiveView by broadcasts in its mailbox.

PROJECT.json lists every part with its status, and under `hazards` the places where this code is
hard to test, with the property that watches each.

## 2. The modules

`TicketCheckout` is one order. `TicketInventory` is one event; its counts are sums defined in `Totals`. Each abstracts what the other
details: TicketCheckout has one flag for "the released seats are still free" (`room`), and
TicketInventory lets a cart be paid, cancelled or expired at any time. Each has an MC module and
a proof module. `SeatOrder` is the abstract specification that TicketCheckout implements.
`WebhookInbox` is what comes before both: it takes a handler run as one step. `CheckoutTab` is the
buyer's tab, composed of `TicketSelection` and `CheckoutPage`; `SitePages` composes twelve modules
for parts of other pages.

### TicketCheckout

| Variable | In the program |
|---|---|
| `db.order`, `db.ledger` | the committed `ticket_orders` row with the common status of its tickets; ledger payments by intent |
| `locked` | the transaction that holds the order's row lock |
| `stripe`, `refunded`, `shown` | the PaymentIntents, those refunded in full, those whose secret a browser has |
| `price`, `timedOut`, `room` | the total at current tier prices, whether `expires_at` has passed, whether the released seats are free |
| `pc`, `task`, `arg`, `seen` | of each process: its next step, what it was started for, its intent, and the struct it has loaded |
| `unread` | history: intents that a page could not read at Stripe, and replaced without cancelling them |

A step of a process is one thing that the database or Stripe sees as one: a SELECT, a conditional
UPDATE, a Stripe call. The order row and its preloaded tickets are two SELECTs, so two steps.
Webhook deliveries and timeout jobs run in a transaction: their first write takes the row lock and
their writes appear at the end; in between a process sees its own total (`View`). Everybody else
commits each write by itself. `Commit`, `Rollback` and `Fail` are the three ways a handler ends.

Entry points: `Deliver`, `ReturnFromStripe`, `RedirectFailed`, `CancelOrder`, `OpenCheckout`,
`ConfirmFree`, `ExpireSpecific`, `ExpireBatch`. They lead into three sequences of steps: fulfilment
(`SyncPricing` ... `AttachPayment`, with `RefundMismatch`), abandonment (`Abandon`, `Release`) and
minting (`QuoteCheckout` ... `BindIntent`, in which `RetrieveIntent` keeps the order's intent, has it
cancelled first, or, when Stripe's answer is an error, mints another beside it); the complimentary completion is `Abandon`,
`CompleteFree`, `ConfirmFreeTickets`. The world: `Confirm`, `Settle` (Stripe), `ChangePrice`,
`TimePasses`, `SeatsResold`, and `Fault`, which kills a process between any two of its steps or
fails its Stripe call.

What is abstracted. All tickets of an order change together, so they have one status. An intent
is named by its amount, because the idempotency key is order reference and amount and Stripe
returns the same intent for the same key. Amounts are small numbers. Checks that no race affects
(metadata, ownership, membership) are left out. A door sale's late success skips the capacity check;
`room` covers both outcomes. An expired order's nested capacity transaction, when it fails, rolls
back the caller's.

`SeatOrder` says in four actions what all of this promises: seats are held, then sold or given up; seats
that a timeout gave up may still be sold, those that a cancellation gave up never; a charge is
captured, then booked once, together with or after the sale. The refinement maps its `seats` to the status
of the tickets and each of its `charges` to the ledger and the intent's status. Refunds are left out of it:
`torn_read` (section 5) refunds what was booked.

### TicketInventory

| Variable | In the program |
|---|---|
| `orders` | the committed orders with their seats per tier (the order of checkout b is `orders[b]`) |
| `holds`, `lapsed` | `ticket_reservations`, in the order of `inserted_at`, and those past `expires_at` |
| `pc`, `ask`, `seen`, `plan` | of each checkout: its next step, buyer and selection, the counts it has read, the seats it takes from each hold |
| `supersede` | carts it has cancelled and not yet committed: it holds their rows |
| `stale`, `beyond`, `spared` | history: checkouts whose counts are outdated; the ways seats were taken beyond a count; open carts that a checkout went past without cancelling them |

A checkout is one transaction at READ COMMITTED, so every SELECT has its own snapshot and is a
step: `RequestSeats`, `LockCheckout`, `Prepare`, `CountSold`, `CountHeld`, `CheckEvent`,
`PlanHolds`, `Book`. `Book` does all the writes, which become visible with the commit: the order
with its tickets, the superseded carts, and the holds used, with the remainder of one that was
split. `Prepare` asks Stripe twice about each open cart of the member, whether it may be cancelled and
then whether it blocks; a payment that fails between the two answers leaves a cart that is neither, so
the checkout may go on past any set of them. `PayLate` and `CompleteLate` are a success that arrives after the timeout, which counts again
in a transaction of its own. `Pay`, `Cancel`, `Expire` wait for a row that a checkout has
superseded. `CreateHold`, `Lapse`, `CancelHold`, `ExpireHold` are the admin's and the job's.

What is abstracted. Donation tiers never count. Sale windows, publication and membership do not
touch the counts. Prices belong to the other module.

`beyond` is a history variable. Nothing in the code locks a tier, so a plain "never oversold" is
false (section 5); what is true, and worth knowing, is that seats are never taken beyond a count
for any other reason than the ones it names.

### WebhookInbox

| Variable | In the program |
|---|---|
| `row`, `holder` | the state of an event's `webhook_events` row, and the transaction that holds its lock |
| `sent`, `kept`, `stuck` | time: the event's age (5 minutes, 24 hours), the row's age (5 minutes, 7 days), an hour in `processing` |
| `job`, `tries` | the Oban job of a QuickBooks event with its attempts |
| `pc`, `at`, `seen`, `batch` | of each process: its next step, its event, the state in the struct it holds, the structs a nightly worker has listed |
| `handled`, `missed` | history: committed handler runs; events that were marked processed though no clause of the handler took them |

The processes are HTTP requests of Stripe, Oban workers, the retry and the reconciliation. `Create`,
`CheckDuplicate`, `Lock`, `Flip` store and claim; the SELECT FOR UPDATE SKIP LOCKED and the update are two
steps of one transaction. `Open`, `Handle`, `HandlerRaises`, `MarkFailed` are `process_webhook_event`.
`ListStripe` and `Reconcile`, `ListRetries`, `Retry` and `Parse` are the nightly workers; a retry resets a
row on the struct it listed, by primary key. The event that the retry rebuilds has a plain map where Stripe's
library has a struct, so what it replays of a type in `StructOnly` (those whose clause matches a struct)
falls through to the last clause and does nothing (`Unmatched`). `Notify`, `Enqueue`, `Attempt`, `HandleBill`, `BillFails`,
`Refuse`, `Settle` are the controller, its Task and the job. The world: `EventAges`, `Ripen`, `Expire`,
`GetStuck` (time), `LoseTask`, `Crash` and `Rescue` (Oban's lifeline).

What is abstracted. A handler run is one step. A handler that returns an error is a handler that
returns: the row becomes processed either way. The batch of 100 rows and the paging of
Stripe's list are not limits here. Two assumptions: a row has been in processing for an hour only
when whoever claimed it is gone (`GetStuck`; every call a handler makes times out in seconds), and each
nightly worker runs once at a time (a day lies between two runs). The operator's mix task, which
resets rows without a claim, is not part of the model; the invariants would not hold next to it.

### CheckoutPage, TicketSelection, CheckoutTab

| Variable | In the program |
|---|---|
| `lv` | assigns of the LiveView and what it has sent to itself: modal open, intent shown, element ready, redirecting, mint pending |
| `up`, `down`, `connected` | pushes, diffs and replies under way; the channel |
| `order`, `saved`, `price`, `stripe` | the order's row, whether the attendees are saved or an attempt has failed, the total, the intents |
| `page`, `script`, `form` | the tab: the intent in the DOM, the life of the hook that is mounted; the Stripe script; the fields of each life |
| `run` | each `handleSubmit`: what it awaits, for which form and intent |
| `chosen`, `room`, `dom`, `hook`, `clicks`, `answers` (TicketSelection) | the quantities the LiveView holds, what it lets the buyer choose, the patched page, the optimistic quantities of the hook with the tier that awaits an answer, and what is under way |

`InitializeStripe` and `handleSubmit` are cut at each `await`. A form that is destroyed leaves its
fields behind, and a run that began in it goes on with them. `Accepts`, `Submit`, `ReceiveReply`,
`ReplyTimesOut`, `ConfirmPayment`, `PaymentAccepted` follow a click; `RefreshIntent`, `RemountModal`,
`Restore`, `CheckoutExpired`, `ClosePaymentModal`, `Drop`, `Rejoin`, `LoseContent` are what happens to the form
meanwhile. `PersistAttendees` may fail, which the answer to the browser does not tell; `MintUnread` is an intent
made because the last one could not be read, which leaves that one open.
The price only rises; an intent is named by its amount, as in TicketCheckout. `CheckoutTab` runs the
selection until the buyer goes on to the payment, then the form.

### SitePages

Twelve parts that share nothing. A behaviour of `SitePages` is about one of them (`part`), and the
others stand still: the state space is a sum and not a product, and each part has its own fairness.

- `PasskeyAuth`: a ceremony is one challenge with its prompt, numbered in order. `ceremony` says where
  its prompt stands, `lv` what the server waits for, `asks` and `diffs` what is under way. That a
  credential is genuine is one step.
- `BotCheck`: `token`, `issued`, `sent`, `held`, `timer`, `due` are the hook's fields, `spent` is
  Cloudflare's memory, `net` and `refresh` what is under way. A released submit is sent in the next
  tick, so it has a step of its own.
- `ModalSheet`, `SwipeSheet`: positions are "rest", "between" and "off"; a spring or a timer is a
  name, because the hook remembers only the newest one of each and others may still run. The menu's
  class changes land on a later frame (`landing`), which the hook waits for; a wait that another gesture has
overtaken still comes to its end (`strays`).
- `SocketProbe`: `wire` tells a dead socket that still says it is open from a closed one. That
  Phoenix reconnects after a close event is external.
- `VenueMap`, `VenueSearch`: a place is a number, so that a lookup, a marker and a form can be
  compared. Queries are numbers too, 0 is too short to be looked up.
- `CheckInDesk`: the database (`checked`), the broadcasts, the assigns (`desk`), the rows on the page
  (`tab`) and the keys on their way. Another desk changes a ticket (`OtherCommits`), or writes from a row it read
earlier what the ticket is already and broadcasts it again (`OtherRepeats`). A key names a position, so it is resolved on the page. `Kept` is the
  filter of a list, as a recursive function, so that it can be reasoned about.
- `QrScanner`: each life of the hook with the await it stands in; a camera belongs to a life.
- `PostEditor`: title and body are edit numbers; `delayed` is the debouncer with one closure per key.
- `MediaGallery`: a page of images is a year, the reader's place is a year. Cooldown, frame and
  recheck are the hook's clocks; `bar` is the year scrubber.
- `HistoryTimeline`: the state of every item and decade with the timers that are set on it.
- `ImageCarousel`: the interval and the number of restarts that are pending. Whether focus is visible
  is decided when it arrives, and the preference for reduced motion is fixed for a page's life.

Delays are not timed: a timer that is set may fire at any later moment, so the properties do not
depend on how long a fade, a cooldown or a debounce is. The exception is named where it matters: the
gallery's recheck outlasts its cooldown, as 450 ms do 400.

History variables (`raced`, `strayed`, `waitedOn`, `again`, `crossed`, `readAhead`, `crowded`,
`taken`, `twice`, `mishap`) mark the cases in which the code gives up what a property says. They make the
property exact: it holds in every other case, and section 5 lists what the cases are.

## 3. The runs

Each passing run explores its instance completely. The expected results are in PROJECT.json.

| Run | Who takes part | Bounds | Question |
|---|---|---|---|
| timeout | a delivery, a return, a complimentary confirmation, a timeout job | prices 0 and 1, one fault, one price change, one decline | Whoever wins, and whoever dies halfway: is a charge booked only for confirmed seats, and can a complimentary order not be charged? Do seats and charges move as SeatOrder promises? |
| page | a checkout page, a delivery, a failure redirect | prices 1 and 2, two price changes, one fault or unreadable intent, one decline | With the price changing while intents are minted: is the order charged once but for an intent that could not be read, do the seats follow the order, and does whoever releases it leave no intent alive that it could know of? |
| liveness | a return, a cancellation, the sweep; no webhook | prices 1 and 2, one price change, one decline | Does a timed-out cart settle, is every charge resolved? |
| holds | two members, two checkouts, two holds of up to two seats | a tier of two seats | Is a hold decided once, does it cover its order, does a superseded cart stay as it was decided, is the tier kept? |
| event | two members, three web checkouts, one hold | event limit one | Is the event's limit kept, has a member one cart beside those that a checkout went past? |
| inbox | a Stripe event that can be replayed as it is, or one whose handler wants structs, with delivery, reconciliation and retry; a QuickBooks event with one worker and retry | one delivery at a time, one failure, two crashes | Is a row claimed by one process at a time, is a Stripe event handled once, and in the end, or else marked by the retry and not handled, and never both? Does a claim end when its process has died, and does a job end? |
| browser | a buyer's tab with two clicks on Pay, the LiveView, Stripe | two tiers of up to two tickets, one broadcast and one lost connection while choosing, two prices, one fault, two unread messages | Is what is bought what the tab showed? Is the intent that is confirmed the one the mounted form was made for, after an attempt to save the details, and once per form? Does every click end? |
| pages | each of the twelve parts, with one other user or server where it has one | see below | Does a page at rest show what it was told last? Are tokens and challenges used once? Does every wait, gesture and camera end? |
| torn_read, lost_recovery, oversold, lost_title | the two or three that are needed | | See section 5. |

Why the bounds are enough. The interesting cases need two deciders and one event from the
world, and the runs have three or four deciders. Two prices are enough for a mismatch, and 0 is
there because a torn read and a complimentary order are both priced at 0. Two price changes take
the price away and back, which revives an older intent's key. One fault puts a crash between any
two steps of any handler, with the others left to recover. Two holds of two seats give every
split, and two checkouts of one member every supersession; in `event` a third booking is another member's next to two of one. Door sales, which skip the
event's limit and the tier's, take part in no run (they are no more than a booking without its checks, and
enlarge the instance beyond what can be explored), but in every theorem about the inventory. In the inbox events
share no row, so `inbox` explores one event at a time from three initial states, a Stripe event of each kind
and a QuickBooks event, each with the others handled long ago (`HalfwayInit`). A delivery, the reconciliation and
the retry are three processes after one row, each of which claims it in its own way; more deliveries at once are
in the theorems only. A failure and two crashes use up the three attempts of a job.

In `browser` a fault is a lost connection, a re-entry of `handle_params` under an open modal, a
frame of Stripe's that vanishes, an intent that cannot be read, details or a release that fail while the
modal is open, or a modal closed by hand: one of them at any point. Two clicks give every overlap of two
handlers, two prices every change of the intent under a form.

The bounds of `pages` are per part. Passkeys: three ceremonies (an old, a current and one of a page
that rejoined), one fault. Bot check: three tokens and three submits, so one spent, one stale, one
fresh. Modal: three touches, one reopening, one recheck; menu: three grabs, two presses, two frames of
the ten the hook waits (what counts is whether the change lands before or after the last).
Socket: three times hidden, two drops. Venue: three places, one attempt of twenty, one rebuild of
three, two losses, two searches. Desk: three tickets in two orders and any three of: a change by another desk, a repetition of one, a key or a
search, a lost connection. That is what each exception takes (a change that is broadcast again to a desk that searches
for something else, two changes whose broadcasts cross). Scanner: two sessions, two failures. Editor: two edits and one mishap: two closures of one key
replace each other. Timeline: three items with shared tags in two decades, two fades of one item.
Carousel: three slides, four pending restarts. Gallery: two pages, one jump, one reconnection.

Every bound is a constant: `MaxFaults`, `MaxMoves`, `MaxReprices`, `MaxDeclines`, `MaxRequest`, `MaxHolds`,
`MaxHeld`, `MaxFailures`. Symmetry is used for members and for bookings that are no door sales: they are
interchangeable in the module and in each property. The runs with liveness properties use none.

`CHECK_DEADLOCK FALSE` everywhere: an order that is decided, with every handler done, is the
end of a run, as is an event whose checkouts have all returned, or a webhook row that is processed, a tab that was left, a page at rest.

Fairness (`FairSpec`). `WF(Continue(p))`: the BEAM schedules every process, and a handler that has
started goes on. `WF(ExpireBatch(p))`: Oban's cron starts the sweep every five minutes
(`config/config.exs`). `WF(Settle(i))`: Stripe settles what it processes. `WF(TimePasses)`: the
deadline passes. Nothing is assumed of customers, of browsers coming back or of webhooks arriving;
the liveness run has no delivery at all. It has no faults either, since with unlimited ones nothing
would follow.

In `WebhookInbox` the same holds for processes that have started (`Step`), the cron jobs (`Reconciling`,
`Retrying`), Oban's queue with its lifeline (`Queueing`) and the passing of time until a row is old
enough (`Passing`). Not for the ends of the windows (`EventAges`, `Expire`), deliveries, failures or crashes. Each crash is bounded, so
what the run shows is: after the last one everything recovers.

In `CheckoutPage` a click that has begun goes on: its timers fire, its awaits resume and its call to
Stripe comes back. Nothing is assumed of the LiveView or the socket. In `SitePages`, for each part
alone: timers, springs and frames run, a finger is lifted, a prompt ends (`navigator.credentials` rejects when its timeout is
over), a mailbox is served, Phoenix reconnects, a promise of the camera's library settles. Nothing is
assumed of Cloudflare, of Radar, of visitors or of other desks.

Every property of a passing run has a mutant: a plausible bug, written next to the definition it
would replace as a "faulty variant" or "Variant", which violates that property. A few properties
are conjunctions of named halves about one theme (`WaitingEnds`, `GestureEnds`, `DeskIsTrue`,
`ConfirmsItsIntent`, `NothingStaysTaken`); the halves say what is checked.

## 4. What is proved

Every invariant of a passing run is a theorem here for all values of the constants, and every module is
checked to the last leaf.

`TicketCheckoutProofs`, for any number of processes of each kind, any set of prices and any bounds,
from `PricesAssumption` and `NamesAssumption`:

- `TypeCorrect`, `SeatsAlwaysFollow`, `PaidAlwaysConfirmed`, `AttachedAlwaysRecorded`: the
  invariants TypeOK, SeatsFollowOrder, PaidMeansConfirmed and AttachedPaymentIsRecorded.
- `DecidedAlwaysStay`: the action property DecidedOrdersStay, which no run repeats.

The invariants are not inductive: a process about to write relies on what it saw earlier. The
inductive invariant `IInv` says what that reliance is.

- `Consistent`: the rows agree with each other and with Stripe.
- `Relies`: a struct that says completed is right for good; a process about to confirm tickets has
  a completed order, and one about to book or attach has confirmed tickets too.
- `Charges`: a process fulfils only for a captured intent, attaches only what is booked, binds
  only what was minted.

Both survive the other processes because rows only advance (`Advances`: completed stays completed,
confirmed stays confirmed, what is booked stays booked) and a captured charge stays captured.
That is the rely-guarantee argument of `StepLemma`: a step of one process has to keep the rows
consistent, advance them and establish the reliance at its own next label. The lemmas on the row
operators show the first two for `Released`, `Completed`, `Confirmed`, `Recorded` and `Attached`,
and one lemma per action shows the rest.

The second half of that module is about the intents.

- `OnePageChargesOnce`: ChargedAtMostOnce, when the checkout page runs at most once (`AtMostOnePage`; a run
  of the page does nothing else, `PagesAssumption`). The hypothesis is not for convenience: with two pages across a
  price change two intents are captured (section 5). The property itself leaves out intents that a page could not
  read and replaced all the same (`unread`).
- `ReleasedNeverCharged`, `FreeNeverCharged`: ReleasedOrderCannotBeCharged and FreeOrderCannotBeCharged, for any
  number of pages and without a hypothesis. Both are action properties about the step that releases the order or gives it
  away: the order's intent is dead by then, if it is the one that the releaser knew of. It is another one where a page has
  bound one since (section 5). A released order keeps its intent, and a dead one stays dead.

The first rests on `PageInv`. Until the page has minted, the order has one intent, and every struct that
a process carries has that one (`OneIntent`); so a process that has cancelled the intent of its struct, or seen it
dead, has seen the only one die, and may mint another. After that the one readable intent that is not
dead is what the page has minted (`OneLive`). `Tame` is what all other steps have in common: they bind nothing and
revive nothing. The other two rest on `Dealt` (`DealtInvariance`): at the label before a release or a complimentary
completion the intent of the process's struct is dead, because it came there from `Abandon`, and no step
revives an intent (`DeadStays`) or exchanges that of a decided order (`IntentStays`).

`TicketCheckoutRefinement`, from the same assumptions: `ImplementsSeatOrder`, that TicketCheckout implements
SeatOrder. Most steps are `Quiet`; the lemmas on the row operators say which of them
sells, gives up or books, and one lemma per action composes them. The invariant is needed where a process
confirms or books: its reliance says that the seats were not given up and the charge was captured.

`TicketInventoryProofs`, for any number of members, checkouts, tiers and holds, from
`BoundsAssumption`:

- `OneCartPerBuyer`: a member never has two open carts, beside those that a checkout found in flight and a moment
  later not (`spared`).
- `SettledAlwaysStay`: a cart that was paid or given up stays so, also against a checkout that
  has superseded it.
- `HoldsDecidedOnce`: a hold is used or cancelled once.

Here the inductive invariant is about the two locks. `OneCheckoutPerBuyer` is the advisory lock.
`CheckoutSupersedesAll` says that from the moment a checkout has superseded its member's carts
until it commits, those and the spared ones are exactly the open carts of the member: the row locks keep them
pending and the advisory lock keeps others from appearing. So at the commit its own cart
replaces all of them but the spared ones, and none that was paid is cancelled.

Its second half goes on with the seats, from the module's assumptions, `FiniteAssumption` (finitely many
orders and tiers; the holds are numbered) among them:

- `InventoryTypeCorrect`: the type invariant, for which a sum over rows has to be a number.
- `HoldsAlwaysBackTheirOrder`: through splits, lapses and late payments an order uses no more of its
  buyer's holds than it has seats.
- `TierNeverOversoldOtherwise`, `EventNeverOversoldOtherwise`: capacity is exceeded only in the ways that
  `beyond` names.

What a checkout has counted is old when it books. The inductive invariant `SeatsInv` says what is left of it:
a checkout that nobody has outdated (`stale`) fits beside what is sold and held by others now
(`RoomInTier`, `RoomInEvent`), since in the meantime that can only have shrunk. Its buyer's own holds are the
difficult half. They count as room, so the order may only be larger than the free seats by what it
takes from them: `PlanCovers` says that the plan takes all that these holds have or all that the order needs as
long as they are active, and `PlanFits` that it never takes more than either. When one of them lapses
between plan and booking, the plan does not apply any more, but neither do the seats it held.

`TotalsProofs` has the lemmas on sums those proofs need. `Totals` defines the total of a column over a
set of rows, as SUM and COUNT do, by the fold of the community modules, which computes with `CHOOSE` on a recursive
function. No induction theorem of the library can be used here, so the lemmas argue by a
least counterexample (`NoException`): a fold exists for every finite set, and any two that
pick the rows in different orders agree. From that: the total of the
empty set, of a set with one more row, of a union, of a part, of renamed rows, and that totals are
numbers and monotonic.

`WebhookInboxProofs`, for any number of events, deliveries and workers, any number of failures and
crashes, from `EventsAssumption`, `ProcsAssumption` and `BoundsAssumption`: `TypeCorrect`, `ClaimedAlwaysByOne`,
`HandledAlwaysOnce`. A claim starts from a pending row under its lock, so it would be enough that
nobody makes a claimed row pending again. `HandledAlwaysOnce` excepts by name what the retry replays to a handler
that wants structs: such an event is marked and not handled, and it is shown that nothing else is. The retry does exactly that, with a struct that is minutes
old. The inductive invariant says why it is safe: a row it has listed as failed cannot be claimed
because a claim needs a pending row, and one that it has listed as stuck has no living process, so
either stays as it was listed until the retry itself comes to it. A QuickBooks row, whose
worker writes from a struct as well, has one job and hence one worker.

`CheckoutTabProofs`, the buyer's tab, for any number of clicks, forms, prices, tiers, messages under way and faults:

- `PageTypeCorrect`, `ChargeFollowsSaveAttempt`, `FormConfirmsOnce`, `ChargesWhatItReports`: the type invariant, SaveTriedBeforeCharge,
  OneConfirmationPerForm and ConfirmsItsIntent of CheckoutPage.
- `TabPays`: the tab implements the payment page, so what is proved of the page holds in the tab.
- `ShowsWhatIsSold`, `TabTypeCorrect`: SelectionIsWhatIsSold of TicketSelection, and the types of
  the whole.

On the payment side the invariant is about what outlives an `await`. A form with an element was built from one
secret and awaits none (`FormsHold`). A click that is past the guard has raised its form's flag,
which stays up until the confirmation is over (`RunsHold`), so that no second one gets past (`Alone`). And a
reply under way means that the page has tried to save the attendees (`RepliesFollowSave`); that they are saved
is not true (section 5). The forms are a sequence
that grows with each mount, so nothing bounds how many a tab may have had. On the selection side `SelectionInv` describes the channel: a hook that waits
has one question out, or one answer that decides it, behind patches of others and before broadcasts that say what is already
true; a hook that waits for nothing shows what is sold.

`SitePagesProofs` has one section per part of the pages, each for any size of what is shown and
any number of timers or answers on their way:

- `TokenAlwaysSentOnce`. A released submit is sent a tick later without another
  look at the token. It is safe because a held submit has emptied the form (`FormHolds`), so while
  one is due the token, if any, came afterwards and nobody has sent it (`DueIsFresh`). That fails
  only when the visitor submits in the very tick; `raced` names that case.
- `ListAlwaysAnswersNewest`. The number of a lookup says which text it was made
  for only if it is the newest, and that is all an answer is asked.
- `TimelineAlwaysShowsFilter`. What an item still moves towards is what the
  filter asks for: a filter clears the timer of whatever it wants again, and a hidden item is gone or
  has a timer that takes it away.
- `CarouselAlwaysRests`. Whatever stops the interval sets a timer or waits for
  a pointer or focus that goes, and both end in `startAutoplay`, which looks at all three again.
- `OnlyTheLatestCeremonyIsAccepted`, an action property. A prompt tells its end once
  (`EndsAreTold`), a challenge opens one prompt (`ChallengesAreNew`), and a ceremony that is past, and whose
  challenge the server still has, has told its end already (`PastIsTold`).
- `PullAlwaysCancelsItsModal`. Springs cannot be stopped once started, so it takes that the one which carries the sheet off is
  the newest and of this round, and that there is one check at most (`OneDismissal`).
- `GalleryAlwaysKeepsUp`. Whoever stands before an end that is not the last waits for a frame, a second look or a
  patch (`EndIsAwaited`), which has to survive the cooldown (`CooldownIsAwaited`) and a lost connection.
- `PinAlwaysFollowsPlace`. The last marker under way is the stored place (`MarkersFollow`), and when none is, the hook has it, on
  the map or pending for a map that is being built (`PlaceArrived`).
- `LastEditIsAlwaysSaved`. The field sent last is in the last of the events under way, or else in the closure
  that the debouncer keeps, or else in the row (`LastEditIsKept`). It rests on there being one post (`OnePost`), which is why
  two posts made at once are an exception.

`CheckInDeskProofs`, for any list of tickets, any orders, any search and any number of other desks, keys
and lost connections, from `DeskTickets` (the list is of the tickets of the event, each once, as ids
are unique): `DeskIsAlwaysTrue`. The list and the count are kept by adding and taking away, so the invariant
has to say what they stand for while messages are still under way.

- `RowsAgree`: the desk lists no row twice and none that it does not hold for pending, and holds whatever its
  search finds. The rows that a filter keeps are computed by recursion along the list, so what they are is
  proved by a least counterexample (`NoLeast`, `KeptAre`).
- `PageFollowsDesk`: the last patch under way, or the page when there is none, is what the desk holds.
- `LastWordIsTrue`: what is said of a ticket last, still with its sender or in the mailbox, is what the
  database says; where nothing is to be said any more, the desk knows it. Only a broadcast that overtakes an
  earlier one (`crossed`) breaks it.
- `CountFollows`: the count is that of some set of tickets. What the desk holds belongs to it as the desk knows
  it, and any other ticket as it was before the first thing that the desk has still to be told (`Counted`).
  A read of the database in between, or a repeated broadcast of a ticket that the desk does not hold (`readAhead`),
breaks it, and is the exception that `CountIsTrue` names. A repeated broadcast of a ticket that it does hold
changes nothing, because the desk looks at the row first.

`SitePagesProofs` ends with the composition. `SiteIsItsParts`: what SitePages does, seen through the variables of one
part, is what that part does by itself. So what is proved of each part holds of the whole (`SiteIsSafe`).

`SiteTypeCorrect` is the type invariant of the whole, `SiteTypeOK`. It says more than that variables have types: it bounds
counters, keeps indices within their sequences and the places of a list within the list. Where a bound is on how often
something happened, the invariant has to count what is still under way, which is done with the positions of a queue
that hold an element of a set (`PositionsOf`, `PositionAdded`, `PositionTaken`, `QueueMoves`).

- Bot check: the submits that are held, due, refreshed or on their way are no more than the visitor made (`BotCounts`).
- Passkeys: the last challenge and the clicks that the server has still to answer add up to no more than the
  ceremonies there can be (`WithinCeremonies`).
- Modal: springs and timers carry names that have been given (`SheetNames`). Menu, carousel, history, socket
  and scanner need only what their steps write.
- Venue: a marker is tried again fewer times than before and the map is rebuilt a bounded number of times (`MapKinds`).
- Post editor: a closure in the debouncer and a notice to the page are about a post that there is (`Waiting`, `News`),
  and a closure has the key of a post only if the page has one.
- Gallery: each page under way continues the list that the one before it leaves, and the last one leaves what the
  server browses (`Chain`, `GalleryViews`), so what the page shows grows by a stretch of years that follow each other. The scrubber's
  timers, asks and resets add up to no more than the jumps made (`WithinJumps`).
- Desk: from its invariant (`DeskInvTypes`).

Only model-checked. Liveness under fairness and what needs ENABLED are out of the prover's reach: that is
all properties with `~>`. `FulfilledChargeIsKept`, `UnfinishedOrderIsRecovered`, `CapacityNeverExceeded`
and `WorkIsSaved` are violated (section 5).

## 5. Where code and intent differ

The first four are runs that TLC must find violated, and findings in PROJECT.json.

- `torn_read`. `get_ticket_order` reads the order and then its tickets. If another handler fulfils
  the order in between, the struct is a pending order with confirmed tickets. Its pending tickets
  are none, so it is priced at 0, the amount does not match and the charge of an order that has
  just been fulfilled is refunded. The local release finds the order completed and does nothing.
- `lost_recovery`. A handler that dies after it confirmed the tickets, outside a transaction, is to be
  recovered by `finalize_already_completed_ticket_order`. The retry never gets there: a completed
  order with confirmed tickets is priced at 0 and the retry ends in a mismatch.
- `oversold`. `docs/OVERBOOKING_PREVENTION.md` promises that capacity is never exceeded. The
  functions called `lock_...` are plain SELECTs, and two members can buy the last seat.
- `lost_title`. An event of the body fills in the title from the post as it was last read, and the
  debouncer keeps only the newest closure of a post. A title sent in the two seconds before a change
  of the body is never saved, while the page still shows it.

Known disagreements that the models show and no run repeats, each with the sentence it contradicts. The first
four are what `unread`, `spared`, `missed` and `saved` are kept for, and are named in the properties about them:

- When the page asks Stripe for the order's intent, any error counts as "Payment intent not found, create a new
  one" (`event_details_live.ex:4475-4480`), a timeout too. It mints an intent for the changed total and binds it,
  while the customer can still pay the first. Both charges are captured; the order is completed with
  one, and the handler of the other reports a mismatch and refunds nothing. The comment at 4513-4517 gives just
  this as the reason for cancelling at Stripe first: the page could "leave the captured charge unrefundable". Hence
  the exception in ChargedAtMostOnce.
- A cart that is being paid is not cancelled by the next checkout and should block it. Both
  decisions ask Stripe, one after the other (`tickets.ex:3049`, `3083`); if the payment fails in between, the cart is
  neither cancelled nor in the way, and a second cart is booked. `tickets.ex:3047-3048`: such orders "are left
  pending, caught below by blocking_pending_orders/2". Hence the exception in OnePendingOrderPerBuyer.
- The nightly retry rebuilds a Stripe event with a plain map as its object
  (`webhook_retry_worker.ex:280`). The clauses of the handler for customers, subscriptions, payment methods and refunded charges
  want a struct and do not match it, the last clause returns :ok, and the row is marked processed with nothing done.
  `stripe/webhook_handler.ex:399`: "Partial success is impossible". Hence the exception in HandledOnce.
- `event_details_live.ex:5455-5456` has the browser wait "so the rows exist before the charge". When the details cannot
  be built or written, that is ignored or logged, the browser is answered all the same, and the charge starts
  without them. Hence SaveTriedBeforeCharge speaks of the attempt only.
- "Cancel order" asks Stripe about the intent in its struct. An intent that the checkout page has bound
  since is not asked about, and the release compares only the status: the seats are released and the
  customer can still pay. `tickets.ex:1286-1287`: "Cancelling atomically closes that gap".
- Without any race, a late success counts the member's holds as room and leaves them active, so each
  further late success counts them again. `booking_locker.ex:152-153`: "so we do not confirm tickets
  that would exceed tier or event capacity".
- When QuickBooks cannot be reached, the job marks the webhook row failed and returns an error "so
  Oban retries" (`quickbooks_bill_payment_processor_worker.ex:185-187`). The next attempt's claim looks
  for a pending row, is told that the event is being processed, and completes the job. The event is
  never handled: the nightly retry cannot replay QuickBooks events either.

In the browser, each excepted by name in a property or outside of what it says:

- A visitor who submits in the tick between the release of a held submit and its sending sends one
  token twice (`raced`); the server refuses the second.
- A restart of the carousel that is due when its hook is destroyed still starts the interval, on a
  container that has left the page (`image_carousel_autoplay.js:115`). And since the change of a slide
  stops the interval for the delay, each slide lasts twice the delay.
- Choosing a place does not give up a search under way, whose answer opens the list again.
- All unsaved posts share the debouncer's key "new_post", so of two authors who begin at once one loses
  the first save; and an upload that creates the post, with a save that waits, makes two posts.
- A check-in is undone without a look at whether there was one (`scanning.ex:1183-1213`), and two desks may both have
  read a ticket as not checked in; the second change is broadcast like the first. A desk that does not hold the
  ticket, because of its search, counts it a second time (`admin_event_check_in_live.ex:604-651`).
- A desk whose ticket was checked in elsewhere before the broadcast arrived undoes that check-in when its
  stale row is toggled.
- The probe of a page that comes back replaces a socket that has reconnected in the meantime.
- A passkey prompt that returns no credential tells the server nothing.

Smaller ones: a reprice stores the total of a completed
order (`do_sync_pending_order_pricing` updates by primary key); two checkout pages across a price
change capture two intents; a price change in the middle of a fulfilment makes the ledger's
amount differ from the captured one; the per-member limit is exceeded by a late success or by two
concurrent requests, since it is checked before the lock and counts confirmed tickets only; the nightly retry
marks a QuickBooks row failed when its job is late, and the job then skips it; a redelivery of a
failed Stripe event is acknowledged and changes nothing, because the claim finds pending rows only.

## 6. Not modelled

Because there is no decision in it that races: rendering, forms, content, the query console, expense
reports. Of the page scripts: `live_phone.js`, `avatar_cropper.js`, `uploaders.js`, `sticky_navbar.js`,
date ranges, charts, the toast bridge are wrappers of libraries or layout, without state shared with a
server; `stripe_payment.js` is the membership's card form, whose two awaits are of the kind that
CheckoutPage models.

Within reach of the same methods, in the order they would be worth it:

1. Admin grants as actions of TicketInventory, and superseding carts at Stripe composed
   with TicketCheckout: a checkout that rolls back leaves an old cart with a dead intent.
2. The operator's reprocessing of webhook rows, as actions of WebhookInbox; its invariants do not hold
   next to it, so it needs a statement of its own.
3. Cabin bookings: nights, optimistic locks, holds and their expiry against a late payment.
4. Refunds of completed orders and the ledger's amounts, where the total and the captured amount
   have to agree.
5. The single use of invites and codes; rate limiters; versioned caches; merch orders.

A theorem worth adding: that the seats of TicketCheckout are rows of TicketInventory.

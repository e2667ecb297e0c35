---------------------------- MODULE CheckoutPage ----------------------------
(***************************************************************************)
(* The payment step of one cart in one browser tab: the StripeElements     *)
(* hook (assets/js/stripe_elements.js), the countdown beside it, and the   *)
(* LiveView process that shows and hides them (event_details_live.ex).     *)
(*                                                                         *)
(* Browser and LiveView are two processes joined by two ordered channels:  *)
(* pushes go up, views (what the page shall show) and replies come down.   *)
(* A form is one life of the hook: mounted when a view first shows an      *)
(* intent, destroyed when a view shows none.  What a destroyed form had    *)
(* begun (the Stripe script it awaits, a click's handler) still resumes.   *)
(* A click is one run of handleSubmit, cut at every await.                 *)
(*                                                                         *)
(* An intent is named by its amount and 0 stands for "no intent".  The     *)
(* price only moves up here: what matters is that it moves.                *)
(***************************************************************************)
EXTENDS Naturals, Sequences

CONSTANTS
    Clicks,      \* runs of handleSubmit
    MaxPrice,    \* bound: the price starts at 1 and never passes this
    MaxUnread,   \* bound: no click while this many messages are under way
    MaxFaults    \* bound: connections lost, re-entries of handle_params under an open
                 \* modal, frames of Stripe's that vanish, calls of Stripe or the database
                 \* that fail and modals closed by hand, together

ASSUME PagePriceAssumption == MaxPrice \in Nat /\ MaxPrice > 0
ASSUME PageFaultsAssumption == MaxFaults \in Nat /\ MaxUnread \in Nat

VARIABLES
    lv,        \* assigns and mailbox of the LiveView process
    up,        \* pushes on their way to the LiveView
    down,      \* views and replies on their way to the browser
    connected, \* the channel is joined
    order,     \* the ticket order in the database
    saved,     \* the attendees' details: "no" while the LiveView has not been asked
               \* to write them, "saved" once it has, "lost" if it could not
    price,     \* the order's total at the current tier prices
    stripe,    \* Stripe: status of each intent
    page,      \* the tab: what the DOM shows, and the form that lives in it
    script,    \* the <script> tag of Stripe.js
    form,      \* fields of each life of the hook, in the order they are mounted
    run,       \* where each handleSubmit stands, and for which form
    blanks,    \* Stripe's frame vanished from a form
    faults     \* every other fault

serverVars == <<lv, connected, order, saved, price>>
channelVars == <<up, down>>
browserVars == <<page, script, form, run>>
boundVars == <<blanks, faults>>
vars == <<serverVars, channelVars, stripe, browserVars, boundVars>>

Intents == 1..MaxPrice
MaybeIntent == 0..MaxPrice

\* A life of the hook is named by its place in form.
NoForm == 0
Forms == 1..Len(form)

MayFault == blanks + faults < MaxFaults
CountFault == MayFault /\ faults' = faults + 1

-----------------------------------------------------------------------------
(* The tab.                                                                 *)

\* The fields of the hook: this.clientSecret, this.elements (the intent they were made
\* for), this.paymentElement, Stripe's frame in the container, this.initializing (with
\* the secret read before the await), the click listener, _paymentConfirmInFlight.
Form == [secret: MaybeIntent, elements: MaybeIntent, element: BOOLEAN, content: BOOLEAN,
         wanted: MaybeIntent, listening: BOOLEAN, inFlight: BOOLEAN]

NewForm == [secret |-> 0, elements |-> 0, element |-> FALSE, content |-> FALSE,
            wanted |-> 0, listening |-> FALSE, inFlight |-> FALSE]

\* What a run of handleSubmit awaits, its hook, the intent it confirms, and what ended
\* its wait for the attendees to be saved.
Run == [step: {"idle", "remount", "reply", "resume", "confirm"}, form: Nat,
        intent: MaybeIntent, via: {"none", "reply", "timer", "offline"}]
NewRun == [step |-> "idle", form |-> NoForm, intent |-> 0, via |-> "none"]

Live(h) == h = page.form
PushOf(event, of) == [type |-> "push", event |-> event, of |-> of]
ReplyTo(c) == [type |-> "reply", click |-> c]
View(l) == [type |-> "view", intent |-> IF l.open THEN l.intent ELSE 0, ready |-> l.ready]

\* pushEventIfConnected: a push on a dead channel is dropped.
Push(events) == up' = IF connected THEN up \o events ELSE up

LV == [open: BOOLEAN, intent: MaybeIntent, ready: BOOLEAN, redirecting: BOOLEAN,
       pending: BOOLEAN, remount: MaybeIntent, news: BOOLEAN]

\* A LiveView that has just entered ?checkout=payment: the order is on the page and
\* the intent is fetched by a message to itself.
Entered == [open |-> TRUE, intent |-> 0, ready |-> FALSE, redirecting |-> FALSE,
            pending |-> TRUE, remount |-> 0, news |-> FALSE]

Init ==
    /\ lv = Entered
    /\ up = <<>> /\ down = <<>> /\ connected = TRUE
    /\ order = "pending" /\ saved = "no" /\ price = 1
    /\ stripe = [i \in Intents |-> "none"]
    /\ page = [intent |-> 0, ready |-> FALSE, form |-> NoForm,
               rung |-> FALSE, gone |-> FALSE]
    /\ script = "absent"
    /\ form = <<>>
    /\ run = [c \in Clicks |-> NewRun]
    /\ blanks = 0 /\ faults = 0

-----------------------------------------------------------------------------
(* The LiveView process.                                                    *)

\* After a callback the process sends a diff, if what it shows has changed.
Render(new, replies) ==
    /\ lv' = new
    /\ down' = down \o (IF View(new) = View(lv) THEN <<>> ELSE <<View(new)>>) \o replies

Hidden(l) == [l EXCEPT !.open = FALSE, !.intent = 0, !.ready = FALSE]

InFlightAtStripe == \E i \in Intents : stripe[i] \in {"processing", "succeeded"}

\* The intent for the current total is created; an unpaid older one is cancelled first.
Minted == [i \in Intents |->
             IF i = price THEN IF stripe[i] = "none" THEN "open" ELSE stripe[i]
             ELSE IF stripe[i] = "open" THEN "canceled" ELSE stripe[i]]

\* An intent that cannot be read counts as not found: a new one is created beside it,
\* whatever its status.
MintUnread ==
    /\ CountFault
    /\ \E i \in Intents : stripe[i] # "none"
    /\ stripe' = [stripe EXCEPT ![price] = IF @ = "none" THEN "open" ELSE @]

\* The order's own intent is kept, also when it is being paid or has been.
CreateIntent ==
    /\ connected /\ lv.pending
    /\ \/ /\ lv.open /\ order = "pending"
          /\ \/ /\ InFlightAtStripe => stripe[price] \in {"processing", "succeeded"}
                /\ stripe' = Minted /\ UNCHANGED faults
             \/ MintUnread
          /\ Render([lv EXCEPT !.intent = price, !.pending = FALSE, !.ready = FALSE], <<>>)
       \/ /\ \/ ~lv.open /\ Render([lv EXCEPT !.pending = FALSE], <<>>)
             \/ /\ lv.open
                /\ \/ order # "pending"
                   \/ InFlightAtStripe /\ stripe[price] \notin {"processing", "succeeded"}
                /\ Render([Hidden(lv) EXCEPT !.pending = FALSE], <<>>)
          /\ UNCHANGED <<stripe, faults>>
    /\ UNCHANGED <<up, connected, order, saved, price, browserVars, blanks>>

\* A broadcast of changed tier prices: the open form is taken away and, by a message
\* to itself, shown again with the intent of the new total.
RefreshIntent ==
    LET stale == lv.open /\ ~lv.pending /\ order = "pending" /\ ~lv.redirecting /\ lv.intent # price
    IN /\ connected /\ lv.news
       /\ \/ /\ stale
             /\ \/ ~InFlightAtStripe /\ stripe' = Minted /\ UNCHANGED faults
                \/ MintUnread
             /\ Render([Hidden(lv) EXCEPT !.news = FALSE, !.remount = price], <<>>)
          \/ /\ ~stale \/ InFlightAtStripe
             /\ Render([lv EXCEPT !.news = FALSE], <<>>)
             /\ UNCHANGED <<stripe, faults>>
       /\ UNCHANGED <<up, connected, order, saved, price, browserVars, blanks>>

RemountModal ==
    /\ connected /\ lv.remount # 0
    /\ Render([lv EXCEPT !.open = TRUE, !.intent = lv.remount, !.remount = 0,
                         !.ready = FALSE], <<>>)
    /\ UNCHANGED <<up, connected, order, saved, price, stripe, browserVars, boundVars>>

\* handle_params runs again under an open modal.  When the total has moved the old
\* intent stays on the page until the new one replaces it in place.
Restore ==
    /\ connected /\ order = "pending" /\ ~lv.pending
    /\ CountFault
    /\ IF lv.open /\ lv.intent = price
       THEN UNCHANGED <<lv, down>>
       ELSE Render([lv EXCEPT !.open = TRUE, !.ready = FALSE, !.redirecting = FALSE,
                              !.pending = TRUE], <<>>)
    /\ UNCHANGED <<up, connected, order, saved, price, stripe, browserVars, blanks>>

Handle(event) ==
    /\ connected /\ up # <<>> /\ Head(up).event = event
    /\ up' = Tail(up)
    /\ UNCHANGED <<connected, price, browserVars, blanks>>

ElementLoading ==
    /\ Handle("stripe-payment-element-loading")
    /\ Render([lv EXCEPT !.ready = FALSE], <<>>)
    /\ UNCHANGED <<order, saved, stripe, faults>>

ElementReady ==
    /\ Handle("stripe-payment-element-ready")
    /\ Render([lv EXCEPT !.ready = TRUE], <<>>)
    /\ UNCHANGED <<order, saved, stripe, faults>>

\* One attempt to write the attendees' details of an order whose tickets ask for them.
\* It fails on an incomplete form, on an error of the database, and for want of tickets
\* once the checkout is closed; rows an earlier attempt has written stay.
PersistAttendees ==
    \/ saved' = "saved" /\ UNCHANGED faults
    \/ /\ saved' = IF saved = "saved" THEN "saved" ELSE "lost"
       /\ IF lv.open THEN CountFault ELSE UNCHANGED faults

\* Variant: the handler answers and leaves the details to a later callback.
RepliesFirst ==
    /\ Handle("payment-redirect-started")
    /\ Render([lv EXCEPT !.redirecting = TRUE], <<ReplyTo(Head(up).of)>>)
    /\ UNCHANGED <<order, saved, stripe, faults>>

\* The attempt is made before the reply that lets the browser charge, and the reply does
\* not tell how it went.
RedirectStarted ==
    /\ Handle("payment-redirect-started")
    /\ PersistAttendees
    /\ Render([lv EXCEPT !.redirecting = TRUE], <<ReplyTo(Head(up).of)>>)
    /\ UNCHANGED <<order, stripe>>

\* process_payment_success looks the intent up at Stripe and leaves the page.
PaymentSuccess ==
    /\ Handle("payment-success")
    /\ PersistAttendees
    /\ order' = IF stripe[Head(up).of] = "succeeded" THEN "completed" ELSE order
    /\ Render(Hidden(lv), <<>>)
    /\ UNCHANGED stripe

\* The order is released and what is unpaid cancelled, unless the page believes or finds
\* a payment under way, or the attempt fails.
ReleaseOrder ==
    LET safe == order = "pending" /\ ~lv.redirecting /\ ~InFlightAtStripe
    IN \/ /\ safe
          /\ order' = "expired"
          /\ stripe' = [i \in Intents |-> IF stripe[i] = "open" THEN "canceled" ELSE stripe[i]]
          /\ UNCHANGED faults
       \/ /\ IF safe THEN CountFault ELSE UNCHANGED faults
          /\ UNCHANGED <<order, stripe>>

\* The modal closes whether or not the order is released.
CheckoutExpired ==
    /\ Handle("checkout-expired")
    /\ ReleaseOrder
    /\ Render(Hidden(lv), <<>>)
    /\ UNCHANGED saved

ClosePaymentModal ==
    /\ Handle("close-payment-modal")
    /\ ReleaseOrder
    /\ Render([Hidden(lv) EXCEPT !.pending = FALSE, !.redirecting = FALSE], <<>>)
    /\ UNCHANGED saved

-----------------------------------------------------------------------------
(* The world outside the two processes.                                     *)

ChangePrice ==
    /\ order = "pending" /\ price < MaxPrice
    /\ price' = price + 1
    /\ lv' = [lv EXCEPT !.news = connected]
    /\ UNCHANGED <<up, down, connected, order, saved, stripe, browserVars, boundVars>>

\* The socket is lost with everything under way on it; the LiveView process ends.
Drop ==
    /\ connected /\ ~page.gone
    /\ CountFault
    /\ connected' = FALSE /\ up' = <<>> /\ down' = <<>>
    /\ lv' = [Hidden(lv) EXCEPT !.pending = FALSE, !.remount = 0, !.news = FALSE,
                                !.redirecting = FALSE]
    /\ UNCHANGED <<order, saved, price, stripe, browserVars, blanks>>

\* Wallets that redirect settle after the page is left.
Settle(i) ==
    /\ stripe[i] = "processing"
    /\ \E s \in {"open", "succeeded"} : stripe' = [stripe EXCEPT ![i] = s]
    /\ UNCHANGED <<serverVars, channelVars, browserVars, boundVars>>

-----------------------------------------------------------------------------
(* StripeElements: the life of the hook.                                    *)

InTab == ~page.gone

\* mounted() and initializeStripe up to `await this.loadPromise`.
Mounted(v) ==
    /\ page' = [page EXCEPT !.intent = v.intent, !.ready = v.ready, !.form = Len(form) + 1]
    /\ script' = IF script = "absent" THEN "loading" ELSE script
    /\ form' = Append(form, [NewForm EXCEPT !.wanted = v.intent])
    /\ Push(<<PushOf("stripe-payment-element-loading", 0)>>)

Destroyed(v) ==
    /\ page' = [page EXCEPT !.intent = 0, !.ready = v.ready, !.form = NoForm]
    /\ form' = [form EXCEPT ![page.form].secret = 0, ![page.form].elements = 0,
                            ![page.form].element = FALSE, ![page.form].content = FALSE,
                            ![page.form].listening = FALSE]
    /\ UNCHANGED <<script, up>>

\* updated(): a new client secret is taken up only while there is no working form.
Reinitializes(f, secret) ==
    /\ f.wanted = 0 /\ secret # f.secret
    /\ f.elements = 0 \/ ~f.element

Updated(v) ==
    /\ page' = [page EXCEPT !.intent = v.intent, !.ready = v.ready]
    /\ IF Reinitializes(form[page.form], v.intent)
       THEN /\ form' = [form EXCEPT ![page.form].wanted = v.intent]
            /\ Push(<<PushOf("stripe-payment-element-loading", 0)>>)
       ELSE UNCHANGED <<form, up>>
    /\ UNCHANGED script

ReceiveView ==
    /\ InTab /\ down # <<>> /\ Head(down).type = "view"
    /\ down' = Tail(down)
    /\ LET v == Head(down)
       IN CASE page.form = NoForm /\ v.intent # 0 -> Mounted(v)
            [] page.form # NoForm /\ v.intent = 0 -> Destroyed(v)
            [] page.form # NoForm /\ v.intent # 0 -> Updated(v)
            [] OTHER -> page' = [page EXCEPT !.ready = v.ready] /\ UNCHANGED <<script, form, up>>
    /\ UNCHANGED <<serverVars, stripe, run, boundVars>>

\* A new LiveView process takes the page over; its first view is patched in the same
\* turn and shows no form, so a form that has outlived the old process is destroyed.
Rejoin ==
    /\ ~connected /\ InTab
    /\ connected' = TRUE
    /\ lv' = IF order = "pending" THEN Entered ELSE lv
    /\ IF page.form # NoForm THEN Destroyed(View(lv'))
       ELSE page' = [page EXCEPT !.ready = FALSE] /\ UNCHANGED <<form, script, up>>
    /\ UNCHANGED <<down, order, saved, price, stripe, run, boundVars>>

ScriptSettles ==
    /\ InTab /\ script = "loading"
    /\ script' \in {"ready", "failed"}
    /\ UNCHANGED <<serverVars, channelVars, stripe, page, form, run, boundVars>>

\* What building the payment element may leave behind when a step of it throws or
\* the publishable key is missing.
BuildFails(f, secret) ==
    LET g == [f EXCEPT !.secret = secret]
    IN {g} \cup (IF f.elements # 0 THEN {}
                 ELSE {[g EXCEPT !.elements = secret],
                       [g EXCEPT !.elements = secret, !.element = TRUE]})

Built(f, secret) ==
    LET g == [f EXCEPT !.secret = secret, !.listening = TRUE]
    IN IF f.elements = 0
       THEN [g EXCEPT !.elements = secret, !.element = TRUE, !.content = TRUE]
       ELSE [g EXCEPT !.content = f.content \/ f.element]

\* initializeStripe from the await to its `finally`.
InitializeStripe(h) ==
    LET f == form[h]
        Ends(g, events) ==
            form' = [form EXCEPT ![h] = [g EXCEPT !.wanted = 0]] /\ Push(events)
        ready == <<PushOf("stripe-payment-element-ready", 0)>>
    IN /\ InTab /\ f.wanted # 0 /\ script # "loading"
       /\ IF ~Live(h) \/ script = "failed" THEN Ends(f, <<>>)
          ELSE IF f.secret = f.wanted /\ f.elements # 0 /\ f.element /\ f.content
          THEN Ends(f, ready)
          ELSE \/ \E g \in BuildFails(f, f.wanted) : Ends(g, <<>>)
               \/ Ends(Built(f, f.wanted), ready)
       /\ UNCHANGED <<serverVars, down, stripe, page, script, run, boundVars>>

\* Stripe's frame vanishes from the container; the code guards against it.
LoseContent ==
    /\ InTab /\ page.form # NoForm /\ MayFault
    /\ form[page.form].content
    /\ form' = [form EXCEPT ![page.form].content = FALSE]
    /\ blanks' = blanks + 1
    /\ UNCHANGED <<serverVars, channelVars, stripe, page, script, run, faults>>

-----------------------------------------------------------------------------
(* StripeElements: one click on "Confirm and Pay".                          *)

\* The in-flight flag is set and the LiveView is told, or is out of reach.
Submit(c, h) ==
    LET sent == connected /\ Live(h)
    IN /\ run' = [run EXCEPT ![c] = [NewRun EXCEPT !.form = h,
                                       !.step = IF sent THEN "reply" ELSE "resume",
                                       !.via = IF sent THEN "none" ELSE "offline"]]
       /\ up' = IF sent THEN Append(up, PushOf("payment-redirect-started", c)) ELSE up

\* Variant: nothing keeps a second click out while the first is being confirmed.
AcceptsAlways(f) == f.listening /\ f.element

\* The button is as the LiveView last rendered it: a patch undoes the disabling that
\* handleSubmit does itself, so only its in-flight flag keeps a second click out.
Accepts(f) == f.listening /\ f.element /\ ~f.inFlight

HandleSubmit(c) ==
    LET h == page.form
        f == form[h]
    IN /\ InTab /\ run[c].step = "idle" /\ h # NoForm /\ page.ready /\ Accepts(f)
       /\ Len(up) + Len(down) < MaxUnread
       /\ \/ /\ ~f.content
             /\ form' = [form EXCEPT ![h].content = TRUE]
             /\ run' = [run EXCEPT ![c] = [NewRun EXCEPT !.form = h, !.step = "remount"]]
             /\ UNCHANGED up
          \/ /\ form' = [form EXCEPT ![h].inFlight = TRUE]
             /\ Submit(c, h)
       /\ UNCHANGED <<serverVars, down, stripe, page, script, boundVars>>

\* 100 ms after the remount; nothing is looked at again.
RemountWaited(c) ==
    /\ InTab /\ run[c].step = "remount"
    /\ form' = [form EXCEPT ![run[c].form].inFlight = TRUE]
    /\ Submit(c, run[c].form)
    /\ UNCHANGED <<serverVars, down, stripe, page, script, boundVars>>

Resumed(c, via) ==
    run' = [run EXCEPT ![c].step = "resume", ![c].via = via]

ReceiveReply ==
    /\ InTab /\ down # <<>> /\ Head(down).type = "reply"
    /\ down' = Tail(down)
    /\ IF run[Head(down).click].step = "reply"
       THEN Resumed(Head(down).click, "reply") ELSE UNCHANGED run
    /\ UNCHANGED <<serverVars, up, stripe, page, script, form, boundVars>>

\* Variant: no fallback for a reply that never comes.
NeverTimesOut(c) == FALSE

ReplyTimesOut(c) ==
    /\ InTab /\ run[c].step = "reply"
    /\ Resumed(c, "timer")
    /\ UNCHANGED <<serverVars, channelVars, stripe, page, script, form, boundVars>>

\* Variant: Stripe is called without a second look at the hook.
ConfirmsBlindly(c) ==
    /\ InTab /\ run[c].step = "resume"
    /\ run' = [run EXCEPT ![c].step = "confirm", ![c].intent = form[run[c].form].elements]
    /\ UNCHANGED <<serverVars, channelVars, stripe, page, script, form, boundVars>>

\* After the await the hook may have been destroyed; else Stripe is called.
ConfirmPayment(c) ==
    LET h == run[c].form
    IN /\ InTab /\ run[c].step = "resume"
       /\ IF Live(h)
          THEN /\ run' = [run EXCEPT ![c].step = "confirm", ![c].intent = form[h].elements]
               /\ UNCHANGED form
          ELSE /\ run' = [run EXCEPT ![c] = NewRun]
               /\ form' = [form EXCEPT ![h].inFlight = FALSE]
       /\ UNCHANGED <<serverVars, channelVars, stripe, page, script, boundVars>>

Confirming(c) == InTab /\ run[c].step = "confirm"
StripeIs(i, s) == stripe' = [stripe EXCEPT ![i] = s]

\* Stripe reports a success.  The id is cut out of this.clientSecret, which is null
\* once the hook is destroyed: that throws, and ends like any other error.
PaymentAccepted(c) ==
    LET h == run[c].form
    IN /\ Confirming(c) /\ stripe[run[c].intent] = "open"
       /\ StripeIs(run[c].intent, "succeeded")
       /\ run' = [run EXCEPT ![c] = NewRun]
       /\ IF Live(h)
          THEN Push(<<PushOf("payment-success", form[h].secret)>>) /\ UNCHANGED form
          ELSE form' = [form EXCEPT ![h].inFlight = FALSE] /\ UNCHANGED up
       /\ UNCHANGED <<serverVars, down, page, script, boundVars>>

\* payment_intent_unexpected_state of an intent that has succeeded.
AlreadySucceeded(c) ==
    /\ Confirming(c) /\ stripe[run[c].intent] = "succeeded"
    /\ run' = [run EXCEPT ![c] = NewRun]
    /\ IF Live(run[c].form) THEN Push(<<PushOf("payment-success", run[c].intent)>>)
                            ELSE UNCHANGED up
    /\ UNCHANGED <<serverVars, down, stripe, page, script, form, boundVars>>

\* A decline, another unexpected state, or an exception: on the last one Stripe may
\* have taken the charge although the answer never came.
PaymentFailed(c) ==
    /\ Confirming(c)
    /\ \/ UNCHANGED stripe
       \/ stripe[run[c].intent] = "open" /\ StripeIs(run[c].intent, "succeeded")
    /\ run' = [run EXCEPT ![c] = NewRun]
    /\ form' = [form EXCEPT ![run[c].form].inFlight = FALSE]
    /\ UNCHANGED <<serverVars, channelVars, page, script, boundVars>>

\* A redirect wallet takes the tab away; the channel ends with the page.
RedirectAway(c) ==
    /\ Confirming(c) /\ stripe[run[c].intent] = "open"
    /\ StripeIs(run[c].intent, "processing")
    /\ page' = [page EXCEPT !.gone = TRUE]
    /\ connected' = FALSE /\ up' = <<>> /\ down' = <<>>
    /\ UNCHANGED <<lv, order, saved, price, script, form, run, boundVars>>

\* Countdown: the clock stops at zero and its event is pushed once, if it can be.
CountdownEnds ==
    /\ InTab /\ ~page.rung
    /\ page' = [page EXCEPT !.rung = TRUE]
    /\ Push(<<PushOf("checkout-expired", 0)>>)
    /\ UNCHANGED <<serverVars, down, stripe, script, form, run, boundVars>>

\* The modal is closed by hand, also while a click is being confirmed.
PressClose ==
    /\ InTab /\ page.form # NoForm /\ Len(up) + Len(down) < MaxUnread
    /\ CountFault
    /\ Push(<<PushOf("close-payment-modal", 0)>>)
    /\ UNCHANGED <<serverVars, down, stripe, browserVars, blanks>>

-----------------------------------------------------------------------------
LiveView == CreateIntent \/ RefreshIntent \/ RemountModal \/ Restore \/ ElementLoading
              \/ ElementReady \/ RedirectStarted \/ PaymentSuccess \/ CheckoutExpired
              \/ ClosePaymentModal
World == ChangePrice \/ Drop \/ Rejoin \/ LoseContent \/ CountdownEnds
           \/ PressClose
           \/ (\E i \in Intents : Settle(i))
Submits(c) == RemountWaited(c) \/ ReplyTimesOut(c) \/ ConfirmPayment(c)
Answers(c) == PaymentAccepted(c) \/ AlreadySucceeded(c) \/ PaymentFailed(c) \/ RedirectAway(c)

Next == \/ LiveView \/ World
        \/ ReceiveView \/ ReceiveReply \/ ScriptSettles
        \/ \E h \in Forms : InitializeStripe(h)
        \/ \E c \in Clicks : HandleSubmit(c) \/ Submits(c) \/ Answers(c)

\* Timers fire, awaits resume and a Stripe call comes back.
Fairness == \A c \in Clicks : WF_vars(Submits(c)) /\ WF_vars(Answers(c))

Spec == Init /\ [][Next]_vars
FairSpec == Spec /\ Fairness

-----------------------------------------------------------------------------
(* Properties.                                                              *)

TypeOK ==
    /\ lv \in LV
    /\ connected \in BOOLEAN /\ saved \in {"no", "saved", "lost"}
    /\ order \in {"pending", "expired", "completed"}
    /\ price \in Intents
    /\ stripe \in [Intents -> {"none", "open", "processing", "succeeded", "canceled"}]
    /\ page \in [intent: MaybeIntent, ready: BOOLEAN, form: 0..Len(form),
                 rung: BOOLEAN, gone: BOOLEAN]
    /\ script \in {"absent", "loading", "ready", "failed"}
    /\ form \in Seq(Form)
    /\ run \in [Clicks -> Run]

\* A confirmation is begun only by a hook that is still mounted, and with the intent
\* its payment element was made for: no repricing, expiry or lost socket between the
\* click and the call gets an intent charged whose form the page has taken away.
ConfirmsOnlyMountedForm ==
    [][\A c \in Clicks : run'[c].step = "confirm" /\ run[c].step # "confirm"
          => /\ Live(run[c].form)
             /\ run'[c].intent # 0 /\ run'[c].intent = form[run[c].form].elements]_vars

\* Stripe is asked to charge only after the LiveView has tried to write the attendees'
\* details, except when the page is offline or the reply has taken two seconds.  That the
\* rows exist by then, which the code says of it (event_details_live.ex:5455), is more
\* than it does: an attempt that fails is answered like any other.
SaveTriedBeforeCharge ==
    \A c \in Clicks : run[c].step \in {"resume", "confirm"} =>
        saved # "no" \/ run[c].via \in {"timer", "offline"}

\* However fast the buyer clicks, and whatever the page re-renders, one form has one
\* confirmation under way.  The exception is a payment element that had to be mounted
\* again: that wait of handleSubmit comes after the guard and before the flag.
OneConfirmationPerForm ==
    blanks = 0 =>
        \A c, d \in Clicks : c # d /\ run[c].form = run[d].form =>
            ~({run[c].step, run[d].step} \subseteq {"reply", "resume", "confirm"})

\* The id the page reports after a payment is cut out of this.clientSecret, the charge is
\* made through this.elements: whatever secrets the page is given, and whichever step of
\* building the form failed, a form that can be confirmed has both from one intent.
ReportsWhatItConfirms ==
    \A h \in Forms : Live(h) /\ form[h].element => form[h].secret = form[h].elements

\* The charge that is made is the one the page will ask about.
ConfirmsItsIntent == []ReportsWhatItConfirms /\ ConfirmsOnlyMountedForm

\* Every click is answered: the call to Stripe is made or given up and comes back,
\* although replies are lost and hooks are destroyed under it.
EveryClickEnds ==
    \A c \in Clicks : run[c].step # "idle" ~> run[c].step = "idle" \/ page.gone
=============================================================================

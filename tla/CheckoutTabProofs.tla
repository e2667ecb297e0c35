------------------------- MODULE CheckoutTabProofs -------------------------
(***************************************************************************)
(* Choosing and paying in one tab, for any number of clicks, tiers, prices *)
(* and faults: the page tries to save before it charges, charges through   *)
(* one confirmation, and reports what it charged; it shows what is sold.   *)
(***************************************************************************)
EXTENDS CheckoutTab, SequenceTheorems, TLAPS

-----------------------------------------------------------------------------
(* The payment step: the inductive invariant.                               *)

Events == {"stripe-payment-element-loading", "stripe-payment-element-ready",
           "payment-redirect-started", "payment-success", "checkout-expired",
           "close-payment-modal"}
Pushes == [type: {"push"}, event: Events, of: MaybeIntent \cup Clicks]
Views == [type: {"view"}, intent: MaybeIntent, ready: BOOLEAN]
Replies == [type: {"reply"}, click: MaybeIntent \cup Clicks]
Messages == Views \cup Replies

LineTypes == up \in Seq(Pushes) /\ down \in Seq(Messages) /\ blanks \in Nat

\* The reply to a click is sent when the LiveView has tried to write the attendees.
RepliesFollowSave ==
    \A i \in 1..Len(down) : down[i].type = "reply" => saved # "no"

\* A form with a payment element was built from one secret and awaits none; one that
\* listens has been built; and unless Stripe's frame was lost, what can be clicked is there.
FormHolds(f) ==
    /\ f.element = TRUE => f.elements # 0 /\ f.wanted = 0 /\ f.secret = f.elements
    /\ f.listening = TRUE => f.elements # 0
    /\ blanks = 0 /\ f.listening = TRUE /\ f.element = TRUE => f.content = TRUE
FormsHold == \A h \in Forms : FormHolds(form[h])

Confirms(c) == run[c].step \in {"reply", "resume", "confirm"}

\* A click belongs to a form that has been mounted and, while it is on the page, built;
\* the form's flag is up as long as the click is being confirmed.
RunsHold ==
    \A c \in Clicks : run[c].step # "idle" =>
        /\ run[c].form \in Forms
        /\ run[c].form = page.form => form[run[c].form].elements # 0
        /\ blanks = 0 => Confirms(c) /\ form[run[c].form].inFlight = TRUE

SavedFirst ==
    \A c \in Clicks : run[c].step \in {"resume", "confirm"} =>
        saved # "no" \/ run[c].via \in {"timer", "offline"}

Alone ==
    blanks = 0 =>
        \A c, d \in Clicks :
            Confirms(c) /\ Confirms(d) /\ run[c].form = run[d].form => c = d

PageInv ==
    TypeOK /\ LineTypes /\ RepliesFollowSave /\ FormsHold /\ RunsHold /\ SavedFirst /\ Alone

-----------------------------------------------------------------------------
(* What a callback and a push put on the line.                              *)

LEMMA ViewIsMessage ==
  ASSUME NEW l \in LV
  PROVE  View(l) \in Views /\ View(l) \in Messages /\ View(l).type = "view"
  <1>1. (IF l.open THEN l.intent ELSE 0) \in MaybeIntent /\ l.ready \in BOOLEAN
    BY PagePriceAssumption DEF LV, MaybeIntent
  <1>2. View(l) \in Views
    BY <1>1 DEF View, Views
  <1>3. QED
    BY <1>2 DEF Views, Messages

LEMMA RenderSends ==
  ASSUME TypeOK, LineTypes, RepliesFollowSave,
         NEW new \in LV, NEW r \in Seq(Replies), Render(new, r),
         saved' = saved \/ saved' # "no", r = <<>> \/ saved' # "no"
  PROVE  lv' \in LV /\ down' \in Seq(Messages) /\ RepliesFollowSave'
  <1> DEFINE view == IF View(new) = View(lv) THEN <<>> ELSE <<View(new)>>
             sent == view \o r
  <1>1. view \in Seq(Messages) /\ \A i \in 1..Len(view) : view[i].type = "view"
    BY ViewIsMessage
  <1>2. r \in Seq(Messages)
    BY SeqMonotonic DEF Messages
  <1>3. down' = (down \o view) \o r /\ lv' = new
    BY DEF Render
  <1> HIDE DEF view
  <1>4. down \o view \in Seq(Messages) /\ Len(down \o view) = Len(down) + Len(view)
        /\ \A i \in 1..(Len(down) + Len(view)) :
              (down \o view)[i] = IF i <= Len(down) THEN down[i] ELSE view[i - Len(down)]
    BY <1>1, ConcatProperties DEF LineTypes
  <1>5. /\ down' \in Seq(Messages) /\ Len(down') = Len(down \o view) + Len(r)
        /\ \A i \in 1..(Len(down \o view) + Len(r)) :
              down'[i] = IF i <= Len(down \o view) THEN (down \o view)[i]
                         ELSE r[i - Len(down \o view)]
    BY <1>2, <1>3, <1>4, ConcatProperties
  <1>6. ASSUME NEW i \in 1..Len(down'), down'[i].type = "reply"
        PROVE  saved' # "no"
    <2>0. Len(down) \in Nat /\ Len(view) \in Nat /\ Len(r) \in Nat
      BY <1>1 DEF LineTypes
    <2>1. CASE i <= Len(down)
      <3>1. down'[i] = down[i] /\ i \in 1..Len(down)
        BY <2>0, <2>1, <1>4, <1>5
      <3>2. saved # "no"
        BY <3>1, <1>6 DEF RepliesFollowSave
      <3>3. QED
        BY <3>2
    <2>2. CASE Len(down) < i /\ i <= Len(down) + Len(view)
      <3>1. down'[i] = view[i - Len(down)] /\ i - Len(down) \in 1..Len(view)
        BY <2>0, <2>2, <1>4, <1>5
      <3>2. down'[i].type = "view"
        BY <3>1, <1>1
      <3>3. QED
        BY <3>2, <1>6
    <2>3. CASE i > Len(down) + Len(view)
      BY <2>0, <2>3, <1>4, <1>5
    <2>4. i \in Int
      BY <2>0, <1>4, <1>5
    <2>5. \/ i <= Len(down)
          \/ Len(down) < i /\ i <= Len(down) + Len(view)
          \/ i > Len(down) + Len(view)
      BY <2>0, <2>4
    <2>6. QED
      BY <2>1, <2>2, <2>3, <2>5, Zenon
  <1>7. QED
    BY <1>3, <1>5, <1>6 DEF RepliesFollowSave

LEMMA PushSends ==
  ASSUME LineTypes, NEW e \in Seq(Pushes), Push(e)
  PROVE  up' \in Seq(Pushes)
  BY ConcatProperties DEF LineTypes, Push

LEMMA LineShrinks ==
  ASSUME LineTypes, RepliesFollowSave, down # <<>>, down' = Tail(down), saved' = saved
  PROVE  down' \in Seq(Messages) /\ RepliesFollowSave'
  <1>1. /\ down' \in Seq(Messages) /\ Len(down') = Len(down) - 1 /\ Len(down) \in Nat
        /\ \A i \in 1..Len(down') : down'[i] = down[i + 1]
    BY HeadTailProperties DEF LineTypes
  <1>2. QED
    BY <1>1 DEF RepliesFollowSave

\* A step that leaves the browser alone, what the page shows aside.
LEMMA BrowserStill ==
  ASSUME PageInv, UNCHANGED <<form, run>>, page'.form = page.form, blanks' = blanks,
         saved' = saved \/ saved' # "no"
  PROVE  FormsHold' /\ RunsHold' /\ SavedFirst' /\ Alone'
  <1> USE DEF PageInv
  <1>1. FormsHold'
    BY DEF FormsHold, FormHolds, Forms
  <1>2. RunsHold'
    BY DEF RunsHold, Forms, Confirms
  <1>3. SavedFirst'
    <2>1. CASE saved' = saved
      BY <2>1 DEF SavedFirst
    <2>2. CASE saved' # "no"
      BY <2>2 DEF SavedFirst
    <2>3. QED
      BY <2>1, <2>2
  <1>4. Alone'
    BY DEF Alone, Confirms
  <1>5. QED
    BY <1>1, <1>2, <1>3, <1>4

-----------------------------------------------------------------------------
(* Init and the steps.                                                      *)

LEMMA PageStarts == Init => PageInv
  <1> SUFFICES ASSUME Init
               PROVE  PageInv
    OBVIOUS
  <1> USE PagePriceAssumption DEF Init
  <1>1. TypeOK
    <2>1. lv \in LV
      BY DEF Entered, LV, MaybeIntent
    <2>2. stripe \in [Intents -> {"none", "open", "processing", "succeeded", "canceled"}]
      BY DEF Intents
    <2>3. /\ page \in [intent: MaybeIntent, ready: BOOLEAN, form: 0..Len(form),
                       rung: BOOLEAN, gone: BOOLEAN]
          /\ form \in Seq(Form)
      BY DEF MaybeIntent, NoForm
    <2>4. run \in [Clicks -> Run]
      BY DEF NewRun, Run, MaybeIntent, NoForm
    <2>5. connected \in BOOLEAN /\ saved \in {"no", "saved", "lost"}
      BY Zenon
    <2>6. QED
      BY <2>1, <2>2, <2>3, <2>4, <2>5 DEF TypeOK, Intents
  <1>2. LineTypes
    BY DEF LineTypes
  <1>3. FormsHold
    BY DEF FormsHold, FormHolds, Forms
  <1>4. RepliesFollowSave /\ RunsHold /\ SavedFirst /\ Alone
    BY DEF RepliesFollowSave, RunsHold, SavedFirst, Alone, Confirms, NewRun
  <1>5. QED
    BY <1>1, <1>2, <1>3, <1>4 DEF PageInv

\* The types of what a step of the LiveView leaves alone.
LEMMA BrowserTypes ==
  ASSUME TypeOK, UNCHANGED browserVars
  PROVE  /\ page' \in [intent: MaybeIntent, ready: BOOLEAN, form: 0..Len(form'),
                       rung: BOOLEAN, gone: BOOLEAN]
         /\ script' \in {"absent", "loading", "ready", "failed"}
         /\ form' \in Seq(Form)
         /\ run' \in [Clicks -> Run]
  BY DEF TypeOK, browserVars

LEMMA IntentTypes ==
  0 \in MaybeIntent /\ Intents \subseteq MaybeIntent /\ \A i \in Intents : i # 0
  BY PagePriceAssumption DEF MaybeIntent, Intents

LEMMA HiddenType ==
  ASSUME NEW l \in LV
  PROVE  Hidden(l) \in LV
  BY IntentTypes DEF Hidden, LV

\* What the LiveView's steps send, and where they leave it.
LEMMA LiveViewRenders ==
  ASSUME PageInv, LiveView
  PROVE  \E new \in LV, r \in Seq(Replies) :
            /\ Render(new, r) \/ (UNCHANGED <<lv, down>> /\ r = <<>>)
            /\ r = <<>> \/ saved' # "no"
  <1> DEFINE Goal(new, r) == /\ new \in LV /\ r \in Seq(Replies)
                             /\ Render(new, r) \/ (UNCHANGED <<lv, down>> /\ r = <<>>)
                             /\ r = <<>> \/ saved' # "no"
  <1> SUFFICES \E new, r : Goal(new, r)
    OBVIOUS
  <1>0. /\ lv \in LV /\ price \in MaybeIntent /\ lv.remount \in MaybeIntent
        /\ \A l \in LV : /\ [l EXCEPT !.pending = FALSE] \in LV
                         /\ [l EXCEPT !.news = FALSE] \in LV
                         /\ [l EXCEPT !.ready = FALSE] \in LV
                         /\ [l EXCEPT !.ready = TRUE] \in LV
                         /\ [l EXCEPT !.redirecting = TRUE] \in LV
                         /\ Hidden(l) \in LV
    BY HiddenType, IntentTypes DEF PageInv, TypeOK, LV
  <1>0a. <<>> \in Seq(Replies)
    OBVIOUS
  <1>1. CASE CreateIntent
    <2>1. [lv EXCEPT !.intent = price, !.pending = FALSE, !.ready = FALSE] \in LV
      BY <1>0 DEF LV
    <2>2. \/ Render([lv EXCEPT !.pending = FALSE], <<>>)
          \/ Render([Hidden(lv) EXCEPT !.pending = FALSE], <<>>)
          \/ Render([lv EXCEPT !.intent = price, !.pending = FALSE, !.ready = FALSE], <<>>)
      BY <1>1, Zenon DEF CreateIntent
    <2>3. QED
      BY <1>0, <1>0a, <2>1, <2>2, Zenon
  <1>2. CASE RefreshIntent
    <2>1. [Hidden(lv) EXCEPT !.news = FALSE, !.remount = price] \in LV
      BY <1>0 DEF LV
    <2>2. \/ Render([Hidden(lv) EXCEPT !.news = FALSE, !.remount = price], <<>>)
          \/ Render([lv EXCEPT !.news = FALSE], <<>>)
      BY <1>2 DEF RefreshIntent
    <2>3. QED
      BY <1>0, <1>0a, <2>1, <2>2, Zenon
  <1>3. CASE RemountModal
    <2>1. [lv EXCEPT !.open = TRUE, !.intent = lv.remount, !.remount = 0,
                     !.ready = FALSE] \in LV
      BY <1>0, IntentTypes DEF LV
    <2>2. QED
      BY <1>3, <1>0a, <2>1, Zenon DEF RemountModal
  <1>4. CASE Restore
    <2>1. [lv EXCEPT !.open = TRUE, !.ready = FALSE, !.redirecting = FALSE,
                     !.pending = TRUE] \in LV
      BY <1>0 DEF LV
    <2>2. \/ Render([lv EXCEPT !.open = TRUE, !.ready = FALSE, !.redirecting = FALSE,
                               !.pending = TRUE], <<>>)
          \/ UNCHANGED <<lv, down>>
      BY <1>4, Zenon DEF Restore
    <2>3. QED
      BY <1>0, <1>0a, <2>1, <2>2, Zenon
  <1>5. CASE ElementLoading
    BY <1>5, <1>0, <1>0a, Zenon DEF ElementLoading
  <1>6. CASE ElementReady
    BY <1>6, <1>0, <1>0a, Zenon DEF ElementReady
  <1>7. CASE RedirectStarted
    <2>1. <<ReplyTo(Head(up).of)>> \in Seq(Replies)
      <3>1. Head(up) \in Pushes
        BY <1>7, HeadTailProperties DEF PageInv, LineTypes, RedirectStarted, Handle
      <3>2. QED
        BY <3>1 DEF ReplyTo, Pushes, Replies
    <2>2. saved' # "no"
      BY <1>7 DEF RedirectStarted, PersistAttendees
    <2>3. [lv EXCEPT !.redirecting = TRUE] \in LV
      BY <1>0, Zenon
    <2>4. Render([lv EXCEPT !.redirecting = TRUE], <<ReplyTo(Head(up).of)>>)
      BY <1>7, Zenon DEF RedirectStarted
    <2>5. QED
      BY <2>1, <2>2, <2>3, <2>4, Zenon
  <1>8. CASE PaymentSuccess
    BY <1>8, <1>0, <1>0a, Zenon DEF PaymentSuccess
  <1>9. CASE CheckoutExpired
    BY <1>9, <1>0, <1>0a, Zenon DEF CheckoutExpired
  <1>10. CASE ClosePaymentModal
    <2>1. [Hidden(lv) EXCEPT !.pending = FALSE, !.redirecting = FALSE] \in LV
      BY <1>0 DEF LV
    <2>2. QED
      BY <1>10, <1>0a, <2>1, Zenon DEF ClosePaymentModal
  <1>11. QED
    BY <1>1, <1>2, <1>3, <1>4, <1>5, <1>6, <1>7, <1>8, <1>9, <1>10 DEF LiveView

LEMMA LiveViewSteps == PageInv /\ LiveView => PageInv'
  <1> SUFFICES ASSUME PageInv, LiveView
               PROVE  PageInv'
    OBVIOUS
  <1>1. /\ UNCHANGED browserVars /\ blanks' = blanks
        /\ saved' = saved \/ saved' # "no"
        /\ connected' = connected /\ price' = price
    BY DEF LiveView, CreateIntent, RefreshIntent, RemountModal, Restore, ElementLoading,
           ElementReady, RedirectStarted, PaymentSuccess, CheckoutExpired,
           ClosePaymentModal, PersistAttendees, ReleaseOrder, MintUnread, Handle, boundVars
  <1>2. FormsHold' /\ RunsHold' /\ SavedFirst' /\ Alone'
    BY <1>1, BrowserStill DEF browserVars
  <1>3. lv' \in LV /\ down' \in Seq(Messages) /\ RepliesFollowSave'
    <2>1. PICK new \in LV, r \in Seq(Replies) :
            /\ Render(new, r) \/ (UNCHANGED <<lv, down>> /\ r = <<>>)
            /\ r = <<>> \/ saved' # "no"
      BY LiveViewRenders
    <2>2. CASE Render(new, r)
      BY <1>1, <2>1, <2>2, RenderSends DEF PageInv
    <2>3. CASE UNCHANGED <<lv, down>>
      BY <1>1, <2>3 DEF PageInv, TypeOK, LineTypes, RepliesFollowSave
    <2>4. QED
      BY <2>1, <2>2, <2>3
  <1>4. stripe' \in [Intents -> {"none", "open", "processing", "succeeded", "canceled"}]
    <2>1. \/ stripe' = stripe \/ stripe' = Minted
          \/ stripe' = [stripe EXCEPT ![price] = IF @ = "none" THEN "open" ELSE @]
          \/ stripe' = [i \in Intents |-> IF stripe[i] = "open" THEN "canceled" ELSE stripe[i]]
      BY DEF LiveView, CreateIntent, RefreshIntent, RemountModal, Restore, ElementLoading,
           ElementReady, RedirectStarted, PaymentSuccess, CheckoutExpired,
           ClosePaymentModal, PersistAttendees, ReleaseOrder, MintUnread
    <2>2. QED
      BY <2>1 DEF PageInv, TypeOK, Minted
  <1>5. order' \in {"pending", "expired", "completed"}
    BY DEF LiveView, CreateIntent, RefreshIntent, RemountModal, Restore, ElementLoading,
           ElementReady, RedirectStarted, PaymentSuccess, CheckoutExpired,
           ClosePaymentModal, PersistAttendees, ReleaseOrder, MintUnread, PageInv, TypeOK
  <1>6. up' \in Seq(Pushes)
    <2>1. up' = up \/ (up # <<>> /\ up' = Tail(up))
      BY DEF LiveView, CreateIntent, RefreshIntent, RemountModal, Restore, ElementLoading,
           ElementReady, RedirectStarted, PaymentSuccess, CheckoutExpired,
           ClosePaymentModal, PersistAttendees, ReleaseOrder, MintUnread, Handle
    <2>2. QED
      BY <2>1, HeadTailProperties DEF PageInv, LineTypes
  <1>7. saved' \in {"no", "saved", "lost"} /\ connected' \in BOOLEAN
    <2>1. saved' = saved \/ saved' \in {"saved", "lost"}
      BY DEF LiveView, CreateIntent, RefreshIntent, RemountModal, Restore, ElementLoading,
             ElementReady, RedirectStarted, PaymentSuccess, CheckoutExpired,
             ClosePaymentModal, PersistAttendees
    <2>2. saved \in {"no", "saved", "lost"} /\ connected \in BOOLEAN
      BY Zenon DEF PageInv, TypeOK
    <2>3. saved' \in {"no", "saved", "lost"}
      BY <2>1, <2>2
    <2>4. connected' \in BOOLEAN
      BY <1>1, <2>2, Zenon
    <2>5. QED
      BY <2>3, <2>4
  <1>8. LineTypes'
    BY <1>1, <1>3, <1>6 DEF PageInv, LineTypes
  <1>9. TypeOK'
    <2>1. price' \in Intents
      BY <1>1 DEF PageInv, TypeOK
    <2>2. QED
      BY <1>1, <1>3, <1>4, <1>5, <1>7, <2>1, BrowserTypes, Zenon DEF PageInv, TypeOK, Intents
  <1>10. QED
    BY <1>2, <1>3, <1>8, <1>9 DEF PageInv

-----------------------------------------------------------------------------
(* Steps of the tab.                                                        *)

Pages(n) == [intent: MaybeIntent, ready: BOOLEAN, form: 0..n, rung: BOOLEAN, gone: BOOLEAN]
Scripts == {"absent", "loading", "ready", "failed"}
Statuses == [Intents -> {"none", "open", "processing", "succeeded", "canceled"}]

\* What a step that leaves the LiveView and Stripe alone still has to keep.
LEMMA TypesTogether ==
  ASSUME PageInv, UNCHANGED serverVars, stripe' = stripe \/ stripe' \in Statuses,
         page' \in Pages(Len(form')), script' \in Scripts, form' \in Seq(Form),
         run' \in [Clicks -> Run]
  PROVE  TypeOK'
  <1>1. lv' \in LV /\ price' \in Intents /\ stripe' \in Statuses
        /\ order' \in {"pending", "expired", "completed"}
    BY DEF PageInv, TypeOK, serverVars, Statuses
  <1>2. connected' \in BOOLEAN /\ saved' \in {"no", "saved", "lost"}
    BY Zenon DEF PageInv, TypeOK, serverVars
  <1>3. QED
    BY <1>1, <1>2, Zenon DEF TypeOK, Statuses, Pages, Scripts, Intents

LEMMA FormIsSet ==
  ASSUME PageInv, NEW h \in Forms, NEW g \in Form, form' = [form EXCEPT ![h] = g]
  PROVE  /\ form' \in Seq(Form) /\ Len(form') = Len(form) /\ Forms' = Forms
         /\ \A k \in Forms : form'[k] = IF k = h THEN g ELSE form[k]
  BY ExceptSeq DEF PageInv, TypeOK, Forms

LEMMA FormsStillHold ==
  ASSUME PageInv, NEW h \in Forms, NEW g \in Form, form' = [form EXCEPT ![h] = g],
         FormHolds(g), blanks' = blanks
  PROVE  FormsHold'
  <1>1. ASSUME NEW k \in Forms
        PROVE  FormHolds(form'[k])
    <2>1. form'[k] = g \/ form'[k] = form[k]
      BY FormIsSet
    <2>2. FormHolds(form[k])
      BY DEF PageInv, FormsHold
    <2>3. QED
      BY <2>1, <2>2
  <1>2. QED
    BY <1>1, FormIsSet DEF FormsHold, FormHolds

\* A form that is changed under its click keeps what the click relies on.
LEMMA RunsStillHold ==
  ASSUME PageInv, NEW h \in Forms, NEW g \in Form, form' = [form EXCEPT ![h] = g],
         g.inFlight = form[h].inFlight, page'.form = page.form \/ page'.form = NoForm,
         g.elements # 0 \/ form[h].elements = 0 \/ page'.form # h,
         run' = run, blanks' = blanks
  PROVE  RunsHold' /\ Alone'
  <1>1. RunsHold'
    <2> SUFFICES ASSUME NEW c \in Clicks, run[c].step # "idle"
                 PROVE  /\ run[c].form \in Forms
                        /\ run[c].form = page'.form => form'[run[c].form].elements # 0
                        /\ blanks = 0 => Confirms(c)
                              /\ form'[run[c].form].inFlight = TRUE
      BY FormIsSet DEF RunsHold, Confirms
    <2>1. /\ run[c].form \in Forms /\ run[c].form # NoForm
          /\ run[c].form = page.form => form[run[c].form].elements # 0
          /\ blanks = 0 => Confirms(c) /\ form[run[c].form].inFlight = TRUE
      BY DEF PageInv, RunsHold, Forms, NoForm
    <2>2. form'[run[c].form] = IF run[c].form = h THEN g ELSE form[run[c].form]
      BY <2>1, FormIsSet
    <2>3. CASE run[c].form = h
      BY <2>1, <2>2, <2>3
    <2>4. CASE run[c].form # h
      BY <2>1, <2>2, <2>4
    <2>5. QED
      BY <2>3, <2>4
  <1>2. Alone'
    BY DEF PageInv, Alone, Confirms
  <1>3. QED
    BY <1>1, <1>2

LEMMA SavedStays ==
  ASSUME PageInv, run' = run, saved' = saved
  PROVE  SavedFirst'
  BY DEF PageInv, SavedFirst

LEMMA FormIsDestroyed ==
  ASSUME PageInv, NEW v, v.ready \in BOOLEAN, page.form # NoForm, Destroyed(v),
         run' = run, blanks' = blanks
  PROVE  /\ page' \in Pages(Len(form')) /\ script' \in Scripts /\ form' \in Seq(Form)
         /\ up' = up /\ FormsHold' /\ RunsHold' /\ Alone'
  <1> DEFINE h == page.form
             g == [form[h] EXCEPT !.secret = 0, !.elements = 0, !.element = FALSE,
                                  !.content = FALSE, !.listening = FALSE]
  <1>1. h \in Forms /\ form[h] \in Form
    BY ElementOfSeq DEF PageInv, TypeOK, Forms, NoForm
  <1>2. g \in Form /\ g.inFlight = form[h].inFlight
        /\ g.element = FALSE /\ g.listening = FALSE
    BY <1>1, IntentTypes DEF Form
  <1>3. form' = [form EXCEPT ![h] = g]
    BY <1>1 DEF Destroyed, PageInv, TypeOK, Forms
  <1> HIDE DEF g
  <1>4. FormHolds(g)
    BY <1>2 DEF FormHolds
  <1>5. Len(form') = Len(form) /\ form' \in Seq(Form) /\ FormsHold'
    BY <1>1, <1>2, <1>3, <1>4, FormIsSet, FormsStillHold
  <1>6. page' \in Pages(Len(form')) /\ page'.form = NoForm
    <2>1. page \in Pages(Len(form)) /\ Len(form) \in Nat
      BY DEF PageInv, TypeOK, Pages
    <2>2. page' = [page EXCEPT !.intent = 0, !.ready = v.ready, !.form = 0]
      BY DEF Destroyed, NoForm
    <2>3. 0 \in 0..Len(form)
      BY <2>1
    <2>4. page' \in Pages(Len(form))
      BY <2>1, <2>2, <2>3, IntentTypes, Zenon DEF Pages
    <2>5. page'.form = NoForm
      BY <2>1, <2>2 DEF Pages, NoForm
    <2>6. QED
      BY <1>5, <2>4, <2>5
  <1>7. RunsHold' /\ Alone'
    <2>1. page'.form # h
      BY <1>1, <1>6
    <2>2. QED
      BY <1>1, <1>2, <1>3, <1>6, <2>1, RunsStillHold
  <1>8. script' \in Scripts /\ up' = up
    BY DEF Destroyed, PageInv, TypeOK, Scripts
  <1>9. QED
    BY <1>5, <1>6, <1>7, <1>8

LEMMA WorldSteps == PageInv /\ World => PageInv'
  <1> SUFFICES ASSUME PageInv, World
               PROVE  PageInv'
    OBVIOUS
  <1>0. /\ lv \in LV /\ page \in Pages(Len(form)) /\ Len(form) \in Nat
        /\ script \in Scripts /\ form \in Seq(Form) /\ run \in [Clicks -> Run]
        /\ stripe \in Statuses /\ blanks \in Nat /\ connected \in BOOLEAN
    BY DEF PageInv, TypeOK, LineTypes, Pages, Scripts, Statuses
  <1>1. CASE ChangePrice
    <2> USE <1>1 DEF ChangePrice, browserVars, boundVars
    <2>1. lv' \in LV
      BY <1>0, Zenon DEF LV
    <2>2. price' \in Intents
      BY PagePriceAssumption DEF PageInv, TypeOK, Intents
    <2>3. saved' \in {"no", "saved", "lost"} /\ connected' \in BOOLEAN
      BY Zenon DEF PageInv, TypeOK
    <2>4. TypeOK'
      BY <2>1, <2>2, <2>3, Zenon DEF PageInv, TypeOK, Intents, Forms
    <2>5. LineTypes' /\ RepliesFollowSave'
      BY DEF PageInv, LineTypes, RepliesFollowSave
    <2>6. QED
      BY <2>4, <2>5, BrowserStill DEF PageInv
  <1>2. CASE Drop
    <2> USE <1>2 DEF Drop, browserVars
    <2>1. lv' \in LV
      BY <1>0, HiddenType, IntentTypes DEF LV
    <2>2. saved' \in {"no", "saved", "lost"} /\ connected' \in BOOLEAN
      BY Zenon DEF PageInv, TypeOK
    <2>3. TypeOK'
      BY <2>1, <2>2, Zenon DEF PageInv, TypeOK, Intents, Forms
    <2>4. LineTypes' /\ RepliesFollowSave'
      BY DEF PageInv, LineTypes, RepliesFollowSave
    <2>5. QED
      BY <2>3, <2>4, BrowserStill DEF PageInv
  <1>3. CASE Rejoin
    <2> USE <1>3 DEF Rejoin, boundVars
    <2>1. lv' \in LV
      BY <1>0, IntentTypes DEF Entered, LV
    <2>2. /\ page' \in Pages(Len(form')) /\ script' \in Scripts /\ form' \in Seq(Form)
          /\ up' = up /\ FormsHold' /\ RunsHold' /\ Alone'
      <3>1. CASE page.form # NoForm
        <4>1. View(lv').ready \in BOOLEAN
          BY <2>1, ViewIsMessage DEF Views
        <4>2. Destroyed(View(lv'))
          BY <3>1
        <4>3. QED
          BY <3>1, <4>1, <4>2, FormIsDestroyed
      <3>2. CASE page.form = NoForm
        <4>1. page' = [page EXCEPT !.ready = FALSE] /\ UNCHANGED <<form, script, up>>
          BY <3>2
        <4>2. page' \in Pages(Len(form)) /\ page'.form = page.form
          BY <1>0, <4>1 DEF Pages
        <4>3. QED
          BY <1>0, <4>1, <4>2, BrowserStill
      <3>3. QED
        BY <3>1, <3>2
    <2>3. saved' \in {"no", "saved", "lost"} /\ connected' \in BOOLEAN
      BY Zenon DEF PageInv, TypeOK
    <2>4. TypeOK'
      <3>1. /\ order' \in {"pending", "expired", "completed"} /\ price' \in Intents
            /\ stripe' \in Statuses /\ run' \in [Clicks -> Run]
        BY DEF PageInv, TypeOK, Statuses, Intents
      <3>2. QED
        BY <2>1, <2>2, <2>3, <3>1, Zenon DEF TypeOK, Pages, Scripts, Statuses, Intents
    <2>5. LineTypes' /\ RepliesFollowSave'
      BY <2>2 DEF PageInv, LineTypes, RepliesFollowSave
    <2>6. QED
      BY <2>2, <2>4, <2>5, SavedStays DEF PageInv
  <1>4. CASE LoseContent
    <2> DEFINE h == page.form
               g == [form[h] EXCEPT !.content = FALSE]
    <2> USE <1>4 DEF LoseContent
    <2>1. h \in Forms /\ form[h] \in Form
      BY <1>0, ElementOfSeq DEF Pages, Forms, NoForm
    <2>2. /\ g \in Form /\ g.inFlight = form[h].inFlight /\ g.elements = form[h].elements
          /\ g.element = form[h].element /\ g.wanted = form[h].wanted
          /\ g.secret = form[h].secret /\ g.listening = form[h].listening
      BY <2>1 DEF Form
    <2>3. form' = [form EXCEPT ![h] = g] /\ blanks' = blanks + 1 /\ page' = page
          /\ run' = run
      BY <1>0, <2>1 DEF Forms
    <2> HIDE DEF g
    <2>4. form' \in Seq(Form) /\ Len(form') = Len(form) /\ Forms' = Forms
          /\ \A k \in Forms : form'[k] = IF k = h THEN g ELSE form[k]
      BY <2>1, <2>2, <2>3, FormIsSet
    <2>5. FormsHold'
      <3>1. ASSUME NEW k \in Forms
            PROVE  /\ form'[k].element = TRUE
                        => /\ form'[k].elements # 0 /\ form'[k].wanted = 0
                           /\ form'[k].secret = form'[k].elements
                   /\ form'[k].listening = TRUE => form'[k].elements # 0
        BY <2>2, <2>4 DEF PageInv, FormsHold, FormHolds
      <3>2. blanks' # 0
        BY <1>0, <2>3
      <3>3. QED
        BY <2>4, <3>1, <3>2 DEF FormsHold, FormHolds
    <2>6. RunsHold'
      <3>1. blanks' # 0
        BY <1>0, <2>3
      <3>2. ASSUME NEW c \in Clicks, run[c].step # "idle"
            PROVE  run[c].form \in Forms
                   /\ (run[c].form = page.form => form'[run[c].form].elements # 0)
        BY <2>2, <2>4, <3>2 DEF PageInv, RunsHold
      <3>3. QED
        BY <2>3, <2>4, <3>1, <3>2 DEF RunsHold
    <2>7. Alone' /\ SavedFirst'
      BY <1>0, <2>3, SavedStays DEF Alone, serverVars
    <2>8. TypeOK'
      BY <1>0, <2>3, <2>4, TypesTogether
    <2>9. LineTypes' /\ RepliesFollowSave'
      BY <1>0, <2>3 DEF PageInv, LineTypes, RepliesFollowSave, channelVars, serverVars
    <2>10. QED
      BY <2>5, <2>6, <2>7, <2>8, <2>9 DEF PageInv
  <1>5. CASE CountdownEnds
    <2> USE <1>5 DEF CountdownEnds, boundVars
    <2>1. page' \in Pages(Len(form)) /\ page'.form = page.form
      BY <1>0 DEF Pages
    <2>2. up' \in Seq(Pushes)
      <3>1. <<PushOf("checkout-expired", 0)>> \in Seq(Pushes)
        BY IntentTypes DEF PushOf, Pushes, Events
      <3>2. QED
        BY <3>1, PushSends DEF PageInv
    <2>3. TypeOK'
      BY <1>0, <2>1, TypesTogether
    <2>4. LineTypes' /\ RepliesFollowSave'
      BY <2>2 DEF PageInv, LineTypes, RepliesFollowSave, serverVars
    <2>5. QED
      BY <2>1, <2>3, <2>4, BrowserStill DEF PageInv, serverVars
  <1>6. ASSUME NEW i \in Intents, Settle(i)
        PROVE  PageInv'
    <2> USE <1>6 DEF Settle, serverVars, channelVars, browserVars, boundVars
    <2>1. stripe' \in Statuses
      BY <1>0 DEF Statuses
    <2>2. saved' \in {"no", "saved", "lost"} /\ connected' \in BOOLEAN
      BY Zenon DEF PageInv, TypeOK
    <2>3. TypeOK'
      BY <2>1, <2>2, Zenon DEF PageInv, TypeOK, Intents, Forms, Statuses
    <2>4. LineTypes' /\ RepliesFollowSave'
      BY DEF PageInv, LineTypes, RepliesFollowSave
    <2>5. QED
      BY <2>3, <2>4, BrowserStill DEF PageInv
  <1>7. CASE PressClose
    <2> USE <1>7 DEF PressClose, browserVars, boundVars
    <2>1. up' \in Seq(Pushes)
      <3>1. <<PushOf("close-payment-modal", 0)>> \in Seq(Pushes)
        BY IntentTypes DEF PushOf, Pushes, Events
      <3>2. QED
        BY <3>1, PushSends DEF PageInv
    <2>2. TypeOK'
      BY <1>0, TypesTogether
    <2>3. LineTypes' /\ RepliesFollowSave'
      BY <2>1 DEF PageInv, LineTypes, RepliesFollowSave, serverVars
    <2>4. QED
      BY <2>2, <2>3, BrowserStill DEF PageInv, serverVars
  <1>8. QED
    BY <1>1, <1>2, <1>3, <1>4, <1>5, <1>6, <1>7 DEF World

LEMMA FormIsMounted ==
  ASSUME PageInv, NEW v \in Views, Mounted(v), run' = run, blanks' = blanks
  PROVE  /\ page' \in Pages(Len(form')) /\ script' \in Scripts /\ form' \in Seq(Form)
         /\ up' \in Seq(Pushes) /\ FormsHold' /\ RunsHold' /\ Alone'
  <1> DEFINE g == [NewForm EXCEPT !.wanted = v.intent]
             n == Len(form) + 1
  <1>1. g \in Form /\ g.element = FALSE /\ g.listening = FALSE
    BY IntentTypes DEF NewForm, Form, Views
  <1>2. form \in Seq(Form) /\ Len(form) \in Nat /\ form' = Append(form, g)
    BY DEF PageInv, TypeOK, Mounted
  <1> HIDE DEF g
  <1>3. /\ form' \in Seq(Form) /\ Len(form') = n /\ form'[n] = g
        /\ \A k \in Forms : form'[k] = form[k]
    BY <1>1, <1>2, AppendProperties DEF Forms
  <1>4. FormsHold'
    <2>1. ASSUME NEW k \in 1..n
          PROVE  FormHolds(form'[k])
      <3>1. CASE k = n
        BY <1>1, <1>3, <3>1 DEF FormHolds
      <3>2. CASE k # n
        <4>1. k \in Forms
          BY <1>2, <3>2 DEF Forms
        <4>2. QED
          BY <1>3, <4>1 DEF PageInv, FormsHold
      <3>3. QED
        BY <3>1, <3>2
    <2>2. QED
      BY <1>3, <2>1 DEF FormsHold, FormHolds, Forms
  <1>5. page' \in Pages(n) /\ page'.form = n
    <2>1. page \in [intent: MaybeIntent, ready: BOOLEAN, form: 0..Len(form),
                    rung: BOOLEAN, gone: BOOLEAN]
      BY DEF PageInv, TypeOK
    <2>2. n \in 0..n
      BY <1>2
    <2>3. page' = [page EXCEPT !.intent = v.intent, !.ready = v.ready, !.form = n]
      BY DEF Mounted
    <2>4. v.intent \in MaybeIntent /\ v.ready \in BOOLEAN
      BY DEF Views
    <2> HIDE DEF n
    <2>5. QED
      BY <2>1, <2>2, <2>3, <2>4, Zenon DEF Pages
  <1>6. RunsHold'
    BY <1>2, <1>3, <1>5 DEF PageInv, RunsHold, Forms, Confirms
  <1>7. Alone'
    BY DEF PageInv, Alone, Confirms
  <1>8. script' \in Scripts
    BY DEF Mounted, PageInv, TypeOK, Scripts
  <1>9. up' \in Seq(Pushes)
    <2>1. <<PushOf("stripe-payment-element-loading", 0)>> \in Seq(Pushes)
      BY IntentTypes DEF PushOf, Pushes, Events
    <2>2. QED
      BY <2>1, PushSends DEF PageInv, Mounted
  <1>10. QED
    BY <1>3, <1>4, <1>5, <1>6, <1>7, <1>8, <1>9

LEMMA FormIsUpdated ==
  ASSUME PageInv, NEW v \in Views, page.form # NoForm, Updated(v), run' = run,
         blanks' = blanks
  PROVE  /\ page' \in Pages(Len(form')) /\ script' \in Scripts /\ form' \in Seq(Form)
         /\ up' \in Seq(Pushes) /\ FormsHold' /\ RunsHold' /\ Alone'
  <1> DEFINE h == page.form
             g == [form[h] EXCEPT !.wanted = v.intent]
  <1>0. /\ form \in Seq(Form) /\ Len(form) \in Nat /\ up \in Seq(Pushes)
        /\ page \in Pages(Len(form)) /\ script' \in Scripts
        /\ v.intent \in MaybeIntent /\ v.ready \in BOOLEAN
    BY DEF PageInv, TypeOK, LineTypes, Pages, Scripts, Updated, Views
  <1>1. h \in Forms /\ form[h] \in Form
    BY <1>0, ElementOfSeq DEF Pages, Forms, NoForm
  <1>2. page' \in Pages(Len(form)) /\ page'.form = page.form
    <2>1. page' = [page EXCEPT !.intent = v.intent, !.ready = v.ready]
      BY DEF Updated
    <2>2. page' \in Pages(Len(form))
      BY <1>0, <2>1, Zenon DEF Pages
    <2>3. QED
      BY <1>0, <2>1, <2>2 DEF Pages
  <1>3. CASE Reinitializes(form[h], v.intent)
    <2>1. form' = [form EXCEPT ![h] = g]
      BY <1>1, <1>3 DEF Updated, Forms
    <2>2. /\ g \in Form /\ g.inFlight = form[h].inFlight /\ g.elements = form[h].elements
          /\ g.element = form[h].element /\ g.listening = form[h].listening
          /\ g.content = form[h].content
      BY <1>0, <1>1 DEF Form
    <2>3. ~(form[h].element = TRUE)
      <3>1. form[h].elements = 0 \/ ~form[h].element
        BY <1>3, Zenon DEF Reinitializes
      <3>2. form[h].element = TRUE => form[h].elements # 0
        BY <1>1 DEF PageInv, FormsHold, FormHolds
      <3>3. QED
        BY <3>1, <3>2, Zenon
    <2>4. FormHolds(g)
      BY <1>1, <2>2, <2>3 DEF PageInv, FormsHold, FormHolds
    <2> HIDE DEF g
    <2>5. form' \in Seq(Form) /\ Len(form') = Len(form) /\ FormsHold'
      BY <1>1, <2>1, <2>2, <2>4, FormIsSet, FormsStillHold
    <2>6. RunsHold' /\ Alone'
      BY <1>1, <1>2, <2>1, <2>2, RunsStillHold
    <2>7. up' \in Seq(Pushes)
      <3>1. <<PushOf("stripe-payment-element-loading", 0)>> \in Seq(Pushes)
        BY IntentTypes DEF PushOf, Pushes, Events
      <3>2. QED
        BY <1>3, <3>1, PushSends DEF PageInv, Updated
    <2>8. QED
      BY <1>0, <1>2, <2>5, <2>6, <2>7
  <1>4. CASE ~Reinitializes(form[h], v.intent)
    <2>1. UNCHANGED <<form, up>>
      BY <1>4 DEF Updated
    <2>2. FormsHold' /\ RunsHold' /\ Alone'
      BY <1>2, <2>1 DEF PageInv, FormsHold, FormHolds, RunsHold, Forms, Alone, Confirms
    <2>3. QED
      BY <1>0, <1>2, <2>1, <2>2
  <1>5. QED
    BY <1>3, <1>4

LEMMA ReceiveSteps == PageInv /\ (ReceiveView \/ ReceiveReply \/ ScriptSettles) => PageInv'
  <1> SUFFICES ASSUME PageInv, ReceiveView \/ ReceiveReply \/ ScriptSettles
               PROVE  PageInv'
    OBVIOUS
  <1>0. /\ page \in Pages(Len(form)) /\ Len(form) \in Nat /\ down \in Seq(Messages)
        /\ script \in Scripts /\ form \in Seq(Form) /\ run \in [Clicks -> Run]
        /\ up \in Seq(Pushes) /\ blanks \in Nat
    BY DEF PageInv, TypeOK, LineTypes, Pages, Scripts
  <1>1. CASE ReceiveView
    <2> USE <1>1 DEF ReceiveView, boundVars
    <2>1. Head(down) \in Views
      BY <1>0, HeadTailProperties DEF Messages, Views, Replies
    <2>2. down' \in Seq(Messages) /\ RepliesFollowSave'
      BY LineShrinks DEF PageInv, serverVars
    <2>3. /\ page' \in Pages(Len(form')) /\ script' \in Scripts /\ form' \in Seq(Form)
          /\ up' \in Seq(Pushes) /\ FormsHold' /\ RunsHold' /\ Alone'
      <3> DEFINE v == Head(down)
      <3>1. CASE page.form = NoForm /\ v.intent # 0
        <4>1. Mounted(v)
          BY <3>1
        <4>2. QED
          BY <2>1, <4>1, FormIsMounted
      <3>2. CASE page.form # NoForm /\ v.intent = 0
        <4>1. Destroyed(v) /\ v.ready \in BOOLEAN
          BY <2>1, <3>2 DEF Views
        <4>2. QED
          BY <1>0, <3>2, <4>1, FormIsDestroyed
      <3>3. CASE page.form # NoForm /\ v.intent # 0
        <4>1. Updated(v)
          BY <3>3
        <4>2. QED
          BY <2>1, <3>3, <4>1, FormIsUpdated
      <3>4. CASE page.form = NoForm /\ v.intent = 0
        <4>1. page' = [page EXCEPT !.ready = v.ready] /\ UNCHANGED <<script, form, up>>
          BY <3>4
        <4>2. page' \in Pages(Len(form)) /\ page'.form = page.form
          <5>1. v.ready \in BOOLEAN
            BY <2>1 DEF Views
          <5>2. page' \in Pages(Len(form))
            BY <1>0, <4>1, <5>1, Zenon DEF Pages
          <5>3. QED
            BY <1>0, <4>1, <5>2 DEF Pages
        <4>3. FormsHold' /\ RunsHold' /\ Alone'
          BY <4>1, <4>2, BrowserStill DEF serverVars
        <4>4. QED
          BY <1>0, <4>1, <4>2, <4>3
      <3>5. QED
        BY <3>1, <3>2, <3>3, <3>4
    <2>4. TypeOK'
      BY <1>0, <2>3, TypesTogether
    <2>5. SavedFirst'
      BY SavedStays DEF serverVars
    <2>6. QED
      BY <1>0, <2>2, <2>3, <2>4, <2>5 DEF PageInv, LineTypes
  <1>2. CASE ReceiveReply
    <2> USE <1>2 DEF ReceiveReply, boundVars
    <2>1. down' \in Seq(Messages) /\ RepliesFollowSave'
      BY LineShrinks DEF PageInv, serverVars
    <2>2. saved # "no"
      BY <1>0, HeadTailProperties DEF PageInv, RepliesFollowSave
    <2>3. \/ run' = run
          \/ \E c : /\ run[c].step = "reply"
                    /\ run' = [run EXCEPT ![c].step = "resume", ![c].via = "reply"]
      BY DEF Resumed
    <2>4. /\ run' \in [Clicks -> Run]
          /\ \A c \in Clicks : /\ run'[c].form = run[c].form
                               /\ run'[c].step = "idle" <=> run[c].step = "idle"
                               /\ Confirms(c)' <=> Confirms(c)
      <3>1. CASE run' = run
        BY <1>0, <3>1 DEF Confirms
      <3>2. ASSUME NEW c, run[c].step = "reply",
                   run' = [run EXCEPT ![c].step = "resume", ![c].via = "reply"]
            PROVE  /\ run' \in [Clicks -> Run]
                   /\ \A d \in Clicks : /\ run'[d].form = run[d].form
                                        /\ run'[d].step = "idle" <=> run[d].step = "idle"
                                        /\ Confirms(d)' <=> Confirms(d)
        BY <1>0, <3>2 DEF Run, Confirms
      <3>3. QED
        BY <2>3, <3>1, <3>2
    <2>5. FormsHold' /\ RunsHold' /\ Alone' /\ SavedFirst'
      <3>1. FormsHold'
        BY DEF PageInv, FormsHold, FormHolds, Forms
      <3>2. RunsHold'
        BY <2>4 DEF PageInv, RunsHold, Forms
      <3>3. Alone'
        BY <2>4 DEF PageInv, Alone
      <3>4. SavedFirst'
        BY <2>2 DEF SavedFirst, serverVars
      <3>5. QED
        BY <3>1, <3>2, <3>3, <3>4
    <2>6. TypeOK'
      BY <1>0, <2>4, TypesTogether
    <2>7. QED
      BY <1>0, <2>1, <2>5, <2>6 DEF PageInv, LineTypes
  <1>3. CASE ScriptSettles
    <2> USE <1>3 DEF ScriptSettles, boundVars, channelVars, serverVars
    <2>1. TypeOK'
      BY <1>0, TypesTogether DEF Scripts
    <2>2. LineTypes' /\ RepliesFollowSave'
      BY <1>0 DEF PageInv, LineTypes, RepliesFollowSave
    <2>3. QED
      BY <2>1, <2>2, BrowserStill DEF PageInv
  <1>4. QED
    BY <1>1, <1>2, <1>3

LEMMA InitializeSteps ==
  ASSUME PageInv, NEW h \in Forms, InitializeStripe(h)
  PROVE  PageInv'
  <1> DEFINE f == form[h]
             w == f.wanted
             Settled(g) == [g EXCEPT !.wanted = 0]
  <1> USE DEF boundVars
  <1>0. /\ page \in Pages(Len(form)) /\ Len(form) \in Nat /\ form \in Seq(Form)
        /\ script \in Scripts /\ run \in [Clicks -> Run] /\ down \in Seq(Messages)
        /\ blanks \in Nat /\ h \in 1..Len(form)
    BY DEF PageInv, TypeOK, LineTypes, Pages, Scripts, Forms
  <1>1. f \in Form /\ FormHolds(f) /\ w # 0 /\ w \in MaybeIntent
    <2>1. f \in Form
      BY <1>0, ElementOfSeq
    <2>2. FormHolds(f)
      BY DEF PageInv, FormsHold
    <2>3. w # 0
      BY DEF InitializeStripe
    <2>4. QED
      BY <2>1, <2>2, <2>3 DEF Form
  <1>2. ~(f.element = TRUE)
    BY <1>1 DEF FormHolds
  <1>3. f.element = FALSE
    BY <1>1, <1>2, Zenon DEF Form
  <1>4. \E g : /\ form' = [form EXCEPT ![h] = Settled(g)]
               /\ Push(<<>>) \/ Push(<<PushOf("stripe-payment-element-ready", 0)>>)
               /\ g = f \/ g \in BuildFails(f, w) \/ g = Built(f, w)
    BY DEF InitializeStripe
  <1>5. PICK g : /\ form' = [form EXCEPT ![h] = Settled(g)]
                 /\ Push(<<>>) \/ Push(<<PushOf("stripe-payment-element-ready", 0)>>)
                 /\ g = f \/ g \in BuildFails(f, w) \/ g = Built(f, w)
    BY <1>4
  <1> DEFINE s == Settled(g)
  <1>6. /\ s \in Form /\ FormHolds(s) /\ s.inFlight = f.inFlight
        /\ s.elements # 0 \/ f.elements = 0
    <2> USE <1>1 DEF Form
    <2>1. CASE g = f
      <3>1. s = [f EXCEPT !.wanted = 0]
        BY <2>1
      <3>2. s \in Form
        BY <3>1, IntentTypes, Zenon
      <3>3. /\ s.inFlight = f.inFlight /\ s.elements = f.elements /\ s.element = f.element
            /\ s.listening = f.listening
        BY <3>1
      <3>4. QED
        BY <1>3, <3>2, <3>3 DEF FormHolds
    <2>2. CASE g = [f EXCEPT !.secret = w]
      <3>1. s = [f EXCEPT !.secret = w, !.wanted = 0]
        BY <2>2
      <3>2. s \in Form
        BY <3>1, IntentTypes, Zenon
      <3>3. /\ s.inFlight = f.inFlight /\ s.elements = f.elements /\ s.element = f.element
            /\ s.listening = f.listening
        BY <3>1
      <3>4. QED
        BY <1>3, <3>2, <3>3 DEF FormHolds
    <2>3. CASE g = [f EXCEPT !.secret = w, !.elements = w] /\ f.elements = 0
      <3>1. s = [f EXCEPT !.secret = w, !.elements = w, !.wanted = 0]
        BY <2>3
      <3>2. s \in Form
        BY <3>1, IntentTypes, Zenon
      <3>3. /\ s.inFlight = f.inFlight /\ s.elements = w /\ s.element = f.element
        BY <3>1
      <3>4. QED
        BY <1>3, <3>2, <3>3 DEF FormHolds
    <2>4. CASE g = [f EXCEPT !.secret = w, !.elements = w, !.element = TRUE] /\ f.elements = 0
      <3>1. s = [f EXCEPT !.secret = w, !.elements = w, !.element = TRUE, !.wanted = 0]
        BY <2>4
      <3>2. s \in Form
        BY <3>1, IntentTypes, Zenon
      <3>3. /\ s.inFlight = f.inFlight /\ s.elements = w /\ s.secret = w /\ s.wanted = 0
            /\ s.listening = f.listening
        BY <3>1
      <3>4. ~(s.listening = TRUE)
        BY <2>4, <3>3 DEF FormHolds
      <3>5. QED
        BY <3>2, <3>3, <3>4 DEF FormHolds
    <2>5. CASE g = Built(f, w) /\ f.elements = 0
      <3>1. s = [f EXCEPT !.secret = w, !.listening = TRUE, !.elements = w,
                          !.element = TRUE, !.content = TRUE, !.wanted = 0]
        BY <2>5 DEF Built
      <3>2. s \in Form
        BY <3>1, IntentTypes, Zenon
      <3>3. /\ s.inFlight = f.inFlight /\ s.elements = w /\ s.secret = w /\ s.wanted = 0
            /\ s.content = TRUE
        BY <3>1
      <3>4. QED
        BY <3>2, <3>3 DEF FormHolds
    <2>6. CASE g = Built(f, w) /\ f.elements # 0
      <3>1. s = [f EXCEPT !.secret = w, !.listening = TRUE,
                          !.content = f.content \/ f.element, !.wanted = 0]
        BY <2>6 DEF Built
      <3>2. s \in Form
        <4>1. (f.content \/ f.element) \in BOOLEAN
          BY Zenon
        <4>2. QED
          BY <3>1, <4>1, IntentTypes, Zenon
      <3>3. /\ s.inFlight = f.inFlight /\ s.elements = f.elements /\ s.element = f.element
        BY <3>1
      <3>4. QED
        BY <1>3, <2>6, <3>2, <3>3 DEF FormHolds
    <2>7. QED
      BY <1>5, <2>1, <2>2, <2>3, <2>4, <2>5, <2>6 DEF BuildFails
  <1> HIDE DEF s
  <1>7. form' = [form EXCEPT ![h] = s]
    BY <1>5 DEF s
  <1>8. form' \in Seq(Form) /\ Len(form') = Len(form) /\ FormsHold'
    BY <1>6, <1>7, FormIsSet, FormsStillHold DEF InitializeStripe
  <1>9. RunsHold' /\ Alone'
    <2>1. page'.form = page.form /\ run' = run /\ blanks' = blanks
      BY DEF InitializeStripe
    <2>2. QED
      BY <1>6, <1>7, <2>1, RunsStillHold
  <1>10. up' \in Seq(Pushes)
    <2>1. /\ <<PushOf("stripe-payment-element-ready", 0)>> \in Seq(Pushes)
          /\ <<>> \in Seq(Pushes)
      BY IntentTypes DEF PushOf, Pushes, Events
    <2>2. QED
      BY <1>5, <2>1, PushSends DEF PageInv
  <1>11. TypeOK'
    BY <1>0, <1>8, TypesTogether DEF InitializeStripe
  <1>12. LineTypes' /\ RepliesFollowSave' /\ SavedFirst'
    BY <1>0, <1>10, SavedStays
       DEF PageInv, LineTypes, RepliesFollowSave, InitializeStripe, serverVars
  <1>13. QED
    BY <1>8, <1>9, <1>11, <1>12 DEF PageInv

-----------------------------------------------------------------------------
(* Steps of a click.                                                        *)

LEMMA FlagIsSet ==
  ASSUME PageInv, NEW h \in Forms, NEW b \in BOOLEAN,
         form' = [form EXCEPT ![h].inFlight = b], blanks' = blanks
  PROVE  /\ form' \in Seq(Form) /\ Len(form') = Len(form) /\ Forms' = Forms /\ FormsHold'
         /\ \A k \in Forms : /\ form'[k].elements = form[k].elements
                             /\ k # h => form'[k].inFlight = form[k].inFlight
         /\ form'[h].inFlight = b
  <1> DEFINE g == [form[h] EXCEPT !.inFlight = b]
  <1>1. form[h] \in Form /\ form' = [form EXCEPT ![h] = g] /\ FormHolds(form[h])
    BY ElementOfSeq DEF PageInv, TypeOK, Forms, FormsHold
  <1>2. g \in Form
    BY <1>1, Zenon DEF Form
  <1>3. /\ g.elements = form[h].elements /\ g.element = form[h].element /\ g.inFlight = b
        /\ g.wanted = form[h].wanted /\ g.secret = form[h].secret
        /\ g.listening = form[h].listening /\ g.content = form[h].content
    BY <1>1 DEF Form
  <1> HIDE DEF g
  <1>4. FormHolds(g)
    BY <1>1, <1>3 DEF FormHolds
  <1>5. /\ form' \in Seq(Form) /\ Len(form') = Len(form) /\ Forms' = Forms /\ FormsHold'
        /\ form'[h] = g /\ \A k \in Forms : k # h => form'[k] = form[k]
    BY <1>1, <1>2, <1>4, FormIsSet, FormsStillHold
  <1>6. QED
    BY <1>3, <1>5, Zenon

LEMMA ClickEnds ==
  ASSUME PageInv, NEW c \in Clicks, Confirms(c), run' = [run EXCEPT ![c] = NewRun],
         form' = form \/ form' = [form EXCEPT ![run[c].form].inFlight = FALSE],
         page'.form = page.form, blanks' = blanks, saved' = saved
  PROVE  /\ run' \in [Clicks -> Run] /\ form' \in Seq(Form) /\ Len(form') = Len(form)
         /\ FormsHold' /\ RunsHold' /\ Alone' /\ SavedFirst'
  <1>1. run \in [Clicks -> Run] /\ form \in Seq(Form)
    BY DEF PageInv, TypeOK
  <1>2. NewRun \in Run /\ NewRun.step = "idle"
    BY IntentTypes DEF NewRun, Run, NoForm
  <1>3. run[c].form \in Forms
    BY DEF PageInv, RunsHold, Confirms
  <1>4. /\ form' \in Seq(Form) /\ Len(form') = Len(form) /\ Forms' = Forms /\ FormsHold'
        /\ \A k \in Forms : /\ form'[k].elements = form[k].elements
                            /\ k # run[c].form => form'[k].inFlight = form[k].inFlight
    <2>1. CASE form' = form
      BY <1>1, <2>1 DEF PageInv, FormsHold, FormHolds, Forms
    <2>2. CASE form' = [form EXCEPT ![run[c].form].inFlight = FALSE]
      BY <1>3, <2>2, FlagIsSet, Zenon
    <2>3. QED
      BY <2>1, <2>2
  <1>5. /\ run' \in [Clicks -> Run] /\ run'[c].step = "idle"
        /\ \A d \in Clicks : d # c => run'[d] = run[d]
    BY <1>1, <1>2
  <1>6. RunsHold'
    <2>1. ASSUME NEW d \in Clicks, run'[d].step # "idle"
          PROVE  /\ run[d].form \in Forms /\ run'[d] = run[d]
                 /\ run[d].form = page.form => form[run[d].form].elements # 0
                 /\ blanks = 0 => /\ Confirms(d) /\ form[run[d].form].inFlight = TRUE
                                  /\ run[d].form # run[c].form
      BY <1>5, <2>1 DEF PageInv, RunsHold, Alone
    <2>2. ASSUME NEW d \in Clicks, run'[d].step # "idle"
          PROVE  /\ run'[d].form \in Forms'
                 /\ run'[d].form = page'.form => form'[run'[d].form].elements # 0
                 /\ blanks' = 0 => /\ run'[d].step \in {"reply", "resume", "confirm"}
                                   /\ form'[run'[d].form].inFlight = TRUE
      <3> DEFINE k == run[d].form
      <3>1. /\ k \in Forms /\ run'[d] = run[d] /\ run'[d].form = k
            /\ k = page.form => form[k].elements # 0
            /\ blanks = 0 => /\ run'[d].step \in {"reply", "resume", "confirm"}
                             /\ form[k].inFlight = TRUE /\ k # run[c].form
        BY <2>1, <2>2 DEF Confirms
      <3> HIDE DEF k
      <3>2. form'[k].elements = form[k].elements
            /\ (k # run[c].form => form'[k].inFlight = form[k].inFlight)
        BY <1>4, <3>1, Zenon
      <3>3. k = page'.form => form'[k].elements # 0
        BY <3>1, <3>2, Zenon
      <3>4. blanks' = 0 => form'[k].inFlight = TRUE
        BY <3>1, <3>2, Zenon
      <3>5. k \in Forms'
        BY <1>4, <3>1, Zenon
      <3>6. QED
        BY <3>1, <3>3, <3>4, <3>5, Zenon
    <2>3. QED
      BY <2>2, Zenon DEF RunsHold, Confirms
  <1>7. Alone' /\ SavedFirst'
    BY <1>5 DEF PageInv, Alone, SavedFirst, Confirms
  <1>8. QED
    BY <1>4, <1>5, <1>6, <1>7

LEMMA ClickGoesOn ==
  ASSUME PageInv, NEW c \in Clicks, Confirms(c), NEW r \in Run, r.form = run[c].form,
         r.step \in {"resume", "confirm"},
         saved # "no" \/ r.via \in {"timer", "offline"},
         run' = [run EXCEPT ![c] = r],
         form' = form, page' = page, blanks' = blanks, saved' = saved
  PROVE  /\ run' \in [Clicks -> Run]
         /\ FormsHold' /\ RunsHold' /\ Alone' /\ SavedFirst'
  <1>1. run \in [Clicks -> Run]
    BY DEF PageInv, TypeOK
  <1>2. /\ run' \in [Clicks -> Run] /\ run'[c] = r
        /\ \A d \in Clicks : d # c => run'[d] = run[d]
    BY <1>1
  <1>3. FormsHold'
    BY DEF PageInv, FormsHold, FormHolds, Forms
  <1>4. \A d \in Clicks : run'[d].form = run[d].form /\ (Confirms(d)' <=> Confirms(d))
                          /\ (run'[d].step # "idle" <=> run[d].step # "idle")
    BY <1>2 DEF Confirms
  <1>5. RunsHold' /\ Alone'
    BY <1>4 DEF PageInv, RunsHold, Alone, Forms
  <1>6. SavedFirst'
    BY <1>2 DEF PageInv, SavedFirst
  <1>7. QED
    BY <1>2, <1>3, <1>5, <1>6

\* A click begins to be confirmed: its form is not being confirmed yet, or its frame was
\* lost and the click has had to mount it again.
LEMMA ClickIsSubmitted ==
  ASSUME PageInv, NEW c \in Clicks, NEW h \in Forms, Submit(c, h),
         form[h].elements # 0 \/ h # page.form,
         blanks = 0 => ~(form[h].inFlight = TRUE),
         form' = [form EXCEPT ![h].inFlight = TRUE],
         UNCHANGED <<serverVars, down, stripe, page, script, boundVars>>
  PROVE  PageInv'
  <1>0. /\ run \in [Clicks -> Run] /\ up \in Seq(Pushes) /\ form \in Seq(Form)
        /\ page \in Pages(Len(form)) /\ script \in Scripts
    BY DEF PageInv, TypeOK, LineTypes, Pages, Scripts
  <1>1. /\ form' \in Seq(Form) /\ Len(form') = Len(form) /\ Forms' = Forms /\ FormsHold'
        /\ \A k \in Forms : /\ form'[k].elements = form[k].elements
                            /\ k # h => form'[k].inFlight = form[k].inFlight
        /\ form'[h].inFlight = TRUE
    BY FlagIsSet, Zenon DEF boundVars
  <1>2. \E sent \in BOOLEAN :
           run' = [run EXCEPT ![c] = [NewRun EXCEPT !.form = h,
                                        !.step = IF sent THEN "reply" ELSE "resume",
                                        !.via = IF sent THEN "none" ELSE "offline"]]
    <2>1. (connected /\ Live(h)) \in BOOLEAN
      BY Zenon
    <2>2. QED
      BY <2>1, Zenon DEF Submit
  <1>3. PICK r : /\ r \in Run /\ r.form = h /\ run' = [run EXCEPT ![c] = r]
                 /\ r.step = "reply" \/ (r.step = "resume" /\ r.via = "offline")
    <2>1. NewRun \in Run /\ h \in Nat
      BY <1>0, IntentTypes DEF NewRun, Run, NoForm, Forms
    <2>2. PICK sent \in BOOLEAN :
             run' = [run EXCEPT ![c] = [NewRun EXCEPT !.form = h,
                                          !.step = IF sent THEN "reply" ELSE "resume",
                                          !.via = IF sent THEN "none" ELSE "offline"]]
      BY <1>2
    <2>3. CASE sent
      <3> DEFINE new == [NewRun EXCEPT !.form = h, !.step = "reply", !.via = "none"]
      <3>1. run' = [run EXCEPT ![c] = new]
        BY <2>2, <2>3, Zenon
      <3>2. new \in Run /\ new.form = h /\ new.step = "reply" /\ new.via = "none"
        BY <2>1 DEF Run
      <3> HIDE DEF new
      <3>3. QED
        BY <3>1, <3>2, Zenon
    <2>4. CASE ~sent
      <3> DEFINE new == [NewRun EXCEPT !.form = h, !.step = "resume", !.via = "offline"]
      <3>1. run' = [run EXCEPT ![c] = new]
        BY <2>2, <2>4, Zenon
      <3>2. new \in Run /\ new.form = h /\ new.step = "resume" /\ new.via = "offline"
        BY <2>1 DEF Run
      <3> HIDE DEF new
      <3>3. QED
        BY <3>1, <3>2, Zenon
    <2>5. QED
      BY <2>3, <2>4
  <1>4. /\ run' \in [Clicks -> Run] /\ run'[c] = r
        /\ \A d \in Clicks : d # c => run'[d] = run[d]
    BY <1>0, <1>3
  <1>5. ASSUME NEW d \in Clicks, d # c, blanks = 0, Confirms(d)
        PROVE  run[d].form # h
    BY <1>5 DEF PageInv, RunsHold, Confirms
  <1>6. RunsHold'
    <2>1. ASSUME NEW d \in Clicks, run'[d].step # "idle"
          PROVE  /\ run'[d].form \in Forms'
                 /\ run'[d].form = page'.form => form'[run'[d].form].elements # 0
                 /\ blanks' = 0 => /\ run'[d].step \in {"reply", "resume", "confirm"}
                                   /\ form'[run'[d].form].inFlight = TRUE
      <3>0. page' = page /\ blanks' = blanks
        BY DEF boundVars
      <3>1. CASE d = c
        BY <1>1, <1>3, <1>4, <3>0, <3>1
      <3>2. CASE d # c
        <4> DEFINE k == run[d].form
        <4>1. /\ k \in Forms /\ run'[d] = run[d] /\ run'[d].form = k
              /\ k = page.form => form[k].elements # 0
              /\ blanks = 0 => /\ run'[d].step \in {"reply", "resume", "confirm"}
                               /\ form[k].inFlight = TRUE /\ k # h
          BY <1>4, <1>5, <2>1, <3>2 DEF PageInv, RunsHold, Confirms
        <4> HIDE DEF k
        <4>2. form'[k].elements = form[k].elements
              /\ (k # h => form'[k].inFlight = form[k].inFlight)
          BY <1>1, <4>1, Zenon
        <4>3. k = page'.form => form'[k].elements # 0
          BY <3>0, <4>1, <4>2, Zenon
        <4>4. blanks' = 0 => form'[k].inFlight = TRUE
          BY <3>0, <4>1, <4>2, Zenon
        <4>5. k \in Forms'
          BY <1>1, <4>1, Zenon
        <4>6. QED
          BY <3>0, <4>1, <4>3, <4>4, <4>5, Zenon
      <3>3. QED
        BY <3>1, <3>2
    <2>2. QED
      BY <2>1, Zenon DEF RunsHold, Confirms
  <1>7. Alone'
    <2>1. ASSUME NEW a \in Clicks, NEW b \in Clicks, blanks = 0,
                 run'[a].step \in {"reply", "resume", "confirm"},
                 run'[b].step \in {"reply", "resume", "confirm"},
                 run'[a].form = run'[b].form, a # b
          PROVE  FALSE
      BY <1>3, <1>4, <1>5, <2>1 DEF PageInv, Alone, Confirms
    <2>2. QED
      BY <2>1 DEF Alone, Confirms, boundVars
  <1>8. SavedFirst'
    BY <1>3, <1>4 DEF PageInv, SavedFirst, serverVars
  <1>9. up' \in Seq(Pushes)
    <2>1. PushOf("payment-redirect-started", c) \in Pushes
      BY DEF PushOf, Pushes, Events
    <2>2. Append(up, PushOf("payment-redirect-started", c)) \in Seq(Pushes)
      BY <1>0, <2>1, AppendProperties
    <2>3. up' = up \/ up' = Append(up, PushOf("payment-redirect-started", c))
      BY DEF Submit
    <2>4. QED
      BY <1>0, <2>2, <2>3
  <1>10. TypeOK'
    BY <1>0, <1>1, <1>4, TypesTogether
  <1>11. LineTypes' /\ RepliesFollowSave'
    BY <1>9 DEF PageInv, LineTypes, RepliesFollowSave, boundVars, serverVars
  <1>12. QED
    BY <1>1, <1>6, <1>7, <1>8, <1>10, <1>11 DEF PageInv

LEMMA HandleSubmitSteps ==
  ASSUME PageInv, NEW c \in Clicks, HandleSubmit(c)
  PROVE  PageInv'
  <1> DEFINE h == page.form
             f == form[h]
  <1>0. /\ run \in [Clicks -> Run] /\ form \in Seq(Form) /\ Len(form) \in Nat
        /\ page \in Pages(Len(form)) /\ script \in Scripts /\ up \in Seq(Pushes)
        /\ down \in Seq(Messages) /\ blanks \in Nat
    BY DEF PageInv, TypeOK, LineTypes, Pages, Scripts
  <1>1. h \in Forms /\ f \in Form /\ FormHolds(f)
    <2>1. h \in Forms
      BY <1>0 DEF HandleSubmit, Pages, Forms, NoForm
    <2>2. QED
      BY <1>0, <2>1, ElementOfSeq DEF Forms, PageInv, FormsHold
  <1>2. f.listening = TRUE /\ f.element = TRUE /\ f.inFlight = FALSE
    <2>1. f.listening \in BOOLEAN /\ f.element \in BOOLEAN /\ f.inFlight \in BOOLEAN
      BY <1>1, Zenon DEF Form
    <2>2. f.listening /\ f.element /\ ~f.inFlight
      BY Zenon DEF HandleSubmit, Accepts
    <2>3. QED
      BY <2>1, <2>2, Zenon
  <1>3. f.elements # 0 /\ (blanks = 0 => f.content = TRUE)
    BY <1>1, <1>2 DEF FormHolds
  <1>4. CASE /\ form' = [form EXCEPT ![h].inFlight = TRUE] /\ Submit(c, h)
    <2>1. UNCHANGED <<serverVars, down, stripe, page, script, boundVars>>
      BY DEF HandleSubmit
    <2>2. blanks = 0 => ~(f.inFlight = TRUE)
      BY <1>2
    <2>3. QED
      BY <1>1, <1>3, <1>4, <2>1, <2>2, ClickIsSubmitted
  <1>5. CASE /\ ~f.content
             /\ form' = [form EXCEPT ![h].content = TRUE]
             /\ run' = [run EXCEPT ![c] = [NewRun EXCEPT !.form = h, !.step = "remount"]]
             /\ UNCHANGED up
    <2>0. UNCHANGED <<serverVars, down, stripe, page, script, boundVars>>
      BY DEF HandleSubmit
    <2>1. blanks # 0 /\ blanks' = blanks
      <3>1. ~(f.content = TRUE)
        BY <1>5, Zenon
      <3>2. QED
        BY <1>3, <2>0, <3>1 DEF boundVars
    <2> DEFINE g == [f EXCEPT !.content = TRUE]
    <2>2. /\ g \in Form /\ g.inFlight = f.inFlight /\ g.elements = f.elements
          /\ g.element = f.element /\ g.wanted = f.wanted /\ g.secret = f.secret
          /\ g.content = TRUE
      BY <1>1 DEF Form
    <2>3. form' = [form EXCEPT ![h] = g]
      BY <1>1, <1>5 DEF Forms
    <2> HIDE DEF g
    <2>4. FormHolds(g)
      BY <1>1, <1>3, <2>2 DEF FormHolds
    <2>5. /\ form' \in Seq(Form) /\ Len(form') = Len(form) /\ Forms' = Forms /\ FormsHold'
          /\ \A k \in Forms : form'[k] = IF k = h THEN g ELSE form[k]
      BY <1>1, <2>1, <2>2, <2>3, <2>4, FormIsSet, FormsStillHold
    <2>6. /\ run' \in [Clicks -> Run] /\ run'[c].step = "remount" /\ run'[c].form = h
          /\ \A d \in Clicks : d # c => run'[d] = run[d]
      <3> DEFINE new == [NewRun EXCEPT !.form = h, !.step = "remount"]
      <3>0. NewRun \in Run /\ h \in Nat
        BY <1>0, <1>1, IntentTypes DEF NewRun, Run, NoForm, Forms
      <3>1. new \in Run /\ new.step = "remount" /\ new.form = h
        BY <3>0 DEF Run
      <3>2. run' = [run EXCEPT ![c] = new]
        BY <1>5
      <3> HIDE DEF new
      <3>3. QED
        BY <1>0, <3>1, <3>2
    <2>7. RunsHold'
      <3>1. ASSUME NEW d \in Clicks, run'[d].step # "idle"
            PROVE  /\ run'[d].form \in Forms
                   /\ run'[d].form = page.form => form'[run'[d].form].elements # 0
        <4>1. CASE d = c
          BY <1>1, <1>3, <2>2, <2>5, <2>6, <4>1
        <4>2. CASE d # c
          BY <2>2, <2>5, <2>6, <3>1, <4>2 DEF PageInv, RunsHold
        <4>3. QED
          BY <4>1, <4>2
      <3>2. QED
        BY <2>0, <2>1, <2>5, <3>1 DEF RunsHold
    <2>8. Alone'
      BY <2>1 DEF Alone
    <2>9. SavedFirst'
      BY <2>0, <2>6 DEF PageInv, SavedFirst, serverVars
    <2>10. TypeOK'
      BY <1>0, <2>0, <2>5, <2>6, TypesTogether
    <2>11. LineTypes' /\ RepliesFollowSave'
      BY <1>0, <1>5, <2>0, <2>1 DEF PageInv, LineTypes, RepliesFollowSave, serverVars
    <2>12. QED
      BY <2>5, <2>7, <2>8, <2>9, <2>10, <2>11 DEF PageInv
  <1>6. QED
    BY <1>4, <1>5 DEF HandleSubmit

LEMMA SubmitsSteps ==
  ASSUME PageInv, NEW c \in Clicks, Submits(c)
  PROVE  PageInv'
  <1> DEFINE h == run[c].form
  <1>0. /\ run \in [Clicks -> Run] /\ form \in Seq(Form) /\ Len(form) \in Nat
        /\ page \in Pages(Len(form)) /\ script \in Scripts /\ up \in Seq(Pushes)
        /\ down \in Seq(Messages) /\ blanks \in Nat /\ run[c] \in Run
    BY DEF PageInv, TypeOK, LineTypes, Pages, Scripts
  <1>1. CASE RemountWaited(c)
    <2>1. h \in Forms /\ (h = page.form => form[h].elements # 0) /\ blanks # 0
      BY <1>1 DEF RemountWaited, PageInv, RunsHold, Confirms
    <2>2. /\ Submit(c, h) /\ form' = [form EXCEPT ![h].inFlight = TRUE]
          /\ UNCHANGED <<serverVars, down, stripe, page, script, boundVars>>
      BY <1>1 DEF RemountWaited
    <2>3. QED
      BY <2>1, <2>2, ClickIsSubmitted
  <1>2. CASE ReplyTimesOut(c)
    <2> USE <1>2 DEF ReplyTimesOut, Resumed, boundVars, channelVars
    <2> DEFINE r == [run[c] EXCEPT !.step = "resume", !.via = "timer"]
    <2>1. r \in Run /\ r.form = run[c].form /\ r.step = "resume" /\ r.via = "timer"
      BY <1>0 DEF Run
    <2>2. run' = [run EXCEPT ![c] = r] /\ Confirms(c)
      BY <1>0 DEF Confirms
    <2> HIDE DEF r
    <2>3. run' \in [Clicks -> Run] /\ FormsHold' /\ RunsHold' /\ Alone' /\ SavedFirst'
      BY <2>1, <2>2, ClickGoesOn DEF serverVars
    <2>4. TypeOK'
      BY <1>0, <2>3, TypesTogether
    <2>5. LineTypes' /\ RepliesFollowSave'
      BY <1>0 DEF PageInv, LineTypes, RepliesFollowSave, serverVars
    <2>6. QED
      BY <2>3, <2>4, <2>5 DEF PageInv
  <1>3. CASE ConfirmPayment(c)
    <2> USE <1>3 DEF ConfirmPayment, boundVars, channelVars
    <2>0. Confirms(c) /\ h \in Forms
      BY DEF Confirms, PageInv, RunsHold
    <2>1. /\ run' \in [Clicks -> Run] /\ FormsHold' /\ RunsHold' /\ Alone' /\ SavedFirst'
          /\ form' \in Seq(Form) /\ Len(form') = Len(form)
      <3>1. CASE Live(h)
        <4> DEFINE r == [run[c] EXCEPT !.step = "confirm", !.intent = form[h].elements]
        <4>1. form[h] \in Form
          BY <1>0, <2>0, ElementOfSeq DEF Forms
        <4>2. /\ r \in Run /\ r.form = run[c].form /\ r.step = "confirm"
              /\ r.via = run[c].via
          BY <1>0, <4>1 DEF Run, Form
        <4>3. run' = [run EXCEPT ![c] = r] /\ form' = form
          BY <1>0, <3>1
        <4>4. saved # "no" \/ r.via \in {"timer", "offline"}
          BY <4>2 DEF PageInv, SavedFirst
        <4> HIDE DEF r
        <4>5. QED
          BY <1>0, <2>0, <4>2, <4>3, <4>4, ClickGoesOn DEF serverVars
      <3>2. CASE ~Live(h)
        <4>1. /\ run' = [run EXCEPT ![c] = NewRun]
              /\ form' = [form EXCEPT ![h].inFlight = FALSE]
          BY <3>2
        <4>2. QED
          BY <1>0, <2>0, <4>1, ClickEnds DEF serverVars
      <3>3. QED
        BY <3>1, <3>2
    <2>2. TypeOK'
      BY <1>0, <2>1, TypesTogether
    <2>3. LineTypes' /\ RepliesFollowSave'
      BY <1>0 DEF PageInv, LineTypes, RepliesFollowSave, serverVars
    <2>4. QED
      BY <2>1, <2>2, <2>3 DEF PageInv
  <1>4. QED
    BY <1>1, <1>2, <1>3 DEF Submits

LEMMA AnswersSteps ==
  ASSUME PageInv, NEW c \in Clicks, Answers(c)
  PROVE  PageInv'
  <1> DEFINE h == run[c].form
  <1>0. /\ run \in [Clicks -> Run] /\ form \in Seq(Form) /\ Len(form) \in Nat
        /\ page \in Pages(Len(form)) /\ script \in Scripts /\ up \in Seq(Pushes)
        /\ down \in Seq(Messages) /\ blanks \in Nat /\ run[c] \in Run
        /\ stripe \in Statuses
    BY DEF PageInv, TypeOK, LineTypes, Pages, Scripts, Statuses
  <1>1. Confirms(c) /\ h \in Forms /\ form[h] \in Form
    <2>1. Confirms(c)
      BY DEF Answers, PaymentAccepted, AlreadySucceeded, PaymentFailed, RedirectAway,
             Confirming, Confirms
    <2>2. h \in Forms
      BY <2>1 DEF Confirms, PageInv, RunsHold
    <2>3. QED
      BY <1>0, <2>1, <2>2, ElementOfSeq DEF Forms
  <1>2. stripe' = stripe \/ stripe' \in Statuses
    BY <1>0 DEF Answers, PaymentAccepted, AlreadySucceeded, PaymentFailed, RedirectAway,
           StripeIs, Statuses
  <1>3. CASE PaymentAccepted(c) \/ AlreadySucceeded(c) \/ PaymentFailed(c)
    <2>1. /\ run' = [run EXCEPT ![c] = NewRun]
          /\ form' = form \/ form' = [form EXCEPT ![run[c].form].inFlight = FALSE]
          /\ UNCHANGED <<serverVars, down, page, script, boundVars>>
      BY <1>3 DEF PaymentAccepted, AlreadySucceeded, PaymentFailed, channelVars
    <2>2. /\ run' \in [Clicks -> Run] /\ form' \in Seq(Form) /\ Len(form') = Len(form)
          /\ FormsHold' /\ RunsHold' /\ Alone' /\ SavedFirst'
      BY <1>1, <2>1, ClickEnds DEF serverVars, boundVars
    <2>3. TypeOK'
      BY <1>0, <1>2, <2>1, <2>2, TypesTogether
    <2>4. up' \in Seq(Pushes)
      <3>1. /\ <<PushOf("payment-success", form[h].secret)>> \in Seq(Pushes)
            /\ <<PushOf("payment-success", run[c].intent)>> \in Seq(Pushes)
        BY <1>0, <1>1 DEF PushOf, Pushes, Events, Form, Run
      <3>2. \/ up' = up
            \/ Push(<<PushOf("payment-success", form[h].secret)>>)
            \/ Push(<<PushOf("payment-success", run[c].intent)>>)
        BY <1>3 DEF PaymentAccepted, AlreadySucceeded, PaymentFailed, channelVars
      <3>3. QED
        BY <1>0, <3>1, <3>2, PushSends DEF PageInv
    <2>5. LineTypes' /\ RepliesFollowSave'
      BY <1>0, <2>1, <2>4 DEF PageInv, LineTypes, RepliesFollowSave, serverVars, boundVars
    <2>6. QED
      BY <2>2, <2>3, <2>5 DEF PageInv
  <1>4. CASE RedirectAway(c)
    <2> USE <1>4 DEF RedirectAway, boundVars
    <2>1. page' \in Pages(Len(form)) /\ page'.form = page.form
      <3>1. page' = [page EXCEPT !.gone = TRUE]
        OBVIOUS
      <3>2. QED
        BY <1>0, <3>1 DEF Pages
    <2>2. lv' \in LV /\ order' \in {"pending", "expired", "completed"} /\ price' \in Intents
          /\ stripe' \in Statuses /\ script' \in Scripts /\ form' \in Seq(Form)
          /\ run' \in [Clicks -> Run]
      BY <1>0, <1>2 DEF PageInv, TypeOK, Intents
    <2>3. connected' \in BOOLEAN /\ saved' \in {"no", "saved", "lost"}
      BY Zenon DEF PageInv, TypeOK
    <2>4. TypeOK'
      <3>1. page' \in Pages(Len(form'))
        BY <2>1
      <3>2. QED
        BY <2>2, <2>3, <3>1, Zenon DEF TypeOK, Pages, Statuses, Scripts, Intents
    <2>5. LineTypes' /\ RepliesFollowSave'
      BY <1>0 DEF LineTypes, RepliesFollowSave
    <2>6. QED
      BY <2>1, <2>4, <2>5, BrowserStill DEF PageInv
  <1>5. QED
    BY <1>3, <1>4 DEF Answers

LEMMA PageSteps == PageInv /\ [Next]_vars => PageInv'
  <1>1. PageInv /\ Next => PageInv'
    BY LiveViewSteps, WorldSteps, ReceiveSteps, InitializeSteps, HandleSubmitSteps,
       SubmitsSteps, AnswersSteps DEF Next
  <1>2. PageInv /\ UNCHANGED vars => PageInv'
    <2> SUFFICES ASSUME PageInv, UNCHANGED vars
                 PROVE  PageInv'
      OBVIOUS
    <2> USE DEF vars, serverVars, channelVars, browserVars, boundVars
    <2>1. TypeOK'
      <3>1. connected' \in BOOLEAN /\ saved' \in {"no", "saved", "lost"}
        BY Zenon DEF PageInv, TypeOK
      <3>2. QED
        BY <3>1, Zenon DEF PageInv, TypeOK, Intents
    <2>2. LineTypes' /\ RepliesFollowSave'
      BY DEF PageInv, LineTypes, RepliesFollowSave
    <2>3. QED
      BY <2>1, <2>2, BrowserStill DEF PageInv
  <1>3. QED
    BY <1>1, <1>2

LEMMA PageInvariant == Spec => []PageInv
  BY PageStarts, PageSteps, PTL DEF Spec

-----------------------------------------------------------------------------
(* What the invariant says of a payment.                                    *)

LEMMA PageInvImplies ==
  ASSUME PageInv
  PROVE  SaveTriedBeforeCharge /\ OneConfirmationPerForm /\ ReportsWhatItConfirms
  <1>1. SaveTriedBeforeCharge
    <2> SUFFICES ASSUME NEW c \in Clicks, run[c].step \in {"resume", "confirm"}
                 PROVE  saved # "no" \/ run[c].via \in {"timer", "offline"}
      BY Zenon DEF SaveTriedBeforeCharge
    <2>1. saved # "no" \/ run[c].via \in {"timer", "offline"}
      BY Zenon DEF PageInv, SavedFirst
    <2>2. QED
      BY <2>1, Zenon
  <1>2. OneConfirmationPerForm
    BY DEF PageInv, Alone, Confirms, OneConfirmationPerForm
  <1>3. ReportsWhatItConfirms
    <2> SUFFICES ASSUME NEW h \in Forms, form[h].element
                 PROVE  form[h].secret = form[h].elements
      BY Zenon DEF ReportsWhatItConfirms
    <2>1. form[h] \in Form
      BY ElementOfSeq DEF Forms, PageInv, TypeOK
    <2>2. form[h].element \in BOOLEAN
      BY <2>1 DEF Form
    <2>3. form[h].element = TRUE
      BY <2>2, Zenon
    <2>4. QED
      BY <2>3 DEF PageInv, FormsHold, FormHolds
  <1>4. QED
    BY <1>1, <1>2, <1>3

\* The only step that begins a confirmation is the one after the await.
LEMMA ConfirmBegins ==
  ASSUME PageInv, Next, NEW c \in Clicks,
         run'[c].step = "confirm", run[c].step # "confirm"
  PROVE  ConfirmPayment(c) /\ Live(run[c].form)
  <1>0. run \in [Clicks -> Run]
    BY DEF PageInv, TypeOK
  <1>1. run' # run
    BY Zenon
  <1>2. ~LiveView /\ ~World /\ ~ReceiveView /\ ~ScriptSettles
    <2>1. ~LiveView
      BY <1>1 DEF LiveView, CreateIntent, RefreshIntent, RemountModal, Restore,
             ElementLoading, ElementReady, RedirectStarted, PaymentSuccess,
             CheckoutExpired, ClosePaymentModal, Handle, browserVars
    <2>2. ~World /\ ~ReceiveView /\ ~ScriptSettles
      BY <1>1 DEF World, ChangePrice, Drop, Rejoin, LoseContent, CountdownEnds, PressClose,
             Settle, ReceiveView, ScriptSettles, browserVars
    <2>3. QED
      BY <2>1, <2>2
  <1>3. \A h \in Forms : ~InitializeStripe(h)
    BY <1>1 DEF InitializeStripe
  <1>4. ~ReceiveReply
    <2>1. ReceiveReply => run' = run \/ \E d : Resumed(d, "reply")
      BY Zenon DEF ReceiveReply
    <2>2. ASSUME NEW d, NEW via, Resumed(d, via)
          PROVE  FALSE
      BY <1>0, <2>2 DEF Resumed, Run
    <2>3. QED
      BY <1>1, <2>1, <2>2
  <1>5. PICK d \in Clicks : HandleSubmit(d) \/ Submits(d) \/ Answers(d)
    BY <1>2, <1>3, <1>4 DEF Next
  <1>6. ~HandleSubmit(d)
    BY <1>0 DEF HandleSubmit, Submit, NewRun
  <1>7. ~Answers(d)
    <2>1. Answers(d) => run' = run \/ run' = [run EXCEPT ![d] = NewRun]
      BY Zenon DEF Answers, PaymentAccepted, AlreadySucceeded, PaymentFailed, RedirectAway
    <2>2. QED
      BY <1>0, <1>1, <2>1 DEF NewRun
  <1>8. ~RemountWaited(d) /\ ~ReplyTimesOut(d)
    <2>1. ASSUME NEW via, Resumed(d, via)
          PROVE  FALSE
      BY <1>0, <2>1 DEF Resumed, Run
    <2>2. ASSUME NEW h, Submit(d, h)
          PROVE  FALSE
      BY <1>0, <2>2 DEF Submit, NewRun
    <2>3. QED
      BY <2>1, <2>2 DEF RemountWaited, ReplyTimesOut
  <1>9. ConfirmPayment(d)
    BY <1>5, <1>6, <1>7, <1>8 DEF Submits
  <1>10. c = d
    <2>1. \E r : run' = [run EXCEPT ![d] = r]
      <3>1. [run EXCEPT ![d].step = "confirm", ![d].intent = form[run[d].form].elements]
              = [run EXCEPT ![d] = [run[d] EXCEPT !.step = "confirm",
                                                  !.intent = form[run[d].form].elements]]
        BY <1>0
      <3>2. QED
        BY <1>9, <3>1, Zenon DEF ConfirmPayment
    <2>2. QED
      BY <1>0, <2>1
  <1>11. Live(run[d].form)
    <2>1. ~Live(run[d].form) => run' = [run EXCEPT ![d] = NewRun]
      BY <1>9, Zenon DEF ConfirmPayment
    <2>2. QED
      BY <1>0, <1>10, <2>1 DEF NewRun
  <1>12. QED
    BY <1>9, <1>10, <1>11

LEMMA ConfirmsMounted ==
  ASSUME PageInv, [Next]_vars, NEW c \in Clicks,
         run'[c].step = "confirm", run[c].step # "confirm"
  PROVE  /\ Live(run[c].form)
         /\ run'[c].intent # 0 /\ run'[c].intent = form[run[c].form].elements
  <1>1. Next
    BY Zenon DEF vars, browserVars
  <1>2. ConfirmPayment(c) /\ Live(run[c].form)
    BY <1>1, ConfirmBegins
  <1>3. run'[c].intent = form[run[c].form].elements /\ run[c].step = "resume"
    <2>1. /\ run[c].step = "resume"
          /\ run' = [run EXCEPT ![c].step = "confirm",
                                ![c].intent = form[run[c].form].elements]
      BY <1>2, Zenon DEF ConfirmPayment
    <2>2. run \in [Clicks -> Run] /\ run[c] \in Run
      BY DEF PageInv, TypeOK
    <2>3. QED
      BY <2>1, <2>2 DEF Run
  <1>4. form[run[c].form].elements # 0
    BY <1>2, <1>3 DEF PageInv, RunsHold, Live
  <1>5. QED
    BY <1>2, <1>3, <1>4

\* Type correctness of the payment page and of the process behind it.
THEOREM PageTypeCorrect == Spec => []TypeOK
  BY PageInvariant, PTL DEF PageInv

\* No charge is asked for before the LiveView has tried to write the attendees' details,
\* unless the page is offline or the reply has taken two seconds (handleSubmit's await in
\* stripe_elements.js and the handler of "payment-redirect-started").  An attempt that
\* failed does not hold the charge back: the handler answers all the same.
THEOREM ChargeFollowsSaveAttempt == Spec => []SaveTriedBeforeCharge
  BY PageInvariant, PageInvImplies, PTL

\* However many clicks there are, one form has one confirmation under way as long as
\* Stripe's frame has not had to be mounted again (_paymentConfirmInFlight).
THEOREM FormConfirmsOnce == Spec => []OneConfirmationPerForm
  BY PageInvariant, PageInvImplies, PTL

\* A confirmation is begun by a hook that is still on the page, with the intent its payment
\* element was made for, and that is the one whose id the page reports afterwards.
THEOREM ChargesWhatItReports == Spec => ConfirmsItsIntent
  <1>1. PageInv /\ [Next]_vars
          => [\A c \in Clicks : run'[c].step = "confirm" /\ run[c].step # "confirm"
                 => /\ Live(run[c].form)
                    /\ run'[c].intent # 0 /\ run'[c].intent = form[run[c].form].elements]_vars
    BY ConfirmsMounted
  <1>2. Spec => ConfirmsOnlyMountedForm
    BY <1>1, PageInvariant, PTL DEF Spec, ConfirmsOnlyMountedForm
  <1>3. Spec => []ReportsWhatItConfirms
    BY PageInvariant, PageInvImplies, PTL
  <1>4. QED
    BY <1>2, <1>3 DEF ConfirmsItsIntent

\* The page of the payment step behaves in the tab as it does by itself.
THEOREM TabPays == TabSpec => Spec
  <1>1. TabInit => Init
    BY DEF TabInit
  <1>2. [TabNext]_tabVars => [Next]_vars
    BY Zenon DEF TabNext, Proceed, tabVars
  <1>3. QED
    BY <1>1, <1>2, PTL DEF TabSpec, Spec

-----------------------------------------------------------------------------
(* Choosing tickets: the inductive invariant.                               *)

Click == [tier: Tiers, delta: {"increase", "decrease"}, before: Selection]
Patches == [type: {"patch"}, selected: Selection]
Refusals == [type: {"refusal"}, tier: Tiers, before: Selection]
Broadcasts == [type: {"broadcast"}, selected: Selection]
AnswerMessages == (Patches \cup Refusals) \cup Broadcasts

Hook == [selected: Selection, pending: Tiers \cup {NoTier}]

SelectionTypes ==
    /\ chosen \in Selection /\ dom \in Selection /\ room \in [Tiers -> 0..MaxQty]
    /\ hook \in Hook
    /\ clicks \in Seq(Click) /\ answers \in Seq(AnswerMessages)
    /\ broadcasts \in Nat /\ losses \in Nat

Foreign(a) == a.type = "broadcast"
Current(a) == a.type = "broadcast" /\ a.selected = chosen

\* The click under way was made on what the LiveView has chosen, so that it is answered.
Sound(k) == /\ k.before = chosen
            /\ k.delta = "increase" => chosen[k.tier] < MaxQty
            /\ k.delta = "decrease" => chosen[k.tier] > 0

\* The answer under way leads the hook to what the LiveView has chosen.
Decides(a) == \/ a.type = "patch" /\ a.selected = chosen
              \/ a.type = "refusal" /\ a.before = chosen

AtRest == /\ clicks = <<>> /\ hook.selected = chosen
          /\ \A i \in 1..Len(answers) : Current(answers[i])
Asked == /\ Len(clicks) = 1 /\ Sound(clicks[1])
         /\ \A i \in 1..Len(answers) : Foreign(answers[i])
Answered ==
    /\ clicks = <<>>
    /\ \E i \in 1..Len(answers) :
          /\ Decides(answers[i])
          /\ \A j \in 1..Len(answers) : j < i => Foreign(answers[j])
          /\ \A j \in 1..Len(answers) : j > i => Current(answers[j])

\* Unless a patch of somebody else's has crossed a click: the hook waits for one answer,
\* which is still asked for or on its way, and shows what is sold when it waits for none.
NotCrossed ==
    crossed = FALSE =>
        /\ joined = TRUE /\ hook.pending = NoTier => AtRest
        /\ joined = TRUE /\ hook.pending # NoTier => Asked \/ Answered
LineDies == joined = FALSE => clicks = <<>> /\ answers = <<>>

SelectionInv ==
    SelectionTypes /\ joined \in BOOLEAN /\ crossed \in BOOLEAN /\ NotCrossed /\ LineDies

-----------------------------------------------------------------------------
LEMMA EmptySelection == Empty \in Selection
  BY QtyAssumption DEF Empty, Selection

LEMMA AnswerTypes ==
  ASSUME NEW s \in Selection, NEW k \in Click
  PROVE  /\ Patch(s) \in AnswerMessages /\ Broadcast(s) \in AnswerMessages
         /\ Refusal(k) \in AnswerMessages
         /\ Synced(s) \in Hook /\ Reverted(s) \in Hook
  <1>1. Patch(s) \in Patches /\ Broadcast(s) \in Broadcasts
    BY DEF Patch, Broadcast, Patches, Broadcasts
  <1>2. Refusal(k) \in Refusals
    BY DEF Refusal, Refusals, Click
  <1>3. Synced(s) \in Hook /\ Reverted(s) \in Hook
    BY DEF Synced, Reverted, Hook
  <1>4. QED
    BY <1>1, <1>2, <1>3 DEF AnswerMessages

LEMMA HeadAnswer ==
  ASSUME SelectionTypes, answers # <<>>
  PROVE  /\ Head(answers) = answers[1] /\ 1 \in 1..Len(answers)
         /\ Head(answers) \in AnswerMessages
         /\ Tail(answers) \in Seq(AnswerMessages) /\ Len(Tail(answers)) = Len(answers) - 1
         /\ \A i \in 1..Len(Tail(answers)) : Tail(answers)[i] = answers[i + 1]
         /\ Len(answers) \in Nat
  BY HeadTailProperties DEF SelectionTypes

LEMMA SelectionStarts == SelectionInit => SelectionInv
  <1> SUFFICES ASSUME SelectionInit
               PROVE  SelectionInv
    OBVIOUS
  <1> USE DEF SelectionInit
  <1>1. SelectionTypes
    BY EmptySelection, QtyAssumption DEF SelectionTypes, Hook
  <1>2. joined \in BOOLEAN /\ crossed \in BOOLEAN
    BY Zenon
  <1>3. NotCrossed /\ LineDies
    BY DEF NotCrossed, AtRest, LineDies
  <1>4. QED
    BY <1>1, <1>2, <1>3 DEF SelectionInv

LEMMA OnClickSteps ==
  ASSUME SelectionInv, NEW t \in Tiers, NEW d \in {"increase", "decrease"}, OnClick(t, d)
  PROVE  SelectionInv'
  <1> DEFINE next == IF d = "increase" THEN hook.selected[t] + 1 ELSE hook.selected[t] - 1
             k == [tier |-> t, delta |-> d, before |-> hook.selected]
  <1>0. /\ hook.selected \in Selection /\ hook.pending = NoTier
        /\ hook.selected[t] \in 0..MaxQty /\ clicks \in Seq(Click)
        /\ d = "increase" => hook.selected[t] < MaxQty
        /\ d = "decrease" => hook.selected[t] > 0
        /\ UNCHANGED <<chosen, room, joined, answers, dom, crossed, broadcasts, losses>>
    BY DEF SelectionInv, SelectionTypes, Hook, Selection, OnClick
  <1>1. k \in Click
    BY <1>0 DEF Click
  <1>2. CASE joined = TRUE
    <2>1. /\ hook' = [selected |-> [hook.selected EXCEPT ![t] = next], pending |-> t]
          /\ clicks' = Append(clicks, k)
      BY <1>2 DEF OnClick
    <2>2. [hook.selected EXCEPT ![t] = next] \in Selection
      BY <1>0, QtyAssumption DEF Selection
    <2>3. hook' \in Hook
      BY <2>1, <2>2 DEF Hook
    <2>4. clicks' \in Seq(Click) /\ (clicks = <<>> => Len(clicks') = 1 /\ clicks'[1] = k)
      BY <1>0, <1>1, <2>1, AppendProperties
    <2>5. NotCrossed'
      <3>1. SUFFICES ASSUME crossed = FALSE
                     PROVE  Asked'
        BY <1>0, <1>2, <2>1, TiersAssumption DEF NotCrossed
      <3>2. AtRest
        BY <1>0, <1>2, <3>1 DEF SelectionInv, NotCrossed
      <3>3. Len(clicks') = 1 /\ clicks'[1] = k /\ hook.selected = chosen
        BY <2>4, <3>2 DEF AtRest
      <3>4. Sound(clicks[1])'
        BY <1>0, <3>3 DEF Sound
      <3>5. \A i \in 1..Len(answers') : Foreign(answers[i])'
        BY <1>0, <3>2 DEF AtRest, Current, Foreign
      <3>6. QED
        BY <3>3, <3>4, <3>5 DEF Asked
    <2>6. LineDies'
      BY <1>0, <1>2 DEF LineDies
    <2>7. joined' \in BOOLEAN /\ crossed' \in BOOLEAN
      BY <1>0, Zenon DEF SelectionInv
    <2>8. SelectionTypes'
      BY <1>0, <2>3, <2>4 DEF SelectionInv, SelectionTypes, Selection
    <2>9. QED
      BY <2>5, <2>6, <2>7, <2>8 DEF SelectionInv
  <1>3. CASE joined = FALSE
    <2>1. hook' = Reverted(hook.selected) /\ clicks' = clicks
      BY <1>3 DEF OnClick
    <2>2. hook' \in Hook
      BY <1>0, <1>1, <2>1, AnswerTypes
    <2>3. NotCrossed' /\ LineDies'
      BY <1>0, <1>3, <2>1 DEF SelectionInv, NotCrossed, LineDies
    <2>4. joined' \in BOOLEAN /\ crossed' \in BOOLEAN
      BY <1>0, Zenon DEF SelectionInv
    <2>5. SelectionTypes'
      BY <1>0, <2>1, <2>2 DEF SelectionInv, SelectionTypes, Selection
    <2>6. QED
      BY <2>3, <2>4, <2>5 DEF SelectionInv
  <1>4. QED
    BY <1>2, <1>3, Zenon DEF SelectionInv

\* What is read first from the line settles the wait, or crosses it.
LEMMA FirstAnswer ==
  ASSUME SelectionInv, answers # <<>>, crossed = FALSE
  PROVE  /\ joined = TRUE
         /\ \A i \in 1..Len(Tail(answers)) :
               answers[1].type # "broadcast" \/ hook.pending = NoTier =>
                  Current(Tail(answers)[i])
         /\ answers[1].type # "broadcast" => hook.pending # NoTier /\ Decides(answers[1])
         /\ hook.pending = NoTier => Current(answers[1])
         /\ answers[1].type # "broadcast" \/ hook.pending = NoTier => clicks = <<>>
  <1>0. /\ 1 \in 1..Len(answers) /\ Len(Tail(answers)) = Len(answers) - 1
        /\ \A i \in 1..Len(Tail(answers)) : Tail(answers)[i] = answers[i + 1]
        /\ Len(answers) \in Nat
    BY HeadAnswer DEF SelectionInv
  <1>1. joined = TRUE
    BY Zenon DEF SelectionInv, LineDies
  <1>2. CASE hook.pending = NoTier
    <2>1. AtRest
      BY <1>1, <1>2 DEF SelectionInv, NotCrossed
    <2>2. QED
      BY <1>0, <1>1, <1>2, <2>1 DEF AtRest, Current
  <1>3. CASE hook.pending # NoTier /\ answers[1].type # "broadcast"
    <2>1. Answered
      <3>1. Asked \/ Answered
        BY <1>1, <1>3 DEF SelectionInv, NotCrossed
      <3>2. ~Asked
        BY <1>0, <1>3 DEF Asked, Foreign
      <3>3. QED
        BY <3>1, <3>2
    <2>2. PICK i \in 1..Len(answers) :
             /\ Decides(answers[i])
             /\ \A j \in 1..Len(answers) : j < i => Foreign(answers[j])
             /\ \A j \in 1..Len(answers) : j > i => Current(answers[j])
      BY <2>1, Zenon DEF Answered
    <2>3. i = 1
      <3>1. ~(1 < i)
        BY <1>0, <1>3, <2>2 DEF Foreign
      <3>2. QED
        BY <3>1
    <2>4. \A j \in 1..Len(Tail(answers)) : Current(Tail(answers)[j])
      <3>1. TAKE j \in 1..Len(Tail(answers))
      <3>2. j + 1 \in 1..Len(answers) /\ j + 1 > i
        BY <1>0, <2>3
      <3>3. Current(answers[j + 1])
        BY <2>2, <3>2
      <3>4. QED
        BY <1>0, <3>3
    <2>5. clicks = <<>>
      BY <2>1 DEF Answered
    <2>6. QED
      BY <1>1, <1>3, <2>2, <2>3, <2>4, <2>5
  <1>4. CASE hook.pending # NoTier /\ answers[1].type = "broadcast"
    BY <1>1, <1>4
  <1>5. QED
    BY <1>2, <1>3, <1>4

LEMMA ReceivePatchSteps == SelectionInv /\ ReceivePatch => SelectionInv'
  <1> SUFFICES ASSUME SelectionInv, ReceivePatch
               PROVE  SelectionInv'
    OBVIOUS
  <1> DEFINE a == answers[1]
  <1>0. /\ a = Head(answers) /\ a \in AnswerMessages /\ answers # <<>>
        /\ a.type \in {"patch", "broadcast"}
        /\ hook' = Synced(a.selected) /\ dom' = a.selected /\ answers' = Tail(answers)
        /\ UNCHANGED <<chosen, room, joined, clicks, broadcasts, losses>>
    BY HeadAnswer, Zenon DEF SelectionInv, ReceivePatch
  <1>1. a.selected \in Selection
    BY <1>0 DEF AnswerMessages, Patches, Refusals, Broadcasts
  <1>2. SelectionTypes'
    <2>1. hook' \in Hook
      BY <1>0, <1>1 DEF Synced, Hook
    <2>2. answers' \in Seq(AnswerMessages)
      BY <1>0, HeadAnswer DEF SelectionInv
    <2>3. QED
      BY <1>0, <1>1, <2>1, <2>2 DEF SelectionInv, SelectionTypes, Selection
  <1>3. joined' \in BOOLEAN /\ crossed' \in BOOLEAN
    BY <1>0, Zenon DEF ReceivePatch, SelectionInv
  <1>4. ASSUME crossed' = FALSE
        PROVE  AtRest' /\ hook'.pending = NoTier
    <2>1. crossed = FALSE /\ (a.type = "broadcast" => hook.pending = NoTier)
      BY <1>0, <1>4, Zenon DEF ReceivePatch, SelectionInv
    <2>2. /\ clicks = <<>> /\ (\A i \in 1..Len(Tail(answers)) : Current(Tail(answers)[i]))
          /\ Decides(a) \/ Current(a)
      BY <1>0, <2>1, FirstAnswer
    <2>3. a.selected = chosen
      BY <1>0, <2>2 DEF Decides, Current
    <2>4. \A i \in 1..Len(answers') : Current(answers[i])'
      BY <1>0, <2>2 DEF Current
    <2>5. QED
      BY <1>0, <2>2, <2>3, <2>4 DEF AtRest, Synced
  <1>5. NotCrossed'
    BY <1>4 DEF NotCrossed
  <1>6. LineDies'
    BY <1>0 DEF SelectionInv, LineDies
  <1>7. QED
    BY <1>2, <1>3, <1>5, <1>6 DEF SelectionInv

LEMMA ReceiveRefusalSteps == SelectionInv /\ ReceiveRefusal => SelectionInv'
  <1> SUFFICES ASSUME SelectionInv, ReceiveRefusal
               PROVE  SelectionInv'
    OBVIOUS
  <1> DEFINE a == answers[1]
  <1>0. /\ a = Head(answers) /\ a \in AnswerMessages /\ answers # <<>>
        /\ a.type = "refusal"
        /\ hook' = Reverted(a.before) /\ answers' = Tail(answers)
        /\ UNCHANGED <<chosen, room, joined, clicks, dom, crossed, broadcasts, losses>>
    BY HeadAnswer, Zenon DEF SelectionInv, ReceiveRefusal
  <1>1. a.before \in Selection
    BY <1>0 DEF AnswerMessages, Patches, Refusals, Broadcasts
  <1>2. SelectionTypes'
    <2>1. hook' \in Hook
      BY <1>0, <1>1 DEF Reverted, Hook
    <2>2. answers' \in Seq(AnswerMessages)
      BY <1>0, HeadAnswer DEF SelectionInv
    <2>3. QED
      BY <1>0, <1>1, <2>1, <2>2 DEF SelectionInv, SelectionTypes, Selection
  <1>3. joined' \in BOOLEAN /\ crossed' \in BOOLEAN
    BY <1>0, Zenon DEF SelectionInv
  <1>4. ASSUME crossed' = FALSE
        PROVE  AtRest' /\ hook'.pending = NoTier
    <2>1. crossed = FALSE
      BY <1>0, <1>4, Zenon
    <2>2. /\ clicks = <<>> /\ (\A i \in 1..Len(Tail(answers)) : Current(Tail(answers)[i]))
          /\ Decides(a)
      BY <1>0, <2>1, FirstAnswer
    <2>3. a.before = chosen
      BY <1>0, <2>2 DEF Decides
    <2>4. \A i \in 1..Len(answers') : Current(answers[i])'
      BY <1>0, <2>2 DEF Current
    <2>5. QED
      BY <1>0, <2>2, <2>3, <2>4 DEF AtRest, Reverted
  <1>5. NotCrossed'
    BY <1>4 DEF NotCrossed
  <1>6. LineDies'
    BY <1>0 DEF SelectionInv, LineDies
  <1>7. QED
    BY <1>2, <1>3, <1>5, <1>6 DEF SelectionInv

LEMMA HandleClickSteps == SelectionInv /\ HandleClick => SelectionInv'
  <1> SUFFICES ASSUME SelectionInv, HandleClick
               PROVE  SelectionInv'
    OBVIOUS
  <1> DEFINE k == clicks[1]
             inc == k.delta = "increase"
             after == IF inc THEN chosen[k.tier] + 1
                      ELSE IF chosen[k.tier] = 0 THEN 0 ELSE chosen[k.tier] - 1
  <1>0. /\ clicks # <<>> /\ k = Head(clicks) /\ k \in Click /\ joined = TRUE
        /\ clicks' = Tail(clicks) /\ clicks' \in Seq(Click)
        /\ Len(clicks) \in Nat /\ Len(clicks') = Len(clicks) - 1
        /\ UNCHANGED <<room, joined, dom, hook, crossed, broadcasts, losses>>
    <2>1. clicks # <<>> /\ clicks' = Tail(clicks)
          /\ UNCHANGED <<room, joined, dom, hook, crossed, broadcasts, losses>>
      BY Zenon DEF HandleClick
    <2>2. joined = TRUE
      BY Zenon DEF HandleClick, SelectionInv
    <2>3. QED
      BY <2>1, <2>2, HeadTailProperties DEF SelectionInv, SelectionTypes
  <1>1. /\ chosen \in Selection /\ k.tier \in Tiers /\ k.delta \in {"increase", "decrease"}
        /\ chosen[k.tier] \in 0..MaxQty /\ room[k.tier] \in 0..MaxQty
        /\ answers \in Seq(AnswerMessages) /\ Len(answers) \in Nat
    BY <1>0 DEF Click, SelectionInv, SelectionTypes, Selection
  <1>2. \/ /\ inc /\ chosen[k.tier] >= room[k.tier]
           /\ answers' = Append(answers, Refusal(k)) /\ chosen' = chosen
        \/ /\ ~(inc /\ chosen[k.tier] >= room[k.tier])
           /\ chosen' = [chosen EXCEPT ![k.tier] = after]
           /\ answers' = IF chosen' = chosen THEN answers
                         ELSE Append(answers, Patch(chosen'))
    BY <1>0 DEF HandleClick
  <1>3. chosen' \in Selection
    <2>1. ~(inc /\ chosen[k.tier] >= room[k.tier]) => after \in 0..MaxQty
      BY <1>1, QtyAssumption
    <2>2. QED
      BY <1>1, <1>2, <2>1 DEF Selection
  <1>4. Refusal(k) \in AnswerMessages /\ Patch(chosen') \in AnswerMessages
    BY <1>0, <1>3, AnswerTypes
  <1>5. SelectionTypes'
    <2>1. answers' \in Seq(AnswerMessages)
      BY <1>1, <1>2, <1>4, AppendProperties
    <2>2. QED
      BY <1>0, <1>3, <2>1 DEF SelectionInv, SelectionTypes, Selection
  <1>6. joined' \in BOOLEAN /\ crossed' \in BOOLEAN
    BY <1>0, Zenon DEF SelectionInv
  <1>7. ASSUME crossed = FALSE
        PROVE  hook.pending # NoTier /\ Answered'
    <2>1. hook.pending # NoTier /\ Asked
      BY <1>0, <1>7 DEF SelectionInv, NotCrossed, AtRest, Answered
    <2>2. Sound(k) /\ clicks' = <<>> /\ \A i \in 1..Len(answers) : Foreign(answers[i])
      BY <1>0, <2>1 DEF Asked
    <2>3. \E m : /\ answers' = Append(answers, m)
                 /\ \/ m.type = "patch" /\ m.selected = chosen'
                    \/ m.type = "refusal" /\ m.before = chosen'
      <3>1. CASE inc /\ chosen[k.tier] >= room[k.tier]
        BY <1>2, <2>2, <3>1 DEF Refusal, Sound
      <3>2. CASE ~(inc /\ chosen[k.tier] >= room[k.tier])
        <4>1. after # chosen[k.tier]
          BY <1>1, <2>2 DEF Sound
        <4>2. chosen' # chosen
          BY <1>1, <1>2, <3>2, <4>1 DEF Selection
        <4>3. QED
          BY <1>2, <3>2, <4>2 DEF Patch
      <3>3. QED
        BY <3>1, <3>2
    <2>4. PICK m : /\ answers' = Append(answers, m)
                   /\ \/ m.type = "patch" /\ m.selected = chosen'
                      \/ m.type = "refusal" /\ m.before = chosen'
      BY <2>3
    <2>5. /\ Len(answers') = Len(answers) + 1 /\ answers'[Len(answers) + 1] = m
          /\ \A i \in 1..Len(answers) : answers'[i] = answers[i]
      BY <1>1, <2>4
    <2>6. /\ Len(answers) + 1 \in 1..Len(answers')
          /\ Decides(answers[Len(answers)])'
      BY <1>1, <2>4, <2>5 DEF Decides
    <2>7. /\ \A j \in 1..Len(answers') : j < Len(answers') => Foreign(answers[j])'
          /\ \A j \in 1..Len(answers') : j > Len(answers') => Current(answers[j])'
      BY <1>1, <2>2, <2>5 DEF Foreign
    <2>8. QED
      BY <2>1, <2>2, <2>5, <2>6, <2>7 DEF Answered
  <1>8. NotCrossed' /\ LineDies'
    BY <1>0, <1>7 DEF NotCrossed, LineDies
  <1>9. QED
    BY <1>3, <1>5, <1>6, <1>8 DEF SelectionInv

LEMMA AvailabilitySteps == SelectionInv /\ AvailabilityChanges => SelectionInv'
  <1> SUFFICES ASSUME SelectionInv, AvailabilityChanges
               PROVE  SelectionInv'
    OBVIOUS
  <1> DEFINE b == Broadcast(chosen)
  <1>0. /\ answers' = Append(answers, b) /\ answers \in Seq(AnswerMessages)
        /\ broadcasts' = broadcasts + 1 /\ broadcasts \in Nat
        /\ chosen \in Selection /\ room \in [Tiers -> 0..MaxQty]
        /\ \E t \in Tiers, q \in 0..MaxQty : room' = [room EXCEPT ![t] = q]
        /\ UNCHANGED <<chosen, joined, clicks, dom, hook, crossed, losses>>
    BY DEF AvailabilityChanges, SelectionInv, SelectionTypes
  <1>1. joined = TRUE
    BY Zenon DEF AvailabilityChanges, SelectionInv
  <1>2. b \in AnswerMessages /\ b.type = "broadcast" /\ b.selected = chosen
    <2>1. b \in Broadcasts /\ b.type = "broadcast" /\ b.selected = chosen
      BY <1>0 DEF Broadcast, Broadcasts
    <2>2. QED
      BY <2>1 DEF AnswerMessages
  <1> HIDE DEF b
  <1>3. /\ answers' \in Seq(AnswerMessages) /\ Len(answers) \in Nat
        /\ Len(answers') = Len(answers) + 1 /\ answers'[Len(answers) + 1] = b
        /\ \A i \in 1..Len(answers) : answers'[i] = answers[i]
    BY <1>0, <1>2, AppendProperties
  <1>4. SelectionTypes'
    BY <1>0, <1>3 DEF SelectionInv, SelectionTypes, Selection
  <1>5. joined' \in BOOLEAN /\ crossed' \in BOOLEAN
    BY <1>0, Zenon DEF SelectionInv
  <1>6. AtRest => AtRest'
    BY <1>0, <1>2, <1>3 DEF AtRest, Current
  <1>7. Asked => Asked'
    <2>1. Sound(clicks[1]) => Sound(clicks[1])'
      BY <1>0 DEF Sound
    <2>2. (\A i \in 1..Len(answers) : Foreign(answers[i]))
            => \A i \in 1..Len(answers') : Foreign(answers[i])'
      BY <1>2, <1>3 DEF Foreign
    <2>3. QED
      BY <1>0, <2>1, <2>2 DEF Asked
  <1>8. Answered => Answered'
    <2> SUFFICES ASSUME Answered
                 PROVE  Answered'
      OBVIOUS
    <2>1. PICK i \in 1..Len(answers) :
             /\ Decides(answers[i])
             /\ \A j \in 1..Len(answers) : j < i => Foreign(answers[j])
             /\ \A j \in 1..Len(answers) : j > i => Current(answers[j])
      BY Zenon DEF Answered
    <2>2. i \in 1..Len(answers') /\ Decides(answers[i])'
      BY <1>0, <1>3, <2>1 DEF Decides
    <2>3. \A j \in 1..Len(answers') : j < i => Foreign(answers[j])'
      BY <1>2, <1>3, <2>1 DEF Foreign
    <2>4. \A j \in 1..Len(answers') : j > i => Current(answers[j])'
      BY <1>0, <1>2, <1>3, <2>1 DEF Current
    <2>5. QED
      BY <1>0, <2>2, <2>3, <2>4 DEF Answered
  <1>9. NotCrossed' /\ LineDies'
    BY <1>0, <1>1, <1>6, <1>7, <1>8 DEF SelectionInv, NotCrossed, LineDies
  <1>10. QED
    BY <1>4, <1>5, <1>9 DEF SelectionInv

LEMMA ConnectionSteps ==
  ASSUME SelectionInv, LoseConnection \/ JoinAgain
  PROVE  SelectionInv'
  <1>1. CASE LoseConnection
    <2>1. SelectionTypes'
      BY <1>1 DEF LoseConnection, SelectionInv, SelectionTypes, Selection
    <2>2. joined' \in BOOLEAN /\ crossed' \in BOOLEAN
      BY <1>1, Zenon DEF LoseConnection, SelectionInv
    <2>3. NotCrossed' /\ LineDies'
      BY <1>1 DEF LoseConnection, NotCrossed, LineDies
    <2>4. QED
      BY <2>1, <2>2, <2>3 DEF SelectionInv
  <1>2. CASE JoinAgain
    <2>0. clicks = <<>> /\ answers = <<>>
      BY <1>2, Zenon DEF JoinAgain, SelectionInv, LineDies
    <2>1. SelectionTypes'
      BY <1>2, EmptySelection, AnswerTypes DEF JoinAgain, SelectionInv, SelectionTypes, Selection,
                                              Synced, Hook
    <2>2. joined' \in BOOLEAN /\ crossed' \in BOOLEAN
      BY <1>2, Zenon DEF JoinAgain, SelectionInv
    <2>3. NotCrossed' /\ LineDies'
      BY <1>2, <2>0 DEF JoinAgain, NotCrossed, LineDies, AtRest, Synced
    <2>4. QED
      BY <2>1, <2>2, <2>3 DEF SelectionInv
  <1>3. QED
    BY <1>1, <1>2

LEMMA ProceedSteps ==
  ASSUME SelectionInv, Proceed
  PROVE  SelectionInv'
  <1>0. clicks = <<>> /\ joined = TRUE
    BY Zenon DEF Proceed, MayProceed, SelectionInv
  <1>1. SelectionTypes'
    BY <1>0, EmptySelection, QtyAssumption
       DEF Proceed, SelectionInv, SelectionTypes, Selection, Reverted, Hook
  <1>2. joined' \in BOOLEAN /\ crossed' \in BOOLEAN
    BY Zenon DEF Proceed, SelectionInv
  <1>3. NotCrossed' /\ LineDies'
    BY <1>0 DEF Proceed, NotCrossed, LineDies, AtRest, Reverted
  <1>4. QED
    BY <1>1, <1>2, <1>3 DEF SelectionInv

LEMMA SelectionSteps == SelectionInv /\ [TabNext]_tabVars => SelectionInv'
  <1> SUFFICES ASSUME SelectionInv, [TabNext]_tabVars
               PROVE  SelectionInv'
    OBVIOUS
  <1>1. CASE SelectionNext
    BY <1>1, ReceivePatchSteps, ReceiveRefusalSteps, HandleClickSteps, AvailabilitySteps,
       ConnectionSteps, OnClickSteps DEF SelectionNext, Deliver
  <1>2. CASE Proceed
    BY <1>2, ProceedSteps
  <1>3. CASE UNCHANGED selectionVars
    <2> USE <1>3 DEF selectionVars
    <2>1. SelectionTypes'
      BY DEF SelectionInv, SelectionTypes, Selection
    <2>2. joined' \in BOOLEAN /\ crossed' \in BOOLEAN
      BY Zenon DEF SelectionInv
    <2>3. NotCrossed' /\ LineDies'
      BY DEF SelectionInv, NotCrossed, LineDies, AtRest, Asked, Answered, Sound, Current,
             Foreign, Decides
    <2>4. QED
      BY <2>1, <2>2, <2>3 DEF SelectionInv
  <1>4. QED
    BY <1>1, <1>2, <1>3, Zenon DEF TabNext, tabVars

THEOREM SelectionInvariant == TabSpec => []SelectionInv
  <1>1. TabInit => SelectionInv
    BY SelectionStarts DEF TabInit
  <1>2. QED
    BY <1>1, SelectionSteps, PTL DEF TabSpec

\* When nothing is under way the page shows what the LiveView will sell, through accepted and
\* refused clicks, changes of availability and lost connections (ticket_checkout.js), unless
\* a patch of somebody else's has crossed a click.
THEOREM ShowsWhatIsSold == TabSpec => []SelectionIsWhatIsSold
  <1>1. SelectionInv => SelectionIsWhatIsSold
    <2> SUFFICES ASSUME SelectionInv, joined, hook.pending = NoTier, ~crossed
                 PROVE  hook.selected = chosen
      BY Zenon DEF SelectionIsWhatIsSold
    <2>1. joined = TRUE /\ crossed = FALSE
      BY Zenon DEF SelectionInv
    <2>2. QED
      BY <2>1 DEF SelectionInv, NotCrossed, AtRest
  <1>2. QED
    BY <1>1, SelectionInvariant, PTL

\* Type correctness of the whole tab.
THEOREM TabTypeCorrect == TabSpec => []TabTypeOK
  <1>1. SelectionInv => SelectionTypeOK
    <2> SUFFICES ASSUME SelectionInv
                 PROVE  SelectionTypeOK
      OBVIOUS
    <2>1. /\ chosen \in Selection /\ dom \in Selection /\ room \in [Tiers -> 0..MaxQty]
          /\ hook \in [selected: Selection, pending: Tiers \cup {NoTier}]
      BY DEF SelectionInv, SelectionTypes, Hook
    <2>2. joined \in BOOLEAN /\ crossed \in BOOLEAN
      BY Zenon DEF SelectionInv
    <2>3. QED
      BY <2>1, <2>2, Zenon DEF SelectionTypeOK
  <1>2. QED
    BY <1>1, SelectionInvariant, TabPays, PageTypeCorrect, PTL DEF TabTypeOK
=============================================================================

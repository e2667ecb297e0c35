------------------------------ MODULE BotCheck ------------------------------
(***************************************************************************)
(* A public form guarded by Cloudflare Turnstile: the Turnstile hook       *)
(* (assets/js/phoenix_turnstile.js) lets a submit through with an unspent, *)
(* fresh token, holds it back otherwise, and sends it again when a token   *)
(* arrives, the widget gives up or 15 seconds have passed.                 *)
(*                                                                         *)
(* Tokens are numbered in the order they are issued, 0 is "no token".      *)
(***************************************************************************)
EXTENDS Naturals, Sequences

CONSTANTS
    MaxTokens,  \* bound: tokens Cloudflare issues
    MaxSubmits  \* bound: submits of the visitor

ASSUME BotCheckBounds == MaxTokens \in Nat /\ MaxSubmits \in Nat

VARIABLES
    script,   \* the Turnstile script
    rendered, \* the widget exists
    asleep,   \* an invisible widget waits for the form to be touched
    token,    \* the hidden input: the token in it, or 0
    stale,    \* that token is older than TOKEN_MAX_AGE_MS
    issued,   \* this.tokenSeq
    sent,     \* this.sentTokenSeq
    held,     \* this.heldSubmit is set
    timer,    \* this.holdTimer is set
    notice,   \* the notice under the widget is shown
    due,      \* held submits released, to be sent in the next tick
    net,      \* submits on their way to the server: the token each carries
    refresh,  \* turnstile:refresh events on their way back
    spent,    \* tokens Cloudflare has verified
    uses,     \* history: how often each token has been sent
    raced,    \* history: the visitor submitted while a released submit was due
    gone,     \* the hook is destroyed: the form is done, or the page left
    submits

botVars == <<script, rendered, asleep, token, stale, issued, sent, held, timer, notice, due,
             net, refresh, spent, uses, raced, gone, submits>>

Tokens == 0..MaxTokens
NoToken == 0

BotInit ==
    /\ asleep \in BOOLEAN
    /\ script = IF asleep THEN "absent" ELSE "loading"
    /\ rendered = FALSE /\ token = NoToken /\ stale = FALSE /\ issued = 0 /\ sent = 0
    /\ held = FALSE /\ timer = FALSE /\ notice = FALSE /\ due = 0
    /\ net = <<>> /\ refresh = 0 /\ spent = {} /\ uses = [t \in Tokens |-> 0]
    /\ raced = FALSE /\ gone = FALSE /\ submits = 0

-----------------------------------------------------------------------------
Load == /\ asleep' = FALSE
        /\ script' = IF script = "absent" THEN "loading" ELSE script

\* reset() empties the hidden input; without a widget it does nothing.
Reset == token' = IF rendered THEN NoToken ELSE token

Send == /\ sent' = issued
        /\ net' = Append(net, token)
        /\ uses' = [uses EXCEPT ![token] = @ + 1]

ReleaseHeldSubmit ==
    /\ timer' = FALSE /\ notice' = FALSE /\ held' = FALSE
    /\ due' = IF held THEN due + 1 ELSE due

\* The form is touched: an invisible widget loads.
Interact ==
    /\ asleep /\ ~gone
    /\ Load
    /\ UNCHANGED <<rendered, token, stale, issued, sent, held, timer, notice, due, net,
                   refresh, spent, uses, raced, gone, submits>>

\* Variant: any fresh token will do.
PresentToken == token # NoToken /\ ~stale

HasUsableToken == token # NoToken /\ issued # sent /\ ~stale

\* Variant: the submit waits for a token, however long that takes.
HoldForToken == /\ held' = TRUE /\ notice' = TRUE /\ UNCHANGED timer
                /\ Reset /\ Load

HoldSubmit == /\ held' = TRUE /\ notice' = TRUE /\ timer' = TRUE
              /\ Reset /\ Load

Submit ==
    /\ ~gone /\ submits < MaxSubmits
    /\ submits' = submits + 1
    /\ raced' = (raced \/ due > 0)
    /\ IF HasUsableToken
       THEN Send /\ UNCHANGED <<held, notice, timer, token, asleep, script>>
       ELSE HoldSubmit /\ UNCHANGED <<sent, net, uses>>
    /\ UNCHANGED <<rendered, stale, issued, due, refresh, spent, gone>>

\* The next tick: a released submit goes through with whatever token there is.
SendReleased ==
    /\ due > 0
    /\ due' = due - 1
    /\ IF gone THEN UNCHANGED <<sent, net, uses>> ELSE Send
    /\ UNCHANGED <<script, rendered, asleep, token, stale, issued, held, timer, notice,
                   refresh, spent, raced, gone, submits>>

HoldEnds ==
    /\ timer
    /\ ReleaseHeldSubmit
    /\ UNCHANGED <<script, rendered, asleep, token, stale, issued, sent, net, refresh, spent,
                   uses, raced, gone, submits>>

\* A script that fails is not tried again; the submit it holds up goes to the server.
ScriptArrives ==
    /\ script = "loading" /\ ~gone
    /\ \/ /\ script' = "ready" /\ rendered' \in BOOLEAN
          /\ UNCHANGED <<held, timer, notice, due>>
       \/ script' = "failed" /\ ReleaseHeldSubmit /\ UNCHANGED rendered
    /\ UNCHANGED <<asleep, token, stale, issued, sent, net, refresh, spent, uses, raced,
                   gone, submits>>

TokenArrives ==
    /\ rendered /\ ~gone /\ token = NoToken /\ issued < MaxTokens
    /\ token' = issued + 1 /\ issued' = issued + 1 /\ stale' = FALSE
    /\ ReleaseHeldSubmit
    /\ UNCHANGED <<script, rendered, asleep, sent, net, refresh, spent, uses, raced, gone,
                   submits>>

\* The error, unsupported and timeout callbacks.
WidgetGivesUp ==
    /\ rendered /\ ~gone /\ token = NoToken /\ held
    /\ ReleaseHeldSubmit
    /\ UNCHANGED <<script, rendered, asleep, token, stale, issued, sent, net, refresh, spent,
                   uses, raced, gone, submits>>

TokenAges ==
    /\ token # NoToken /\ ~stale /\ ~gone
    /\ stale' = TRUE
    /\ UNCHANGED <<script, rendered, asleep, token, issued, sent, held, timer, notice, due,
                   net, refresh, spent, uses, raced, gone, submits>>

\* Cloudflare takes an expired token out of the input, or refreshStaleToken does when
\* the visitor comes back to the tab.
StaleTokenGoes ==
    /\ token # NoToken /\ stale /\ ~gone
    /\ token' = NoToken
    /\ UNCHANGED <<script, rendered, asleep, stale, issued, sent, held, timer, notice, due,
                   net, refresh, spent, uses, raced, gone, submits>>

-----------------------------------------------------------------------------
(* The server (guest_turnstile.ex): a token is verified before the form is. *)

ServeSubmit ==
    LET t == Head(net)
    IN /\ net # <<>>
       /\ net' = Tail(net)
       /\ \/ /\ refresh' = refresh + 1 \* missing, spent, expired or refused
             /\ spent' = spent \cup ({t} \ {NoToken})
             /\ UNCHANGED <<gone, timer>>
          \/ /\ t # NoToken /\ t \notin spent
             /\ spent' = spent \cup {t}
             /\ \/ UNCHANGED <<gone, timer>>          \* the fields are invalid
                \/ gone' = TRUE /\ timer' = FALSE    \* the form is done
             /\ UNCHANGED refresh
       /\ UNCHANGED <<script, rendered, asleep, token, stale, issued, sent, held,
                      notice, due, uses, raced, submits>>

RefreshArrives ==
    /\ refresh > 0
    /\ refresh' = refresh - 1
    /\ IF gone THEN UNCHANGED token ELSE Reset
    /\ UNCHANGED <<script, rendered, asleep, stale, issued, sent, held, timer, notice, due,
                   net, spent, uses, raced, gone, submits>>

\* destroyed() stops the timer; a submit that is held is never sent.
LeaveForm ==
    /\ ~gone
    /\ gone' = TRUE /\ timer' = FALSE
    /\ UNCHANGED <<script, rendered, asleep, token, stale, issued, sent, held, notice, due,
                   net, refresh, spent, uses, raced, submits>>

-----------------------------------------------------------------------------
BotNext ==
    \/ Interact \/ Submit \/ SendReleased \/ HoldEnds \/ ScriptArrives \/ TokenArrives
    \/ WidgetGivesUp \/ TokenAges \/ StaleTokenGoes
    \/ ServeSubmit \/ RefreshArrives \/ LeaveForm

\* Timers fire; nothing is assumed of Cloudflare, nor of the network.
BotFairness == WF_botVars(HoldEnds) /\ WF_botVars(SendReleased)

BotSpec == BotInit /\ [][BotNext]_botVars /\ BotFairness

-----------------------------------------------------------------------------
BotTypeOK ==
    /\ script \in {"absent", "loading", "ready", "failed"}
    /\ {rendered, asleep, stale, held, timer, notice, raced, gone} \subseteq BOOLEAN
    /\ token \in Tokens /\ issued \in Tokens /\ sent \in Tokens
    /\ due \in 0..MaxSubmits /\ refresh \in 0..MaxSubmits
    /\ net \in Seq(Tokens) /\ spent \subseteq Tokens

\* A token is sent once, although a spent one stays in the input until the widget is
\* reset, and a released submit is not checked again.  The exception is named: a submit
\* of the visitor in the very tick before a released one is sent.
TokenIsSentOnce ==
    \A t \in Tokens \ {NoToken} : uses[t] > 1 => raced

\* No submit is held for ever, whatever becomes of the script, the widget and Cloudflare:
\* it goes to the server, or the form is left.
HeldSubmitLeaves ==
    held ~> ~held \/ gone
=============================================================================

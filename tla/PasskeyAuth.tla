----------------------------- MODULE PasskeyAuth -----------------------------
(***************************************************************************)
(* Passkeys on a page: the PasskeyAuth hook (assets/js/passkey_auth.js)    *)
(* between the browser's WebAuthn prompts and the three server parts that  *)
(* use it: the login page (user_login_live.ex), the re-authentication      *)
(* component (reauth_component.ex) and the page that adds a passkey        *)
(* (passkey_registration_live.ex).                                         *)
(*                                                                         *)
(* A click asks the LiveView for a challenge; the challenge opens a prompt *)
(* in the browser, and what becomes of the prompt is pushed back.  Every   *)
(* challenge begins one ceremony, numbered in the order they begin.        *)
(* Credentials are abstracted to the number of the challenge they sign.    *)
(***************************************************************************)
EXTENDS Naturals, Sequences, FiniteSets

CONSTANTS
    MaxCeremonies, \* bound: challenges issued
    MaxUnread,     \* bound: no click while this many messages are under way
    MaxFaults      \* bound: lost connections and prompts that return no credential

ASSUME PasskeyBounds == MaxCeremonies \in Nat /\ MaxUnread \in Nat /\ MaxFaults \in Nat

VARIABLES
    entry,    \* which form a fresh mount of this page renders
    supports, \* the browser has window.PublicKeyCredential
    lv,       \* assigns of the LiveView (and of the component in it), its mailbox
    joined,   \* the channel is joined
    asks,     \* pushes on their way to the LiveView
    diffs,    \* diffs, with or without a challenge, on their way to the browser
    dom,      \* what the page shows
    ceremony, \* where each prompt stands
    accepted, \* ceremonies the LiveView has verified
    past,     \* history: ceremonies overtaken, failed or cut off by a lost connection
    faults

passkeyVars == <<entry, supports, lv, joined, asks, diffs, dom, ceremony, accepted, past, faults>>

Ceremonies == 1..MaxCeremonies
NoChallenge == 0
FormKinds == {"login", "reauth", "register"}
Issued == {n \in Ceremonies : n <= lv.last}

\* A LiveView that has just mounted; `last` numbers the challenges over all mounts.
Fresh(form, last) == [form |-> form, supported |-> FALSE, loading |-> FALSE,
                      challenge |-> NoChallenge, verified |-> FALSE, leaving |-> FALSE,
                      last |-> last]

Diff(l, challenge) == [form |-> l.form, supported |-> l.supported, loading |-> l.loading,
                       leaving |-> l.leaving, challenge |-> challenge]
Shown(d) == [form |-> d.form, supported |-> d.supported, loading |-> d.loading,
             left |-> d.leaving]

Ask(event, of) == [event |-> event, of |-> of, form |-> dom.form]

\* detectAndPushSupport: an unsupported browser says so, and nothing changes.
Detected(form) == IF supports THEN <<[event |-> "support", of |-> 0, form |-> form]>> ELSE <<>>

PasskeyInit ==
    /\ entry \in FormKinds
    /\ supports \in BOOLEAN
    /\ lv = Fresh(entry, 0)
    /\ joined = TRUE /\ diffs = <<>>
    /\ asks = Detected(entry)
    /\ dom = Shown(Diff(lv, NoChallenge))
    /\ ceremony = [n \in Ceremonies |-> "none"]
    /\ accepted = {} /\ past = {} /\ faults = 0

-----------------------------------------------------------------------------
(* The browser.                                                             *)

\* An event of a dead channel is dropped.
PushAsk(event, of) == asks' = IF joined THEN Append(asks, Ask(event, of)) ELSE asks

\* phx-disable-with keeps the button of the component dead until it is answered.
AwaitsChallenge == \/ \E i \in DOMAIN asks : asks[i].event = "start"
                   \/ \E i \in DOMAIN diffs : diffs[i].challenge # NoChallenge

Starts == Cardinality({i \in DOMAIN asks : asks[i].event = "start"})

ClickPasskey ==
    /\ joined /\ ~dom.left /\ Len(asks) + Len(diffs) < MaxUnread
    /\ lv.last + Starts < MaxCeremonies
    /\ IF dom.form = "reauth" THEN ~AwaitsChallenge ELSE dom.supported /\ ~dom.loading
    /\ PushAsk("start", 0)
    /\ UNCHANGED <<entry, supports, lv, joined, diffs, dom, ceremony, accepted, past, faults>>

EnterPassword ==
    /\ joined /\ dom.form = "reauth" /\ Len(asks) + Len(diffs) < MaxUnread
    /\ PushAsk("password", 0)
    /\ UNCHANGED <<entry, supports, lv, joined, diffs, dom, ceremony, accepted, past, faults>>

\* When a diff shows another form, the hook of the old one is destroyed: its prompts
\* stay open, but what they return is pushed by an element that is no longer there.
Orphaned == [n \in Ceremonies |-> IF ceremony[n] = "open" THEN "cut" ELSE ceremony[n]]

ReceiveDiff ==
    LET d == Head(diffs)
        swapped == d.form # dom.form
        hooks == IF swapped THEN Orphaned ELSE ceremony
    IN /\ diffs # <<>> /\ ~dom.left
       /\ diffs' = Tail(diffs)
       /\ dom' = Shown(d)
       /\ asks' = IF swapped /\ joined THEN asks \o Detected(d.form) ELSE asks
       /\ ceremony' = IF d.challenge # NoChallenge /\ supports
                      THEN [hooks EXCEPT ![d.challenge] = "open"] ELSE hooks
       /\ UNCHANGED <<entry, supports, lv, joined, accepted, past, faults>>

Ends(n) == ceremony' = [ceremony EXCEPT ![n] = "over"]
AfterPrompt == UNCHANGED <<entry, supports, lv, joined, diffs, dom, accepted, past>>

ReturnsCredential(n) ==
    /\ ceremony[n] = "open" /\ ~dom.left
    /\ Ends(n) /\ PushAsk("verify", n)
    /\ AfterPrompt /\ UNCHANGED faults

\* The member cancels, the prompt times out, another prompt is open already, or the
\* options cannot be converted.
PromptFails(n) ==
    /\ ceremony[n] = "open" /\ ~dom.left
    /\ Ends(n) /\ PushAsk("error", n)
    /\ AfterPrompt /\ UNCHANGED faults

\* The branch for a prompt that resolves with no credential pushes nothing.
NoCredential(n) ==
    /\ ceremony[n] = "open" /\ ~dom.left /\ faults < MaxFaults
    /\ faults' = faults + 1
    /\ Ends(n) /\ UNCHANGED asks
    /\ AfterPrompt

-----------------------------------------------------------------------------
(* The LiveView.                                                            *)

\* An event of a component that is gone is dropped.
Handles(event) ==
    /\ joined /\ ~lv.leaving /\ asks # <<>> /\ Head(asks).event = event
    /\ asks' = Tail(asks)
    /\ UNCHANGED <<entry, supports, joined, dom, ceremony, faults>>

Answer(new, challenge) ==
    /\ lv' = new
    /\ diffs' = IF Diff(new, challenge) = Diff(lv, NoChallenge) THEN diffs
                ELSE Append(diffs, Diff(new, challenge))

SupportDetected ==
    /\ Handles("support")
    /\ Answer([lv EXCEPT !.supported = TRUE], NoChallenge)
    /\ UNCHANGED <<accepted, past>>

\* Variant: a challenge that is still there is used again.
KeptChallenge == IF lv.challenge = NoChallenge THEN lv.last + 1 ELSE lv.challenge

NewChallenge == lv.last + 1

\* sign_in_with_passkey, reauth_with_passkey and create_passkey.
StartCeremony ==
    /\ Handles("start")
    /\ IF Head(asks).form = lv.form
       THEN /\ Answer([lv EXCEPT !.last = lv.last + 1, !.challenge = NewChallenge,
                                 !.loading = lv.form # "reauth"], lv.last + 1)
            /\ past' = past \cup Issued
       ELSE UNCHANGED <<lv, diffs, past>>
    /\ UNCHANGED accepted

\* Every end of a login or a registration clears both; the component clears neither.
Cleared == IF lv.form = "reauth" THEN lv
           ELSE [lv EXCEPT !.loading = FALSE, !.challenge = NoChallenge]

\* Wax accepts a credential only for the challenge it signs.  What follows may still
\* refuse it: an unknown passkey, a replayed counter, a rate limit, a failed insert.
VerifyCredential ==
    LET n == Head(asks).of
        refused == Answer(Cleared, NoChallenge) /\ UNCHANGED accepted /\ past' = past \cup {n}
        granted == accepted' = accepted \cup {n} /\ UNCHANGED past
    IN /\ Handles("verify")
       /\ \/ refused
          \/ /\ lv.challenge = n /\ Head(asks).form = lv.form
             /\ granted
             /\ Answer(CASE lv.form = "login" -> [Cleared EXCEPT !.leaving = TRUE]
                         [] lv.form = "reauth" -> [lv EXCEPT !.verified = TRUE]
                         [] OTHER -> Cleared, NoChallenge)

\* passkey_auth_error and passkey_registration_error, whichever ceremony they are of.
CeremonyFailed ==
    /\ Handles("error")
    /\ Answer(Cleared, NoChallenge)
    /\ past' = past \cup {Head(asks).of}
    /\ UNCHANGED accepted

PasswordVerified ==
    /\ Handles("password")
    /\ \/ lv.form = "reauth" /\ Answer([lv EXCEPT !.verified = TRUE], NoChallenge)
       \/ UNCHANGED <<lv, diffs>>
    /\ UNCHANGED <<accepted, past>>

\* The component tells the page by a message, and the page replaces it.
ReauthVerified ==
    /\ joined /\ lv.verified
    /\ Answer([lv EXCEPT !.form = "register", !.verified = FALSE,
                         !.challenge = NoChallenge], NoChallenge)
    /\ UNCHANGED <<entry, supports, joined, asks, dom, ceremony, accepted, past, faults>>

-----------------------------------------------------------------------------
LosePage ==
    /\ joined /\ ~dom.left /\ faults < MaxFaults
    /\ faults' = faults + 1
    /\ joined' = FALSE /\ asks' = <<>> /\ diffs' = <<>>
    /\ lv' = Fresh(entry, lv.last)
    /\ past' = past \cup Issued
    /\ UNCHANGED <<entry, supports, dom, ceremony, accepted>>

\* A new LiveView has reset passkey_supported: reconnected() says it again, and so does
\* mounted() of a hook that replaces one.
Announced(swapped) == Detected(entry)

RejoinPage ==
    /\ ~joined /\ ~dom.left
    /\ joined' = TRUE
    /\ dom' = Shown(Diff(lv, NoChallenge))
    /\ ceremony' = IF dom.form # entry THEN Orphaned ELSE ceremony
    /\ asks' = Announced(dom.form # entry)
    /\ UNCHANGED <<entry, supports, lv, diffs, accepted, past, faults>>

-----------------------------------------------------------------------------
\* create_authentication_challenge signs in or re-authenticates, create_registration_challenge
\* adds a passkey; a prompt that is not cut off belongs to the form that is shown.
SignsIn(n) == dom.form # "register" /\ ReturnsCredential(n)
Registers(n) == dom.form = "register" /\ ReturnsCredential(n)
SignInFails(n) == dom.form # "register" /\ PromptFails(n)
RegistrationFails(n) == dom.form = "register" /\ PromptFails(n)

PromptEnds(n) == SignsIn(n) \/ Registers(n) \/ SignInFails(n) \/ RegistrationFails(n)
Serve == \/ SupportDetected \/ StartCeremony \/ VerifyCredential \/ CeremonyFailed
         \/ PasswordVerified \/ ReauthVerified

PasskeyNext ==
    \/ ClickPasskey \/ EnterPassword \/ ReceiveDiff \/ Serve
    \/ LosePage \/ RejoinPage
    \/ \E n \in Ceremonies : PromptEnds(n) \/ NoCredential(n)

\* Messages arrive, a lost connection is restored, and a prompt has a timeout.
PasskeyFairness ==
    /\ WF_passkeyVars(Serve) /\ WF_passkeyVars(ReceiveDiff) /\ WF_passkeyVars(RejoinPage)
    /\ \A n \in Ceremonies : WF_passkeyVars(PromptEnds(n))

PasskeySpec == PasskeyInit /\ [][PasskeyNext]_passkeyVars /\ PasskeyFairness

-----------------------------------------------------------------------------
PasskeyTypeOK ==
    /\ entry \in FormKinds /\ supports \in BOOLEAN /\ joined \in BOOLEAN
    /\ lv \in [form: FormKinds, supported: BOOLEAN, loading: BOOLEAN,
               challenge: 0..MaxCeremonies, verified: BOOLEAN, leaving: BOOLEAN,
               last: 0..MaxCeremonies]
    /\ dom \in [form: FormKinds, supported: BOOLEAN, loading: BOOLEAN, left: BOOLEAN]
    /\ ceremony \in [Ceremonies -> {"none", "open", "cut", "over"}]
    /\ accepted \subseteq Ceremonies /\ past \subseteq Ceremonies

\* Nobody is signed in, re-authenticated or given a passkey by a late prompt: not by one
\* a newer click has overtaken, not by one whose failure the page has shown, and not by
\* one that was opened before the connection was lost.
OnlyTheLatestCeremonyCounts ==
    [][\A n \in accepted' \ accepted : n \notin past]_passkeyVars

\* The button comes back after every click: the LiveView hears the end of the prompt it
\* waits for, or is replaced by one that waits for none.  A prompt that resolves with no
\* credential is the exception; it counts as a fault here.
ButtonComesBack ==
    lv.loading ~> ~lv.loading \/ faults > 0
=============================================================================

--------------------------- MODULE MCWebhookInbox ---------------------------
(***************************************************************************)
(* Small instances of WebhookInbox: the processes and events are model      *)
(* values given by each .cfg.                                               *)
(***************************************************************************)
EXTENDS WebhookInbox

NoEvents == {}
NoOne == {}

\* One event is still to come, the others were handled more than a week ago: they share
\* no row, so each is explored by itself.
HalfwayInit ==
    \E past \in {Events \ {e} : e \in Events} :
        /\ row = [e \in Events |-> IF e \in past THEN "processed" ELSE "missing"]
        /\ sent = [e \in StripeEvents |-> IF e \in past THEN "gone" ELSE "live"]
        /\ kept = [e \in Events |-> IF e \in past THEN "lapsed" ELSE "new"]
        /\ job = [b \in Bills |-> IF b \in past THEN "completed" ELSE "none"]
        /\ tries = [b \in Bills |-> IF b \in past THEN 1 ELSE 0]
        /\ handled = [e \in Events |-> IF e \in past THEN 1 ELSE 0]
        /\ missed = {}
        /\ stuck = {}
        /\ holder = [e \in Events |-> Nil]
        /\ pc = [p \in Procs |-> "idle"]
        /\ at = [p \in Procs |-> Nil]
        /\ seen = [p \in Procs |-> "missing"]
        /\ batch = [p \in Procs |-> {}]
        /\ failures = 0 /\ faults = 0

HalfwaySpec == HalfwayInit /\ [][Next]_vars /\ Fairness
=============================================================================

---------------------------- MODULE WebhookInbox ----------------------------
(***************************************************************************)
(* The rows of webhook_events: how events of Stripe and QuickBooks are      *)
(* stored, claimed, handled, retried and recovered (lib/ysc/webhooks.ex,    *)
(* lib/ysc/stripe/webhook_handler.ex, the reconciliation and retry workers, *)
(* and the QuickBooks controller and job).                                  *)
(*                                                                          *)
(* A Stripe event is handled in the transaction that marks its row          *)
(* processed.  A QuickBooks event is handled by an Oban job that writes the *)
(* row afterwards.  The handlers themselves are one step: what they do to   *)
(* an order is TicketCheckout.  The operator's mix task is not modelled.    *)
(***************************************************************************)
EXTENDS Naturals, FiniteSets

CONSTANTS
    StripeEvents,
    StructOnly,     \* those of a type whose handler clauses match a Stripe struct only
    Bills,          \* QuickBooks events
    Deliveries,     \* HTTP requests of Stripe being served
    Workers,        \* Oban workers of the default queue
    Retrier,        \* the nightly WebhookRetryWorker
    Reconciler,     \* the nightly WebhookReconciliationWorker
    Nil,
    MaxFailures,    \* bound: handler runs that fail
    MaxFaults       \* bound: processes that die

Events == StripeEvents \cup Bills
Procs == Deliveries \cup Workers \cup {Retrier, Reconciler}
MaxAttempts == 3

ASSUME EventsAssumption ==
    StripeEvents \cap Bills = {} /\ Nil \notin Events /\ StructOnly \subseteq StripeEvents
ASSUME ProcsAssumption ==
    /\ Nil \notin Procs /\ Retrier # Reconciler
    /\ {Retrier, Reconciler} \cap (Deliveries \cup Workers) = {}
    /\ Deliveries \cap Workers = {}
ASSUME BoundsAssumption == MaxFailures \in Nat /\ MaxFaults \in Nat

VARIABLES
    row,      \* state of the row of an event, "missing" when there is none
    sent,     \* how long ago Stripe created the event
    kept,     \* how long ago the row was inserted
    stuck,    \* rows whose updated_at is more than an hour old
    holder,   \* the transaction that holds the row's lock
    job,      \* the Oban job of a QuickBooks event
    tries,    \* its attempts
    pc,       \* next step of each process
    at,       \* the event it is working on
    seen,     \* the state in the struct it holds
    batch,    \* structs a nightly worker has listed and not yet visited
    handled,  \* history: handler runs of an event that were committed
    missed,   \* history: events marked processed that no handler clause had matched
    failures, faults

vars == <<row, sent, kept, stuck, holder, job, tries, pc, at, seen, batch, handled,
          missed, failures, faults>>
rows == <<row, stuck, holder>>
clocks == <<sent, kept>>
jobs == <<job, tries>>
procs == <<pc, at, seen, batch>>
counts == <<handled, missed, failures, faults>>

State == {"missing", "pending", "processing", "processed", "failed"}
Labels == {"idle", "next", "create", "check", "lock", "flip", "open", "handle", "fail",
           "parse", "bill", "settle", "refuse"}
\* "starting" is the Task between the controller's insert and the enqueue.
JobState == {"none", "starting", "lost", "available", "executing", "completed", "discarded"}
Struct == [event : Events, state : State]

TypeOK ==
    /\ row \in [Events -> State]
    /\ sent \in [StripeEvents -> {"live", "recent", "gone"}]
    /\ kept \in [Events -> {"new", "ripe", "lapsed"}]
    /\ stuck \subseteq Events
    /\ holder \in [Events -> Procs \cup {Nil}]
    /\ job \in [Bills -> JobState]
    /\ tries \in [Bills -> 0..MaxAttempts]
    /\ pc \in [Procs -> Labels]
    /\ at \in [Procs -> Events \cup {Nil}]
    /\ seen \in [Procs -> State]
    /\ batch \in [Procs -> SUBSET Struct]
    /\ handled \in [Events -> Nat] /\ missed \subseteq StripeEvents
    /\ failures \in 0..MaxFailures /\ faults \in 0..MaxFaults

Init ==
    /\ row = [e \in Events |-> "missing"]
    /\ sent = [e \in StripeEvents |-> "live"]
    /\ kept = [e \in Events |-> "new"]
    /\ stuck = {}
    /\ holder = [e \in Events |-> Nil]
    /\ job = [b \in Bills |-> "none"]
    /\ tries = [b \in Bills |-> 0]
    /\ pc = [p \in Procs |-> "idle"]
    /\ at = [p \in Procs |-> Nil]
    /\ seen = [p \in Procs |-> "missing"]
    /\ batch = [p \in Procs |-> {}]
    /\ handled = [e \in Events |-> 0] /\ missed = {}
    /\ failures = 0 /\ faults = 0

-----------------------------------------------------------------------------
(* Rows and processes. *)

\* update_webhook_state on a struct whose state is old: Ecto writes by primary key,
\* whatever the row holds now, and only when the struct changes.
Write(e, old, new) ==
    IF old = new THEN UNCHANGED rows
    ELSE /\ holder[e] = Nil
         /\ row' = [row EXCEPT ![e] = new]
         /\ stuck' = stuck \ {e}
         /\ UNCHANGED holder

\* The process moves to label l with the event it has.
Go(p, l) == pc' = [pc EXCEPT ![p] = l] /\ UNCHANGED <<at, batch>>

\* It starts on event e at label l.
Take(p, e, l) == pc' = [pc EXCEPT ![p] = l] /\ at' = [at EXCEPT ![p] = e]

\* It is through with its event; a nightly worker goes on with its list.
Done(p) ==
    /\ pc' = [pc EXCEPT ![p] = IF batch[p] = {} THEN "idle" ELSE "next"]
    /\ at' = [at EXCEPT ![p] = Nil]
    /\ UNCHANGED batch

Finish(p) == Done(p) /\ seen' = [seen EXCEPT ![p] = "missing"]

See(p, s) == seen' = [seen EXCEPT ![p] = s]

\* From the claim of a row to the write that ends it.
Working(p) == pc[p] \in {"open", "handle", "fail", "bill", "settle", "refuse"}

\* How an attempt of a job ends: retried until its attempts are used up.
Retried(b) == IF tries[b] < MaxAttempts THEN "available" ELSE "discarded"

-----------------------------------------------------------------------------
(* Storing and claiming. *)

\* handle_event: a live delivery is refused when the event is older than 5 minutes.
Receive(p, e) ==
    /\ p \in Deliveries /\ pc[p] = "idle" /\ sent[e] = "live"
    /\ Take(p, e, "create")
    /\ UNCHANGED <<rows, clocks, jobs, seen, batch, counts>>

\* create_webhook_event!; on a duplicate the reconciliation locks right away and
\* process_webhook reads the row first.
Create(p) ==
    LET e == at[p] IN
    /\ pc[p] = "create"
    /\ IF row[e] = "missing"
       THEN row' = [row EXCEPT ![e] = "pending"] /\ Go(p, "lock")
       ELSE UNCHANGED row /\ Go(p, IF p = Reconciler THEN "lock" ELSE "check")
    /\ UNCHANGED <<stuck, holder, clocks, jobs, seen, counts>>

\* Faulty variant: a duplicate of a row that is still pending is only acknowledged.
CheckAcknowledgesPending(p) ==
    /\ pc[p] = "check"
    /\ IF row[at[p]] = "failed" THEN Go(p, "lock") ELSE Done(p)
    /\ UNCHANGED <<rows, clocks, jobs, seen, counts>>

\* The duplicate's state decides: processed and processing are acknowledged, pending
\* and failed go to the lock.
CheckDuplicate(p) ==
    /\ pc[p] = "check"
    /\ IF row[at[p]] \in {"pending", "failed"} THEN Go(p, "lock") ELSE Done(p)
    /\ UNCHANGED <<rows, clocks, jobs, seen, counts>>

\* The end of an Oban attempt for whoever runs one.
Ends(p, outcome) ==
    IF p \in Workers THEN job' = [job EXCEPT ![at[p]] = outcome] /\ UNCHANGED tries
                     ELSE UNCHANGED jobs

\* Faulty variant: a SELECT that does not lock the row.
LockWithoutLocking(p) ==
    LET e == at[p] IN
    /\ pc[p] = "lock"
    /\ IF row[e] = "pending"
       THEN Go(p, "flip") /\ UNCHANGED <<rows, jobs, seen>>
       ELSE Finish(p) /\ Ends(p, "completed") /\ UNCHANGED rows
    /\ UNCHANGED <<clocks, counts>>

\* SELECT ... WHERE state = 'pending' FOR UPDATE SKIP LOCKED; without a row the
\* caller is told :already_processing and returns :ok.
Lock(p) ==
    LET e == at[p] IN
    /\ pc[p] = "lock"
    /\ IF row[e] = "pending" /\ holder[e] = Nil
       THEN /\ holder' = [holder EXCEPT ![e] = p]
            /\ Go(p, "flip")
            /\ UNCHANGED <<row, stuck, jobs, seen>>
       ELSE Finish(p) /\ Ends(p, "completed") /\ UNCHANGED rows
    /\ UNCHANGED <<clocks, counts>>

\* The state becomes processing and the transaction commits.
Flip(p) ==
    LET e == at[p] IN
    /\ pc[p] = "flip"
    /\ row' = [row EXCEPT ![e] = "processing"]
    /\ stuck' = stuck \ {e}
    /\ holder' = [holder EXCEPT ![e] = Nil]
    /\ Go(p, IF p \in Workers THEN "bill" ELSE "open")
    /\ See(p, "processing")
    /\ UNCHANGED <<clocks, jobs, counts>>

-----------------------------------------------------------------------------
(* process_webhook_event: one transaction around the handler. *)

Open(p) ==
    /\ pc[p] = "open"
    /\ See(p, row[at[p]])
    /\ Go(p, "handle")
    /\ UNCHANGED <<rows, clocks, jobs, counts>>

\* The retry rebuilds the event from its row, and the object in it is a plain map: the
\* clauses that match a struct do not, and the catch-all returns :ok.
Unmatched(p) == p = Retrier /\ at[p] \in StructOnly

\* The handler returns, with :ok or an error alike, and its changes commit together
\* with the state.
Handle(p) ==
    LET e == at[p] IN
    /\ pc[p] = "handle"
    /\ Write(e, seen[p], "processed")
    /\ handled' = [handled EXCEPT ![e] = IF Unmatched(p) THEN @ ELSE @ + 1]
    /\ missed' = IF Unmatched(p) THEN missed \cup {e} ELSE missed
    /\ Finish(p)
    /\ UNCHANGED <<clocks, jobs, failures, faults>>

\* Faulty variant: what the handler did before it raised is not rolled back.
HandlerRaisesWithoutRollback(p) ==
    /\ pc[p] = "handle" /\ failures < MaxFailures
    /\ failures' = failures + 1
    /\ handled' = [handled EXCEPT ![at[p]] = @ + 1]
    /\ Go(p, "fail")
    /\ UNCHANGED <<rows, clocks, jobs, seen, missed, faults>>

\* The handler raises or an inner transaction rolls back: everything is undone.
HandlerRaises(p) ==
    /\ pc[p] = "handle" /\ failures < MaxFailures
    /\ failures' = failures + 1
    /\ Go(p, "fail")
    /\ UNCHANGED <<rows, clocks, jobs, seen, handled, missed, faults>>

\* The row is read again and marked failed, outside the transaction.
MarkFailed(p) ==
    /\ pc[p] = "fail"
    /\ Write(at[p], row[at[p]], "failed")
    /\ Finish(p)
    /\ UNCHANGED <<clocks, jobs, counts>>

-----------------------------------------------------------------------------
(* The nightly workers. *)

\* fetch_all_events: what Stripe lists of the last 24 hours.
ListStripe ==
    LET listed == {[event |-> e, state |-> "missing"] : e \in
                     {e \in StripeEvents : sent[e] # "gone"}} IN
    /\ pc[Reconciler] = "idle" /\ listed # {}
    /\ batch' = [batch EXCEPT ![Reconciler] = listed]
    /\ pc' = [pc EXCEPT ![Reconciler] = "next"]
    /\ UNCHANGED <<rows, clocks, jobs, at, seen, counts>>

\* process_event: only an event without a row is stored and processed.
Reconcile(w) ==
    LET rest == batch[Reconciler] \ {w} IN
    /\ pc[Reconciler] = "next" /\ w \in batch[Reconciler]
    /\ batch' = [batch EXCEPT ![Reconciler] = rest]
    /\ IF row[w.event] = "missing" THEN Take(Reconciler, w.event, "create")
       ELSE /\ pc' = [pc EXCEPT ![Reconciler] = IF rest = {} THEN "idle" ELSE "next"]
            /\ UNCHANGED at
    /\ UNCHANGED <<rows, clocks, jobs, seen, counts>>

\* Faulty variant: rows left in processing are not looked for.
ToRetryNoStuck ==
    {e \in Events : kept[e] = "ripe" /\ row[e] \in {"pending", "failed"}}

\* Rows the retry takes up: pending or failed, and processing for over an hour.
ToRetry ==
    {e \in Events : /\ kept[e] # "lapsed"
                    /\ \/ row[e] \in {"pending", "failed"} /\ kept[e] = "ripe"
                       \/ row[e] = "processing" /\ e \in stuck}

\* find_webhooks_to_retry
ListRetries ==
    /\ pc[Retrier] = "idle" /\ ToRetry # {}
    /\ batch' = [batch EXCEPT ![Retrier] = {[event |-> e, state |-> row[e]] : e \in ToRetry}]
    /\ pc' = [pc EXCEPT ![Retrier] = "next"]
    /\ UNCHANGED <<rows, clocks, jobs, at, seen, counts>>

\* retry_webhook: a failed or stuck row is reset to pending on the listed struct.
Retry(w) ==
    /\ pc[Retrier] = "next" /\ w \in batch[Retrier]
    /\ Write(w.event, w.state, "pending")
    /\ batch' = [batch EXCEPT ![Retrier] = @ \ {w}]
    /\ Take(Retrier, w.event, "parse")
    /\ See(Retrier, "pending")
    /\ UNCHANGED <<clocks, jobs, counts>>

\* parse_webhook_event: a Stripe event is rebuilt, its object as the map it was stored as
\* (Unmatched), and replayed through process_webhook; a QuickBooks event has no parser
\* and is marked failed.
Parse ==
    LET e == at[Retrier] IN
    /\ pc[Retrier] = "parse"
    /\ IF e \in StripeEvents
       THEN Go(Retrier, "create") /\ UNCHANGED <<rows, seen>>
       ELSE Write(e, seen[Retrier], "failed") /\ Finish(Retrier)
    /\ UNCHANGED <<clocks, jobs, counts>>

-----------------------------------------------------------------------------
(* QuickBooks: the controller stores the event, a Task enqueues the job. *)

Notify(b) ==
    /\ row[b] = "missing"
    /\ row' = [row EXCEPT ![b] = "pending"]
    /\ job' = [job EXCEPT ![b] = "starting"]
    /\ UNCHANGED <<stuck, holder, clocks, tries, procs, counts>>

Enqueue(b) ==
    /\ job[b] = "starting"
    /\ job' = [job EXCEPT ![b] = "available"]
    /\ UNCHANGED <<rows, clocks, tries, procs, counts>>

\* The node goes down, or the insert fails, before the job exists.
LoseTask(b) ==
    /\ job[b] = "starting" /\ faults < MaxFaults
    /\ job' = [job EXCEPT ![b] = "lost"]
    /\ faults' = faults + 1
    /\ UNCHANGED <<rows, clocks, tries, procs, handled, missed, failures>>

\* Oban starts the next attempt: perform locks the row first.
Attempt(p, b) ==
    /\ p \in Workers /\ pc[p] = "idle" /\ job[b] = "available"
    /\ job' = [job EXCEPT ![b] = "executing"]
    /\ tries' = [tries EXCEPT ![b] = @ + 1]
    /\ Take(p, b, "lock")
    /\ UNCHANGED <<rows, clocks, seen, batch, counts>>

\* process_bill_payment: the linked reports are updated in their own transactions.
HandleBill(p) ==
    /\ pc[p] = "bill"
    /\ handled' = [handled EXCEPT ![at[p]] = @ + 1]
    /\ Go(p, "settle")
    /\ UNCHANGED <<rows, clocks, jobs, seen, missed, failures, faults>>

\* QuickBooks or a report could not be read or written; without a bill payment at
\* QuickBooks (:not_found) the attempt ends and the row is left in processing.
BillFails(p) ==
    /\ pc[p] = "bill" /\ failures < MaxFailures
    /\ failures' = failures + 1
    /\ \/ Go(p, "refuse") /\ UNCHANGED <<jobs, seen>>
       \/ Ends(p, Retried(at[p])) /\ Finish(p)
    /\ UNCHANGED <<rows, clocks, handled, missed, faults>>

Refuse(p) ==
    /\ pc[p] = "refuse"
    /\ Write(at[p], seen[p], "failed")
    /\ Ends(p, Retried(at[p]))
    /\ Finish(p)
    /\ UNCHANGED <<clocks, counts>>

Settle(p) ==
    /\ pc[p] = "settle"
    /\ Write(at[p], seen[p], "processed")
    /\ Ends(p, "completed")
    /\ Finish(p)
    /\ UNCHANGED <<clocks, counts>>

\* Oban's lifeline: the job of a worker that died is run again.
Rescue(b) ==
    /\ job[b] = "executing" /\ \A p \in Workers : at[p] # b
    /\ job' = [job EXCEPT ![b] = Retried(b)]
    /\ UNCHANGED <<rows, clocks, tries, procs, counts>>

-----------------------------------------------------------------------------
(* Time and failure. *)

\* The event is over 5 minutes, then over 24 hours old.
EventAges(e) ==
    /\ sent[e] # "gone"
    /\ sent' = [sent EXCEPT ![e] = IF @ = "live" THEN "recent" ELSE "gone"]
    /\ UNCHANGED <<rows, kept, jobs, procs, counts>>

\* The row is over 5 minutes old.
Ripen(e) ==
    /\ row[e] # "missing" /\ kept[e] = "new"
    /\ kept' = [kept EXCEPT ![e] = "ripe"]
    /\ UNCHANGED <<rows, sent, jobs, procs, counts>>

\* The row is over 7 days old and is not retried any more.
Expire(e) ==
    /\ kept[e] = "ripe"
    /\ kept' = [kept EXCEPT ![e] = "lapsed"]
    /\ UNCHANGED <<rows, sent, jobs, procs, counts>>

\* A row has been in processing for an hour.  Whoever claimed it is gone by then:
\* every call a handler makes has a timeout of seconds.
GetStuck(e) ==
    /\ row[e] = "processing" /\ e \notin stuck
    /\ \A p \in Procs : ~(Working(p) /\ at[p] = e)
    /\ stuck' = stuck \cup {e}
    /\ UNCHANGED <<row, holder, clocks, jobs, procs, counts>>

\* A process dies; its transaction is rolled back and its locks are released.
Crash(p) ==
    /\ pc[p] # "idle" /\ faults < MaxFaults
    /\ faults' = faults + 1
    /\ pc' = [pc EXCEPT ![p] = "idle"]
    /\ at' = [at EXCEPT ![p] = Nil]
    /\ See(p, "missing")
    /\ batch' = [batch EXCEPT ![p] = {}]
    /\ holder' = [e \in Events |-> IF holder[e] = p THEN Nil ELSE holder[e]]
    /\ UNCHANGED <<row, stuck, clocks, jobs, handled, missed, failures>>

-----------------------------------------------------------------------------
Claiming(p) == Create(p) \/ CheckDuplicate(p) \/ Lock(p) \/ Flip(p)
Handling(p) == Open(p) \/ Handle(p) \/ HandlerRaises(p) \/ MarkFailed(p)
Billing(p) == HandleBill(p) \/ BillFails(p) \/ Refuse(p) \/ Settle(p)

Step(p) == Claiming(p) \/ Handling(p) \/ Billing(p)
Reconciling == ListStripe \/ \E w \in batch[Reconciler] : Reconcile(w)
Retrying == ListRetries \/ Parse \/ \E w \in batch[Retrier] : Retry(w)
Queueing(b) == Enqueue(b) \/ Rescue(b) \/ \E p \in Workers : Attempt(p, b)
Passing(e) == Ripen(e) \/ GetStuck(e)

Next ==
    \/ \E p \in Procs : Step(p) \/ Crash(p)
    \/ Reconciling \/ Retrying
    \/ \E e \in StripeEvents : EventAges(e) \/ \E p \in Deliveries : Receive(p, e)
    \/ \E b \in Bills : Notify(b) \/ LoseTask(b) \/ Queueing(b)
    \/ \E e \in Events : Expire(e) \/ Passing(e)

Spec == Init /\ [][Next]_vars

\* What has started goes on, the cron jobs run every night and time passes; nobody
\* has to send, fail or die, and no window has to close.
Fairness ==
    /\ \A p \in Procs : WF_vars(Step(p))
    /\ WF_vars(Reconciling) /\ WF_vars(Retrying)
    /\ \A b \in Bills : WF_vars(Queueing(b))
    /\ \A e \in Events : WF_vars(Passing(e))

FairSpec == Spec /\ Fairness

-----------------------------------------------------------------------------
\* A row is claimed by one process at a time, whoever finds it: deliveries,
\* reconciliation, retry or job (lock_webhook_event_by_provider_and_event_id).
ClaimedByOne ==
    \A p, q \in Procs : Working(p) /\ Working(q) /\ at[p] = at[q] => p = q

\* What a Stripe event does is done once however often it is delivered, retried and
\* found again, and it is done exactly when its row says so (process_webhook_event).  The
\* exception is named: what the retry replayed past its handler clause stays undone, and
\* processed.
HandledOnce ==
    \A e \in StripeEvents :
        /\ handled[e] = IF row[e] = "processed" /\ e \notin missed THEN 1 ELSE 0
        /\ e \in missed => e \in StructOnly /\ row[e] = "processed"

\* Every Stripe event is handled in the end, delivered or not and whoever dies on the
\* way, unless 24 hours pass before it is stored or 7 days after, or the retry replays it
\* past its handler clause.
EveryEventIsProcessed ==
    \A e \in StripeEvents :
        <>(handled[e] = 1 \/ e \in missed \/ kept[e] = "lapsed"
           \/ (row[e] = "missing" /\ sent[e] = "gone"))

\* A row that was claimed does not stay so when its process has died: it is handled,
\* failed or found by the retry, unless 7 days pass (find_webhooks_to_retry).
ClaimsEnd ==
    \A e \in Events : row[e] = "processing" ~> row[e] # "processing" \/ kept[e] = "lapsed"

\* A QuickBooks job is not run for ever: whatever dies or fails, its attempts end, and
\* with them its claim of a worker (max_attempts, the lifeline plugin).
JobsEnd ==
    \A b \in Bills : job[b] # "none" ~> job[b] \in {"lost", "completed", "discarded"}

\* Nothing stays taken by the dead: neither a row nor a job.
NothingStaysTaken == ClaimsEnd /\ JobsEnd
=============================================================================

----------------------- MODULE TicketCheckoutProofs -----------------------
(***************************************************************************)
(* Proofs about TicketCheckout for any number of processes of each kind,   *)
(* any prices and any bounds: the type invariant, that seats follow their  *)
(* order, that a charge is booked only for confirmed seats, that a decided *)
(* order stays decided, that with one checkout page it is charged once,    *)
(* and that whoever releases it or gives it away has dealt with its intent.*)
(*                                                                         *)
(* The argument has three layers.  The lemmas on the row operators show    *)
(* that each keeps the rows consistent and advances the order.  StepLemma  *)
(* says what a step of one process must do for the invariant.  The lemmas  *)
(* on the actions show that each does it.                                  *)
(***************************************************************************)
EXTENDS TicketCheckout, TLAPS

-----------------------------------------------------------------------------
(* The inductive invariant. *)

\* The committed rows d agree with each other and with Stripe's intents st.
Consistent(d, st) ==
    /\ d \in Rows
    /\ d.order.status \in {"pending", "cancelled", "expired"}
         => d.order.tickets = d.order.status
    /\ d.order.status = "completed" => d.order.tickets # "cancelled"
    /\ \A i \in Intents : d.ledger[i] # Nil =>
         /\ d.order.status = "completed" /\ d.order.tickets = "confirmed"
         /\ st[i] = "succeeded"
    /\ d.order.payment # Nil => d.ledger[d.order.payment] # Nil

\* The order and the ledger never goes back.
Advances(d, e) ==
    /\ d.order.status \in {"completed", "cancelled"} => e.order.status = d.order.status
    /\ d.order.status = "expired" => e.order.status \in {"expired", "completed"}
    /\ d.order.status = "completed" /\ d.order.tickets = "confirmed"
         => e.order.tickets = "confirmed"
    /\ \A i \in Intents : d.ledger[i] # Nil => e.ledger[i] # Nil

\* What a process at label l holding struct s relies on.
Relies(l, s, d) ==
    /\ s.status = "completed" => d.order.status = "completed"
    /\ l \in {"confirm", "hand"} => d.order.status = "completed"
    /\ l \in {"ledger", "attach"} =>
         d.order.status = "completed" /\ d.order.tickets = "confirmed"

\* Where a process fulfils the order for a charge.
Fulfilling == {"sync", "check", "rerow", "retix", "decide", "resync", "recheck",
               "refund", "complete", "confirm", "ledger", "attach"}

\* A process fulfils, or was started to fulfil, only for a captured intent; it
\* attaches only what is booked, and binds only what was minted.
Charges(l, t, i, d, st) ==
    /\ l \in Fulfilling \/ (l = "tix" /\ t = "fulfil")
         => i \in Intents /\ st[i] = "succeeded"
    /\ l = "attach" => d.ledger[i] # Nil
    /\ l = "bind" => i \in Intents

ProcType ==
    /\ locked \in Proc \cup {NoProc}
    /\ pc \in [Proc -> Labels]
    /\ task \in [Proc -> Tasks]
    /\ seen \in [Proc -> Struct]
    /\ arg \in [Proc -> MaybeIntent]

WorldType ==
    /\ stripe \in [Intents -> IntentStatus]
    /\ refunded \subseteq Intents
    /\ shown \subseteq Intents
    /\ unread \subseteq Intents
    /\ price \in Prices
    /\ timedOut \in BOOLEAN
    /\ room \in BOOLEAN
    /\ faults \in Nat /\ reprices \in Nat /\ declines \in Nat

IInv ==
    /\ ProcType
    /\ WorldType
    /\ Consistent(db, stripe)
    /\ \A p \in Proc : /\ Relies(pc[p], seen[p], db)
                        /\ Charges(pc[p], task[p], arg[p], db, stripe)

\* A captured charge stays captured.
WorldStep ==
    /\ WorldType'
    /\ \A i \in Intents : stripe[i] = "succeeded" => stripe'[i] = "succeeded"

LEMMA IInvImplies ==
    IInv => TypeOK /\ SeatsFollowOrder /\ PaidMeansConfirmed /\ AttachedPaymentIsRecorded
<1>1. IInv => TypeOK /\ SeatsFollowOrder /\ PaidMeansConfirmed
  BY DEF IInv, ProcType, WorldType, Consistent, TypeOK, SeatsFollowOrder,
         PaidMeansConfirmed, Order
<1>2. IInv => AttachedPaymentIsRecorded
  BY DEF IInv, Consistent, Rows, Struct, MaybeIntent, AttachedPaymentIsRecorded, Order
<1>3. QED BY <1>1, <1>2

-----------------------------------------------------------------------------
(* The row operators. *)

LEMMA TotalsInNat == Totals \subseteq Nat /\ Nil \notin Totals
<1>1. \A n \in Totals : n \in Nat
  BY PricesAssumption DEF Totals
<1>2. QED BY <1>1, NamesAssumption

LEMMA ReleasedRows ==
    ASSUME NEW d, NEW st, Consistent(d, st), NEW to \in {"cancelled", "expired"}
    PROVE  Consistent(Released(d, to), st) /\ Advances(d, Released(d, to))
BY DEF Consistent, Advances, Released, Rows, Struct, OrderStatus, TicketStatus

LEMMA CompletedRows ==
    ASSUME NEW d, NEW st, Consistent(d, st), NEW from, from \subseteq {"pending", "expired"}
    PROVE  Consistent(Completed(d, from), st) /\ Advances(d, Completed(d, from))
BY DEF Consistent, Advances, Completed, Rows, Struct, OrderStatus, TicketStatus, MaybeIntent

LEMMA ConfirmedRows ==
    ASSUME NEW d, NEW st, Consistent(d, st), d.order.status = "completed"
    PROVE  /\ Consistent(Confirmed(d), st) /\ Advances(d, Confirmed(d))
           /\ Confirmed(d).order.status = "completed"
           /\ Confirmed(d).order.tickets = "confirmed"
BY DEF Consistent, Advances, Confirmed, Rows, Struct, OrderStatus, TicketStatus

LEMMA RecordedRows ==
    ASSUME NEW d, NEW st, Consistent(d, st), d.order.status = "completed",
           d.order.tickets = "confirmed",
           NEW i \in Intents, st[i] = "succeeded", NEW total \in Totals
    PROVE  /\ Consistent(Recorded(d, i, total), st) /\ Advances(d, Recorded(d, i, total))
           /\ Recorded(d, i, total).order = d.order
           /\ Recorded(d, i, total).ledger[i] # Nil
<1>1. total # Nil
  BY TotalsInNat
<1>2. QED
  BY <1>1 DEF Consistent, Advances, Recorded, Rows, Struct, OrderStatus, TicketStatus,
              MaybeIntent

LEMMA AttachedRows ==
    ASSUME NEW d, NEW st, Consistent(d, st), NEW i \in Intents, d.ledger[i] # Nil
    PROVE  Consistent(Attached(d, i), st) /\ Advances(d, Attached(d, i))
BY DEF Consistent, Advances, Attached, Rows, Struct, OrderStatus, TicketStatus, MaybeIntent

LEMMA TotalRows ==
    ASSUME NEW d, NEW st, Consistent(d, st), NEW total \in Totals
    PROVE  /\ Consistent([d EXCEPT !.order.total = total], st)
           /\ Advances(d, [d EXCEPT !.order.total = total])
           /\ [d EXCEPT !.order.total = total].order.status = d.order.status
BY DEF Consistent, Advances, Rows, Struct, OrderStatus, TicketStatus, MaybeIntent

LEMMA IntentRows ==
    ASSUME NEW d, NEW st, Consistent(d, st), NEW i \in MaybeIntent
    PROVE  /\ Consistent([d EXCEPT !.order.intent = i], st)
           /\ Advances(d, [d EXCEPT !.order.intent = i])
BY DEF Consistent, Advances, Rows, Struct, OrderStatus, TicketStatus, MaybeIntent

LEMMA AdvancesTransitive ==
    ASSUME NEW d, NEW e, NEW f, Advances(d, e), Advances(e, f)
    PROVE  Advances(d, f)
BY DEF Advances

LEMMA AdvancesReflexive == ASSUME NEW d PROVE Advances(d, d)
BY DEF Advances

LEMMA ReliesAdvances ==
    ASSUME NEW l, NEW s, NEW d, NEW e, Relies(l, s, d), Advances(d, e)
    PROVE  Relies(l, s, e)
BY DEF Relies, Advances

LEMMA ChargesAdvances ==
    ASSUME NEW l, NEW t, NEW i, NEW d, NEW e, Charges(l, t, i, d, stripe),
           Advances(d, e), WorldStep
    PROVE  Charges(l, t, i, e, stripe')
BY DEF Charges, Advances, WorldStep, Fulfilling

LEMMA ConsistentWorld ==
    ASSUME NEW d, Consistent(d, stripe), WorldStep
    PROVE  Consistent(d, stripe')
BY DEF Consistent, WorldStep

-----------------------------------------------------------------------------
(* Steps of one process. *)

\* A step of p keeps the invariant if it advances the rows and leaves p at a
\* label whose reliance holds; the other processes rely on what only advances.
LEMMA StepLemma ==
    ASSUME IInv, NEW p \in Proc, NEW l \in Labels, NEW s \in Struct,
           pc' = [pc EXCEPT ![p] = l], seen' = [seen EXCEPT ![p] = s],
           NEW t \in Tasks, task' = [task EXCEPT ![p] = t],
           NEW i \in MaybeIntent, arg' = [arg EXCEPT ![p] = i],
           locked' \in Proc \cup {NoProc}, WorldStep,
           Consistent(db', stripe), Advances(db, db'), Relies(l, s, db'),
           Charges(l, t, i, db', stripe)
    PROVE  IInv'
<1>1. ProcType'
  BY DEF IInv, ProcType
<1>2. ASSUME NEW q \in Proc
      PROVE  /\ Relies(pc'[q], seen'[q], db')
             /\ Charges(pc'[q], task'[q], arg'[q], db', stripe')
  <2>1. CASE q = p
    <3>1. pc'[q] = l /\ seen'[q] = s /\ task'[q] = t /\ arg'[q] = i
      BY <2>1 DEF IInv, ProcType
    <3>2. Charges(l, t, i, db', stripe')
      BY AdvancesReflexive, ChargesAdvances
    <3>3. QED BY <3>1, <3>2
  <2>2. CASE q # p
    <3>1. pc'[q] = pc[q] /\ seen'[q] = seen[q] /\ task'[q] = task[q] /\ arg'[q] = arg[q]
      BY <2>2 DEF IInv, ProcType
    <3>2. Relies(pc[q], seen[q], db) /\ Charges(pc[q], task[q], arg[q], db, stripe)
      BY DEF IInv
    <3>3. QED BY <3>1, <3>2, ReliesAdvances, ChargesAdvances
  <2>3. QED BY <2>1, <2>2
<1>3. Consistent(db', stripe')
  BY ConsistentWorld
<1>4. QED BY <1>1, <1>2, <1>3 DEF IInv, WorldStep

LEMMA BlankStruct == Blank \in Struct
BY DEF Blank, Struct, OrderStatus, TicketStatus, MaybeIntent, Totals

LEMMA ReturnStep ==
    ASSUME IInv, NEW p \in Proc, NEW l \in {"done", "error", "killed"}, Return(p, l),
           Consistent(db', stripe), Advances(db, db'), WorldStep
    PROVE  IInv'
<1>1. Rest(p, l) \in {"idle", "done", "error", "killed"}
  BY DEF Rest
<1>2. Relies(Rest(p, l), Blank, db') /\ Rest(p, l) \in Labels
  BY <1>1 DEF Relies, Blank, Labels
<1>3. Charges(Rest(p, l), task[p], arg[p], db', stripe)
  BY <1>1 DEF Charges, Fulfilling
<1>4. /\ locked' \in Proc \cup {NoProc}
      /\ task[p] \in Tasks /\ task' = [task EXCEPT ![p] = task[p]]
      /\ arg[p] \in MaybeIntent /\ arg' = [arg EXCEPT ![p] = arg[p]]
  BY DEF Return, IInv, ProcType
<1>5. pc' = [pc EXCEPT ![p] = Rest(p, l)] /\ seen' = [seen EXCEPT ![p] = Blank]
  BY DEF Return
<1>6. QED BY <1>2, <1>3, <1>4, <1>5, BlankStruct, StepLemma

LEMMA CommitStep ==
    ASSUME IInv, NEW p \in Proc, NEW d, Consistent(d, stripe), Advances(db, d),
           NEW l \in {"done", "error", "killed"}, Commit(p, d, l), WorldStep
    PROVE  IInv' /\ Advances(db, db')
<1>1. seen[p].total \in Totals
  BY DEF IInv, ProcType, Struct
<1>2. Consistent(db', stripe) /\ Advances(d, db')
  BY <1>1, TotalRows, AdvancesReflexive DEF Commit
<1>3. Advances(db, db')
  BY <1>2, AdvancesTransitive
<1>4. QED BY <1>2, <1>3, ReturnStep DEF Commit

LEMMA SameRows == ASSUME IInv PROVE Consistent(db, stripe) /\ Advances(db, db)
BY AdvancesReflexive DEF IInv

LEMMA RollbackStep ==
    ASSUME IInv, NEW p \in Proc, NEW l \in {"done", "error", "killed"},
           Rollback(p, l), WorldStep
    PROVE  IInv' /\ Advances(db, db')
BY SameRows, ReturnStep DEF Rollback

LEMMA FailStep ==
    ASSUME IInv, NEW p \in Proc, Fail(p), WorldStep
    PROVE  IInv' /\ Advances(db, db')
BY SameRows, RollbackStep, CommitStep DEF Fail

\* p goes to l with the struct, the task and the intent it has.
LEMMA GotoStep ==
    ASSUME IInv, NEW p \in Proc, NEW l \in Labels \ {"tix", "bind"}, Goto(p, l),
           UNCHANGED <<task, seen, arg>>, locked' \in Proc \cup {NoProc},
           Consistent(db', stripe), Advances(db, db'), Relies(l, seen[p], db'),
           l \in Fulfilling => pc[p] \in Fulfilling,
           l = "attach" => db'.ledger[arg[p]] # Nil, WorldStep
    PROVE  IInv'
<1>1. /\ seen[p] \in Struct /\ seen' = [seen EXCEPT ![p] = seen[p]]
      /\ task[p] \in Tasks /\ task' = [task EXCEPT ![p] = task[p]]
      /\ arg[p] \in MaybeIntent /\ arg' = [arg EXCEPT ![p] = arg[p]]
  BY DEF IInv, ProcType
<1>2. Charges(pc[p], task[p], arg[p], db, stripe)
  BY DEF IInv
<1>3. Charges(l, task[p], arg[p], db', stripe)
  BY <1>2 DEF Charges
<1>4. QED BY <1>1, <1>3, StepLemma DEF Goto

\* Labels that rely on nothing in the rows.
Free == Labels \ {"tix", "bind", "confirm", "hand", "ledger", "attach"}

\* p goes on without a write.
LEMMA PlainStep ==
    ASSUME IInv, NEW p \in Proc, NEW l \in Free, Goto(p, l),
           l \in Fulfilling => pc[p] \in Fulfilling,
           UNCHANGED <<rowVars, task, seen, arg>>, WorldStep
    PROVE  IInv' /\ Advances(db, db')
<1>1. Relies(pc[p], seen[p], db)
  BY DEF IInv
<1>2. Relies(l, seen[p], db') /\ l \in Labels \ {"tix", "bind"} /\ l # "attach"
  BY <1>1 DEF Relies, rowVars, Free
<1>3. Consistent(db', stripe) /\ Advances(db, db')
  BY SameRows DEF rowVars
<1>4. locked' \in Proc \cup {NoProc}
  BY DEF IInv, ProcType, rowVars
<1>5. QED BY <1>2, <1>3, <1>4, GotoStep

\* p reads into its struct s.
LEMMA ReadStep ==
    ASSUME IInv, NEW p \in Proc, NEW l \in Free \cup {"tix", "bind"}, Goto(p, l),
           NEW s \in Struct, s.status = "completed" => db.order.status = "completed",
           seen' = [seen EXCEPT ![p] = s],
           NEW t \in Tasks, task' = [task EXCEPT ![p] = t],
           NEW i \in MaybeIntent, arg' = [arg EXCEPT ![p] = i],
           Charges(l, t, i, db, stripe),
           UNCHANGED db, locked' \in Proc \cup {NoProc}, WorldStep
    PROVE  IInv' /\ Advances(db, db')
<1>1. Relies(l, s, db') /\ l \in Labels
  BY DEF Relies, Free, Labels
<1>2. Consistent(db', stripe) /\ Advances(db, db') /\ Charges(l, t, i, db', stripe)
  BY SameRows
<1>3. QED BY <1>1, <1>2, StepLemma DEF Goto

LEMMA ViewStruct ==
    ASSUME IInv, NEW p \in Proc
    PROVE  View(p) \in Struct /\ View(p).status = db.order.status
<1>1. seen[p].total \in Totals /\ db.order \in Struct
  BY DEF IInv, ProcType, Struct, Consistent, Rows
<1>2. QED BY <1>1 DEF View, Order, Struct

LEMMA BeginStep ==
    ASSUME IInv, NEW p \in Proc, NEW t \in Tasks, NEW i \in MaybeIntent, Begin(p, t, i),
           t = "fulfil" => i \in Intents /\ stripe[i] = "succeeded",
           UNCHANGED db, locked' \in Proc \cup {NoProc}, WorldStep
    PROVE  IInv' /\ Advances(db, db')
<1>1. Charges("tix", t, i, db, stripe) /\ "tix" \in Free \cup {"tix", "bind"}
  BY DEF Charges, Fulfilling
<1>2. QED BY <1>1, ViewStruct, ReadStep DEF Begin

LEMMA SameWorld ==
    ASSUME IInv, UNCHANGED <<stripeVars, worldVars, boundVars>>
    PROVE  WorldStep
BY DEF IInv, WorldType, WorldStep, stripeVars, worldVars, boundVars

-----------------------------------------------------------------------------
(* The actions. *)

Kept == IInv' /\ Advances(db, db')

LEMMA StartSteps ==
    ASSUME IInv, NEW p \in Proc, Start(p)
    PROVE  Kept
<1> USE DEF Kept
<1>1. WorldStep
  BY SameWorld DEF Start, Deliver, ReturnFromStripe, RedirectFailed, CancelOrder,
       OpenCheckout, ConfirmFree, ExpireSpecific, ExpireBatch
<1>2. locked \in Proc \cup {NoProc} /\ shown \subseteq Intents
  BY DEF IInv, ProcType, WorldType
<1>3. Intents \subseteq MaybeIntent /\ Nil \in MaybeIntent
  BY DEF MaybeIntent
<1>4. {"fulfil", "failed", "cancel", "expire", "checkout", "free"} \subseteq Tasks
  BY DEF Tasks
<1>5. ASSUME NEW i \in Intents, NEW keep \in BOOLEAN, HandleFailed(p, i, keep),
             UNCHANGED rowVars
      PROVE  Kept
  BY <1>5, <1>1, <1>2, <1>3, <1>4, BeginStep DEF HandleFailed, rowVars
<1>6. CASE Deliver(p)
  <2>1. PICK i \in Intents :
           \/ stripe[i] = "succeeded" /\ Begin(p, "fulfil", i)
           \/ HandleFailed(p, i, TRUE)
           \/ HandleFailed(p, i, FALSE)
    BY <1>6 DEF Deliver
  <2>2. UNCHANGED rowVars
    BY <1>6 DEF Deliver
  <2>3. QED BY <2>1, <2>2, <1>1, <1>2, <1>3, <1>4, <1>5, BeginStep DEF rowVars
<1>7. CASE ReturnFromStripe(p)
  <2>1. PICK i \in shown : stripe[i] = "succeeded" /\ Begin(p, "fulfil", i)
    BY <1>7 DEF ReturnFromStripe
  <2>2. QED BY <1>7, <2>1, <1>1, <1>2, <1>3, <1>4, BeginStep DEF ReturnFromStripe, rowVars
<1>8. CASE RedirectFailed(p)
  BY <1>8, <1>2, <1>5 DEF RedirectFailed
<1>9. CASE CancelOrder(p)
  BY <1>9, <1>1, <1>2, <1>3, <1>4, BeginStep DEF CancelOrder, rowVars
<1>10. CASE OpenCheckout(p)
  BY <1>10, <1>1, <1>2, <1>3, <1>4, BeginStep DEF OpenCheckout, rowVars
<1>11. CASE ConfirmFree(p)
  BY <1>11, <1>1, <1>2, <1>3, <1>4, BeginStep DEF ConfirmFree, rowVars
<1>12. CASE ExpireSpecific(p)
  BY <1>12, <1>1, <1>3, <1>4, BeginStep DEF ExpireSpecific
<1>13. CASE ExpireBatch(p)
  BY <1>13, <1>1, <1>2, <1>3, <1>4, BeginStep DEF ExpireBatch, rowVars
<1>14. QED
  BY <1>6, <1>7, <1>8, <1>9, <1>10, <1>11, <1>12, <1>13 DEF Start

\* The struct after a SELECT of the tickets alone.
LEMMA TicketsStruct ==
    ASSUME IInv, NEW p \in Proc
    PROVE  LET s == [seen[p] EXCEPT !.tickets = Order.tickets] IN
           s \in Struct /\ (s.status = "completed" => db.order.status = "completed")
BY DEF IInv, ProcType, Relies, Consistent, Rows, Struct, Order

LEMMA ProcValues ==
    ASSUME IInv, NEW p \in Proc
    PROVE  /\ task[p] \in Tasks /\ task = [task EXCEPT ![p] = task[p]]
           /\ arg[p] \in MaybeIntent /\ arg = [arg EXCEPT ![p] = arg[p]]
           /\ seen[p] \in Struct /\ seen[p].total \in Totals
           /\ locked \in Proc \cup {NoProc}
           /\ Relies(pc[p], seen[p], db)
           /\ Charges(pc[p], task[p], arg[p], db, stripe)
BY DEF IInv, ProcType, Struct

LEMMA LoadTicketsStep ==
    ASSUME IInv, NEW p \in Proc, LoadTickets(p)
    PROVE  Kept
<1> DEFINE s == [seen[p] EXCEPT !.tickets = Order.tickets]
<1>1. WorldStep
  BY SameWorld DEF LoadTickets
<1>2. s \in Struct /\ (s.status = "completed" => db.order.status = "completed")
  BY TicketsStruct
<1>3. CASE /\ seen' = [seen EXCEPT ![p] = s]
           /\ Goto(p, AfterLoad(task[p]))
           /\ UNCHANGED <<task, arg, rowVars>>
  <2>1. AfterLoad(task[p]) \in Free
    BY DEF AfterLoad, Labels, Free
  <2>2. Charges(AfterLoad(task[p]), task[p], arg[p], db, stripe)
    BY ProcValues DEF LoadTickets, AfterLoad, Charges, Fulfilling
  <2> HIDE DEF s
  <2>3. QED BY <1>1, <1>2, <1>3, <2>1, <2>2, ProcValues, ReadStep DEF Kept, rowVars
<1>4. CASE Commit(p, db, "done")
  BY <1>1, <1>4, SameRows, CommitStep DEF Kept
<1>5. QED BY <1>3, <1>4 DEF LoadTickets

LEMMA RepriceStep ==
    ASSUME IInv, NEW p \in Proc, NEW l \in Free, Reprice(p, l),
           l \in Fulfilling => pc[p] \in Fulfilling
    PROVE  Kept
<1> DEFINE total == IF seen[p].status \in {"pending", "expired"}
                    THEN Recalculated(seen[p]) ELSE seen[p].total
           s == [seen[p] EXCEPT !.total = total]
<1>1. WorldStep
  BY SameWorld DEF Reprice
<1>2. seen[p] \in Struct /\ seen[p].total \in Totals /\ price \in Totals /\ 0 \in Totals
  BY DEF IInv, ProcType, WorldType, Struct, Totals
<1>3. total \in Totals
  BY <1>2 DEF Recalculated
<1>4. s \in Struct /\ s.status = seen[p].status
  BY <1>2, <1>3 DEF Struct
<1>5. seen' = [seen EXCEPT ![p] = s]
  <2>1. seen' = [seen EXCEPT ![p].total = total]
    BY DEF Reprice
  <2>2. QED BY <2>1
<1>6. Consistent(db', stripe) /\ Advances(db, db') /\ db'.order.status = db.order.status
  <2>1. db' = db \/ db' = [db EXCEPT !.order.total = total]
    BY DEF Reprice, rowVars
  <2> HIDE DEF total, s
  <2>2. /\ Consistent([db EXCEPT !.order.total = total], stripe)
        /\ Advances(db, [db EXCEPT !.order.total = total])
        /\ [db EXCEPT !.order.total = total].order.status = db.order.status
    BY <1>3, SameRows, TotalRows
  <2>3. QED BY <2>1, <2>2, SameRows
<1>7. Relies(l, s, db') /\ l \in Labels
  BY <1>4, <1>6, ProcValues DEF Relies, Free
<1>8. Charges(l, task[p], arg[p], db', stripe)
  BY ProcValues DEF Charges, Free
<1>9. /\ locked' \in Proc \cup {NoProc}
      /\ task' = [task EXCEPT ![p] = task[p]] /\ arg' = [arg EXCEPT ![p] = arg[p]]
  BY ProcValues DEF Reprice, rowVars
<1> HIDE DEF s
<1>10. QED
  BY <1>1, <1>4, <1>5, <1>6, <1>7, <1>8, <1>9, ProcValues, StepLemma DEF Reprice, Goto, Kept

\* The writes that follow the completion: confirm, book, attach.
LEMMA FinishedRows ==
    ASSUME IInv, NEW p \in Proc, pc[p] \in Fulfilling,
           NEW d, Consistent(d, stripe), d.order.status = "completed"
    PROVE  Consistent(Finished(d, p), stripe) /\ Advances(d, Finished(d, p))
<1> DEFINE c == Confirmed(d)
           r == Recorded(c, arg[p], seen[p].total)
<1>1. arg[p] \in Intents /\ stripe[arg[p]] = "succeeded" /\ seen[p].total \in Totals
  BY ProcValues DEF Charges
<1>2. /\ Consistent(c, stripe) /\ Advances(d, c)
      /\ c.order.status = "completed" /\ c.order.tickets = "confirmed"
  BY ConfirmedRows
<1> HIDE DEF c
<1>3. Consistent(r, stripe) /\ Advances(c, r) /\ r.ledger[arg[p]] # Nil
  BY <1>1, <1>2, RecordedRows
<1> HIDE DEF r
<1>4. Consistent(Attached(r, arg[p]), stripe) /\ Advances(r, Attached(r, arg[p]))
  BY <1>1, <1>3, AttachedRows
<1>5. Advances(d, Attached(r, arg[p]))
  BY <1>2, <1>3, <1>4, AdvancesTransitive
<1>6. QED BY <1>4, <1>5 DEF Finished, r, c

LEMMA CompleteOrderStep ==
    ASSUME IInv, NEW p \in Proc, CompleteOrder(p)
    PROVE  Kept
<1> DEFINE d == Completed(db, {"pending", "expired"})
<1>1. WorldStep /\ pc[p] \in Fulfilling
  BY SameWorld DEF CompleteOrder, Fulfilling
<1>2. Consistent(d, stripe) /\ Advances(db, d)
  BY CompletedRows, SameRows
<1>3. \/ Fail(p)
      \/ d.order.status = "completed" /\ Commit(p, Finished(d, p), "done")
      \/ /\ d.order.status = "completed" /\ db' = d /\ Goto(p, "confirm")
         /\ UNCHANGED <<locked, task, seen, arg>>
  BY DEF CompleteOrder
<1> HIDE DEF d
<1>4. CASE Fail(p)
  BY <1>1, <1>4, FailStep DEF Kept
<1>5. CASE d.order.status = "completed" /\ Commit(p, Finished(d, p), "done")
  <2>1. Consistent(Finished(d, p), stripe) /\ Advances(db, Finished(d, p))
    BY <1>1, <1>2, <1>5, FinishedRows, AdvancesTransitive
  <2>2. QED BY <1>1, <1>5, <2>1, CommitStep DEF Kept
<1>6. CASE /\ d.order.status = "completed" /\ db' = d /\ Goto(p, "confirm")
           /\ UNCHANGED <<locked, task, seen, arg>>
  <2>1. Relies("confirm", seen[p], db') /\ "confirm" \in Labels \ {"tix", "bind"}
    BY <1>6 DEF Relies, Labels
  <2>2. QED BY <1>1, <1>2, <1>6, <2>1, ProcValues, GotoStep DEF Kept
<1>7. QED BY <1>3, <1>4, <1>5, <1>6

LEMMA ConfirmTicketsStep ==
    ASSUME IInv, NEW p \in Proc, ConfirmTickets(p)
    PROVE  Kept
<1>1. WorldStep /\ pc[p] \in Fulfilling
  BY SameWorld DEF ConfirmTickets, Fulfilling
<1>2. Consistent(db, stripe) /\ db.order.status = "completed"
  BY SameRows, ProcValues DEF ConfirmTickets, Relies
<1>3. CASE Commit(p, Finished(db, p), "done")
  BY <1>1, <1>2, <1>3, FinishedRows, CommitStep DEF Kept
<1>4. CASE db' = Confirmed(db) /\ Goto(p, "ledger") /\ UNCHANGED <<locked, task, seen, arg>>
  <2>1. /\ Consistent(db', stripe) /\ Advances(db, db')
        /\ db'.order.status = "completed" /\ db'.order.tickets = "confirmed"
    BY <1>2, <1>4, ConfirmedRows
  <2>2. Relies("ledger", seen[p], db') /\ "ledger" \in Labels \ {"tix", "bind"}
    BY <2>1 DEF Relies, Labels
  <2>3. QED BY <1>1, <1>4, <2>1, <2>2, ProcValues, GotoStep DEF Kept
<1>5. QED BY <1>3, <1>4 DEF ConfirmTickets

LEMMA RecordPaymentStep ==
    ASSUME IInv, NEW p \in Proc, RecordPayment(p)
    PROVE  Kept
<1>1. WorldStep /\ pc[p] \in Fulfilling
  BY SameWorld DEF RecordPayment, Fulfilling
<1>2. /\ Consistent(db, stripe)
      /\ db.order.status = "completed" /\ db.order.tickets = "confirmed"
  BY SameRows, ProcValues DEF RecordPayment, Relies
<1>3. arg[p] \in Intents /\ stripe[arg[p]] = "succeeded" /\ seen[p].total \in Totals
  BY <1>1, ProcValues DEF Charges
<1>4. /\ Consistent(db', stripe) /\ Advances(db, db') /\ db'.order = db.order
      /\ db'.ledger[arg[p]] # Nil
  BY <1>2, <1>3, RecordedRows DEF RecordPayment
<1>5. Relies("attach", seen[p], db') /\ "attach" \in Labels \ {"tix", "bind"}
  BY <1>2, <1>4 DEF Relies, Labels
<1>6. QED BY <1>1, <1>4, <1>5, ProcValues, GotoStep DEF RecordPayment, Kept

LEMMA AttachPaymentStep ==
    ASSUME IInv, NEW p \in Proc, AttachPayment(p)
    PROVE  Kept
<1>1. arg[p] \in Intents /\ db.ledger[arg[p]] # Nil
  BY ProcValues DEF AttachPayment, Charges, Fulfilling
<1>2. Consistent(Attached(db, arg[p]), stripe) /\ Advances(db, Attached(db, arg[p]))
  BY <1>1, SameRows, AttachedRows
<1>3. QED BY <1>2, SameWorld, CommitStep DEF AttachPayment, Kept

LEMMA RefundMismatchStep ==
    ASSUME IInv, NEW p \in Proc, RefundMismatch(p)
    PROVE  Kept
<1>1. arg[p] \in Intents
  BY ProcValues DEF RefundMismatch, Charges, Fulfilling
<1>2. WorldStep
  BY <1>1 DEF RefundMismatch, IInv, WorldType, WorldStep, worldVars, boundVars
<1>3. Relies("release", seen[p], db) /\ "release" \in Labels /\ "cancel" \in Tasks
  BY ProcValues DEF Relies, Labels, Tasks
<1>4. Charges("release", "cancel", arg[p], db, stripe)
  BY DEF Charges, Fulfilling
<1>5. /\ pc' = [pc EXCEPT ![p] = "release"] /\ task' = [task EXCEPT ![p] = "cancel"]
      /\ UNCHANGED <<db, locked, seen, arg>>
  BY DEF RefundMismatch, Goto, rowVars
<1>6. seen' = [seen EXCEPT ![p] = seen[p]] /\ arg' = [arg EXCEPT ![p] = arg[p]]
  BY <1>5 DEF IInv, ProcType
<1>7. QED BY <1>2, <1>3, <1>4, <1>5, <1>6, SameRows, ProcValues, StepLemma DEF Kept

LEMMA DecideFulfilmentStep ==
    ASSUME IInv, NEW p \in Proc, DecideFulfilment(p)
    PROVE  Kept
<1>1. WorldStep /\ pc[p] \in Fulfilling
  BY SameWorld DEF DecideFulfilment, Fulfilling
<1>2. CASE Commit(p, db, "done")
  BY <1>1, <1>2, SameRows, CommitStep DEF Kept
<1>3. CASE /\ "completed" \in {seen[p].status, Order.status} /\ Goto(p, "confirm")
           /\ UNCHANGED <<rowVars, task, seen, arg>>
  <2>1. db.order.status = "completed" /\ db' = db
    BY <1>3, ProcValues DEF Relies, Order, rowVars
  <2>2. Relies("confirm", seen[p], db') /\ "confirm" \in Labels \ {"tix", "bind"}
    BY <2>1 DEF Relies, Labels
  <2>3. QED BY <1>1, <1>3, <2>1, <2>2, SameRows, ProcValues, GotoStep DEF Kept, rowVars
<1>4. CASE Goto(p, "resync") /\ UNCHANGED <<rowVars, task, seen, arg>>
  <2>1. "resync" \in Free
    BY DEF Free, Labels
  <2>2. QED BY <1>1, <1>4, <2>1, PlainStep DEF Kept
<1>5. QED BY <1>2, <1>3, <1>4 DEF DecideFulfilment

LEMMA FulfilSteps ==
    ASSUME IInv, NEW p \in Proc, Fulfil(p)
    PROVE  Kept
<1>1. {"check", "refund", "rerow", "retix", "decide", "resync", "recheck", "complete"}
        \subseteq Free
  BY DEF Labels, Free
<1>2. CASE SyncPricing(p)
  BY <1>1, <1>2, RepriceStep DEF SyncPricing, Fulfilling
<1>3. CASE CheckAmount(p)
  BY <1>1, <1>3, SameWorld, PlainStep, FailStep DEF CheckAmount, Kept, Fulfilling
<1>4. CASE ReloadOrder(p)
  <2>1. Charges("retix", task[p], arg[p], db, stripe)
    BY <1>4, ProcValues DEF ReloadOrder, Charges, Fulfilling
  <2>2. WorldStep
    BY <1>4, SameWorld DEF ReloadOrder
  <2>3. QED
    BY <1>1, <1>4, <2>1, <2>2, ProcValues, ViewStruct, ReadStep
       DEF ReloadOrder, Kept, rowVars
<1>5. CASE ReloadTickets(p)
  <2> DEFINE s == [seen[p] EXCEPT !.tickets = Order.tickets]
  <2>1. s \in Struct /\ (s.status = "completed" => db.order.status = "completed")
    BY TicketsStruct
  <2>2. seen' = [seen EXCEPT ![p] = s] /\ Goto(p, "decide") /\ UNCHANGED <<task, arg, rowVars>>
    BY <1>5 DEF ReloadTickets
  <2>3. Charges("decide", task[p], arg[p], db, stripe)
    BY <1>5, ProcValues DEF ReloadTickets, Charges, Fulfilling
  <2>4. WorldStep
    BY <1>5, SameWorld DEF ReloadTickets
  <2> HIDE DEF s
  <2>5. QED BY <1>1, <2>1, <2>2, <2>3, <2>4, ProcValues, ReadStep DEF Kept, rowVars
<1>6. CASE DecideFulfilment(p)
  BY <1>6, DecideFulfilmentStep
<1>7. CASE ResyncPricing(p)
  BY <1>1, <1>7, RepriceStep DEF ResyncPricing, Fulfilling
<1>8. CASE RecheckAmount(p)
  BY <1>1, <1>8, SameWorld, PlainStep, FailStep, RollbackStep
     DEF RecheckAmount, Kept, Fulfilling
<1>9. CASE CompleteOrder(p)
  BY <1>9, CompleteOrderStep
<1>10. CASE ConfirmTickets(p)
  BY <1>10, ConfirmTicketsStep
<1>11. CASE RecordPayment(p)
  BY <1>11, RecordPaymentStep
<1>12. CASE AttachPayment(p)
  BY <1>12, AttachPaymentStep
<1>13. CASE RefundMismatch(p)
  BY <1>13, RefundMismatchStep
<1>14. QED
  BY <1>2, <1>3, <1>4, <1>5, <1>6, <1>7, <1>8, <1>9, <1>10, <1>11, <1>12, <1>13 DEF Fulfil

LEMMA AbandonStep ==
    ASSUME IInv, NEW p \in Proc, Abandon(p)
    PROVE  Kept
<1> DEFINE i == seen[p].intent
<1>1. i \in MaybeIntent
  BY ProcValues DEF Struct
<1>2. WorldStep
  <2>1. \/ UNCHANGED stripe
        \/ /\ i \in Intents /\ stripe[i] \in {"open", "action"}
           /\ stripe' = [stripe EXCEPT ![i] = "canceled"]
    BY DEF Abandon
  <2>2. stripe' \in [Intents -> IntentStatus]
    BY <2>1 DEF IInv, WorldType, IntentStatus
  <2>3. \A j \in Intents : stripe[j] = "succeeded" => stripe'[j] = "succeeded"
    BY <2>1 DEF IInv, WorldType
  <2>4. QED BY <2>2, <2>3 DEF Abandon, IInv, WorldType, WorldStep, worldVars, boundVars
<1>3. AfterStripeCancel(task[p]) \in Free \ Fulfilling
  BY DEF AfterStripeCancel, Free, Labels, Fulfilling
<1>4. CASE Goto(p, AfterStripeCancel(task[p])) /\ UNCHANGED <<rowVars, task, seen, arg>>
  BY <1>2, <1>3, <1>4, PlainStep DEF Kept
<1>5. CASE Fail(p)
  BY <1>2, <1>5, FailStep DEF Kept
<1>6. CASE /\ i \in Intents /\ stripe[i] = "succeeded"
           /\ Begin(p, "fulfil", i) /\ UNCHANGED rowVars
  BY <1>1, <1>2, <1>6, ProcValues, BeginStep DEF Kept, Tasks, rowVars
<1>7. CASE Commit(p, db, "done")
  BY <1>2, <1>7, SameRows, CommitStep DEF Kept
<1>8. QED BY <1>4, <1>5, <1>6, <1>7 DEF Abandon

LEMMA ReleaseStep ==
    ASSUME IInv, NEW p \in Proc, Release(p)
    PROVE  Kept
<1> DEFINE to == IF task[p] = "expire" THEN "expired" ELSE "cancelled"
<1>1. to \in {"cancelled", "expired"}
  OBVIOUS
<1>2. Commit(p, Released(db, to), "done")
  BY DEF Release
<1> HIDE DEF to
<1>3. Consistent(Released(db, to), stripe) /\ Advances(db, Released(db, to))
  BY <1>1, SameRows, ReleasedRows
<1>4. QED BY <1>2, <1>3, SameWorld, CommitStep DEF Release, Kept

LEMMA CheckoutSteps ==
    ASSUME IInv, NEW p \in Proc, Checkout(p)
    PROVE  Kept
<1>1. {"quote", "reprice", "retrieve", "requote", "rereprice", "mint", "abandon"}
        \subseteq Free \ Fulfilling
  BY DEF Labels, Free, Fulfilling
<1>2. ASSUME NEW l \in Free \ Fulfilling, NEW m \in Free \ Fulfilling, Quote(p, l, m)
      PROVE  Kept
  BY <1>2, SameWorld, PlainStep DEF Quote, Kept
<1>3. CASE QuoteCheckout(p)
  BY <1>1, <1>2, <1>3 DEF QuoteCheckout
<1>4. CASE RepriceCheckout(p)
  BY <1>1, <1>4, RepriceStep DEF RepriceCheckout
<1>5. CASE RequoteCheckout(p)
  BY <1>1, <1>2, <1>5 DEF RequoteCheckout
<1>6. CASE RerepriceCheckout(p)
  BY <1>1, <1>6, RepriceStep DEF RerepriceCheckout
<1>7. CASE RetrieveIntent(p)
  <2> DEFINE i == seen[p].intent
  <2>1. shown' = shown \/ (i \in Intents /\ shown' = shown \cup {i})
    BY <1>7 DEF RetrieveIntent
  <2>2. WorldStep
    BY <1>7, <2>1 DEF RetrieveIntent, IInv, WorldType, WorldStep, worldVars, boundVars
  <2>3. \/ /\ \/ Goto(p, "requote")
              \/ Goto(p, "abandon")
           /\ UNCHANGED <<rowVars, task, seen, arg>>
        \/ Commit(p, db, "done")
        \/ Fail(p)
    BY <1>7 DEF RetrieveIntent
  <2>4. QED BY <1>1, <2>2, <2>3, SameRows, PlainStep, CommitStep, FailStep DEF Kept
<1>8. CASE MintIntent(p)
  <2> DEFINE n == seen[p].total
  <2>1. \/ UNCHANGED stripe
        \/ /\ n \in Intents
           /\ stripe' = [stripe EXCEPT ![n] = IF @ = "none" THEN "open" ELSE @]
    BY <1>8 DEF MintIntent
  <2>2. /\ stripe' \in [Intents -> IntentStatus]
        /\ \A j \in Intents : stripe[j] = "succeeded" => stripe'[j] = "succeeded"
    BY <2>1 DEF IInv, WorldType, IntentStatus
  <2>3. WorldStep
    BY <1>8, <2>2 DEF MintIntent, IInv, WorldType, WorldStep, worldVars, boundVars
  <2>4. CASE /\ n \in Intents /\ arg' = [arg EXCEPT ![p] = n]
             /\ Goto(p, "bind") /\ UNCHANGED <<task, seen, rowVars>>
    <3>1. Charges("bind", task[p], n, db, stripe) /\ n \in MaybeIntent
      BY <2>4 DEF Charges, Fulfilling, MaybeIntent
    <3>2. seen' = [seen EXCEPT ![p] = seen[p]]
      BY <2>4 DEF IInv, ProcType
    <3>3. seen[p].status = "completed" => db.order.status = "completed"
      BY ProcValues DEF Relies
    <3>4. QED
      BY <1>1, <2>3, <2>4, <3>1, <3>2, <3>3, ProcValues, ReadStep DEF Kept, rowVars
  <2>5. CASE Fail(p)
    BY <2>3, <2>5, FailStep DEF Kept
  <2>6. QED BY <1>8, <2>4, <2>5 DEF MintIntent
<1>9. CASE BindIntent(p)
  <2>1. arg[p] \in Intents /\ arg[p] \in MaybeIntent
    BY <1>9, ProcValues DEF BindIntent, Charges
  <2>2. WorldStep
    BY <1>9, <2>1 DEF BindIntent, IInv, WorldType, WorldStep, worldVars, boundVars
  <2>3. CASE Commit(p, [db EXCEPT !.order.intent = arg[p]], "done")
    <3>1. /\ Consistent([db EXCEPT !.order.intent = arg[p]], stripe)
          /\ Advances(db, [db EXCEPT !.order.intent = arg[p]])
      BY <2>1, SameRows, IntentRows
    <3>2. QED BY <2>2, <2>3, <3>1, CommitStep DEF Kept
  <2>4. CASE Fail(p)
    BY <2>2, <2>4, FailStep DEF Kept
  <2>5. QED BY <1>9, <2>3, <2>4 DEF BindIntent
<1>10. QED BY <1>3, <1>4, <1>5, <1>6, <1>7, <1>8, <1>9 DEF Checkout

LEMMA CompleteFreeStep ==
    ASSUME IInv, NEW p \in Proc, CompleteFree(p)
    PROVE  Kept
<1>1. WorldStep
  BY SameWorld DEF CompleteFree
<1>2. CASE Fail(p)
  BY <1>1, <1>2, FailStep DEF Kept
<1>3. CASE /\ Order.status = "pending" /\ db' = Completed(db, {"pending"})
           /\ Goto(p, "hand") /\ UNCHANGED <<locked, task, seen, arg>>
  <2>1. Consistent(db', stripe) /\ Advances(db, db')
    BY <1>3, SameRows, CompletedRows
  <2>2. db'.order.status = "completed"
    BY <1>3 DEF IInv, Consistent, Rows, Struct, Completed, Order
  <2>3. Relies("hand", seen[p], db') /\ "hand" \in (Labels \ {"tix", "bind"}) \ Fulfilling
    BY <2>2 DEF Relies, Labels, Fulfilling
  <2>4. QED BY <1>1, <1>3, <2>1, <2>3, ProcValues, GotoStep DEF Kept
<1>4. QED BY <1>2, <1>3 DEF CompleteFree

LEMMA ConfirmFreeTicketsStep ==
    ASSUME IInv, NEW p \in Proc, ConfirmFreeTickets(p)
    PROVE  Kept
<1>1. db.order.status = "completed"
  BY ProcValues DEF ConfirmFreeTickets, Relies
<1>2. Consistent(Confirmed(db), stripe) /\ Advances(db, Confirmed(db))
  BY <1>1, SameRows, ConfirmedRows
<1>3. QED BY <1>2, SameWorld, CommitStep DEF ConfirmFreeTickets, Kept

LEMMA FaultStep ==
    ASSUME IInv, NEW p \in Proc, Fault(p)
    PROVE  Kept
<1>1. WorldStep
  BY DEF Fault, IInv, WorldType, WorldStep, stripeVars, worldVars
<1>2. QED BY <1>1, RollbackStep DEF Fault, Kept

\* Customers, Stripe, the organiser and the clock leave processes and rows alone.
LEMMA EnvironmentSteps ==
    ASSUME IInv, Environment
    PROVE  Kept
<1>1. UNCHANGED <<rowVars, procVars>>
  BY DEF Environment, Confirm, Settle, ChangePrice, TimePasses, SeatsResold
<1>2. WorldStep
  <2>1. ASSUME NEW i \in Intents, Confirm(i) \/ Settle(i)
        PROVE  /\ stripe' \in [Intents -> IntentStatus]
               /\ \A j \in Intents : stripe[j] = "succeeded" => stripe'[j] = "succeeded"
    BY <2>1 DEF Confirm, Settle, IInv, WorldType, IntentStatus
  <2>2. ASSUME NEW i \in Intents, Confirm(i) \/ Settle(i)
        PROVE  WorldStep
    BY <2>1, <2>2 DEF Confirm, Settle, IInv, WorldType, WorldStep, worldVars
  <2>3. CASE ChangePrice
    BY <2>3 DEF ChangePrice, IInv, WorldType, WorldStep, stripeVars
  <2>4. CASE TimePasses
    <3>1. timedOut' \in BOOLEAN
      BY <2>4 DEF TimePasses
    <3>2. UNCHANGED <<stripeVars, price, room, boundVars>>
      BY <2>4 DEF TimePasses
    <3>3. QED BY <3>1, <3>2 DEF IInv, WorldType, WorldStep, stripeVars, boundVars
  <2>5. CASE SeatsResold
    <3>1. room' \in BOOLEAN
      BY <2>5 DEF SeatsResold
    <3>2. UNCHANGED <<stripeVars, price, timedOut, boundVars>>
      BY <2>5 DEF SeatsResold
    <3>3. QED BY <3>1, <3>2 DEF IInv, WorldType, WorldStep, stripeVars, boundVars
  <2>6. QED BY <2>2, <2>3, <2>4, <2>5 DEF Environment
<1>3. Consistent(db, stripe')
  BY <1>2, SameRows, ConsistentWorld
<1>4. \A p \in Proc : /\ Relies(pc[p], seen[p], db)
                      /\ Charges(pc[p], task[p], arg[p], db, stripe')
  BY <1>2, ProcValues, AdvancesReflexive, ChargesAdvances
<1>5. QED
  BY <1>1, <1>2, <1>3, <1>4, AdvancesReflexive
     DEF IInv, ProcType, WorldStep, Kept, rowVars, procVars

LEMMA StutterStep ==
    ASSUME IInv, UNCHANGED vars
    PROVE  Kept
<1>1. /\ ProcType' /\ WorldType' /\ UNCHANGED <<db, stripe, pc, seen, task, arg>>
  BY DEF IInv, ProcType, WorldType, vars, rowVars, stripeVars, worldVars, boundVars, procVars
<1>2. QED BY <1>1, AdvancesReflexive DEF IInv, Kept

-----------------------------------------------------------------------------
(* The theorems. *)

LEMMA InitIInv == ASSUME Init PROVE IInv
<1>1. PICK i \in MaybeIntent :
         /\ i # Nil => i = price
         /\ db = [order |-> [status |-> "pending", intent |-> i, total |-> price,
                             payment |-> Nil, tickets |-> "pending"],
                  ledger |-> [j \in Intents |-> Nil]]
         /\ stripe = [j \in Intents |-> IF j = i THEN "open" ELSE "none"]
         /\ shown = {i} \ {Nil}
  BY DEF Init
<1>2. WorldType
  BY <1>1 DEF Init, WorldType, IntentStatus, MaybeIntent
<1>3. ProcType
  BY BlankStruct DEF Init, ProcType, Labels, Tasks, MaybeIntent
<1>4. Consistent(db, stripe)
  BY <1>1 DEF Init, Consistent, Rows, Struct, OrderStatus, TicketStatus, MaybeIntent, Totals
<1>5. \A p \in Proc : /\ Relies(pc[p], seen[p], db)
                      /\ Charges(pc[p], task[p], arg[p], db, stripe)
  BY DEF Init, Relies, Charges, Blank, Fulfilling
<1>6. QED BY <1>2, <1>3, <1>4, <1>5 DEF IInv

LEMMA NextKeeps == ASSUME IInv, [Next]_vars PROVE Kept
<1>1. ASSUME NEW p \in Proc, Continue(p)
      PROVE  Kept
  BY <1>1, LoadTicketsStep, FulfilSteps, AbandonStep, ReleaseStep, CheckoutSteps,
     CompleteFreeStep, ConfirmFreeTicketsStep DEF Continue
<1>2. QED
  BY <1>1, StartSteps, FaultStep, EnvironmentSteps, StutterStep DEF Next

\* The inductive invariant holds in every reachable state.
THEOREM Invariance == Spec => []IInv
<1>1. Init => IInv
  BY InitIInv
<1>2. IInv /\ [Next]_vars => IInv'
  BY NextKeeps DEF Kept
<1>3. QED BY <1>1, <1>2, PTL DEF Spec

\* Every variable keeps its type: rows, structs, locks and intents.
THEOREM TypeCorrect == Spec => []TypeOK
<1>1. IInv => TypeOK
  BY IInvImplies
<1>2. QED BY <1>1, Invariance, PTL

\* Tickets and order change together, whatever runs at the same time.
THEOREM SeatsAlwaysFollow == Spec => []SeatsFollowOrder
<1>1. IInv => SeatsFollowOrder
  BY IInvImplies
<1>2. QED BY <1>1, Invariance, PTL

\* No charge is booked for an order whose seats are not confirmed.
THEOREM PaidAlwaysConfirmed == Spec => []PaidMeansConfirmed
<1>1. IInv => PaidMeansConfirmed
  BY IInvImplies
<1>2. QED BY <1>1, Invariance, PTL

\* What is attached to an order is booked and was captured.
THEOREM AttachedAlwaysRecorded == Spec => []AttachedPaymentIsRecorded
<1>1. IInv => AttachedPaymentIsRecorded
  BY IInvImplies
<1>2. QED BY <1>1, Invariance, PTL

\* A completed or cancelled order stays so; an expired one can only be completed.
THEOREM DecidedAlwaysStay == Spec => DecidedOrdersStay
<1>1. IInv /\ [Next]_vars =>
        [/\ Order.status \in {"completed", "cancelled"} => Order'.status = Order.status
         /\ Order.status = "expired" => Order'.status \in {"expired", "completed"}]_vars
  BY NextKeeps DEF Kept, Advances, Order
<1>2. QED BY <1>1, Invariance, PTL DEF Spec, DecidedOrdersStay

-----------------------------------------------------------------------------
(* Who may mint.  With one checkout page at most, and for any number of the   *)
(* other processes, one intent at a time can charge, but for one that Stripe  *)
(* would not show to the page that replaced it.                               *)

AtMostOnePage == \A k, l \in Checkouts : k = l

PageLabels == {"quote", "reprice", "retrieve", "requote", "rereprice", "mint", "bind"}

\* Where a page is that has minted nothing yet.
BeforeMint == {"idle", "tix", "quote", "reprice", "retrieve", "abandon", "requote",
               "rereprice", "mint"}
Unpaged == \A k \in Checkouts : pc[k] \in BeforeMint

\* What process p may be about: the checkout is the pages' own, and they do nothing else.
Paged(p, l, t) ==
    /\ t = "checkout" => p \in Checkouts
    /\ l \in PageLabels => t = "checkout"
    /\ p \in Checkouts => /\ l \in BeforeMint \cup {"bind", "done", "error", "killed"}
                          /\ l # "idle" => t = "checkout"

PageShape == \A p \in Proc : Paged(p, pc[p], task[p])

\* An intent that a page may replace: it is dead, or the page could not read it.
Gone(i) == Dead(i) \/ i \in unread

\* Where a page is that is done with the attached intent and is about to mint another.
AfterDeath == {"requote", "rereprice", "mint"}

\* Until a page has minted there is one intent, the one attached to the order, and every
\* struct has it, so that the intent which the page has given up is the one attached.
OneIntent ==
    Unpaged =>
        /\ \A i \in Intents : stripe[i] # "none" => i = Order.intent
        /\ \A p \in Proc : pc[p] \notin Resting => seen[p].intent = Order.intent
        /\ \A p \in Proc : pc[p] \in AfterDeath => Gone(Order.intent)

\* The intents that can still charge, or have, and that no page has failed to read.
Live == {i \in Intents : stripe[i] \notin {"none", "canceled"} /\ i \notin refunded \cup unread}
OneLive == \A i, j \in Live : i = j

PageInv == PageShape /\ OneIntent /\ OneLive

\* What most steps do to Stripe and to the attached intent: nothing comes back to life.
Tame ==
    /\ Order'.intent = Order.intent /\ refunded \subseteq refunded' /\ unread \subseteq unread'
    /\ \A i \in Intents : stripe[i] \in {"none", "canceled"} => stripe'[i] = stripe[i]

LEMMA TameGone ==
    ASSUME Tame, Gone(Order.intent)
    PROVE  Gone(Order.intent)'
BY DEF Tame, Gone, Dead, Order

LEMMA TameLive ==
    ASSUME IInv, Tame
    PROVE  /\ Live' \subseteq Live
           /\ OneLive => OneLive'
<1>1. Live' \subseteq Live
  BY DEF Tame, Live
<1>2. QED BY <1>1 DEF OneLive

\* A step of p that mints and binds nothing.
LEMMA PageStep ==
    ASSUME IInv, PageInv, unread \subseteq unread', NEW p \in Proc, NEW l, NEW s, NEW t,
           pc' = [pc EXCEPT ![p] = l], seen' = [seen EXCEPT ![p] = s],
           task' = [task EXCEPT ![p] = t], Tame, Paged(p, l, t),
           Unpaged /\ l \notin Resting => s.intent = Order.intent,
           p \in Checkouts /\ l \in BeforeMint => pc[p] \in BeforeMint,
           Unpaged /\ l \in AfterDeath => Gone(Order.intent)'
    PROVE  PageInv'
<1>1. ASSUME NEW q \in Proc
      PROVE  /\ q = p => pc'[q] = l /\ seen'[q] = s /\ task'[q] = t
             /\ q # p => pc'[q] = pc[q] /\ seen'[q] = seen[q] /\ task'[q] = task[q]
  BY DEF IInv, ProcType
<1>2. PageShape'
  BY <1>1 DEF PageInv, PageShape, Paged
<1>3. ASSUME Unpaged'
      PROVE  Unpaged
  <2>1. ASSUME NEW k \in Checkouts
        PROVE  pc[k] \in BeforeMint
    <3>1. k \in Proc /\ pc'[k] \in BeforeMint
      BY <1>3 DEF Unpaged, Proc
    <3>2. QED BY <1>1, <3>1
  <2>2. QED BY <2>1 DEF Unpaged
<1>4. OneIntent'
  <2>1. SUFFICES ASSUME Unpaged'
        PROVE  /\ \A i \in Intents : stripe'[i] # "none" => i = Order'.intent
               /\ \A q \in Proc : pc'[q] \notin Resting => seen'[q].intent = Order'.intent
               /\ \A q \in Proc : pc'[q] \in AfterDeath => Gone(Order.intent)'
    BY DEF OneIntent, Order
  <2>2. /\ \A i \in Intents : stripe[i] # "none" => i = Order.intent
        /\ \A q \in Proc : pc[q] \notin Resting => seen[q].intent = Order.intent
        /\ \A q \in Proc : pc[q] \in AfterDeath => Gone(Order.intent)
    BY <1>3, <2>1 DEF PageInv, OneIntent
  <2>3. \A i \in Intents : stripe'[i] # "none" => i = Order'.intent
    BY <2>2 DEF Tame
  <2>4. \A q \in Proc : pc'[q] \notin Resting => seen'[q].intent = Order'.intent
    BY <1>1, <1>3, <2>1, <2>2 DEF Tame
  <2>5. ASSUME NEW q \in Proc, pc'[q] \in AfterDeath
        PROVE  Gone(Order.intent)'
    <3>1. CASE q = p
      BY <1>1, <1>3, <2>1, <2>5, <3>1
    <3>2. CASE q # p
      <4>1. Gone(Order.intent)
        BY <1>1, <2>2, <2>5, <3>2
      <4>2. QED BY <4>1, TameGone
    <3>3. QED BY <3>1, <3>2
  <2>6. QED BY <2>3, <2>4, <2>5
<1>5. OneLive'
  BY TameLive DEF PageInv
<1>6. QED BY <1>2, <1>4, <1>5 DEF PageInv

LEMMA PageValues ==
    ASSUME IInv, PageInv, NEW p \in Proc
    PROVE  /\ Paged(p, pc[p], task[p]) /\ seen[p] \in Struct
           /\ task = [task EXCEPT ![p] = task[p]] /\ seen = [seen EXCEPT ![p] = seen[p]]
           /\ Unpaged /\ pc[p] \notin Resting => seen[p].intent = Order.intent
           /\ db \in Rows
BY DEF IInv, ProcType, Consistent, PageInv, PageShape, OneIntent

LEMMA PageReturn ==
    ASSUME IInv, PageInv, unread \subseteq unread',
           NEW p \in Proc, NEW l \in {"done", "error", "killed"}, Return(p, l),
           pc[p] # "idle", Tame
    PROVE  PageInv'
<1>1. /\ pc' = [pc EXCEPT ![p] = Rest(p, l)] /\ seen' = [seen EXCEPT ![p] = Blank]
      /\ task' = [task EXCEPT ![p] = task[p]]
  BY PageValues DEF Return
<1>2. Rest(p, l) \in Resting /\ (p \in Checkouts => Rest(p, l) = l)
  BY PagesAssumption DEF Rest, Resting
<1>3. Rest(p, l) \notin PageLabels /\ Rest(p, l) \notin AfterDeath
  BY <1>2 DEF Resting, PageLabels, AfterDeath
<1>4. p \in Checkouts => Rest(p, l) \notin BeforeMint
  BY <1>2 DEF BeforeMint
<1>5. Paged(p, Rest(p, l), task[p])
  BY <1>2, <1>3, PageValues DEF Paged
<1>6. QED BY <1>1, <1>2, <1>3, <1>4, <1>5, PageStep

\* Rows that keep the attached intent.
LEMMA PageCommit ==
    ASSUME IInv, PageInv, unread \subseteq unread',
           NEW p \in Proc, NEW d \in Rows, d.order.intent = db.order.intent,
           NEW l \in {"done", "error", "killed"}, Commit(p, d, l), pc[p] # "idle",
           refunded \subseteq refunded',
           \A i \in Intents : stripe[i] \in {"none", "canceled"} => stripe'[i] = stripe[i]
    PROVE  PageInv' /\ Tame
<1>1. db'.order.intent = db.order.intent
  BY DEF Commit, Rows, Struct
<1>2. Tame
  BY <1>1 DEF Tame, Order
<1>3. QED BY <1>2, PageReturn DEF Commit

LEMMA PageRollback ==
    ASSUME IInv, PageInv, unread \subseteq unread',
           NEW p \in Proc, NEW l \in {"done", "error", "killed"},
           Rollback(p, l), pc[p] # "idle", UNCHANGED <<stripe, refunded>>
    PROVE  PageInv' /\ Tame
<1>1. Tame
  BY DEF Rollback, Tame, Order
<1>2. QED BY <1>1, PageReturn DEF Rollback

LEMMA PageFail ==
    ASSUME IInv, PageInv, unread \subseteq unread', NEW p \in Proc, Fail(p), pc[p] # "idle",
           UNCHANGED <<stripe, refunded>>
    PROVE  PageInv' /\ Tame
<1>1. CASE Rollback(p, "error")
  BY <1>1, PageRollback
<1>2. CASE Commit(p, db, "error")
  BY <1>2, PageValues, PageCommit
<1>3. QED BY <1>1, <1>2 DEF Fail

LEMMA PageGoto ==
    ASSUME IInv, PageInv, unread \subseteq unread',
           NEW p \in Proc, NEW l, Goto(p, l), UNCHANGED <<task, seen>>,
           pc[p] \notin Resting, Tame, Paged(p, l, task[p]),
           p \in Checkouts /\ l \in BeforeMint => pc[p] \in BeforeMint,
           Unpaged /\ l \in AfterDeath => Gone(Order.intent)'
    PROVE  PageInv'
<1>1. pc' = [pc EXCEPT ![p] = l]
  BY DEF Goto
<1>2. QED BY <1>1, PageValues, PageStep

LEMMA TameSame == ASSUME UNCHANGED <<db, stripe, refunded>>, unread \subseteq unread' PROVE Tame
BY DEF Tame, Order

LEMMA PageBegin ==
    ASSUME IInv, PageInv, unread \subseteq unread',
           NEW p \in Proc, NEW t, NEW i, Begin(p, t, i),
           t = "checkout" <=> p \in Checkouts, p \in Checkouts => pc[p] \in BeforeMint, Tame
    PROVE  PageInv'
<1>1. View(p).intent = Order.intent
  BY DEF IInv, Consistent, Rows, Struct, View, Order
<1>2. Paged(p, "tix", t) /\ "tix" \notin AfterDeath
  BY DEF Paged, PageLabels, BeforeMint, AfterDeath
<1> DEFINE s == View(p)
<1>3. /\ pc' = [pc EXCEPT ![p] = "tix"] /\ seen' = [seen EXCEPT ![p] = s]
      /\ task' = [task EXCEPT ![p] = t]
  BY DEF Begin, Goto
<1>4. s.intent = Order.intent
  BY <1>1
<1> HIDE DEF s
<1>5. QED BY <1>2, <1>3, <1>4, PageStep

LEMMA PageStarts ==
    ASSUME IInv, PageInv, unread \subseteq unread', NEW p \in Proc, Start(p)
    PROVE  PageInv'
<1>1. Tame /\ pc[p] = "idle"
  BY TameSame DEF Start, Deliver, ReturnFromStripe, RedirectFailed, CancelOrder, OpenCheckout,
       ConfirmFree, ExpireSpecific, ExpireBatch, rowVars, stripeVars
<1>2. pc[p] \in BeforeMint
  BY <1>1 DEF BeforeMint
<1>3. \/ OpenCheckout(p)
      \/ p \notin Checkouts /\ \E t \in Tasks \ {"checkout"} : \E i : Begin(p, t, i)
  <2>1. ASSUME NEW i, NEW keep, HandleFailed(p, i, keep)
        PROVE  \E t \in Tasks \ {"checkout"} : \E j : Begin(p, t, j)
    <3>1. Begin(p, "fulfil", i) \/ Begin(p, "failed", i)
      BY <2>1 DEF HandleFailed
    <3>2. QED BY <3>1 DEF Tasks
  <2>2. CASE Deliver(p)
    <3>1. p \notin Checkouts
      BY <2>2, PagesAssumption DEF Deliver
    <3>2. \E t \in Tasks \ {"checkout"} : \E i : Begin(p, t, i)
      <4>1. PICK i \in Intents :
               \/ Begin(p, "fulfil", i)
               \/ HandleFailed(p, i, TRUE)
               \/ HandleFailed(p, i, FALSE)
        BY <2>2 DEF Deliver
      <4>2. CASE Begin(p, "fulfil", i)
        BY <4>2 DEF Tasks
      <4>3. QED BY <2>1, <4>1, <4>2
    <3>3. QED BY <3>1, <3>2
  <2>3. CASE ReturnFromStripe(p)
    <3>1. p \notin Checkouts
      BY <2>3, PagesAssumption DEF ReturnFromStripe
    <3>2. PICK i \in shown : Begin(p, "fulfil", i)
      BY <2>3 DEF ReturnFromStripe
    <3>3. QED BY <3>1, <3>2 DEF Tasks
  <2>4. CASE RedirectFailed(p)
    <3>1. p \notin Checkouts
      BY <2>4, PagesAssumption DEF RedirectFailed
    <3>2. PICK i \in shown : HandleFailed(p, i, FALSE)
      BY <2>4 DEF RedirectFailed
    <3>3. QED BY <2>1, <3>1, <3>2
  <2>5. CASE CancelOrder(p)
    BY <2>5, PagesAssumption DEF CancelOrder, Tasks
  <2>6. CASE ConfirmFree(p)
    BY <2>6, PagesAssumption DEF ConfirmFree, Tasks
  <2>7. CASE ExpireSpecific(p)
    BY <2>7, PagesAssumption DEF ExpireSpecific, Tasks
  <2>8. CASE ExpireBatch(p)
    BY <2>8, PagesAssumption DEF ExpireBatch, Tasks
  <2>9. QED BY <2>2, <2>3, <2>4, <2>5, <2>6, <2>7, <2>8 DEF Start
<1>4. CASE OpenCheckout(p)
  BY <1>1, <1>2, <1>4, PageBegin DEF OpenCheckout
<1>5. CASE p \notin Checkouts /\ \E t \in Tasks \ {"checkout"} : \E i : Begin(p, t, i)
  BY <1>1, <1>2, <1>5, PageBegin
<1>6. QED BY <1>3, <1>4, <1>5

LEMMA PageLoads ==
    ASSUME IInv, PageInv, unread \subseteq unread', NEW p \in Proc, LoadTickets(p)
    PROVE  PageInv'
<1> DEFINE s == [seen[p] EXCEPT !.tickets = Order.tickets]
<1>1. pc[p] = "tix" /\ UNCHANGED <<stripe, refunded>>
  BY DEF LoadTickets, stripeVars
<1>2. CASE Commit(p, db, "done")
  BY <1>1, <1>2, PageValues, PageCommit
<1>3. CASE /\ seen' = [seen EXCEPT ![p] = s] /\ Goto(p, AfterLoad(task[p]))
           /\ UNCHANGED <<task, arg, rowVars>>
  <2> DEFINE l == AfterLoad(task[p])
  <2>1. s.intent = seen[p].intent
    BY PageValues DEF Struct
  <2>2. Paged(p, pc[p], task[p]) /\ (Unpaged => seen[p].intent = Order.intent)
    BY <1>1, PageValues DEF Resting
  <2>3. l \in {"sync", "quote", "abandon"} /\ (task[p] = "checkout" <=> l = "quote")
    BY DEF AfterLoad
  <2> HIDE DEF l, s
  <2>4. Paged(p, l, task[p]) /\ l \notin AfterDeath /\ pc[p] \in BeforeMint
    BY <1>1, <2>2, <2>3 DEF Paged, PageLabels, BeforeMint, AfterDeath
  <2>5. Tame
    BY <1>1, <1>3, TameSame DEF rowVars
  <2>6. /\ pc' = [pc EXCEPT ![p] = l] /\ seen' = [seen EXCEPT ![p] = s]
        /\ task' = [task EXCEPT ![p] = task[p]]
    BY <1>3, PageValues DEF Goto, l
  <2>7. QED BY <2>1, <2>2, <2>4, <2>5, <2>6, PageStep
<1>4. QED BY <1>2, <1>3 DEF LoadTickets

LEMMA PageReprices ==
    ASSUME IInv, PageInv, unread \subseteq unread',
           NEW p \in Proc, NEW l, Reprice(p, l), pc[p] \notin Resting,
           Paged(p, l, task[p]), p \in Checkouts /\ l \in BeforeMint => pc[p] \in BeforeMint,
           l \in AfterDeath => pc[p] \in AfterDeath
    PROVE  PageInv'
<1> DEFINE total == IF seen[p].status \in {"pending", "expired"}
                    THEN Recalculated(seen[p]) ELSE seen[p].total
           s == [seen[p] EXCEPT !.total = total]
<1>1. seen' = [seen EXCEPT ![p] = s]
  <2>1. seen' = [seen EXCEPT ![p].total = total]
    BY DEF Reprice
  <2>2. QED BY <2>1
<1>2. db' = db \/ db' = [db EXCEPT !.order.total = total]
  BY DEF Reprice, rowVars
<1> HIDE DEF total
<1>3. s.intent = seen[p].intent
  BY PageValues DEF Struct
<1> HIDE DEF s
<1>4. db'.order.intent = db.order.intent /\ db'.order.status = db.order.status
  BY <1>2, PageValues DEF Rows, Struct
<1>5. Tame
  BY <1>4 DEF Reprice, Tame, Order, stripeVars
<1>6. Unpaged /\ l \in AfterDeath => Gone(Order.intent)'
  <2>1. Unpaged /\ l \in AfterDeath => Gone(Order.intent)
    BY DEF PageInv, OneIntent
  <2>2. QED BY <1>5, <2>1, TameGone
<1>7. pc' = [pc EXCEPT ![p] = l] /\ task' = [task EXCEPT ![p] = task[p]]
  BY PageValues DEF Reprice, Goto
<1>8. QED BY <1>1, <1>3, <1>5, <1>6, <1>7, PageValues, PageStep

\* A fulfilment is never a page's.
LEMMA FulfilsNoPage ==
    ASSUME IInv, PageInv, unread \subseteq unread', NEW p \in Proc, pc[p] \in Fulfilling
    PROVE  /\ p \notin Checkouts /\ pc[p] \notin Resting
           /\ \A l \in Fulfilling : Paged(p, l, task[p]) /\ l \notin AfterDeath
<1>1. \A l \in Fulfilling : l \notin BeforeMint \cup {"bind", "done", "error", "killed"}
                            /\ l \notin PageLabels /\ l \notin Resting /\ l \notin AfterDeath
  BY DEF Fulfilling, BeforeMint, PageLabels, Resting, AfterDeath
<1>2. p \notin Checkouts
  BY <1>1, PageValues DEF Paged
<1>3. QED BY <1>1, <1>2, PageValues DEF Paged

LEMMA PageFulfilsOn ==
    ASSUME IInv, PageInv, unread \subseteq unread',
           NEW p \in Proc, NEW l \in Fulfilling, Goto(p, l),
           pc[p] \in Fulfilling, UNCHANGED <<task, seen>>, Tame
    PROVE  PageInv'
BY FulfilsNoPage, PageGoto

\* The rows of a fulfilment: the order is completed and keeps its intent.
LEMMA FulfilledRows ==
    ASSUME IInv, NEW p \in Proc, pc[p] \in Fulfilling, NEW d \in Rows
    PROVE  /\ Completed(d, {"pending", "expired"}) \in Rows
           /\ Completed(d, {"pending", "expired"}).order.intent = d.order.intent
           /\ Confirmed(d) \in Rows /\ Confirmed(d).order.intent = d.order.intent
           /\ Confirmed(d).order.status = d.order.status
           /\ Finished(d, p) \in Rows /\ Finished(d, p).order.intent = d.order.intent
           /\ Finished(d, p).order.status = d.order.status
<1>1. /\ Completed(d, {"pending", "expired"}) \in Rows
      /\ Completed(d, {"pending", "expired"}).order.intent = d.order.intent
  BY DEF Completed, Rows, Struct, OrderStatus, MaybeIntent
<1> DEFINE c == Confirmed(d)
           r == Recorded(c, arg[p], seen[p].total)
           a == Attached(r, arg[p])
<1>2. c \in Rows /\ c.order.intent = d.order.intent /\ c.order.status = d.order.status
  BY DEF Confirmed, Rows, Struct, TicketStatus
<1> HIDE DEF c
<1>3. arg[p] \in Intents /\ seen[p].total \in Totals
  BY ProcValues DEF Charges
<1>4. r \in Rows /\ r.order = c.order
  BY <1>2, <1>3 DEF Recorded, Rows
<1> HIDE DEF r
<1>5. a \in Rows /\ a.order.intent = r.order.intent /\ a.order.status = r.order.status
  BY <1>3, <1>4 DEF Attached, Rows, Struct, MaybeIntent
<1> HIDE DEF a
<1>6. Finished(d, p) = a
  BY DEF Finished, a, r, c
<1>7. QED BY <1>1, <1>2, <1>4, <1>5, <1>6 DEF c

LEMMA PageFulfils ==
    ASSUME IInv, PageInv, unread \subseteq unread', NEW p \in Proc, Fulfil(p)
    PROVE  PageInv'
<1>1. pc[p] \in Fulfilling
  BY DEF Fulfil, Fulfilling, SyncPricing, CheckAmount, ReloadOrder, ReloadTickets,
         DecideFulfilment, ResyncPricing, RecheckAmount, CompleteOrder, ConfirmTickets,
         RecordPayment, AttachPayment, RefundMismatch
<1>2. /\ p \notin Checkouts /\ pc[p] \notin Resting /\ pc[p] # "idle"
      /\ \A l \in Fulfilling : Paged(p, l, task[p]) /\ l \notin AfterDeath
  BY <1>1, FulfilsNoPage DEF Resting
<1>3. {"check", "rerow", "retix", "decide", "resync", "recheck", "refund", "complete", "confirm",
       "ledger", "attach"} \subseteq Fulfilling
  BY DEF Fulfilling
<1>4. db \in Rows
  BY PageValues
<1>5. CASE SyncPricing(p)
  BY <1>2, <1>3, <1>5, PageReprices DEF SyncPricing
<1>6. CASE ResyncPricing(p)
  BY <1>2, <1>3, <1>6, PageReprices DEF ResyncPricing
<1>7. CASE CheckAmount(p)
  <2>1. UNCHANGED <<stripe, refunded>>
    BY <1>7 DEF CheckAmount, stripeVars
  <2>2. \/ Fail(p)
        \/ /\ Goto(p, "rerow") \/ Goto(p, "refund")
           /\ UNCHANGED <<rowVars, task, seen, arg>>
    BY <1>7 DEF CheckAmount
  <2>3. CASE Fail(p)
    BY <1>2, <2>1, <2>3, PageFail
  <2>4. CASE /\ Goto(p, "rerow") \/ Goto(p, "refund")
             /\ UNCHANGED <<rowVars, task, seen, arg>>
    BY <1>1, <1>3, <2>1, <2>4, TameSame, PageFulfilsOn DEF rowVars
  <2>5. QED BY <2>2, <2>3, <2>4
<1>8. CASE ReloadOrder(p)
  <2> DEFINE s == View(p)
  <2>1. s.intent = Order.intent
    BY DEF IInv, Consistent, Rows, Struct, View, Order
  <2>2. /\ pc' = [pc EXCEPT ![p] = "retix"] /\ seen' = [seen EXCEPT ![p] = s]
        /\ task' = [task EXCEPT ![p] = task[p]] /\ UNCHANGED <<db, stripe, refunded>>
    BY <1>8, PageValues DEF ReloadOrder, Goto, rowVars, stripeVars
  <2> HIDE DEF s
  <2>3. QED BY <1>2, <1>3, <2>1, <2>2, TameSame, PageStep
<1>9. CASE ReloadTickets(p)
  <2> DEFINE s == [seen[p] EXCEPT !.tickets = Order.tickets]
  <2>1. s.intent = seen[p].intent
    BY PageValues DEF Struct
  <2>2. seen' = [seen EXCEPT ![p] = s]
    BY <1>9 DEF ReloadTickets
  <2>3. /\ pc' = [pc EXCEPT ![p] = "decide"]
        /\ task' = [task EXCEPT ![p] = task[p]] /\ UNCHANGED <<db, stripe, refunded>>
    BY <1>9, PageValues DEF ReloadTickets, Goto, rowVars, stripeVars
  <2> HIDE DEF s
  <2>4. QED BY <1>2, <1>3, <2>1, <2>2, <2>3, PageValues, TameSame, PageStep
<1>10. CASE DecideFulfilment(p)
  <2>1. UNCHANGED <<stripe, refunded>>
    BY <1>10 DEF DecideFulfilment, stripeVars
  <2>2. \/ Commit(p, db, "done")
        \/ /\ Goto(p, "confirm") \/ Goto(p, "resync")
           /\ UNCHANGED <<rowVars, task, seen, arg>>
    BY <1>10 DEF DecideFulfilment
  <2>3. CASE Commit(p, db, "done")
    BY <1>2, <1>4, <2>1, <2>3, PageCommit
  <2>4. CASE /\ Goto(p, "confirm") \/ Goto(p, "resync")
             /\ UNCHANGED <<rowVars, task, seen, arg>>
    BY <1>1, <1>3, <2>1, <2>4, TameSame, PageFulfilsOn DEF rowVars
  <2>5. QED BY <2>2, <2>3, <2>4
<1>11. CASE RecheckAmount(p)
  <2>1. UNCHANGED <<stripe, refunded>>
    BY <1>11 DEF RecheckAmount, stripeVars
  <2>2. \/ Fail(p) \/ Rollback(p, "error")
        \/ /\ Goto(p, "refund") \/ Goto(p, "complete")
           /\ UNCHANGED <<rowVars, task, seen, arg>>
    BY <1>11 DEF RecheckAmount
  <2>3. CASE Fail(p) \/ Rollback(p, "error")
    BY <1>2, <2>1, <2>3, PageFail, PageRollback
  <2>4. CASE /\ Goto(p, "refund") \/ Goto(p, "complete")
             /\ UNCHANGED <<rowVars, task, seen, arg>>
    BY <1>1, <1>3, <2>1, <2>4, TameSame, PageFulfilsOn DEF rowVars
  <2>5. QED BY <2>2, <2>3, <2>4
<1>12. CASE CompleteOrder(p)
  <2> DEFINE d == Completed(db, {"pending", "expired"})
  <2>1. d \in Rows /\ d.order.intent = db.order.intent
    BY <1>1, <1>4, FulfilledRows
  <2>2. UNCHANGED <<stripe, refunded>>
    BY <1>12 DEF CompleteOrder, stripeVars
  <2>3. \/ Fail(p)
        \/ d.order.status = "completed" /\ Commit(p, Finished(d, p), "done")
        \/ /\ d.order.status = "completed" /\ db' = d /\ Goto(p, "confirm")
           /\ UNCHANGED <<locked, task, seen, arg>>
    BY <1>12 DEF CompleteOrder
  <2> HIDE DEF d
  <2>4. CASE Fail(p)
    BY <1>2, <2>2, <2>4, PageFail
  <2>5. CASE d.order.status = "completed" /\ Commit(p, Finished(d, p), "done")
    <3> DEFINE e == Finished(d, p)
    <3>1. e \in Rows /\ e.order.intent = db.order.intent /\ e.order.status = "completed"
      BY <1>1, <2>1, <2>5, FulfilledRows
    <3>2. Commit(p, e, "done")
      BY <2>5
    <3> HIDE DEF e
    <3>3. QED BY <1>2, <2>2, <3>1, <3>2, PageCommit
  <2>6. CASE /\ d.order.status = "completed" /\ db' = d /\ Goto(p, "confirm")
             /\ UNCHANGED <<locked, task, seen, arg>>
    <3>1. Tame
      BY <2>1, <2>2, <2>6 DEF Tame, Order
    <3>2. QED BY <1>1, <1>3, <2>6, <3>1, PageFulfilsOn
  <2>7. QED BY <2>3, <2>4, <2>5, <2>6
<1>13. CASE ConfirmTickets(p)
  <2>1. UNCHANGED <<stripe, refunded>> /\ db.order.status = "completed"
    BY <1>13, ProcValues DEF ConfirmTickets, stripeVars, Relies
  <2>2. CASE Commit(p, Finished(db, p), "done")
    <3> DEFINE e == Finished(db, p)
    <3>1. e \in Rows /\ e.order.intent = db.order.intent /\ e.order.status = "completed"
      BY <1>1, <1>4, <2>1, FulfilledRows
    <3>2. Commit(p, e, "done")
      BY <2>2
    <3> HIDE DEF e
    <3>3. QED BY <1>2, <2>1, <3>1, <3>2, PageCommit
  <2>3. CASE db' = Confirmed(db) /\ Goto(p, "ledger") /\ UNCHANGED <<locked, task, seen, arg>>
    <3>1. db'.order.intent = db.order.intent /\ db'.order.status = db.order.status
      BY <1>1, <1>4, <2>3, FulfilledRows
    <3>2. Tame
      BY <2>1, <3>1 DEF Tame, Order
    <3>3. QED BY <1>1, <1>3, <2>3, <3>2, PageFulfilsOn
  <2>4. QED BY <1>13, <2>2, <2>3 DEF ConfirmTickets
<1>14. CASE RecordPayment(p)
  <2>1. db' = Recorded(db, arg[p], seen[p].total) /\ Goto(p, "attach")
        /\ UNCHANGED <<task, seen, stripe, refunded>>
    BY <1>14 DEF RecordPayment, stripeVars
  <2>2. db'.order = db.order
    BY <1>4, <2>1 DEF Recorded, Rows
  <2>3. Tame
    BY <2>1, <2>2 DEF Tame, Order
  <2>4. QED BY <1>1, <1>3, <2>1, <2>3, PageFulfilsOn
<1>15. CASE AttachPayment(p)
  <2> DEFINE e == Attached(db, arg[p])
  <2>1. arg[p] \in Intents
    BY <1>1, ProcValues DEF Charges
  <2>2. e \in Rows /\ e.order.intent = db.order.intent /\ e.order.status = db.order.status
    BY <1>4, <2>1 DEF Attached, Rows, Struct, MaybeIntent
  <2>3. Commit(p, e, "done") /\ UNCHANGED <<stripe, refunded>>
    BY <1>15 DEF AttachPayment, stripeVars
  <2> HIDE DEF e
  <2>4. QED BY <1>2, <2>2, <2>3, PageCommit
<1>16. CASE RefundMismatch(p)
  <2>1. /\ refunded' = refunded \cup {arg[p]} /\ task' = [task EXCEPT ![p] = "cancel"]
        /\ pc' = [pc EXCEPT ![p] = "release"] /\ seen' = [seen EXCEPT ![p] = seen[p]]
        /\ UNCHANGED <<db, stripe>>
    BY <1>16, PageValues DEF RefundMismatch, Goto, rowVars
  <2>2. arg[p] \in Intents /\ stripe[arg[p]] = "succeeded"
    BY <1>1, ProcValues DEF Charges
  <2>3. Tame
    BY <2>1 DEF Tame, Order
  <2>4. "release" \notin AfterDeath
    BY DEF AfterDeath
  <2>5. Paged(p, "release", "cancel")
    BY <1>2 DEF Paged, PageLabels
  <2>6. QED BY <1>2, <2>1, <2>3, <2>4, <2>5, PageValues, PageStep
<1>17. QED
  BY <1>5, <1>6, <1>7, <1>8, <1>9, <1>10, <1>11, <1>12, <1>13, <1>14, <1>15, <1>16 DEF Fulfil

\* Who goes on after the abandonment has seen the intent die.
LEMMA PageAbandons ==
    ASSUME IInv, PageInv, unread \subseteq unread', NEW p \in Proc, Abandon(p)
    PROVE  PageInv'
<1> DEFINE i == seen[p].intent
           l == AfterStripeCancel(task[p])
<1>1. pc[p] = "abandon" /\ UNCHANGED refunded
  BY DEF Abandon
<1>2. Paged(p, pc[p], task[p]) /\ (Unpaged => i = Order.intent)
      /\ pc[p] \notin Resting /\ pc[p] \in BeforeMint /\ pc[p] # "idle"
  BY <1>1, PageValues DEF Resting, BeforeMint
<1>3. stripe \in [Intents -> IntentStatus]
  BY DEF IInv, WorldType
<1>4. \A j \in Intents : stripe[j] \in {"none", "canceled"} => stripe'[j] = stripe[j]
  BY <1>3 DEF Abandon
<1>5. CASE /\ Dead(i)' /\ Goto(p, l) /\ UNCHANGED <<rowVars, task, seen, arg>>
  <2>1. Tame
    BY <1>1, <1>4, <1>5 DEF Tame, Order, rowVars
  <2>2. Unpaged => Gone(Order.intent)'
    BY <1>2, <1>5 DEF Gone, Dead, Order, rowVars
  <2>3. l \in {"comp", "requote", "release"} /\ (task[p] = "checkout" <=> l = "requote")
    BY DEF AfterStripeCancel
  <2> HIDE DEF l, i
  <2>4. Paged(p, l, task[p])
    BY <1>1, <1>2, <2>3 DEF Paged, PageLabels, BeforeMint
  <2>5. QED BY <1>2, <1>5, <2>1, <2>2, <2>4, PageGoto
<1>6. CASE Fail(p) /\ UNCHANGED stripe
  BY <1>1, <1>2, <1>6, PageFail
<1>7. CASE /\ task[p] \notin {"free", "checkout"}
           /\ Begin(p, "fulfil", i) /\ UNCHANGED <<rowVars, stripe>>
  <2>1. p \notin Checkouts
    BY <1>1, <1>2, <1>7 DEF Paged
  <2>2. Tame
    BY <1>1, <1>7, TameSame DEF rowVars
  <2>3. QED BY <1>7, <2>1, <2>2, PageBegin
<1>8. CASE Commit(p, db, "done") /\ UNCHANGED stripe
  BY <1>1, <1>2, <1>8, PageValues, PageCommit
<1>9. \/ /\ Dead(i)' /\ Goto(p, l) /\ UNCHANGED <<rowVars, task, seen, arg>>
      \/ Fail(p) /\ UNCHANGED stripe
      \/ /\ task[p] \notin {"free", "checkout"}
         /\ Begin(p, "fulfil", i) /\ UNCHANGED <<rowVars, stripe>>
      \/ Commit(p, db, "done") /\ UNCHANGED stripe
  <2>1. CASE Dead(i) /\ Goto(p, l) /\ UNCHANGED <<rowVars, stripe, task, seen, arg>>
    <3>1. Dead(i)'
      BY <1>1, <2>1 DEF Gone, Dead
    <3>2. QED BY <2>1, <3>1
  <2>2. CASE /\ i \in Intents \ refunded /\ stripe[i] \in {"open", "action"}
             /\ stripe' = [stripe EXCEPT ![i] = "canceled"]
             /\ Goto(p, l) /\ UNCHANGED <<rowVars, task, seen, arg>>
    <3>1. Dead(i)'
      BY <1>3, <2>2 DEF Gone, Dead
    <3>2. QED BY <2>2, <3>1
  <2>3. QED BY <2>1, <2>2 DEF Abandon
<1>10. QED BY <1>5, <1>6, <1>7, <1>8, <1>9

LEMMA PageReleases ==
    ASSUME IInv, PageInv, unread \subseteq unread', NEW p \in Proc, Release(p)
    PROVE  PageInv'
<1> DEFINE d == Released(db, IF task[p] = "expire" THEN "expired" ELSE "cancelled")
<1>1. pc[p] = "release" /\ Commit(p, d, "done") /\ UNCHANGED <<stripe, refunded>>
  BY DEF Release, stripeVars
<1>2. d \in Rows /\ d.order.intent = db.order.intent
  BY PageValues DEF Released, Rows, Struct, OrderStatus, TicketStatus
<1> HIDE DEF d
<1>3. pc[p] # "idle"
  BY <1>1
<1>4. QED BY <1>1, <1>2, <1>3, PageCommit

\* Only a page mints, and what it has seen die is all there was.
LEMMA PageMints ==
    ASSUME IInv, PageInv, unread \subseteq unread', AtMostOnePage, NEW p \in Proc, MintIntent(p)
    PROVE  PageInv'
<1>1. pc[p] = "mint" /\ UNCHANGED refunded
  BY DEF MintIntent
<1>2. task[p] = "checkout" /\ p \in Checkouts
  BY <1>1, PageValues DEF Paged, PageLabels
<1>3. CASE Fail(p) /\ UNCHANGED stripe
  BY <1>1, <1>3, PageFail
<1>4. CASE /\ seen[p].total \in Intents
           /\ stripe' = [stripe EXCEPT ![seen[p].total] = IF @ = "none" THEN "open" ELSE @]
           /\ Goto(p, "bind") /\ UNCHANGED <<task, seen, rowVars>>
  <2>1. ~Unpaged'
    <3>1. pc'[p] = "bind"
      BY <1>4 DEF Goto, IInv, ProcType
    <3>2. QED BY <1>2, <3>1 DEF Unpaged, BeforeMint
  <2>2. PageShape'
    <3>1. ASSUME NEW q \in Proc
          PROVE  Paged(q, pc'[q], task'[q])
      <4>1. CASE q = p
        <5>1. pc'[q] = "bind" /\ task'[q] = "checkout"
          BY <1>2, <1>4, <4>1 DEF Goto, IInv, ProcType
        <5>2. QED BY <1>2, <4>1, <5>1 DEF Paged
      <4>2. CASE q # p
        <5>1. pc'[q] = pc[q] /\ task'[q] = task[q]
          BY <1>4, <4>2 DEF Goto, IInv, ProcType
        <5>2. QED BY <5>1, PageValues
      <4>3. QED BY <4>1, <4>2
    <3>2. QED BY <3>1 DEF PageShape
  <2>3. OneLive'
    <3>1. Unpaged
      BY <1>1, <1>2 DEF AtMostOnePage, Unpaged, BeforeMint
    <3>2. Live = {}
      <4>1. /\ \A i \in Intents : stripe[i] # "none" => i = Order.intent
            /\ Gone(Order.intent)
        BY <1>1, <3>1 DEF PageInv, OneIntent, AfterDeath
      <4>2. QED BY <4>1, NamesAssumption, PricesAssumption DEF Live, Gone, Dead, Intents
    <3>3. Live' \subseteq {seen[p].total}
      BY <1>1, <1>4, <3>2 DEF Live, IInv, WorldType
    <3>4. QED BY <3>3 DEF OneLive
  <2>4. QED BY <2>1, <2>2, <2>3 DEF PageInv, OneIntent
<1>5. QED BY <1>3, <1>4 DEF MintIntent

\* What a page binds it has minted, so this is the time after.
LEMMA PageBinds ==
    ASSUME IInv, PageInv, unread \subseteq unread', NEW p \in Proc, BindIntent(p)
    PROVE  PageInv'
<1>1. pc[p] = "bind" /\ UNCHANGED <<stripe, refunded>>
  BY DEF BindIntent
<1>2. task[p] = "checkout" /\ p \in Checkouts
  BY <1>1, PageValues DEF Paged, PageLabels
<1>3. CASE Fail(p)
  BY <1>1, <1>3, PageFail
<1>4. CASE Commit(p, [db EXCEPT !.order.intent = arg[p]], "done")
  <2>1. /\ pc' = [pc EXCEPT ![p] = "done"] /\ UNCHANGED task
    BY <1>2, <1>4, PagesAssumption DEF Commit, Return, Rest
  <2>2. ~Unpaged'
    <3>1. pc'[p] = "done"
      BY <2>1 DEF IInv, ProcType
    <3>2. QED BY <1>2, <3>1 DEF Unpaged, BeforeMint
  <2>3. PageShape'
    <3>1. ASSUME NEW q \in Proc
          PROVE  Paged(q, pc'[q], task'[q])
      <4>1. CASE q = p
        <5>1. pc'[q] = "done" /\ task'[q] = "checkout"
          BY <1>2, <2>1, <4>1 DEF IInv, ProcType
        <5>2. QED BY <1>2, <4>1, <5>1 DEF Paged
      <4>2. CASE q # p
        <5>1. pc'[q] = pc[q] /\ task'[q] = task[q]
          BY <2>1, <4>2 DEF IInv, ProcType
        <5>2. QED BY <5>1, PageValues
      <4>3. QED BY <4>1, <4>2
    <3>2. QED BY <3>1 DEF PageShape
  <2>4. OneLive'
    BY <1>1 DEF PageInv, OneLive, Live
  <2>5. QED BY <2>2, <2>3, <2>4 DEF PageInv, OneIntent
<1>5. QED BY <1>3, <1>4 DEF BindIntent

LEMMA PageChecksOut ==
    ASSUME IInv, PageInv, unread \subseteq unread', AtMostOnePage, NEW p \in Proc, Checkout(p)
    PROVE  PageInv'
<1>1. CASE pc[p] \in {"quote", "reprice", "retrieve", "requote", "rereprice"}
  <2>1. /\ task[p] = "checkout" /\ p \in Checkouts /\ pc[p] \notin Resting /\ pc[p] # "idle"
        /\ pc[p] \in BeforeMint /\ (Unpaged => seen[p].intent = Order.intent)
    <3>1. pc[p] \in PageLabels /\ pc[p] \notin Resting /\ pc[p] \in BeforeMint
      BY <1>1 DEF PageLabels, Resting, BeforeMint
    <3>2. QED BY <3>1, PageValues DEF Paged, Resting
  <2>2. ASSUME NEW l \in BeforeMint \ {"idle"}
        PROVE  Paged(p, l, task[p])
    BY <2>1 DEF Paged
  <2>3. {"reprice", "retrieve", "requote", "rereprice", "mint", "abandon"}
          \subseteq BeforeMint \ {"idle"}
    BY DEF BeforeMint
  <2>4. ASSUME NEW l \in BeforeMint \ {"idle"}, Goto(p, l), UNCHANGED <<rowVars, task, seen>>,
               UNCHANGED <<stripe, refunded>>,
               Unpaged /\ l \in AfterDeath => Gone(Order.intent)
        PROVE  PageInv'
    <3>1. Tame
      BY <2>4, TameSame DEF rowVars
    <3>2. Unpaged /\ l \in AfterDeath => Gone(Order.intent)'
      BY <2>4, <3>1, TameGone
    <3>3. QED BY <2>1, <2>2, <2>4, <3>1, <3>2, PageGoto
  <2>5. pc[p] \in AfterDeath /\ Unpaged => Gone(Order.intent)
    BY DEF PageInv, OneIntent
  <2>6. CASE QuoteCheckout(p)
    <3>1. /\ Goto(p, "reprice") \/ Goto(p, "retrieve")
          /\ UNCHANGED <<rowVars, task, seen, stripe, refunded>>
      BY <2>6 DEF QuoteCheckout, Quote, stripeVars
    <3>2. {"reprice", "retrieve"} \cap AfterDeath = {}
      BY DEF AfterDeath
    <3>3. QED BY <2>3, <2>4, <3>1, <3>2
  <2>7. CASE RequoteCheckout(p)
    <3>1. /\ Goto(p, "rereprice") \/ Goto(p, "mint")
          /\ UNCHANGED <<rowVars, task, seen, stripe, refunded>>
      BY <2>7 DEF RequoteCheckout, Quote, stripeVars
    <3>2. pc[p] \in AfterDeath
      BY <2>7 DEF RequoteCheckout, AfterDeath
    <3>3. QED BY <2>3, <2>4, <2>5, <3>1, <3>2
  <2>8. CASE RepriceCheckout(p)
    <3>1. "retrieve" \notin AfterDeath
      BY DEF AfterDeath
    <3>2. QED BY <2>1, <2>2, <2>3, <2>8, <3>1, PageReprices DEF RepriceCheckout
  <2>9. CASE RerepriceCheckout(p)
    <3>1. pc[p] \in AfterDeath
      BY <2>9 DEF RerepriceCheckout, AfterDeath
    <3>2. QED BY <2>1, <2>2, <2>3, <2>9, <3>1, PageReprices DEF RerepriceCheckout
  <2>10. CASE RetrieveIntent(p)
    <3>1. UNCHANGED <<stripe, refunded>>
      BY <2>10 DEF RetrieveIntent
    <3>2. \/ /\ seen[p].intent = Nil \/ seen[p].intent \in unread'
             /\ Goto(p, "requote") /\ UNCHANGED <<rowVars, task, seen>>
          \/ Goto(p, "abandon") /\ UNCHANGED <<rowVars, task, seen>>
          \/ Commit(p, db, "done") \/ Fail(p)
      BY <2>10 DEF RetrieveIntent
    <3>3. CASE /\ seen[p].intent = Nil \/ seen[p].intent \in unread'
               /\ Goto(p, "requote") /\ UNCHANGED <<rowVars, task, seen>>
      <4>1. Unpaged => Gone(Order.intent)'
        BY <2>1, <3>3 DEF Gone, Dead, Order, rowVars
      <4>2. Tame
        BY <3>1, <3>3, TameSame DEF rowVars
      <4>3. QED BY <2>1, <2>2, <2>3, <3>3, <4>1, <4>2, PageGoto
    <3>4. CASE Goto(p, "abandon") /\ UNCHANGED <<rowVars, task, seen>>
      <4>1. "abandon" \notin AfterDeath
        BY DEF AfterDeath
      <4>2. QED BY <2>3, <2>4, <3>1, <3>4, <4>1
    <3>5. CASE Commit(p, db, "done") \/ Fail(p)
      BY <2>1, <3>1, <3>5, PageValues, PageCommit, PageFail
    <3>6. QED BY <3>2, <3>3, <3>4, <3>5
  <2>11. ~MintIntent(p) /\ ~BindIntent(p)
    BY <1>1 DEF MintIntent, BindIntent
  <2>12. QED BY <2>6, <2>7, <2>8, <2>9, <2>10, <2>11 DEF Checkout
<1>2. CASE pc[p] \notin {"quote", "reprice", "retrieve", "requote", "rereprice"}
  <2>1. MintIntent(p) \/ BindIntent(p)
    BY <1>2 DEF Checkout, QuoteCheckout, RepriceCheckout, RetrieveIntent, RequoteCheckout,
         RerepriceCheckout
  <2>2. QED BY <2>1, PageMints, PageBinds
<1>3. QED BY <1>1, <1>2

LEMMA PageGivesAway ==
    ASSUME IInv, PageInv, unread \subseteq unread',
           NEW p \in Proc, CompleteFree(p) \/ ConfirmFreeTickets(p)
    PROVE  PageInv'
<1>1. UNCHANGED <<stripe, refunded>> /\ pc[p] \in {"comp", "hand"}
  BY DEF CompleteFree, ConfirmFreeTickets, stripeVars
<1>2. /\ p \notin Checkouts /\ pc[p] \notin Resting /\ pc[p] # "idle"
      /\ Paged(p, "hand", task[p]) /\ "hand" \notin AfterDeath
  <2>1. /\ pc[p] \notin BeforeMint \cup {"bind", "done", "error", "killed"}
        /\ "hand" \notin PageLabels /\ "hand" \notin AfterDeath /\ pc[p] \notin Resting
    BY <1>1 DEF BeforeMint, PageLabels, AfterDeath, Resting
  <2>2. QED BY <1>1, <2>1, PageValues DEF Paged
<1>3. CASE Fail(p)
  BY <1>1, <1>2, <1>3, PageFail
<1>4. CASE /\ db' = Completed(db, {"pending"}) /\ Goto(p, "hand")
           /\ UNCHANGED <<locked, task, seen, arg>>
  <2>1. /\ db'.order.intent = db.order.intent
        /\ db'.order.status \in {"completed", db.order.status}
    BY <1>4, PageValues DEF Completed, Rows, Struct
  <2>2. Tame
    BY <1>1, <2>1 DEF Tame, Order
  <2>3. QED BY <1>2, <1>4, <2>2, PageGoto
<1>5. CASE Commit(p, Confirmed(db), "done")
  <2> DEFINE d == Confirmed(db)
  <2>1. d \in Rows /\ d.order.intent = db.order.intent /\ d.order.status = db.order.status
    BY PageValues DEF Confirmed, Rows, Struct, TicketStatus
  <2>2. Commit(p, d, "done")
    BY <1>5
  <2> HIDE DEF d
  <2>3. QED BY <1>1, <1>2, <2>1, <2>2, PageCommit
<1>6. QED BY <1>3, <1>4, <1>5 DEF CompleteFree, ConfirmFreeTickets

LEMMA PageFaults ==
    ASSUME IInv, PageInv, unread \subseteq unread', NEW p \in Proc, Fault(p)
    PROVE  PageInv'
<1>1. pc[p] # "idle" /\ Rollback(p, "killed") /\ UNCHANGED <<stripe, refunded>>
  BY DEF Fault, Resting, stripeVars
<1>2. QED BY <1>1, PageRollback

\* What nobody's step is.
LEMMA PageRests ==
    ASSUME IInv, PageInv, unread \subseteq unread', Environment \/ UNCHANGED vars
    PROVE  PageInv'
<1>1. UNCHANGED <<db, pc, task, seen>>
  BY DEF Environment, Confirm, Settle, ChangePrice, TimePasses, SeatsResold, rowVars,
         procVars, vars
<1>2. refunded' = refunded
  BY DEF Environment, Confirm, Settle, ChangePrice, TimePasses, SeatsResold, stripeVars, vars
<1>3. \A i \in Intents : stripe[i] \in {"none", "canceled"} => stripe'[i] = stripe[i]
  BY DEF Environment, Confirm, Settle, ChangePrice, TimePasses, SeatsResold, stripeVars, vars,
         IInv, WorldType
<1>4. Tame
  BY <1>1, <1>2, <1>3 DEF Tame, Order
<1>5. PageShape'
  BY <1>1 DEF PageInv, PageShape, Paged
<1>6. OneIntent'
  <2>1. Unpaged' <=> Unpaged
    BY <1>1 DEF Unpaged
  <2>2. Unpaged => \A i \in Intents : stripe'[i] # "none" => i = Order'.intent
    BY <1>4 DEF Tame, PageInv, OneIntent
  <2>3. Unpaged => \A q \in Proc : pc'[q] \notin Resting => seen'[q].intent = Order'.intent
    BY <1>1, <1>4 DEF Tame, PageInv, OneIntent
  <2>4. Unpaged => \A q \in Proc : pc'[q] \in AfterDeath => Gone(Order.intent)'
    BY <1>1, <1>4, TameGone DEF PageInv, OneIntent
  <2>5. QED BY <2>1, <2>2, <2>3, <2>4 DEF OneIntent, Order
<1>7. OneLive'
  BY <1>4, TameLive DEF PageInv
<1>8. QED BY <1>5, <1>6, <1>7 DEF PageInv

LEMMA PageInits == ASSUME Init PROVE PageInv
<1>1. PICK i \in MaybeIntent :
         /\ i # Nil => i = price
         /\ db = [order |-> [status |-> "pending", intent |-> i, total |-> price,
                             payment |-> Nil, tickets |-> "pending"],
                  ledger |-> [j \in Intents |-> Nil]]
         /\ stripe = [j \in Intents |-> IF j = i THEN "open" ELSE "none"]
         /\ shown = {i} \ {Nil}
  BY DEF Init
<1>2. \A p \in Proc : pc[p] = "idle" /\ task[p] = "fulfil"
  BY DEF Init
<1>3. PageShape
  BY <1>2 DEF PageShape, Paged, PageLabels, BeforeMint
<1>4. Order.intent = i /\ Order.status = "pending"
  BY <1>1 DEF Order
<1>5. \A j \in Intents : stripe[j] # "none" => j = i
  BY <1>1
<1>6. OneIntent
  BY <1>2, <1>4, <1>5 DEF OneIntent, Resting, AfterDeath
<1>7. OneLive
  BY <1>5 DEF OneLive, Live
<1>8. QED BY <1>3, <1>6, <1>7 DEF PageInv

\* Nothing is read after all.
LEMMA UnreadGrows == ASSUME [Next]_vars PROVE unread \subseteq unread'
<1>1. ASSUME NEW p \in Proc, Start(p) \/ Fault(p)
      PROVE  unread' = unread
  BY <1>1 DEF Start, Deliver, ReturnFromStripe, RedirectFailed, CancelOrder, OpenCheckout,
       ConfirmFree, ExpireSpecific, ExpireBatch, Fault, boundVars
<1>2. ASSUME NEW p \in Proc, Fulfil(p) \/ LoadTickets(p) \/ Abandon(p) \/ Release(p)
                \/ CompleteFree(p) \/ ConfirmFreeTickets(p)
      PROVE  unread' = unread
  BY <1>2 DEF Fulfil, SyncPricing, CheckAmount, ReloadOrder, ReloadTickets, DecideFulfilment,
       ResyncPricing, RecheckAmount, CompleteOrder, ConfirmTickets, RecordPayment,
       AttachPayment, RefundMismatch, LoadTickets, Abandon, Release, CompleteFree,
       ConfirmFreeTickets, Reprice, boundVars
<1>3. ASSUME NEW p \in Proc, Checkout(p)
      PROVE  unread \subseteq unread'
  BY <1>3 DEF Checkout, QuoteCheckout, RepriceCheckout, RetrieveIntent, RequoteCheckout,
       RerepriceCheckout, MintIntent, BindIntent, Quote, Reprice, boundVars
<1>4. CASE Environment \/ UNCHANGED vars
  BY <1>4 DEF Environment, Confirm, Settle, ChangePrice, TimePasses, SeatsResold, boundVars,
       vars
<1>5. QED BY <1>1, <1>2, <1>3, <1>4 DEF Next, Continue

LEMMA PageKeeps == ASSUME IInv, PageInv, AtMostOnePage, [Next]_vars PROVE PageInv'
<1>1. unread \subseteq unread'
  BY UnreadGrows
<1>2. ASSUME NEW p \in Proc, Continue(p)
      PROVE  PageInv'
  BY <1>1, <1>2, PageLoads, PageFulfils, PageAbandons, PageReleases, PageChecksOut,
     PageGivesAway DEF Continue
<1>3. QED BY <1>1, <1>2, PageStarts, PageFaults, PageRests DEF Next

\* With at most one checkout page, and whatever else runs, at most one intent is alive that
\* no page has failed to read.
THEOREM PageInvariance == ASSUME AtMostOnePage PROVE Spec => []PageInv
<1>1. Init => PageInv
  BY PageInits
<1>2. IInv /\ PageInv /\ [Next]_vars => PageInv'
  BY PageKeeps
<1>3. QED BY <1>1, <1>2, Invariance, PTL DEF Spec

\* Where at most one checkout page takes part, and any number of deliveries, returns,
\* failures, cancellations, complimentary confirmations, jobs and sweeps, the order is
\* charged once, unless the page mints while Stripe does not answer for the intent it
\* replaces (retrieve_or_create_payment_intent, maybe_refund_unfulfilled_ticket_payment).
THEOREM OnePageChargesOnce == ASSUME AtMostOnePage PROVE Spec => []ChargedAtMostOnce
<1>1. PageInv => ChargedAtMostOnce
  BY DEF PageInv, OneLive, Live, ChargedAtMostOnce
<1>2. QED BY <1>1, PageInvariance, PTL

-----------------------------------------------------------------------------
(* What is released or given away.  Whoever is about to do either has dealt    *)
(* with the intent it knows; this holds with any number of pages.              *)

Dealt ==
    \A p \in Proc : /\ pc[p] = "release" => Dead(Settled(p))
                    /\ pc[p] = "comp" => Dead(seen[p].intent)

\* An intent once dead stays so.
DeathIsFinal == \A i : Dead(i) => Dead(i)'

LEMMA DeadStays == ASSUME IInv, [Next]_vars PROVE DeathIsFinal /\ refunded \subseteq refunded'
<1>1. stripe \in [Intents -> IntentStatus]
  BY DEF IInv, WorldType
<1>2. ASSUME NEW p \in Proc, Start(p) \/ Fault(p)
      PROVE  UNCHANGED <<stripe, refunded>>
  BY <1>2 DEF Start, Deliver, ReturnFromStripe, RedirectFailed, CancelOrder, OpenCheckout,
       ConfirmFree, ExpireSpecific, ExpireBatch, Fault, stripeVars
<1>3. ASSUME NEW p \in Proc, Fulfil(p)
      PROVE  stripe' = stripe /\ refunded \subseteq refunded'
  BY <1>3 DEF Fulfil, SyncPricing, CheckAmount, ReloadOrder, ReloadTickets, DecideFulfilment,
       ResyncPricing, RecheckAmount, CompleteOrder, ConfirmTickets, RecordPayment,
       AttachPayment, RefundMismatch, Reprice, stripeVars
<1>4. ASSUME NEW p \in Proc, LoadTickets(p) \/ Release(p) \/ CompleteFree(p)
                               \/ ConfirmFreeTickets(p)
      PROVE  UNCHANGED <<stripe, refunded>>
  BY <1>4 DEF LoadTickets, Release, CompleteFree, ConfirmFreeTickets, stripeVars
<1>5. ASSUME NEW p \in Proc, Abandon(p)
      PROVE  /\ refunded' = refunded
             /\ \A i \in Intents : stripe[i] = "canceled" => stripe'[i] = "canceled"
  BY <1>1, <1>5 DEF Abandon
<1>6. ASSUME NEW p \in Proc, Checkout(p)
      PROVE  /\ refunded' = refunded
             /\ \A i \in Intents : stripe[i] = "canceled" => stripe'[i] = "canceled"
  BY <1>1, <1>6 DEF Checkout, QuoteCheckout, RepriceCheckout, RetrieveIntent, RequoteCheckout,
       RerepriceCheckout, MintIntent, BindIntent, Quote, Reprice, stripeVars
<1>7. CASE Environment \/ UNCHANGED vars
  <2>1. /\ refunded' = refunded
        /\ \A i \in Intents : stripe[i] = "canceled" => stripe'[i] = "canceled"
    BY <1>1, <1>7 DEF Environment, Confirm, Settle, ChangePrice, TimePasses, SeatsResold,
         stripeVars, vars
  <2>2. QED BY <2>1 DEF DeathIsFinal, Dead
<1>8. QED
  BY <1>2, <1>3, <1>4, <1>5, <1>6, <1>7 DEF Next, Continue, DeathIsFinal, Dead

\* A step of p changes nothing that another process holds.
Alone(p) ==
    \A q \in Proc \ {p} : pc'[q] = pc[q] /\ seen'[q] = seen[q] /\ arg'[q] = arg[q]

LEMMA ReturnAlone ==
    ASSUME IInv, NEW p \in Proc, NEW l \in {"done", "error", "killed"}, Return(p, l)
    PROVE  Alone(p) /\ pc'[p] \notin {"release", "comp"}
BY DEF Return, Rest, Alone, IInv, ProcType

LEMMA GotoAlone ==
    ASSUME IInv, NEW p \in Proc, NEW l, Goto(p, l)
    PROVE  pc'[p] = l /\ \A q \in Proc \ {p} : pc'[q] = pc[q]
BY DEF Goto, IInv, ProcType

LEMMA StepsAlone ==
    ASSUME IInv, NEW p \in Proc, Start(p) \/ Continue(p) \/ Fault(p)
    PROVE  /\ Alone(p)
           /\ pc'[p] \in {"release", "comp"} => Abandon(p) \/ RefundMismatch(p)
<1> USE DEF IInv, ProcType
<1>1. ASSUME NEW l, NEW d, Commit(p, d, l) \/ Rollback(p, l) \/ Fail(p),
             l \in {"done", "error", "killed"}
      PROVE  Alone(p) /\ pc'[p] \notin {"release", "comp"}
  BY <1>1, ReturnAlone DEF Commit, Rollback, Fail
<1>2. ASSUME NEW t, NEW i, Begin(p, t, i)
      PROVE  Alone(p) /\ pc'[p] \notin {"release", "comp"}
  BY <1>2, GotoAlone DEF Begin, Alone
<1>3. ASSUME NEW l, Reprice(p, l), l \notin {"release", "comp"}
      PROVE  Alone(p) /\ pc'[p] \notin {"release", "comp"}
  BY <1>3, GotoAlone DEF Reprice, Alone
<1>4. ASSUME NEW l, Goto(p, l), UNCHANGED <<seen, arg>>
      PROVE  Alone(p) /\ pc'[p] = l
  BY <1>4, GotoAlone DEF Alone
<1>5. CASE Start(p)
  BY <1>2, <1>5 DEF Start, Deliver, HandleFailed, ReturnFromStripe, RedirectFailed,
       CancelOrder, OpenCheckout, ConfirmFree, ExpireSpecific, ExpireBatch
<1>6. CASE Fault(p)
  BY <1>1, <1>6 DEF Fault
<1>7. CASE LoadTickets(p)
  <2>1. AfterLoad(task[p]) \notin {"release", "comp"}
    BY DEF AfterLoad
  <2>2. CASE Commit(p, db, "done")
    BY <1>1, <2>2
  <2>3. CASE Goto(p, AfterLoad(task[p])) /\ UNCHANGED arg
             /\ seen' = [seen EXCEPT ![p] = [seen[p] EXCEPT !.tickets = Order.tickets]]
    BY <2>1, <2>3, GotoAlone DEF Alone
  <2>4. QED BY <1>7, <2>2, <2>3 DEF LoadTickets
<1>8. CASE Fulfil(p)
  <2>1. CASE SyncPricing(p) \/ ResyncPricing(p)
    BY <1>3, <2>1 DEF SyncPricing, ResyncPricing
  <2>2. CASE CheckAmount(p)
    BY <1>1, <1>4, <2>2 DEF CheckAmount
  <2>3. CASE ReloadOrder(p)
    BY <2>3, GotoAlone DEF ReloadOrder, Alone
  <2>4. CASE ReloadTickets(p)
    BY <2>4, GotoAlone DEF ReloadTickets, Alone
  <2>5. CASE DecideFulfilment(p)
    BY <1>1, <1>4, <2>5 DEF DecideFulfilment
  <2>6. CASE RecheckAmount(p)
    BY <1>1, <1>4, <2>6 DEF RecheckAmount
  <2>7. CASE CompleteOrder(p)
    BY <1>1, <1>4, <2>7 DEF CompleteOrder
  <2>8. CASE ConfirmTickets(p)
    BY <1>1, <1>4, <2>8 DEF ConfirmTickets
  <2>9. CASE RecordPayment(p)
    BY <1>4, <2>9 DEF RecordPayment
  <2>10. CASE AttachPayment(p)
    BY <1>1, <2>10 DEF AttachPayment
  <2>11. CASE RefundMismatch(p)
    BY <1>4, <2>11 DEF RefundMismatch
  <2>12. QED
    BY <1>8, <2>1, <2>2, <2>3, <2>4, <2>5, <2>6, <2>7, <2>8, <2>9, <2>10, <2>11 DEF Fulfil
<1>9. CASE Abandon(p)
  BY <1>1, <1>2, <1>4, <1>9 DEF Abandon
<1>10. CASE Release(p)
  BY <1>1, <1>10 DEF Release
<1>11. CASE Checkout(p)
  <2>1. CASE RepriceCheckout(p) \/ RerepriceCheckout(p)
    BY <1>3, <2>1 DEF RepriceCheckout, RerepriceCheckout
  <2>2. CASE QuoteCheckout(p) \/ RequoteCheckout(p)
    BY <1>4, <2>2 DEF QuoteCheckout, RequoteCheckout, Quote
  <2>3. CASE RetrieveIntent(p)
    BY <1>1, <1>4, <2>3 DEF RetrieveIntent
  <2>4. CASE MintIntent(p)
    BY <1>1, <2>4, GotoAlone DEF MintIntent, Alone
  <2>5. CASE BindIntent(p)
    BY <1>1, <2>5 DEF BindIntent
  <2>6. QED BY <1>11, <2>1, <2>2, <2>3, <2>4, <2>5 DEF Checkout
<1>12. CASE CompleteFree(p)
  BY <1>1, <1>4, <1>12 DEF CompleteFree
<1>13. CASE ConfirmFreeTickets(p)
  BY <1>1, <1>13 DEF ConfirmFreeTickets
<1>14. QED
  BY <1>5, <1>6, <1>7, <1>8, <1>9, <1>10, <1>11, <1>12, <1>13 DEF Continue

LEMMA AbandonDeals ==
    ASSUME IInv, NEW p \in Proc, Abandon(p), pc'[p] \in {"release", "comp"}
    PROVE  Dead(seen[p].intent)' /\ seen'[p] = seen[p]
<1> DEFINE i == seen[p].intent
<1>1. ~Fail(p) /\ ~Begin(p, "fulfil", i) /\ ~Commit(p, db, "done")
  BY ReturnAlone DEF Fail, Commit, Rollback, Begin, Goto, IInv, ProcType
<1>2. CASE Dead(i) /\ UNCHANGED <<stripe, seen>>
  BY <1>2 DEF Abandon, Dead
<1>3. CASE /\ i \in Intents \ refunded /\ stripe[i] \in {"open", "action"}
           /\ stripe' = [stripe EXCEPT ![i] = "canceled"] /\ UNCHANGED seen
  BY <1>3 DEF Dead, IInv, WorldType
<1>4. QED BY <1>1, <1>2, <1>3 DEF Abandon

LEMMA RefundDeals ==
    ASSUME IInv, NEW p \in Proc, RefundMismatch(p)
    PROVE  pc'[p] = "release" /\ Dead(Settled(p))'
<1>1. arg[p] \in Intents
  BY ProcValues DEF RefundMismatch, Charges, Fulfilling
<1>2. QED BY <1>1 DEF RefundMismatch, Goto, Dead, Settled, IInv, ProcType

LEMMA DealtKeeps == ASSUME IInv, Dealt, [Next]_vars PROVE Dealt'
<1>1. DeathIsFinal /\ refunded \subseteq refunded' /\ refunded' \subseteq Intents
  BY DeadStays, NextKeeps DEF Kept, IInv, WorldType
<1>2. ASSUME NEW q \in Proc, pc'[q] = pc[q], seen'[q] = seen[q], arg'[q] = arg[q]
      PROVE  /\ pc'[q] = "release" => Dead(Settled(q))'
             /\ pc'[q] = "comp" => Dead(seen[q].intent)'
  BY <1>1, <1>2 DEF Dealt, Settled, DeathIsFinal, Dead
<1>3. ASSUME NEW p \in Proc, Start(p) \/ Continue(p) \/ Fault(p)
      PROVE  Dealt'
  <2>1. ASSUME pc'[p] \in {"release", "comp"}
        PROVE  /\ pc'[p] = "release" => Dead(Settled(p))'
               /\ pc'[p] = "comp" => Dead(seen[p].intent)'
    <3>1. CASE Abandon(p)
      BY <1>1, <2>1, <3>1, AbandonDeals DEF Settled, Dead
    <3>2. CASE RefundMismatch(p)
      BY <3>2, RefundDeals
    <3>3. QED BY <1>3, <2>1, <3>1, <3>2, StepsAlone
  <2>2. QED BY <1>2, <1>3, <2>1, StepsAlone DEF Alone, Dealt
<1>4. CASE Environment \/ UNCHANGED vars
  <2>1. UNCHANGED <<pc, seen, arg>>
    BY <1>4 DEF Environment, Confirm, Settle, ChangePrice, TimePasses, SeatsResold, procVars,
         vars
  <2>2. QED BY <1>2, <2>1 DEF Dealt
<1>5. QED BY <1>3, <1>4 DEF Next

\* Only a page changes the intent of the order, and only while the order is pending.
LEMMA IntentStays ==
    ASSUME IInv, [Next]_vars
    PROVE  Order.status \in {"cancelled", "expired"} => Order'.intent = Order.intent
<1>1. db \in Rows
  BY DEF IInv, Consistent
<1>2. ASSUME NEW p \in Proc, NEW d \in Rows, NEW l, Commit(p, d, l)
      PROVE  Order'.intent = d.order.intent
  BY <1>2 DEF Commit, Rows, Struct, Order
<1>3. ASSUME NEW p \in Proc, NEW l, Commit(p, db, l) \/ Rollback(p, l) \/ Fail(p)
      PROVE  Order'.intent = Order.intent
  BY <1>1, <1>2, <1>3 DEF Rollback, Fail, Order
<1>4. ASSUME NEW p \in Proc, NEW l, Reprice(p, l)
      PROVE  Order'.intent = Order.intent
  BY <1>1, <1>4 DEF Reprice, Rows, Struct, Order, rowVars
<1>5. ASSUME NEW p \in Proc, Start(p) \/ Fault(p)
      PROVE  Order'.intent = Order.intent
  BY <1>3, <1>5 DEF Start, Deliver, ReturnFromStripe, RedirectFailed, CancelOrder,
       OpenCheckout, ConfirmFree, ExpireSpecific, ExpireBatch, Fault, Order, rowVars
<1>6. ASSUME NEW p \in Proc, LoadTickets(p) \/ Abandon(p)
      PROVE  Order'.intent = Order.intent
  BY <1>3, <1>6 DEF LoadTickets, Abandon, Order, rowVars
<1>7. ASSUME NEW p \in Proc, Release(p)
      PROVE  Order'.intent = Order.intent
  <2> DEFINE d == Released(db, IF task[p] = "expire" THEN "expired" ELSE "cancelled")
  <2>1. d \in Rows /\ d.order.intent = db.order.intent
    BY <1>1 DEF Released, Rows, Struct, OrderStatus, TicketStatus
  <2>2. Commit(p, d, "done")
    BY <1>7 DEF Release
  <2> HIDE DEF d
  <2>3. QED BY <1>2, <2>1, <2>2 DEF Order
<1>8. ASSUME NEW p \in Proc, CompleteFree(p) \/ ConfirmFreeTickets(p)
      PROVE  Order'.intent = Order.intent
  <2>1. CASE Fail(p)
    BY <1>3, <2>1
  <2>2. CASE db' = Completed(db, {"pending"})
    BY <1>1, <2>2 DEF Completed, Rows, Struct, Order
  <2>3. CASE Commit(p, Confirmed(db), "done")
    <3>1. Confirmed(db) \in Rows /\ Confirmed(db).order.intent = db.order.intent
      BY <1>1 DEF Confirmed, Rows, Struct, TicketStatus
    <3>2. QED BY <1>2, <2>3, <3>1 DEF Order
  <2>4. QED BY <1>8, <2>1, <2>2, <2>3 DEF CompleteFree, ConfirmFreeTickets
<1>9. ASSUME NEW p \in Proc, Fulfil(p)
      PROVE  Order'.intent = Order.intent
  <2>1. CASE SyncPricing(p) \/ ResyncPricing(p)
    BY <1>4, <2>1 DEF SyncPricing, ResyncPricing
  <2>2. CASE CheckAmount(p) \/ ReloadOrder(p) \/ ReloadTickets(p) \/ DecideFulfilment(p)
             \/ RecheckAmount(p) \/ RefundMismatch(p)
    BY <1>3, <2>2 DEF CheckAmount, ReloadOrder, ReloadTickets, DecideFulfilment, RecheckAmount,
         RefundMismatch, Order, rowVars
  <2>3. CASE CompleteOrder(p)
    <3> DEFINE d == Completed(db, {"pending", "expired"})
    <3>1. d \in Rows /\ d.order.intent = db.order.intent
      BY <1>1 DEF Completed, Rows, Struct, OrderStatus, MaybeIntent
    <3>2. Fail(p) \/ db' = d \/ Commit(p, Finished(d, p), "done")
      BY <2>3 DEF CompleteOrder
    <3>3. pc[p] \in Fulfilling
      BY <2>3 DEF CompleteOrder, Fulfilling
    <3> HIDE DEF d
    <3>4. Finished(d, p) \in Rows /\ Finished(d, p).order.intent = d.order.intent
      BY <3>1, <3>3, FulfilledRows
    <3>5. QED BY <1>2, <1>3, <3>1, <3>2, <3>4 DEF Order
  <2>4. CASE ConfirmTickets(p)
    <3>1. Commit(p, Finished(db, p), "done") \/ db' = Confirmed(db)
      BY <2>4 DEF ConfirmTickets
    <3>2. pc[p] \in Fulfilling
      BY <2>4 DEF ConfirmTickets, Fulfilling
    <3>3. /\ Finished(db, p) \in Rows /\ Finished(db, p).order.intent = db.order.intent
          /\ Confirmed(db).order.intent = db.order.intent
      BY <1>1, <3>2, FulfilledRows
    <3>4. QED BY <1>2, <3>1, <3>3 DEF Order
  <2>5. CASE RecordPayment(p)
    BY <1>1, <2>5 DEF RecordPayment, Recorded, Rows, Order
  <2>6. CASE AttachPayment(p)
    <3>1. arg[p] \in Intents
      BY <2>6, ProcValues DEF AttachPayment, Charges, Fulfilling
    <3>2. Attached(db, arg[p]) \in Rows /\ Attached(db, arg[p]).order.intent = db.order.intent
      BY <1>1, <3>1 DEF Attached, Rows, Struct, MaybeIntent
    <3>3. QED BY <1>2, <2>6, <3>2 DEF AttachPayment, Order
  <2>7. QED BY <1>9, <2>1, <2>2, <2>3, <2>4, <2>5, <2>6 DEF Fulfil
<1>10. ASSUME NEW p \in Proc, Checkout(p), Order.status # "pending"
      PROVE  Order'.intent = Order.intent
  BY <1>3, <1>4, <1>10 DEF Checkout, QuoteCheckout, RepriceCheckout, RequoteCheckout,
       RerepriceCheckout, RetrieveIntent, MintIntent, BindIntent, Quote, Order, rowVars
<1>11. CASE Environment \/ UNCHANGED vars
  BY <1>11 DEF Environment, Confirm, Settle, ChangePrice, TimePasses, SeatsResold, rowVars,
       vars, Order
<1>12. QED
  BY <1>5, <1>6, <1>7, <1>8, <1>9, <1>10, <1>11 DEF Next, Continue

\* Whoever is about to release the order, or to give it away, has dealt with its intent.
THEOREM DealtInvariance == Spec => []Dealt
<1>1. Init => Dealt
  BY DEF Init, Dealt
<1>2. IInv /\ Dealt /\ [Next]_vars => Dealt'
  BY DealtKeeps
<1>3. QED BY <1>1, <1>2, Invariance, PTL DEF Spec

\* Whoever runs, and with any number of checkout pages, an order's seats are released only
\* when the intent that its releaser knows can capture no more, and from then on that of the
\* released order stays as it is (cancel_ticket_order, expire_ticket_order, CheckoutCancel).
THEOREM ReleasedNeverCharged == Spec => ReleasedOrderCannotBeCharged
<1>1. IInv /\ Dealt /\ [Next]_vars =>
        [/\ \A p \in Proc :
              Release(p) /\ Order'.status # Order.status /\ Order.intent = Settled(p)
                => Dead(Order.intent)
         /\ Order.status \in {"cancelled", "expired"} =>
              Order'.intent = Order.intent /\ (Dead(Order.intent) => Dead(Order.intent)')]_vars
  <2>1. SUFFICES ASSUME IInv, Dealt, [Next]_vars
        PROVE  /\ \A p \in Proc : Release(p) /\ Order.intent = Settled(p) => Dead(Order.intent)
               /\ Order.status \in {"cancelled", "expired"} =>
                    Order'.intent = Order.intent /\ (Dead(Order.intent) => Dead(Order.intent)')
    OBVIOUS
  <2>2. ASSUME NEW p \in Proc, Release(p), Order.intent = Settled(p)
        PROVE  Dead(Order.intent)
    BY <2>1, <2>2 DEF Release, Dealt
  <2>3. ASSUME Order.status \in {"cancelled", "expired"}
        PROVE  Order'.intent = Order.intent /\ (Dead(Order.intent) => Dead(Order.intent)')
    <3>1. Order'.intent = Order.intent
      BY <2>1, <2>3, IntentStays
    <3>2. DeathIsFinal
      BY <2>1, DeadStays
    <3>3. QED BY <3>1, <3>2 DEF DeathIsFinal, Dead
  <2>4. QED BY <2>2, <2>3
<1>2. QED
  BY <1>1, Invariance, DealtInvariance, PTL DEF Spec, ReleasedOrderCannotBeCharged

\* Nor is an order given away before the intent that the confirmation knows can capture no
\* more (process_free_ticket_order).
THEOREM FreeNeverCharged == Spec => FreeOrderCannotBeCharged
<1>1. Dealt =>
        [\A p \in Proc :
           CompleteFree(p) /\ Order'.status = "completed" /\ Order.intent = seen[p].intent
             => Dead(Order.intent)]_vars
  BY DEF Dealt, CompleteFree
<1>2. QED BY <1>1, DealtInvariance, PTL DEF Spec, FreeOrderCannotBeCharged
=============================================================================

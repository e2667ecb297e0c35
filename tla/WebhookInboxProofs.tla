------------------------- MODULE WebhookInboxProofs -------------------------
(***************************************************************************)
(* Proofs about WebhookInbox for any number of events, deliveries and       *)
(* workers: a row is claimed by one process at a time, and a Stripe event   *)
(* is handled once.                                                         *)
(*                                                                          *)
(* The argument: a claim needs a pending row and leaves it in processing;   *)
(* while a Stripe event is being handled nothing else writes its row,       *)
(* because the only writer that does not hold the claim is the retry, and   *)
(* what the retry has listed as failed or stuck nobody else can move.  A    *)
(* QuickBooks row has no such guard: there the one job of the event, run by *)
(* one worker at a time, excludes a second claim.                           *)
(***************************************************************************)
EXTENDS WebhookInbox, TLAPS

-----------------------------------------------------------------------------
(* The inductive invariant. *)

\* Where a process can be, and on what.
Place(p) ==
    /\ p \in Workers =>
         /\ pc[p] \in {"idle", "lock", "flip", "bill", "settle", "refuse"}
         /\ pc[p] # "idle" => at[p] \in Bills /\ job[at[p]] = "executing"
    /\ p \notin Workers =>
         /\ pc[p] \notin {"bill", "settle", "refuse"}
         /\ pc[p] \in {"create", "check", "lock", "flip", "open", "handle", "fail"}
              => at[p] \in StripeEvents
    /\ pc[p] = "parse" => at[p] \in Events
    /\ p \notin {Retrier, Reconciler} => batch[p] = {}

Places == \A p \in Procs : Place(p)

\* One worker runs the job of a QuickBooks event.
OneRun ==
    \A p, q \in Workers :
        pc[p] # "idle" /\ pc[q] # "idle" /\ at[p] = at[q] => p = q

\* The row lock is held between the two halves of a claim, on a pending row.
Locked(e) == holder[e] # Nil =>
    pc[holder[e]] = "flip" /\ at[holder[e]] = e /\ row[e] = "pending"
Locks ==
    /\ \A e \in Events : Locked(e)
    /\ \A p \in Procs : pc[p] = "flip" => holder[at[p]] = p

\* While a Stripe event is handled its row says so, and it is not taken for stuck.
Claim(p) ==
    Working(p) /\ at[p] \in StripeEvents =>
        /\ row[at[p]] = "processing" /\ at[p] \notin stuck
        /\ pc[p] = "handle" => seen[p] = "processing"
Claims == \A p \in Procs : Claim(p)

OneClaim ==
    \A p, q \in Procs :
        /\ Working(p) /\ Working(q) /\ at[p] = at[q] /\ at[p] \in StripeEvents
        => p = q

StuckRows == \A e \in stuck : row[e] = "processing"

\* What the nightly workers have listed.  Of a Stripe event the retry's struct is
\* still true: a failed row is moved by nobody else, nor is a stuck one.
Listed ==
    /\ \A w \in batch[Reconciler] : w.event \in StripeEvents
    /\ \A w \in batch[Retrier] :
         /\ w.state \in {"pending", "failed", "processing"}
         /\ w.event \in StripeEvents /\ w.state = "failed" => row[w.event] = "failed"
         /\ w.event \in StripeEvents /\ w.state = "processing"
              => row[w.event] = "processing" /\ w.event \in stuck
         /\ \A v \in batch[Retrier] : v.event = w.event => v = w

\* A job that is still to start has an attempt left.
Attempts ==
    \A b \in Bills :
        /\ row[b] = "missing" => job[b] = "none"
        /\ job[b] \in {"none", "starting", "available"} => tries[b] < MaxAttempts

IInv ==
    /\ TypeOK
    /\ Places /\ OneRun /\ Attempts
    /\ Locks /\ Claims /\ OneClaim
    /\ StuckRows /\ Listed
    /\ HandledOnce

LEMMA IInvImplies == IInv => ClaimedByOne
<1>1. ASSUME IInv, NEW p \in Procs, NEW q \in Procs, Working(p), Working(q), at[p] = at[q]
      PROVE  p = q
  <2>1. CASE p \in Workers
    <3>1. at[p] \in Bills /\ pc[p] # "idle" /\ pc[q] # "idle"
      BY <1>1, <2>1 DEF IInv, Places, Place, Working
    <3>2. q \in Workers
      BY <1>1, <3>1, EventsAssumption DEF IInv, Places, Place, Working
    <3>3. QED
      BY <1>1, <2>1, <3>1, <3>2 DEF IInv, OneRun
  <2>2. CASE p \notin Workers
    BY <1>1, <2>2 DEF IInv, Places, Place, Working, OneClaim
  <2>3. QED
    BY <2>1, <2>2
<1>2. QED
  BY <1>1 DEF ClaimedByOne

LEMMA InitIInv == Init => IInv
<1>1. Init => TypeOK
  BY ProcsAssumption, BoundsAssumption, EventsAssumption
  DEF Init, TypeOK, State, Labels, JobState, MaxAttempts, Events
<1>2. Init => Places /\ OneRun /\ Attempts /\ Locks /\ Claims /\ OneClaim
  BY DEF Init, Places, Place, OneRun, Attempts, Locks, Locked, Claims, Claim, OneClaim,
         Working, Procs, MaxAttempts, Events
<1>3. Init => StuckRows /\ Listed /\ HandledOnce
  BY DEF Init, StuckRows, Listed, HandledOnce, Procs, Events
<1>4. QED
  BY <1>1, <1>2, <1>3 DEF IInv

-----------------------------------------------------------------------------
(* Steps of one process. *)

\* Only p moves.
Alone(p) ==
    \A q \in Procs \ {p} :
        pc'[q] = pc[q] /\ at'[q] = at[q] /\ seen'[q] = seen[q] /\ batch'[q] = batch[q]

\* What the other processes rely on is left to them.
Spares(p) ==
    \A q \in Procs \ {p} :
        /\ Working(q) /\ at[q] \in StripeEvents
             => row'[at[q]] = row[at[q]] /\ at[q] \notin stuck'
        /\ q \in Workers /\ pc[q] # "idle" => job'[at[q]] = job[at[q]]

\* A claim or a run that p begins is its own.
Begins(p) ==
    /\ Working(p)' /\ at'[p] \in StripeEvents
         => \A q \in Procs \ {p} : ~(Working(q) /\ at[q] = at'[p])
    /\ p \in Workers /\ pc'[p] # "idle"
         => \A q \in Workers \ {p} : pc[q] # "idle" => at[q] # at'[p]

LEMMA Move ==
    ASSUME IInv, NEW p \in Procs, Alone(p), Spares(p), Begins(p), Place(p)', Claim(p)'
    PROVE  Places' /\ OneRun' /\ Claims' /\ OneClaim'
<1>1. ASSUME NEW q \in Procs \ {p}
      PROVE  Place(q)' /\ Claim(q)' /\ (Working(q)' <=> Working(q))
  BY <1>1 DEF IInv, Places, Claims, Alone, Spares, Place, Claim, Working
<1>2. Places' /\ Claims'
  BY <1>1 DEF Places, Claims
<1>3. Workers \subseteq Procs
  BY DEF Procs
<1>4. OneRun'
  BY <1>3 DEF IInv, OneRun, Alone, Begins
<1>5. OneClaim'
  BY <1>1 DEF IInv, OneClaim, Alone, Begins
<1>6. QED
  BY <1>2, <1>4, <1>5

\* A step that goes on with the same event, outside the row lock, without writing.
LEMMA Quiet ==
    ASSUME IInv, NEW p \in Procs, Alone(p), UNCHANGED <<rows, jobs>>,
           UNCHANGED <<handled, missed>>, batch' = batch, pc[p] # "flip", pc'[p] # "flip"
    PROVE  Locks' /\ StuckRows' /\ Listed' /\ HandledOnce' /\ Attempts' /\ Spares(p)
<1>1. Locks'
  BY DEF IInv, Locks, Locked, Alone, rows, TypeOK
<1>2. StuckRows' /\ Listed' /\ HandledOnce' /\ Attempts'
  BY DEF IInv, StuckRows, Listed, HandledOnce, Attempts, rows, jobs
<1>3. Spares(p)
  BY DEF IInv, Spares, Claims, Claim, rows, jobs
<1>4. QED
  BY <1>1, <1>2, <1>3

LEMMA ReceiveStep ==
    ASSUME IInv, NEW p \in Procs, NEW e \in StripeEvents, Receive(p, e)
    PROVE  IInv'
<1>1. TypeOK'
  BY DEF Receive, Take, rows, clocks, jobs, counts, IInv, TypeOK, Labels, Events
<1>2. Alone(p) /\ UNCHANGED <<rows, jobs>> /\ UNCHANGED <<handled, missed>> /\ batch' = batch
  BY DEF Receive, Take, Alone, rows, clocks, jobs, counts, IInv, TypeOK
<1>3. pc[p] # "flip" /\ pc'[p] = "create" /\ at'[p] = e /\ p \notin Workers
  BY ProcsAssumption DEF Receive, Take, IInv, TypeOK
<1>4. Place(p)' /\ Claim(p)' /\ Begins(p)
  BY <1>2, <1>3 DEF Place, Claim, Begins, Working, IInv, Places
<1>5. QED
  BY <1>1, <1>2, <1>3, <1>4, Move, Quiet DEF IInv

LEMMA CheckStep ==
    ASSUME IInv, NEW p \in Procs, CheckDuplicate(p)
    PROVE  IInv'
<1>1. TypeOK'
  BY DEF CheckDuplicate, Go, Done, rows, clocks, jobs, counts, IInv, TypeOK, Labels
<1>2. Alone(p) /\ UNCHANGED <<rows, jobs>> /\ UNCHANGED <<handled, missed>> /\ batch' = batch
  BY DEF CheckDuplicate, Go, Done, Alone, rows, clocks, jobs, counts, IInv, TypeOK
<1>3. /\ pc[p] = "check" /\ p \notin Workers
      /\ pc'[p] \in {"lock", "idle", "next"}
      /\ pc'[p] = "lock" => at'[p] = at[p]
  BY DEF CheckDuplicate, Go, Done, IInv, TypeOK, Places, Place
<1>4. Place(p)' /\ Claim(p)' /\ Begins(p)
  BY <1>2, <1>3 DEF Place, Claim, Begins, Working, IInv, Places
<1>5. QED
  BY <1>1, <1>2, <1>3, <1>4, Move, Quiet DEF IInv

LEMMA OpenStep ==
    ASSUME IInv, NEW p \in Procs, Open(p)
    PROVE  IInv'
<1>1. at[p] \in StripeEvents /\ p \notin Workers /\ Working(p)
  BY DEF Open, Working, IInv, Places, Place
<1>2. row[at[p]] = "processing" /\ at[p] \notin stuck
  BY <1>1 DEF IInv, Claims, Claim
<1>3. TypeOK'
  BY <1>1, <1>2
  DEF Open, Go, See, rows, clocks, jobs, counts, IInv, TypeOK, Labels, State
<1>4. /\ Alone(p) /\ UNCHANGED <<rows, jobs>> /\ UNCHANGED <<handled, missed>> /\ batch' = batch
      /\ pc'[p] = "handle" /\ at'[p] = at[p] /\ seen'[p] = "processing" /\ pc[p] = "open"
  BY <1>2 DEF Open, Go, See, Alone, rows, clocks, jobs, counts, IInv, TypeOK
<1>5. Place(p)' /\ Claim(p)' /\ Begins(p)
  BY <1>1, <1>2, <1>4 DEF Place, Claim, Begins, Working, IInv, Places, rows, OneClaim
<1>6. QED
  BY <1>3, <1>4, <1>5, Move, Quiet DEF IInv

LEMMA RaiseStep ==
    ASSUME IInv, NEW p \in Procs, HandlerRaises(p)
    PROVE  IInv'
<1>1. at[p] \in StripeEvents /\ p \notin Workers /\ Working(p)
  BY DEF HandlerRaises, Working, IInv, Places, Place
<1>2. TypeOK'
  BY BoundsAssumption
  DEF HandlerRaises, Go, rows, clocks, jobs, IInv, TypeOK, Labels
<1>3. /\ Alone(p) /\ UNCHANGED <<rows, jobs>> /\ UNCHANGED <<handled, missed>> /\ batch' = batch
      /\ pc'[p] = "fail" /\ at'[p] = at[p] /\ pc[p] = "handle"
  BY DEF HandlerRaises, Go, Alone, rows, clocks, jobs, IInv, TypeOK
<1>4. Place(p)' /\ Claim(p)' /\ Begins(p)
  BY <1>1, <1>3 DEF Place, Claim, Claims, Begins, Working, IInv, Places, rows, OneClaim
<1>5. QED
  BY <1>2, <1>3, <1>4, Move, Quiet DEF IInv

\* An event is stored by whoever is first; the rest take their own way.
LEMMA CreateStep ==
    ASSUME IInv, NEW p \in Procs, Create(p)
    PROVE  IInv'
<1>1. /\ at[p] \in StripeEvents /\ at[p] \in Events /\ p \notin Workers
      /\ pc[p] = "create" /\ at[p] \notin Bills
  BY EventsAssumption DEF Create, IInv, Places, Place, Events
<1>2. TypeOK'
  BY <1>1 DEF Create, Go, clocks, jobs, counts, IInv, TypeOK, Labels, State
<1>3. /\ Alone(p) /\ UNCHANGED <<jobs, stuck, holder, handled, missed, batch, seen>>
      /\ pc'[p] \in {"lock", "check"} /\ at'[p] = at[p]
      /\ row' = row \/ (row[at[p]] = "missing" /\ row' = [row EXCEPT ![at[p]] = "pending"])
  BY DEF Create, Go, Alone, clocks, jobs, counts, IInv, TypeOK
<1>4. Place(p)' /\ Claim(p)' /\ Begins(p)
  BY <1>1, <1>3 DEF Place, Claim, Begins, Working, IInv, Places
<1>5. \A e \in Events : row'[e] = row[e] \/ (row[e] = "missing" /\ row'[e] = "pending")
  BY <1>1, <1>3 DEF IInv, TypeOK
<1>6. Spares(p)
  BY <1>3, <1>5 DEF IInv, Spares, Claims, Claim, Events, jobs
<1>7. Locks'
  BY <1>1, <1>3, <1>5 DEF IInv, Locks, Locked, Alone, TypeOK
<1>8. StuckRows' /\ Listed' /\ HandledOnce'
  BY <1>3, <1>5 DEF IInv, StuckRows, Listed, HandledOnce, TypeOK, Events, Struct
<1>9. Attempts'
  BY <1>1, <1>3 DEF IInv, Attempts, jobs, TypeOK, Events
<1>10. QED
  BY <1>2, <1>3, <1>4, <1>6, <1>7, <1>8, <1>9, Move DEF IInv

\* What the lock leads to: the row lock, or the end of this visit (and of the job).
LEMMA LockStep ==
    ASSUME IInv, NEW p \in Procs, Lock(p)
    PROVE  IInv'
<1>1. /\ pc[p] = "lock" /\ at[p] \in Events
      /\ p \in Workers => at[p] \in Bills /\ job[at[p]] = "executing"
  BY DEF Lock, IInv, Places, Place, Events
<1>2. CASE row[at[p]] = "pending" /\ holder[at[p]] = Nil
  <2>1. /\ holder' = [holder EXCEPT ![at[p]] = p] /\ UNCHANGED <<row, stuck, jobs, seen, batch>>
        /\ pc' = [pc EXCEPT ![p] = "flip"] /\ UNCHANGED at /\ UNCHANGED <<handled, missed>>
    BY <1>2 DEF Lock, Go, counts
  <2>2. TypeOK'
    BY <1>1, <1>2 DEF Lock, Go, clocks, jobs, counts, IInv, TypeOK, Labels
  <2>3. Alone(p) /\ pc'[p] = "flip" /\ at'[p] = at[p]
    BY <2>1 DEF Alone, IInv, TypeOK
  <2>4. Place(p)' /\ Claim(p)' /\ Begins(p)
    BY <1>1, <2>1, <2>3 DEF Place, Claim, Begins, Working, IInv, Places, OneRun, jobs
  <2>5. Spares(p)
    BY <2>1 DEF IInv, Spares, Claims, Claim, jobs
  <2>6. ASSUME NEW e \in Events PROVE Locked(e)'
    <3>1. CASE e = at[p]
      BY <1>2, <2>1, <2>3, <3>1 DEF Locked, IInv, TypeOK
    <3>2. CASE e # at[p]
      <4>1. holder'[e] = holder[e] /\ row'[e] = row[e]
        BY <1>1, <2>1, <3>2 DEF IInv, TypeOK
      <4>2. holder[e] # Nil => holder[e] \in Procs \ {p}
        BY <1>1 DEF IInv, TypeOK, Locks, Locked
      <4>3. QED
        BY <2>3, <4>1, <4>2 DEF Locked, Locks, IInv, Alone
    <3>3. QED
      BY <3>1, <3>2
  <2>7. ASSUME NEW q \in Procs, pc'[q] = "flip" PROVE holder'[at'[q]] = q
    <3>1. CASE q = p
      BY <1>1, <2>1, <2>3, <3>1 DEF IInv, TypeOK
    <3>2. CASE q # p
      <4>1. pc[q] = "flip" /\ at'[q] = at[q] /\ holder[at[q]] = q
        BY <2>3, <2>7, <3>2 DEF Alone, IInv, Locks
      <4>2. at[q] # at[p]
        BY <1>2, <4>1, ProcsAssumption
      <4>3. QED
        BY <1>1, <2>1, <4>1, <4>2 DEF IInv, TypeOK
    <3>3. QED
      BY <3>1, <3>2
  <2>8. StuckRows' /\ Listed' /\ HandledOnce' /\ Attempts'
    BY <2>1 DEF IInv, StuckRows, Listed, HandledOnce, Attempts, jobs
  <2>9. Locks'
    BY <2>6, <2>7 DEF Locks
  <2>10. QED
    BY <2>2, <2>3, <2>4, <2>5, <2>8, <2>9, Move DEF IInv
<1>3. CASE ~(row[at[p]] = "pending" /\ holder[at[p]] = Nil)
  <2>1. Finish(p) /\ Ends(p, "completed") /\ UNCHANGED rows /\ UNCHANGED <<handled, missed>>
    BY <1>3 DEF Lock, counts
  <2>2. TypeOK'
    BY <1>1, <1>3, <2>1
    DEF Lock, Finish, Done, Ends, rows, clocks, jobs, counts, IInv, TypeOK, Labels, State,
        JobState
  <2>3. /\ Alone(p) /\ pc'[p] \in {"idle", "next"} /\ batch' = batch
        /\ batch[p] = {} => pc'[p] = "idle"
    BY <2>1 DEF Finish, Done, Alone, IInv, TypeOK
  <2>4. Place(p)' /\ Claim(p)' /\ Begins(p)
    BY <2>3, ProcsAssumption DEF Place, Claim, Begins, Working, IInv, Places
  <2>5. /\ p \notin Workers => UNCHANGED jobs
        /\ p \in Workers => job' = [job EXCEPT ![at[p]] = "completed"] /\ UNCHANGED tries
    BY <2>1 DEF Ends
  <2>6. Spares(p)
    BY <1>1, <2>1, <2>5
    DEF IInv, Spares, Claims, Claim, rows, jobs, Places, Place, OneRun, TypeOK
  <2>7. Locks'
    BY <1>1, <2>1, <2>3 DEF IInv, Locks, Locked, Alone, rows, TypeOK
  <2>8. StuckRows' /\ Listed' /\ HandledOnce'
    BY <2>1, <2>3 DEF IInv, StuckRows, Listed, HandledOnce, rows
  <2>9. Attempts'
    BY <1>1, <2>1, <2>5 DEF IInv, Attempts, rows, jobs, TypeOK
  <2>10. QED
    BY <2>2, <2>3, <2>4, <2>6, <2>7, <2>8, <2>9, Move DEF IInv
<1>4. QED
  BY <1>2, <1>3

\* The claim: only one process holds the row's lock, and nobody works on a row that
\* is pending.
LEMMA FlipStep ==
    ASSUME IInv, NEW p \in Procs, Flip(p)
    PROVE  IInv'
<1>1. /\ pc[p] = "flip" /\ at[p] \in Events
      /\ p \in Workers => at[p] \in Bills /\ job[at[p]] = "executing"
      /\ p \notin Workers => at[p] \in StripeEvents
  BY DEF Flip, IInv, Places, Place, Events
<1>2. holder[at[p]] = p /\ row[at[p]] = "pending"
  BY <1>1, ProcsAssumption DEF IInv, Locks, Locked
<1>3. /\ row' = [row EXCEPT ![at[p]] = "processing"] /\ stuck' = stuck \ {at[p]}
      /\ holder' = [holder EXCEPT ![at[p]] = Nil]
      /\ UNCHANGED <<jobs, batch, at, handled, missed>>
      /\ Alone(p) /\ pc'[p] = IF p \in Workers THEN "bill" ELSE "open"
      /\ at'[p] = at[p]
  BY DEF Flip, Go, See, counts, Alone, IInv, TypeOK
<1>4. TypeOK'
  BY <1>1 DEF Flip, Go, See, clocks, jobs, counts, IInv, TypeOK, Labels, State
<1>5. \A q \in Procs : Working(q) /\ at[q] \in StripeEvents => at[q] # at[p]
  BY <1>2 DEF IInv, Claims, Claim
<1>6. Place(p)' /\ Claim(p)' /\ Begins(p)
  BY <1>1, <1>3, <1>5, EventsAssumption
  DEF Place, Claim, Begins, Working, IInv, Places, OneRun, jobs, TypeOK
<1>7. Spares(p)
  BY <1>1, <1>3, <1>5 DEF IInv, Spares, Claims, Claim, jobs, TypeOK, Events
<1>8. Locks'
  BY <1>1, <1>2, <1>3 DEF IInv, Locks, Locked, Alone, TypeOK
<1>9. StuckRows' /\ Listed' /\ HandledOnce'
  BY <1>2, <1>3 DEF IInv, StuckRows, Listed, HandledOnce, TypeOK, Events, Struct
<1>10. Attempts'
  BY <1>2, <1>3 DEF IInv, Attempts, jobs, TypeOK, Events
<1>11. QED
  BY <1>3, <1>4, <1>6, <1>7, <1>8, <1>9, <1>10, Move DEF IInv

-----------------------------------------------------------------------------
(* The end of a claim on a Stripe event. *)

\* A process that has handled e, or failed to, writes the row and goes.
LEMMA Release ==
    ASSUME IInv, NEW p \in Procs, Working(p), NEW e \in StripeEvents, at[p] = e,
           NEW s \in {"processed", "failed"}, Write(e, "processing", s), Finish(p),
           UNCHANGED jobs, TypeOK',
           \/ s = "processed" /\ handled' = [handled EXCEPT ![e] = @ + 1] /\ missed' = missed
           \/ s = "processed" /\ e \in StructOnly /\ handled' = handled /\ missed' = missed \cup {e}
           \/ s = "failed" /\ UNCHANGED <<handled, missed>>
    PROVE  IInv'
<1>1. p \notin Workers /\ row[e] = "processing" /\ e \notin stuck /\ e \in Events
  BY EventsAssumption DEF IInv, Places, Place, Claims, Claim, Working, Events
<1>2. row' = [row EXCEPT ![e] = s] /\ stuck' = stuck \ {e} /\ UNCHANGED holder
  BY DEF Write
<1>3. /\ Alone(p) /\ pc'[p] \in {"idle", "next"} /\ batch' = batch
      /\ batch[p] = {} => pc'[p] = "idle"
  BY DEF Finish, Done, Alone, IInv, TypeOK
<1>4. Place(p)' /\ Claim(p)' /\ Begins(p)
  BY <1>1, <1>3 DEF Place, Claim, Begins, Working, IInv, Places
<1>5. \A q \in Procs \ {p} : Working(q) => at[q] # e
  BY DEF IInv, OneClaim
<1>6. Spares(p)
  BY <1>1, <1>2, <1>5 DEF IInv, Spares, Claims, Claim, jobs, TypeOK, Events
<1>7. Locks'
  BY <1>1, <1>2, <1>3 DEF IInv, Locks, Locked, Alone, TypeOK, Working
<1>8. StuckRows' /\ Listed'
  BY <1>1, <1>2, <1>3 DEF IInv, StuckRows, Listed, TypeOK, Struct
<1>9. HandledOnce'
  BY <1>1, <1>2 DEF IInv, HandledOnce, TypeOK, Events
<1>10. Attempts'
  BY <1>1, <1>2, EventsAssumption DEF IInv, Attempts, jobs, TypeOK, Events
<1>11. QED
  BY <1>3, <1>4, <1>6, <1>7, <1>8, <1>9, <1>10, Move DEF IInv

LEMMA HandleStep ==
    ASSUME IInv, NEW p \in Procs, Handle(p)
    PROVE  IInv'
<1>1. /\ at[p] \in StripeEvents /\ at[p] \in Events /\ Working(p)
      /\ seen[p] = "processing" /\ row[at[p]] = "processing"
  BY DEF Handle, Working, IInv, Places, Place, Claims, Claim, Events
<1>2. /\ Write(at[p], "processing", "processed") /\ Finish(p) /\ UNCHANGED jobs
      /\ UNCHANGED <<clocks, failures, faults>>
      /\ \/ handled' = [handled EXCEPT ![at[p]] = @ + 1] /\ missed' = missed
         \/ at[p] \in StructOnly /\ handled' = handled /\ missed' = missed \cup {at[p]}
  <2>1. /\ handled' = [handled EXCEPT ![at[p]] = IF Unmatched(p) THEN @ ELSE @ + 1]
        /\ missed' = IF Unmatched(p) THEN missed \cup {at[p]} ELSE missed
    BY DEF Handle
  <2>2. handled = [handled EXCEPT ![at[p]] = @]
    BY <1>1 DEF IInv, TypeOK
  <2>3. QED
    BY <1>1, <2>1, <2>2 DEF Handle, Unmatched
<1>3. TypeOK'
  <2>1. handled' \in [Events -> Nat] /\ missed' \subseteq StripeEvents
    BY <1>1, <1>2 DEF IInv, TypeOK
  <2>2. row' = [row EXCEPT ![at[p]] = "processed"] /\ stuck' = stuck \ {at[p]} /\ UNCHANGED holder
    BY <1>2 DEF Write
  <2>3. QED
    BY <1>1, <1>2, <2>1, <2>2 DEF Finish, Done, clocks, jobs, IInv, TypeOK, Labels, State
<1>4. QED
  BY <1>1, <1>2, <1>3, Release

LEMMA FailStep ==
    ASSUME IInv, NEW p \in Procs, MarkFailed(p)
    PROVE  IInv'
<1>1. /\ at[p] \in StripeEvents /\ at[p] \in Events /\ Working(p)
      /\ row[at[p]] = "processing"
  BY DEF MarkFailed, Working, IInv, Places, Place, Claims, Claim, Events
<1>2. TypeOK'
  BY <1>1
  DEF MarkFailed, Write, Finish, Done, rows, clocks, jobs, counts, IInv, TypeOK, Labels,
      State
<1>3. Write(at[p], "processing", "failed") /\ Finish(p) /\ UNCHANGED jobs
      /\ UNCHANGED <<handled, missed>>
  BY <1>1 DEF MarkFailed, counts
<1>4. QED
  BY <1>1, <1>2, <1>3, Release

-----------------------------------------------------------------------------
(* The nightly workers. *)

LEMMA ListStripeStep ==
    ASSUME IInv, ListStripe
    PROVE  IInv'
<1> DEFINE listed == {[event |-> e, state |-> "missing"] : e \in
                        {e \in StripeEvents : sent[e] # "gone"}}
<1>1. Reconciler \in Procs /\ Reconciler \notin Workers /\ Retrier # Reconciler
  BY ProcsAssumption DEF Procs
<1>2. /\ batch' = [batch EXCEPT ![Reconciler] = listed]
      /\ pc' = [pc EXCEPT ![Reconciler] = "next"] /\ pc[Reconciler] = "idle"
      /\ UNCHANGED <<row, stuck, holder, sent, kept, job, tries, at, seen, handled, missed,
                     failures, faults>>
  BY DEF ListStripe, rows, clocks, jobs, counts
<1>3. listed \in SUBSET Struct
  BY DEF Struct, Events, State
<1>4. TypeOK'
  BY <1>1, <1>2, <1>3 DEF IInv, TypeOK, Labels
<1>5. Alone(Reconciler) /\ pc'[Reconciler] = "next" /\ batch'[Retrier] = batch[Retrier]
  BY <1>1, <1>2 DEF Alone, IInv, TypeOK, Procs
<1>6. Place(Reconciler)' /\ Claim(Reconciler)' /\ Begins(Reconciler) /\ Spares(Reconciler)
  BY <1>1, <1>2, <1>5 DEF Place, Claim, Claims, Begins, Spares, Working, IInv
<1>7. Locks'
  BY <1>2, <1>5 DEF IInv, Locks, Locked, Alone, TypeOK
<1>8. \A w \in listed : w.event \in StripeEvents
  OBVIOUS
<1>9. batch'[Reconciler] = listed
  BY <1>1, <1>2 DEF IInv, TypeOK
<1>10. Listed'
  BY <1>2, <1>5, <1>8, <1>9 DEF IInv, Listed
<1>11. StuckRows' /\ HandledOnce' /\ Attempts'
  BY <1>2 DEF IInv, StuckRows, HandledOnce, Attempts
<1>12. QED
  BY <1>1, <1>4, <1>5, <1>6, <1>7, <1>10, <1>11, Move DEF IInv

LEMMA ReconcileStep ==
    ASSUME IInv, NEW w \in batch[Reconciler], Reconcile(w)
    PROVE  IInv'
<1> DEFINE rest == batch[Reconciler] \ {w}
<1>1. /\ Reconciler \in Procs /\ Reconciler \notin Workers /\ Retrier # Reconciler
      /\ Retrier \in Procs
  BY ProcsAssumption DEF Procs
<1>2. w.event \in StripeEvents /\ w.event \in Events
  BY DEF IInv, Listed, Events
<1>3. /\ batch' = [batch EXCEPT ![Reconciler] = rest] /\ pc[Reconciler] = "next"
      /\ UNCHANGED <<row, stuck, holder, sent, kept, job, tries, seen, handled, missed,
                     failures, faults>>
      /\ \/ /\ pc' = [pc EXCEPT ![Reconciler] = "create"]
            /\ at' = [at EXCEPT ![Reconciler] = w.event]
         \/ /\ pc' = [pc EXCEPT ![Reconciler] = IF rest = {} THEN "idle" ELSE "next"]
            /\ UNCHANGED at
  BY DEF Reconcile, Take, rows, clocks, jobs, counts
<1>4. rest \in SUBSET Struct
  BY <1>1 DEF IInv, TypeOK
<1>5. TypeOK'
  BY <1>1, <1>2, <1>3, <1>4 DEF IInv, TypeOK, Labels
<1>6. /\ Alone(Reconciler) /\ pc'[Reconciler] \in {"create", "idle", "next"}
      /\ pc'[Reconciler] = "create" => at'[Reconciler] = w.event
      /\ batch'[Retrier] = batch[Retrier] /\ batch'[Reconciler] = rest
  BY <1>1, <1>3 DEF Alone, IInv, TypeOK
<1>7. Place(Reconciler)' /\ Claim(Reconciler)' /\ Begins(Reconciler) /\ Spares(Reconciler)
  BY <1>1, <1>2, <1>3, <1>6 DEF Place, Claim, Claims, Begins, Spares, Working, IInv
<1>8. Locks'
  BY <1>3, <1>6 DEF IInv, Locks, Locked, Alone, TypeOK
<1>9. Listed'
  BY <1>3, <1>6 DEF IInv, Listed
<1>10. StuckRows' /\ HandledOnce' /\ Attempts'
  BY <1>3 DEF IInv, StuckRows, HandledOnce, Attempts
<1>11. QED
  BY <1>1, <1>5, <1>6, <1>7, <1>8, <1>9, <1>10, Move DEF IInv

\* The structs are true when they are read.
LEMMA ListRetriesStep ==
    ASSUME IInv, ListRetries
    PROVE  IInv'
<1> DEFINE listed == {[event |-> e, state |-> row[e]] : e \in ToRetry}
<1>1. Retrier \in Procs /\ Retrier \notin Workers /\ Retrier # Reconciler
  BY ProcsAssumption DEF Procs
<1>2. /\ batch' = [batch EXCEPT ![Retrier] = listed]
      /\ pc' = [pc EXCEPT ![Retrier] = "next"] /\ pc[Retrier] = "idle"
      /\ UNCHANGED <<row, stuck, holder, sent, kept, job, tries, at, seen, handled, missed,
                     failures, faults>>
  BY DEF ListRetries, rows, clocks, jobs, counts
<1>3. listed \in SUBSET Struct
  BY DEF Struct, ToRetry, IInv, TypeOK
<1>4. TypeOK'
  BY <1>1, <1>2, <1>3 DEF IInv, TypeOK, Labels
<1>5. /\ Alone(Retrier) /\ pc'[Retrier] = "next" /\ batch'[Retrier] = listed
      /\ batch'[Reconciler] = batch[Reconciler]
  BY <1>1, <1>2 DEF Alone, IInv, TypeOK, Procs
<1>6. Place(Retrier)' /\ Claim(Retrier)' /\ Begins(Retrier) /\ Spares(Retrier)
  BY <1>1, <1>2, <1>5 DEF Place, Claim, Claims, Begins, Spares, Working, IInv
<1>7. Locks'
  BY <1>2, <1>5 DEF IInv, Locks, Locked, Alone, TypeOK
<1>8. \A w \in listed :
         /\ w.state = row[w.event] /\ w = [event |-> w.event, state |-> row[w.event]]
         /\ w.state \in {"pending", "failed", "processing"}
         /\ w.state = "processing" => w.event \in stuck
  BY DEF ToRetry
<1>9. Listed'
  BY <1>2, <1>5, <1>8 DEF IInv, Listed
<1>10. StuckRows' /\ HandledOnce' /\ Attempts'
  BY <1>2 DEF IInv, StuckRows, HandledOnce, Attempts
<1>11. QED
  BY <1>1, <1>4, <1>5, <1>6, <1>7, <1>9, <1>10, Move DEF IInv

\* A reset writes a Stripe row only where the struct is still true, so nobody works
\* on it.
LEMMA RetryStep ==
    ASSUME IInv, NEW w \in batch[Retrier], Retry(w)
    PROVE  IInv'
<1> DEFINE rest == batch[Retrier] \ {w}
           e == w.event
<1>1. /\ Retrier \in Procs /\ Retrier \notin Workers /\ Retrier # Reconciler
      /\ Reconciler \in Procs
  BY ProcsAssumption DEF Procs
<1>2. w \in Struct /\ e \in Events /\ w.state \in {"pending", "failed", "processing"}
  BY <1>1 DEF IInv, Listed, TypeOK, Struct
<1>3. /\ batch' = [batch EXCEPT ![Retrier] = rest] /\ pc[Retrier] = "next"
      /\ pc' = [pc EXCEPT ![Retrier] = "parse"] /\ at' = [at EXCEPT ![Retrier] = e]
      /\ seen' = [seen EXCEPT ![Retrier] = "pending"]
      /\ UNCHANGED <<holder, sent, kept, job, tries, handled, missed, failures, faults>>
      /\ \/ UNCHANGED <<row, stuck>>
         \/ /\ w.state # "pending" /\ holder[e] = Nil
            /\ row' = [row EXCEPT ![e] = "pending"] /\ stuck' = stuck \ {e}
  BY DEF Retry, Take, See, Write, rows, clocks, jobs, counts
<1>4. rest \in SUBSET Struct
  BY <1>1 DEF IInv, TypeOK
<1>5. TypeOK'
  BY <1>1, <1>2, <1>3, <1>4 DEF IInv, TypeOK, Labels, State
<1>6. /\ Alone(Retrier) /\ pc'[Retrier] = "parse" /\ at'[Retrier] = e
      /\ batch'[Reconciler] = batch[Reconciler] /\ batch'[Retrier] = rest
  BY <1>1, <1>3 DEF Alone, IInv, TypeOK
<1>7. /\ Place(Retrier)' /\ Claim(Retrier)' /\ Begins(Retrier)
  BY <1>1, <1>2, <1>6 DEF Place, Claim, Begins, Working
<1>8. ASSUME row' # row
      PROVE  /\ row' = [row EXCEPT ![e] = "pending"] /\ stuck' = stuck \ {e}
             /\ holder[e] = Nil
             /\ e \in StripeEvents => row[e] = w.state /\ row[e] \in {"failed", "processing"}
                                      /\ (w.state = "processing" => e \in stuck)
  BY <1>2, <1>3, <1>8 DEF IInv, Listed
<1>9. \A q \in Procs : Working(q) /\ at[q] \in StripeEvents /\ row' # row => at[q] # e
  BY <1>8 DEF IInv, Claims, Claim
<1>10. stuck' \subseteq stuck
  BY <1>3
<1>11. Spares(Retrier)
  BY <1>3, <1>8, <1>9, <1>10 DEF IInv, Spares, Claims, Claim, TypeOK, Events
<1>12. Locks'
  BY <1>2, <1>3, <1>6, <1>8 DEF IInv, Locks, Locked, Alone, TypeOK
<1>13. StuckRows'
  BY <1>3, <1>8 DEF IInv, StuckRows, TypeOK
<1>14. \A v \in rest : v.event # e
  BY DEF IInv, Listed
<1>15. Listed'
  BY <1>2, <1>3, <1>6, <1>8, <1>14 DEF IInv, Listed, TypeOK, Events
<1>16. HandledOnce'
  BY <1>2, <1>3, <1>8 DEF IInv, HandledOnce, TypeOK, Events
<1>17. Attempts'
  <2>1. ASSUME NEW b \in Bills, row'[b] = "missing" PROVE row[b] = "missing"
    BY <1>2, <1>3, <2>1 DEF IInv, TypeOK, Events
  <2>2. QED
    BY <1>3, <2>1 DEF IInv, Attempts
<1>18. QED
  BY <1>1, <1>5, <1>6, <1>7, <1>11, <1>12, <1>13, <1>15, <1>16, <1>17, Move DEF IInv

LEMMA ParseStep ==
    ASSUME IInv, Parse
    PROVE  IInv'
<1> DEFINE e == at[Retrier]
<1>1. /\ Retrier \in Procs /\ Retrier \notin Workers /\ Retrier # Reconciler
      /\ pc[Retrier] = "parse" /\ e \in Events
  BY ProcsAssumption DEF Procs, Parse, IInv, Places, Place
<1>2. CASE e \in StripeEvents
  <2>1. /\ pc' = [pc EXCEPT ![Retrier] = "create"]
        /\ UNCHANGED <<row, stuck, holder, sent, kept, job, tries, at, seen, batch, handled, missed,
                       failures, faults>>
    BY <1>2 DEF Parse, Go, rows, clocks, jobs, counts
  <2>2. TypeOK'
    BY <2>1 DEF IInv, TypeOK, Labels
  <2>3. Alone(Retrier) /\ pc'[Retrier] = "create" /\ UNCHANGED <<rows, jobs>>
    BY <1>1, <2>1 DEF Alone, IInv, TypeOK, rows, jobs
  <2>4. Place(Retrier)' /\ Claim(Retrier)' /\ Begins(Retrier)
    BY <1>1, <1>2, <2>1, <2>3 DEF Place, Claim, Begins, Working
  <2>5. QED
    BY <1>1, <2>1, <2>2, <2>3, <2>4, Move, Quiet DEF IInv
<1>3. CASE e \notin StripeEvents
  <2>1. e \in Bills
    BY <1>1, <1>3 DEF Events
  <2>2. /\ Finish(Retrier) /\ UNCHANGED <<sent, kept, job, tries, handled, missed, failures, faults>>
        /\ UNCHANGED holder
        /\ \/ UNCHANGED <<row, stuck>>
           \/ /\ holder[e] = Nil
              /\ row' = [row EXCEPT ![e] = "failed"] /\ stuck' = stuck \ {e}
    BY <1>3 DEF Parse, Write, rows, clocks, jobs, counts
  <2>3. TypeOK'
    BY <1>1, <2>2 DEF Finish, Done, IInv, TypeOK, Labels, State
  <2>4. /\ Alone(Retrier) /\ pc'[Retrier] \in {"idle", "next"} /\ batch' = batch
    BY <1>1, <2>2 DEF Finish, Done, Alone, IInv, TypeOK
  <2>5. Place(Retrier)' /\ Claim(Retrier)' /\ Begins(Retrier)
    BY <1>1, <2>4 DEF Place, Claim, Begins, Working
  <2>6. Spares(Retrier)
    BY <1>3, <2>2 DEF IInv, Spares, Claims, Claim, TypeOK, Events
  <2>7. Locks'
    BY <1>1, <2>2, <2>4 DEF IInv, Locks, Locked, Alone, TypeOK
  <2>8. StuckRows' /\ Listed' /\ HandledOnce'
    BY <1>1, <1>3, <2>2, <2>4 DEF IInv, StuckRows, Listed, HandledOnce, TypeOK, Struct, Events
  <2>9. Attempts'
    BY <1>1, <2>2 DEF IInv, Attempts, TypeOK, Events
  <2>10. QED
    BY <1>1, <2>3, <2>4, <2>5, <2>6, <2>7, <2>8, <2>9, Move DEF IInv
<1>4. QED
  BY <1>2, <1>3

-----------------------------------------------------------------------------
(* The QuickBooks job. *)

LEMMA AttemptStep ==
    ASSUME IInv, NEW p \in Procs, NEW b \in Bills, Attempt(p, b)
    PROVE  IInv'
<1>1. /\ p \in Workers /\ pc[p] = "idle" /\ job[b] = "available" /\ b \in Events
      /\ b \notin StripeEvents
  BY EventsAssumption DEF Attempt, Events
<1>2. tries[b] < MaxAttempts /\ row[b] # "missing"
  BY <1>1 DEF IInv, Attempts
<1>3. /\ job' = [job EXCEPT ![b] = "executing"] /\ tries' = [tries EXCEPT ![b] = @ + 1]
      /\ pc' = [pc EXCEPT ![p] = "lock"] /\ at' = [at EXCEPT ![p] = b]
      /\ UNCHANGED <<row, stuck, holder, sent, kept, seen, batch, handled, missed, failures, faults>>
  BY DEF Attempt, Take, rows, clocks, counts
<1>4. tries[b] + 1 \in 0..MaxAttempts
  BY <1>2 DEF IInv, TypeOK, MaxAttempts
<1>5. TypeOK'
  BY <1>1, <1>3, <1>4 DEF IInv, TypeOK, Labels, JobState
<1>6. Alone(p) /\ pc'[p] = "lock" /\ at'[p] = b /\ job'[b] = "executing"
  BY <1>1, <1>3 DEF Alone, IInv, TypeOK
<1>7. \A q \in Workers : pc[q] # "idle" => at[q] \in Bills /\ at[q] # b
  BY <1>1 DEF IInv, Places, Place, Procs
<1>8. Place(p)' /\ Claim(p)' /\ Begins(p)
  BY <1>1, <1>3, <1>6, <1>7, ProcsAssumption
  DEF Place, Claim, Begins, Working, IInv, Places
<1>9. Spares(p)
  BY <1>3, <1>7 DEF IInv, Spares, Claims, Claim, TypeOK
<1>10. Locks'
  BY <1>1, <1>3, <1>6 DEF IInv, Locks, Locked, Alone, TypeOK
<1>11. StuckRows' /\ Listed' /\ HandledOnce'
  BY <1>3 DEF IInv, StuckRows, Listed, HandledOnce
<1>12. Attempts'
  BY <1>2, <1>3 DEF IInv, Attempts, TypeOK
<1>13. QED
  BY <1>5, <1>6, <1>8, <1>9, <1>10, <1>11, <1>12, Move DEF IInv

LEMMA HandleBillStep ==
    ASSUME IInv, NEW p \in Procs, HandleBill(p)
    PROVE  IInv'
<1>1. /\ p \in Workers /\ pc[p] = "bill" /\ at[p] \in Bills /\ at[p] \in Events
      /\ at[p] \notin StripeEvents /\ job[at[p]] = "executing"
  BY EventsAssumption DEF HandleBill, IInv, Places, Place, Events
<1>2. /\ handled' = [handled EXCEPT ![at[p]] = @ + 1] /\ pc' = [pc EXCEPT ![p] = "settle"]
      /\ UNCHANGED <<missed, row, stuck, holder, sent, kept, job, tries, at, seen, batch, failures,
                     faults>>
  BY DEF HandleBill, Go, rows, clocks, jobs
<1>3. TypeOK'
  BY <1>1, <1>2 DEF IInv, TypeOK, Labels
<1>4. Alone(p) /\ pc'[p] = "settle"
  BY <1>2 DEF Alone, IInv, TypeOK
<1>5. Place(p)' /\ Claim(p)' /\ Begins(p) /\ Spares(p)
  BY <1>1, <1>2, <1>4
  DEF Place, Claim, Claims, Begins, Spares, Working, IInv, Places, OneRun
<1>6. Locks'
  BY <1>1, <1>2, <1>4 DEF IInv, Locks, Locked, Alone, TypeOK
<1>7. StuckRows' /\ Listed' /\ HandledOnce' /\ Attempts'
  BY <1>1, <1>2 DEF IInv, StuckRows, Listed, HandledOnce, Attempts, TypeOK, Events
<1>8. QED
  BY <1>3, <1>4, <1>5, <1>6, <1>7, Move DEF IInv

\* An attempt that ends, with or without a last write to the row of its event.
LEMMA EndOfRun ==
    ASSUME IInv, NEW p \in Procs, pc[p] \in {"bill", "settle", "refuse"}, Finish(p),
           NEW outcome \in {"available", "completed", "discarded"}, Ends(p, outcome),
           outcome = "available" => tries[at[p]] < MaxAttempts,
           UNCHANGED <<handled, missed>>, TypeOK', UNCHANGED holder,
           \/ UNCHANGED <<row, stuck>>
           \/ /\ holder[at[p]] = Nil /\ stuck' = stuck \ {at[p]}
              /\ \E s \in {"processed", "failed"} : row' = [row EXCEPT ![at[p]] = s]
    PROVE  IInv'
<1>1. /\ p \in Workers /\ at[p] \in Bills /\ at[p] \in Events
      /\ at[p] \notin StripeEvents /\ job[at[p]] = "executing"
  BY EventsAssumption DEF IInv, Places, Place, Events
<1>2. job' = [job EXCEPT ![at[p]] = outcome] /\ UNCHANGED tries
  BY <1>1 DEF Ends
<1>3. p \notin {Retrier, Reconciler} /\ batch[p] = {}
  BY <1>1, ProcsAssumption DEF IInv, Places, Place
<1>4. /\ Alone(p) /\ pc'[p] = "idle" /\ batch' = batch
  BY <1>3 DEF Finish, Done, Alone, IInv, TypeOK
<1>5. Place(p)' /\ Claim(p)' /\ Begins(p)
  BY <1>1, <1>3, <1>4 DEF Place, Claim, Begins, Working
<1>6. ASSUME NEW e \in Events, e # at[p]
      PROVE  row'[e] = row[e] /\ (e \in stuck' <=> e \in stuck)
  BY <1>1, <1>6 DEF IInv, TypeOK
<1>7. Spares(p)
  BY <1>1, <1>2, <1>6 DEF IInv, Spares, Claims, Claim, Places, Place, OneRun, TypeOK, Events
<1>8. Locks'
  BY <1>1, <1>4, <1>6 DEF IInv, Locks, Locked, Alone, TypeOK
<1>9. StuckRows'
  BY <1>1, <1>6 DEF IInv, StuckRows, TypeOK
<1>10. Listed' /\ HandledOnce'
  BY <1>1, <1>4, <1>6 DEF IInv, Listed, HandledOnce, Events
<1>11. row[at[p]] # "missing"
  BY <1>1 DEF IInv, Attempts
<1>12. \A b \in Bills : row'[b] = "missing" => row[b] = "missing" /\ b # at[p]
  BY <1>1, <1>6, <1>11 DEF IInv, TypeOK, Events
<1>13. Attempts'
  BY <1>1, <1>2, <1>12 DEF IInv, Attempts, TypeOK
<1>14. QED
  BY <1>4, <1>5, <1>7, <1>8, <1>9, <1>10, <1>13, Move DEF IInv

LEMMA BillFailsStep ==
    ASSUME IInv, NEW p \in Procs, BillFails(p)
    PROVE  IInv'
<1>1. /\ p \in Workers /\ pc[p] = "bill" /\ at[p] \in Bills /\ at[p] \in Events
      /\ at[p] \notin StripeEvents /\ job[at[p]] = "executing"
  BY EventsAssumption DEF BillFails, IInv, Places, Place, Events
<1>2. failures + 1 \in 0..MaxFailures
  BY BoundsAssumption DEF BillFails, IInv, TypeOK
<1>3. CASE Go(p, "refuse") /\ UNCHANGED <<jobs, seen>>
  <2>1. /\ pc' = [pc EXCEPT ![p] = "refuse"]
        /\ UNCHANGED <<row, stuck, holder, sent, kept, job, tries, at, seen, batch, handled, missed,
                       faults>>
        /\ failures' = failures + 1
    BY <1>3 DEF BillFails, Go, rows, clocks, jobs
  <2>2. TypeOK'
    BY <1>2, <2>1 DEF IInv, TypeOK, Labels
  <2>3. Alone(p) /\ pc'[p] = "refuse" /\ UNCHANGED <<rows, jobs>>
    BY <2>1 DEF Alone, IInv, TypeOK, rows, jobs
  <2>4. Place(p)' /\ Claim(p)' /\ Begins(p)
    BY <1>1, <2>1, <2>3 DEF Place, Claim, Begins, Working, IInv, Places, OneRun
  <2>5. QED
    BY <1>1, <2>1, <2>2, <2>3, <2>4, Move, Quiet DEF IInv
<1>4. CASE Ends(p, Retried(at[p])) /\ Finish(p)
  <2>1. Retried(at[p]) \in {"available", "completed", "discarded"}
    BY DEF Retried
  <2>2. Retried(at[p]) = "available" => tries[at[p]] < MaxAttempts
    BY DEF Retried
  <2>3. UNCHANGED <<row, stuck, holder, sent, kept, handled, missed, faults>>
        /\ failures' = failures + 1
    BY DEF BillFails, rows, clocks
  <2>4. TypeOK'
    BY <1>1, <1>2, <1>4, <2>1, <2>3
    DEF Finish, Done, Ends, jobs, IInv, TypeOK, Labels, State, JobState
  <2>5. QED
    BY <1>1, <1>4, <2>1, <2>2, <2>3, <2>4, EndOfRun
<1>5. QED
  BY <1>3, <1>4 DEF BillFails

LEMMA RefuseStep ==
    ASSUME IInv, NEW p \in Procs, Refuse(p)
    PROVE  IInv'
<1>1. /\ p \in Workers /\ pc[p] = "refuse" /\ at[p] \in Bills /\ at[p] \in Events
  BY DEF Refuse, IInv, Places, Place, Events
<1>2. /\ Retried(at[p]) \in {"available", "completed", "discarded"}
      /\ Retried(at[p]) = "available" => tries[at[p]] < MaxAttempts
  BY DEF Retried
<1>3. /\ Ends(p, Retried(at[p])) /\ Finish(p)
      /\ UNCHANGED <<holder, sent, kept, handled, missed, failures, faults>>
      /\ \/ UNCHANGED <<row, stuck>>
         \/ /\ holder[at[p]] = Nil /\ stuck' = stuck \ {at[p]}
            /\ row' = [row EXCEPT ![at[p]] = "failed"]
  BY DEF Refuse, Write, rows, clocks, counts
<1>4. TypeOK'
  BY <1>1, <1>2, <1>3
  DEF Finish, Done, Ends, jobs, IInv, TypeOK, Labels, State, JobState
<1>5. QED
  BY <1>1, <1>2, <1>3, <1>4, EndOfRun

LEMMA SettleStep ==
    ASSUME IInv, NEW p \in Procs, Settle(p)
    PROVE  IInv'
<1>1. /\ p \in Workers /\ pc[p] = "settle" /\ at[p] \in Bills /\ at[p] \in Events
  BY DEF Settle, IInv, Places, Place, Events
<1>2. /\ Ends(p, "completed") /\ Finish(p)
      /\ UNCHANGED <<holder, sent, kept, handled, missed, failures, faults>>
      /\ \/ UNCHANGED <<row, stuck>>
         \/ /\ holder[at[p]] = Nil /\ stuck' = stuck \ {at[p]}
            /\ row' = [row EXCEPT ![at[p]] = "processed"]
  BY DEF Settle, Write, rows, clocks, counts
<1>3. TypeOK'
  BY <1>1, <1>2
  DEF Finish, Done, Ends, jobs, IInv, TypeOK, Labels, State, JobState
<1>4. QED
  BY <1>1, <1>2, <1>3, EndOfRun

-----------------------------------------------------------------------------
(* Steps of the environment: no process moves. *)

LEMMA Still ==
    ASSUME IInv, TypeOK', UNCHANGED <<pc, at, seen, batch, holder, handled, missed>>,
           \A e \in Events : row'[e] = row[e]
                           \/ (e \in Bills /\ row[e] = "missing" /\ row'[e] = "pending"),
           StuckRows', stuck \subseteq stuck',
           \A e \in stuck' \ stuck : \A p \in Procs : ~(Working(p) /\ at[p] = e),
           \A p \in Workers : pc[p] # "idle" => job'[at[p]] = job[at[p]],
           Attempts'
    PROVE  IInv'
<1>1. \A p \in Procs : Working(p)' <=> Working(p)
  BY DEF Working
<1>2. Places' /\ OneRun' /\ OneClaim'
  BY <1>1 DEF IInv, Places, Place, OneRun, OneClaim
<1>3. \A e \in StripeEvents : e \in Events /\ row'[e] = row[e]
  BY EventsAssumption DEF Events
<1>4. Claims'
  BY <1>1, <1>3 DEF IInv, Claims, Claim
<1>5. Locks'
  BY DEF IInv, Locks, Locked
<1>6. Listed'
  BY <1>3 DEF IInv, Listed
<1>7. HandledOnce'
  BY <1>3 DEF IInv, HandledOnce
<1>8. QED
  BY <1>2, <1>4, <1>5, <1>6, <1>7 DEF IInv

LEMMA NotifyStep ==
    ASSUME IInv, NEW b \in Bills, Notify(b)
    PROVE  IInv'
<1>1. /\ row[b] = "missing" /\ row' = [row EXCEPT ![b] = "pending"] /\ b \in Events
      /\ job' = [job EXCEPT ![b] = "starting"]
      /\ UNCHANGED <<stuck, holder, sent, kept, tries, pc, at, seen, batch, handled, missed,
                     failures, faults>>
  BY DEF Notify, clocks, procs, counts, Events
<1>2. job[b] = "none" /\ tries[b] < MaxAttempts
  BY <1>1 DEF IInv, Attempts
<1>3. TypeOK'
  BY <1>1 DEF IInv, TypeOK, State, JobState
<1>4. \A e \in Events : row'[e] = row[e]
                        \/ (e \in Bills /\ row[e] = "missing" /\ row'[e] = "pending")
  BY <1>1 DEF IInv, TypeOK
<1>5. StuckRows'
  BY <1>1, <1>4 DEF IInv, StuckRows, TypeOK
<1>6. \A p \in Workers : pc[p] # "idle" => job'[at[p]] = job[at[p]]
  BY <1>1, <1>2 DEF IInv, Places, Place, Procs, TypeOK
<1>7. Attempts'
  BY <1>1, <1>2 DEF IInv, Attempts, TypeOK, Events
<1>8. QED
  BY <1>1, <1>3, <1>4, <1>5, <1>6, <1>7, Still

\* A job changes state outside a worker only when none runs it.
LEMMA QueueStep ==
    ASSUME IInv, NEW b \in Bills, Enqueue(b) \/ LoseTask(b) \/ Rescue(b)
    PROVE  IInv'
<1>1. PICK s \in {"available", "lost", "discarded"} :
        /\ job' = [job EXCEPT ![b] = s] /\ faults' \in {faults, faults + 1}
        /\ faults' = faults \/ faults < MaxFaults
        /\ UNCHANGED <<row, stuck, holder, sent, kept, tries, pc, at, seen, batch, handled, missed,
                       failures>>
        /\ s = "available" => job[b] = "starting" \/ tries[b] < MaxAttempts
        /\ job[b] \in {"starting", "executing"}
        /\ job[b] = "executing" => \A p \in Workers : at[p] # b
  BY DEF Enqueue, LoseTask, Rescue, Retried, rows, clocks, procs, counts
<1>2. TypeOK'
  BY <1>1, BoundsAssumption DEF IInv, TypeOK, JobState
<1>3. \A p \in Workers : pc[p] # "idle" => job'[at[p]] = job[at[p]]
  BY <1>1 DEF IInv, Places, Place, Procs, TypeOK
<1>4. StuckRows' /\ Attempts'
  BY <1>1 DEF IInv, StuckRows, Attempts, TypeOK
<1>5. QED
  BY <1>1, <1>2, <1>3, <1>4, Still

LEMMA TimeStep ==
    ASSUME IInv,
           \/ \E e \in StripeEvents : EventAges(e)
           \/ \E e \in Events : Ripen(e) \/ Expire(e) \/ GetStuck(e)
    PROVE  IInv'
<1>1. /\ UNCHANGED <<row, holder, job, tries, pc, at, seen, batch, handled, missed, failures, faults>>
      /\ \/ stuck' = stuck
         \/ \E e \in Events : /\ stuck' = stuck \cup {e} /\ row[e] = "processing"
                              /\ \A p \in Procs : ~(Working(p) /\ at[p] = e)
  BY DEF EventAges, Ripen, Expire, GetStuck, rows, clocks, jobs, procs, counts
<1>2. TypeOK'
  BY <1>1 DEF EventAges, Ripen, Expire, GetStuck, rows, clocks, IInv, TypeOK
<1>3. StuckRows' /\ Attempts'
  BY <1>1 DEF IInv, StuckRows, Attempts
<1>4. QED
  BY <1>1, <1>2, <1>3, Still

\* What a process that dies leaves: the rows as they are, its lock released.
LEMMA CrashStep ==
    ASSUME IInv, NEW p \in Procs, Crash(p)
    PROVE  IInv'
<1>1. /\ pc' = [pc EXCEPT ![p] = "idle"] /\ at' = [at EXCEPT ![p] = Nil]
      /\ seen' = [seen EXCEPT ![p] = "missing"] /\ batch' = [batch EXCEPT ![p] = {}]
      /\ holder' = [e \in Events |-> IF holder[e] = p THEN Nil ELSE holder[e]]
      /\ UNCHANGED <<row, stuck, sent, kept, job, tries, handled, missed, failures>>
      /\ faults < MaxFaults /\ faults' = faults + 1
  BY DEF Crash, See, clocks, jobs
<1>2. TypeOK'
  BY <1>1, BoundsAssumption DEF IInv, TypeOK, Labels, State
<1>3. Alone(p) /\ pc'[p] = "idle" /\ batch'[p] = {}
  BY <1>1 DEF Alone, IInv, TypeOK
<1>4. Place(p)' /\ Claim(p)' /\ Begins(p) /\ Spares(p)
  BY <1>1, <1>3 DEF Place, Claim, Claims, Begins, Spares, Working, IInv
<1>5. Locks'
  <2>1. ASSUME NEW e \in Events PROVE Locked(e)'
    BY <1>1, <1>3 DEF IInv, Locks, Locked, Alone, TypeOK
  <2>2. ASSUME NEW q \in Procs, pc'[q] = "flip" PROVE holder'[at'[q]] = q
    <3>1. q # p /\ pc[q] = "flip" /\ at'[q] = at[q] /\ holder[at[q]] = q
      BY <1>3, <2>2 DEF Alone, IInv, Locks
    <3>2. at[q] \in Events
      BY <3>1 DEF IInv, Places, Place, Events
    <3>3. QED
      BY <1>1, <3>1, <3>2
  <2>3. QED
    BY <2>1, <2>2 DEF Locks
<1>6. Listed'
  BY <1>1 DEF IInv, Listed, TypeOK, Procs
<1>7. StuckRows' /\ HandledOnce' /\ Attempts'
  BY <1>1 DEF IInv, StuckRows, HandledOnce, Attempts
<1>8. QED
  BY <1>2, <1>3, <1>4, <1>5, <1>6, <1>7, Move DEF IInv

-----------------------------------------------------------------------------
LEMMA NextIInv == ASSUME IInv, [Next]_vars PROVE IInv'
<1>1. ASSUME NEW p \in Procs, Step(p) PROVE IInv'
  BY <1>1, CreateStep, CheckStep, LockStep, FlipStep, OpenStep, HandleStep, RaiseStep,
     FailStep, HandleBillStep, BillFailsStep, RefuseStep, SettleStep
  DEF Step, Claiming, Handling, Billing
<1>2. ASSUME NEW p \in Procs, Crash(p) PROVE IInv'
  BY <1>2, CrashStep
<1>3. CASE Reconciling
  BY <1>3, ListStripeStep, ReconcileStep DEF Reconciling
<1>4. CASE Retrying
  BY <1>4, ListRetriesStep, RetryStep, ParseStep DEF Retrying
<1>5. ASSUME NEW e \in StripeEvents, NEW p \in Deliveries, Receive(p, e) PROVE IInv'
  BY <1>5, ReceiveStep DEF Procs
<1>6. ASSUME NEW b \in Bills, Notify(b) \/ LoseTask(b) \/ Enqueue(b) \/ Rescue(b)
      PROVE  IInv'
  BY <1>6, NotifyStep, QueueStep
<1>7. ASSUME NEW b \in Bills, NEW p \in Workers, Attempt(p, b) PROVE IInv'
  BY <1>7, AttemptStep DEF Procs
<1>8. CASE \/ \E e \in StripeEvents : EventAges(e)
           \/ \E e \in Events : Ripen(e) \/ Expire(e) \/ GetStuck(e)
  BY <1>8, TimeStep
<1>9. CASE UNCHANGED vars
  <2>1. UNCHANGED <<rows, jobs, procs, counts, clocks>>
    BY <1>9 DEF vars, rows, jobs, procs, counts, clocks
  <2>2. TypeOK' /\ StuckRows' /\ Attempts'
    BY <1>9 DEF vars, IInv, TypeOK, StuckRows, Attempts
  <2>3. QED
    BY <2>1, <2>2, Still DEF rows, jobs, procs, counts
<1>10. QED
  BY <1>1, <1>2, <1>3, <1>4, <1>5, <1>6, <1>7, <1>8, <1>9 DEF Next, Queueing, Passing

\* The invariant holds in every reachable state, for any number of events, deliveries
\* and workers.
THEOREM Invariance == Spec => []IInv
BY InitIInv, NextIInv, PTL DEF Spec

\* Every variable keeps its type; in particular the row of an event has a state of
\* the schema, whoever writes it.
THEOREM TypeCorrect == Spec => []TypeOK
<1>1. IInv => TypeOK
  BY DEF IInv
<1>2. QED
  BY <1>1, Invariance, PTL

\* A webhook row is claimed by one process at a time
\* (lock_webhook_event_by_provider_and_event_id, find_webhooks_to_retry).
THEOREM ClaimedAlwaysByOne == Spec => []ClaimedByOne
BY IInvImplies, Invariance, PTL

\* A Stripe event is handled once, exactly when its row becomes processed
\* (process_webhook_event); one that the retry replayed as a plain map, of a type whose
\* clauses match a struct, is processed and never handled.
THEOREM HandledAlwaysOnce == Spec => []HandledOnce
<1>1. IInv => HandledOnce
  BY DEF IInv
<1>2. QED
  BY <1>1, Invariance, PTL
=============================================================================

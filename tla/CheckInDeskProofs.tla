--------------------------- MODULE CheckInDeskProofs ---------------------------
(***************************************************************************)
(* Proofs about CheckInDesk for any list of tickets, any orders, any search *)
(* and any number of other desks, keys and lost connections: once nothing   *)
(* is under way the list shows who is missing and the count who is in.      *)
(*                                                                          *)
(* The list is right because the desk never lists what it does not hold for *)
(* pending, the page follows the desk, and the last thing said of a ticket, *)
(* whether it waits with its sender or in the mailbox, is what the database *)
(* says.  The count is right because it always counts some set of tickets:  *)
(* those the desk knows to be in, and of the others those that were in      *)
(* before the first thing that it has not been told yet.                    *)
(***************************************************************************)
EXTENDS CheckInDesk, SequenceTheorems, FiniteSetTheorems, WellFoundedInduction, TLAPS

-----------------------------------------------------------------------------
(* Filtering a list, by induction along it.                                 *)

\* A set of numbers each of which has a smaller one in the set is empty.
LEMMA NoLeast ==
  ASSUME NEW Bad \in SUBSET Nat, \A n \in Bad : \E m \in Bad : m < n
  PROVE  Bad = {}
  <1> SUFFICES ASSUME Bad # {}
               PROVE  FALSE
    OBVIOUS
  <1>1. \E n \in Bad : \A m \in Bad : ~(<<m, n>> \in OpToRel(<, Nat))
    BY NatLessThanWellFounded, WFMin
  <1>2. PICK n \in Bad : \A m \in Bad : ~(<<m, n>> \in OpToRel(<, Nat))
    BY <1>1
  <1>3. PICK m \in Bad : m < n
    OBVIOUS
  <1>4. <<m, n>> \in OpToRel(<, Nat)
    BY <1>3 DEF OpToRel
  <1>5. QED
    BY <1>2, <1>4

KeptStep(rows, S, f, n) ==
    IF n = 0 THEN <<>> ELSE IF rows[n] \in S THEN Append(f[n - 1], rows[n]) ELSE f[n - 1]
KeptBy(rows, S, f, len) == f = [n \in 0..len |-> KeptStep(rows, S, f, n)]

LEMMA KeptIs ==
  ASSUME NEW rows, NEW S
  PROVE  Kept(rows, S) = (CHOOSE f : KeptBy(rows, S, f, Len(rows)))[Len(rows)]
  BY DEF Kept, KeptBy, KeptStep

LEMMA KeptExists ==
  ASSUME NEW rows, NEW S, NEW len \in Nat
  PROVE  \E f : KeptBy(rows, S, f, len)
  <1> DEFINE Bad == {n \in Nat : ~\E f : KeptBy(rows, S, f, n)}
  <1>1. ASSUME NEW n \in Bad
        PROVE  \E m \in Bad : m < n
    <2>1. CASE n = 0
      <3>1. KeptBy(rows, S, [m \in 0..0 |-> <<>>], 0)
        BY DEF KeptBy, KeptStep
      <3>2. QED
        BY <2>1, <3>1
    <2>2. CASE n # 0 /\ \E f : KeptBy(rows, S, f, n - 1)
      <3>1. PICK f : KeptBy(rows, S, f, n - 1)
        BY <2>2
      <3> DEFINE g == [m \in 0..n |-> IF m = n THEN KeptStep(rows, S, f, n) ELSE f[m]]
      <3>2. \A m \in 0..(n - 1) : g[m] = f[m] /\ f[m] = KeptStep(rows, S, f, m)
        BY <3>1 DEF KeptBy
      <3>3. \A m \in 0..n : KeptStep(rows, S, g, m) = KeptStep(rows, S, f, m)
        BY <2>2, <3>2 DEF KeptStep
      <3>4. \A m \in 0..n : g[m] = KeptStep(rows, S, g, m)
        <4>1. n \in Nat /\ g[n] = KeptStep(rows, S, f, n)
          OBVIOUS
        <4>2. \A m \in 0..n : m = n \/ m \in 0..(n - 1)
          BY <4>1
        <4> HIDE DEF g
        <4>3. QED
          BY <3>2, <3>3, <4>1, <4>2, Zenon
      <3>5. KeptBy(rows, S, g, n)
        BY <3>4 DEF KeptBy
      <3> HIDE DEF g
      <3>6. \E h : KeptBy(rows, S, h, n)
        BY <3>5, Zenon
      <3>7. QED
        BY <3>6
    <2>3. CASE n # 0 /\ ~\E f : KeptBy(rows, S, f, n - 1)
      BY <2>3
    <2>4. QED
      BY <2>1, <2>2, <2>3
  <1>2. Bad = {}
    <2> HIDE DEF Bad
    <2>1. Bad \in SUBSET Nat
      BY DEF Bad
    <2>2. QED
      BY <1>1, <2>1, NoLeast
  <1>3. QED
    BY <1>2

\* The row that a filter keeps stand in it once each if they stood once each before.
KeptFrom(rows, S, f, A, n) ==
    /\ f[n] \in Seq(A \cap S)
    /\ \A i \in 1..n : rows[i] \in S => \E j \in DOMAIN f[n] : f[n][j] = rows[i]
    /\ \A j \in DOMAIN f[n] : \E i \in 1..n : f[n][j] = rows[i]
    /\ IsInjective(rows) => IsInjective(f[n])

LEMMA KeptMore ==
  ASSUME NEW A, NEW rows \in Seq(A), NEW S, NEW f, KeptBy(rows, S, f, Len(rows)),
         NEW n \in 1..Len(rows), KeptFrom(rows, S, f, A, n - 1)
  PROVE  KeptFrom(rows, S, f, A, n)
  <1>1. f[n] = IF rows[n] \in S THEN Append(f[n - 1], rows[n]) ELSE f[n - 1]
    <2>1. n # 0 /\ n \in 0..Len(rows)
      BY LenProperties
    <2>2. f[n] = KeptStep(rows, S, f, n)
      BY <2>1, Zenon DEF KeptBy
    <2>3. QED
      BY <2>1, <2>2, Zenon DEF KeptStep
  <1>2. rows[n] \in A /\ DOMAIN rows = 1..Len(rows) /\ n \in 1..Len(rows) /\ Len(rows) \in Nat
    <2>1. Len(rows) \in Nat /\ DOMAIN rows = 1..Len(rows)
      BY LenProperties
    <2>2. rows[n] \in A
      BY ElementOfSeq
    <2>3. QED
      BY <2>1, <2>2
  <1>3. CASE rows[n] \notin S
    <2>1. f[n] = f[n - 1]
      BY <1>1, <1>3
    <2>2. \A i \in 1..n : rows[i] \in S => i \in 1..(n - 1)
      BY <1>2, <1>3
    <2>3. \A i \in 1..(n - 1) : i \in 1..n
      BY <1>2
    <2>4. /\ f[n - 1] \in Seq(A \cap S)
          /\ \A i \in 1..(n - 1) : rows[i] \in S => \E j \in DOMAIN f[n - 1] : f[n - 1][j] = rows[i]
          /\ \A j \in DOMAIN f[n - 1] : \E i \in 1..(n - 1) : f[n - 1][j] = rows[i]
          /\ IsInjective(rows) => IsInjective(f[n - 1])
      BY Zenon DEF KeptFrom
    <2>5. \A i \in 1..n : rows[i] \in S => \E j \in DOMAIN f[n - 1] : f[n - 1][j] = rows[i]
      BY <2>2, <2>4
    <2>6. \A j \in DOMAIN f[n - 1] : \E i \in 1..n : f[n - 1][j] = rows[i]
      BY <2>3, <2>4, Zenon
    <2>7. QED
      BY <2>1, <2>4, <2>5, <2>6, Zenon DEF KeptFrom
  <1>4. CASE rows[n] \in S
    <2> DEFINE old == f[n - 1]
               new == f[n]
    <2>1. /\ old \in Seq(A \cap S) /\ new = Append(old, rows[n])
          /\ Len(old) \in Nat /\ DOMAIN old = 1..Len(old)
      BY <1>1, <1>4, LenProperties DEF KeptFrom
    <2>2. /\ new \in Seq(A \cap S) /\ Len(new) = Len(old) + 1 /\ DOMAIN new = 1..(Len(old) + 1)
          /\ \A j \in 1..Len(old) : new[j] = old[j]
          /\ new[Len(old) + 1] = rows[n]
      BY <1>2, <1>4, <2>1, AppendProperties, LenProperties
    <2> HIDE DEF old, new
    <2>3. /\ \A i \in 1..(n - 1) : rows[i] \in S => \E j \in DOMAIN old : old[j] = rows[i]
          /\ \A j \in DOMAIN old : \E i \in 1..(n - 1) : old[j] = rows[i]
          /\ IsInjective(rows) => IsInjective(old)
      BY DEF KeptFrom, old
    <2>4. \A i \in 1..n : rows[i] \in S => \E j \in DOMAIN new : new[j] = rows[i]
      <3> TAKE i \in 1..n
      <3>1. CASE i = n
        BY <2>1, <2>2, <3>1
      <3>2. CASE i # n
        BY <1>2, <2>1, <2>2, <2>3, <3>2
      <3>3. QED
        BY <3>1, <3>2
    <2>5. \A j \in DOMAIN new : \E i \in 1..n : new[j] = rows[i]
      <3> TAKE j \in DOMAIN new
      <3>1. CASE j = Len(old) + 1
        BY <1>2, <2>2, <3>1
      <3>2. CASE j # Len(old) + 1
        <4>1. j \in 1..Len(old)
          BY <2>1, <2>2, <3>2
        <4>2. PICK i \in 1..(n - 1) : old[j] = rows[i]
          BY <2>1, <2>3, <4>1
        <4>3. QED
          BY <1>2, <2>2, <4>1, <4>2
      <3>3. QED
        BY <3>1, <3>2
    <2>6. ASSUME IsInjective(rows)
          PROVE  IsInjective(new)
      <3>1. \A j \in 1..Len(old) : old[j] # rows[n]
        <4> TAKE j \in 1..Len(old)
        <4>1. PICK i \in 1..(n - 1) : old[j] = rows[i]
          BY <2>1, <2>3
        <4>2. QED
          BY <1>2, <2>6, <4>1 DEF IsInjective
      <3>2. \A j, k \in 1..Len(old) : old[j] = old[k] => j = k
        BY <2>1, <2>3, <2>6 DEF IsInjective
      <3>3. QED
        BY <2>1, <2>2, <3>1, <3>2 DEF IsInjective
    <2>7. QED
      BY <2>2, <2>4, <2>5, <2>6 DEF KeptFrom, new
  <1>5. QED
    BY <1>3, <1>4

\* The rows kept are the ones that belong to S, each as often as before if that is once.
LEMMA KeptAre ==
  ASSUME NEW A, NEW rows \in Seq(A), NEW S
  PROVE  /\ Kept(rows, S) \in Seq(A \cap S)
         /\ \A x : (\E j \in DOMAIN Kept(rows, S) : Kept(rows, S)[j] = x)
                     <=> x \in S /\ \E i \in DOMAIN rows : rows[i] = x
         /\ IsInjective(rows) => IsInjective(Kept(rows, S))
  <1> DEFINE len == Len(rows)
             f == CHOOSE g : KeptBy(rows, S, g, len)
             Bad == {n \in Nat : n <= len /\ ~KeptFrom(rows, S, f, A, n)}
  <1>1. len \in Nat /\ DOMAIN rows = 1..len
    BY LenProperties
  <1>2. KeptBy(rows, S, f, len)
    BY <1>1, KeptExists
  <1>3. Kept(rows, S) = f[len]
    BY KeptIs
  <1> HIDE DEF f
  <1>4. ASSUME NEW n \in Bad
        PROVE  \E m \in Bad : m < n
    <2>1. CASE n = 0
      <3>1. f[0] = <<>>
        BY <1>1, <1>2 DEF KeptBy, KeptStep
      <3>2. KeptFrom(rows, S, f, A, 0)
        BY <3>1 DEF KeptFrom, IsInjective
      <3>3. QED
        BY <2>1, <3>2
    <2>2. CASE n # 0
      <3>1. n \in 1..len /\ n - 1 \in Nat
        BY <1>1, <2>2
      <3>2. ~KeptFrom(rows, S, f, A, n - 1)
        BY <1>2, <3>1, KeptMore
      <3>3. QED
        BY <1>1, <3>1, <3>2
    <2>3. QED
      BY <2>1, <2>2
  <1>5. Bad = {}
    <2> HIDE DEF Bad
    <2>1. Bad \in SUBSET Nat
      BY DEF Bad
    <2>2. QED
      BY <1>4, <2>1, NoLeast
  <1>6. KeptFrom(rows, S, f, A, len)
    BY <1>1, <1>5
  <1>7. QED
    <2>1. /\ f[len] \in Seq(A \cap S)
          /\ \A i \in DOMAIN rows : rows[i] \in S => \E j \in DOMAIN f[len] : f[len][j] = rows[i]
          /\ \A j \in DOMAIN f[len] : \E i \in DOMAIN rows : f[len][j] = rows[i]
          /\ IsInjective(rows) => IsInjective(f[len])
      BY <1>1, <1>6 DEF KeptFrom
    <2>2. \A j \in DOMAIN f[len] : f[len][j] \in S
      BY <2>1, LenProperties, ElementOfSeq
    <2>3. QED
      BY <1>3, <2>1, <2>2

-----------------------------------------------------------------------------
(* What the rows of a desk agree with, and what reading the database gives.*)

Knowledge == {"unknown", "pending", "in"}
Desks == [known: [Tickets -> Knowledge], rows: Seq(Tickets), count: Int, search: BOOLEAN]

\* A desk lists no ticket twice and none that it does not hold for pending; of those that it
\* is to show it knows each, and lists the pending ones.
RowsAgree(d) ==
    /\ IsInjective(d.rows)
    /\ \A t \in ToSet(d.rows) : d.known[t] = "pending"
    /\ \A t \in Found(d.search) :
          d.known[t] = "in" \/ (d.known[t] = "pending" /\ t \in ToSet(d.rows))

LEMMA InRows == \A rows, t : t \in ToSet(rows) <=> \E i \in DOMAIN rows : rows[i] = t
  BY Zenon DEF ToSet

LEMMA FoundAreTickets == \A search : Found(search) \subseteq Tickets
  BY DeskTickets, Zenon DEF Found

LEMMA TicketsAreFinite == IsFiniteSet(Tickets)
  <1>1. Len(Listing) \in Nat /\ DOMAIN Listing = 1..Len(Listing)
    BY DeskTickets, LenProperties
  <1>2. IsFiniteSet(1..Len(Listing))
    BY <1>1, FS_Interval
  <1>3. Listing \in Surjection(1..Len(Listing), Tickets)
    BY <1>1, DeskTickets, LenProperties DEF Tickets, ToSet, Surjection
  <1>4. QED
    BY <1>2, <1>3, FS_Surjection

\* The desk after it has read the database.
LEMMA ReloadedIs ==
  ASSUME checked \subseteq Tickets, NEW search \in BOOLEAN
  PROVE  /\ Reloaded(search) \in Desks /\ RowsAgree(Reloaded(search))
         /\ Reloaded(search).count = Cardinality(checked)
         /\ Reloaded(search).search = search
         /\ \A t \in Tickets :
              Reloaded(search).known[t] = IF t \notin Found(search) THEN "unknown"
                                          ELSE IF t \in checked THEN "in" ELSE "pending"
  <1> DEFINE d == Reloaded(search)
             shown == Found(search) \ checked
             known == [t \in Tickets |-> IF t \notin Found(search) THEN "unknown"
                                         ELSE IF t \in checked THEN "in" ELSE "pending"]
  <1>1. /\ d.known = known /\ d.rows = Kept(Listing, shown)
        /\ d.count = Cardinality(checked) /\ d.search = search
        /\ d = [known |-> known, rows |-> d.rows, count |-> d.count, search |-> search]
    BY DEF Reloaded
  <1>2. known \in [Tickets -> Knowledge]
    BY DEF Knowledge
  <1>3. /\ d.rows \in Seq(Tickets \cap shown) /\ IsInjective(d.rows)
        /\ \A t : t \in ToSet(d.rows) <=> t \in shown /\ t \in ToSet(Listing)
    <2> HIDE DEF shown
    <2>1. /\ Kept(Listing, shown) \in Seq(Tickets \cap shown) /\ IsInjective(Kept(Listing, shown))
          /\ \A t : (\E j \in DOMAIN Kept(Listing, shown) : Kept(Listing, shown)[j] = t)
                     <=> t \in shown /\ \E i \in DOMAIN Listing : Listing[i] = t
      <3>1. Listing \in Seq(Tickets) /\ IsInjective(Listing)
        BY DeskTickets
      <3>2. PICK S : S = shown
        OBVIOUS
      <3>3. /\ Kept(Listing, S) \in Seq(Tickets \cap S)
            /\ \A x : (\E j \in DOMAIN Kept(Listing, S) : Kept(Listing, S)[j] = x)
                        <=> x \in S /\ \E i \in DOMAIN Listing : Listing[i] = x
            /\ IsInjective(Listing) => IsInjective(Kept(Listing, S))
        BY ONLY <3>1, KeptAre
      <3>4. QED
        BY <3>1, <3>2, <3>3
    <2>2. /\ \A t : t \in ToSet(Kept(Listing, shown))
                   <=> \E j \in DOMAIN Kept(Listing, shown) : Kept(Listing, shown)[j] = t
          /\ \A t : t \in ToSet(Listing) <=> \E i \in DOMAIN Listing : Listing[i] = t
      BY InRows
    <2>3. \A t : t \in ToSet(Kept(Listing, shown)) <=> t \in shown /\ t \in ToSet(Listing)
      BY <2>1, <2>2, Zenon
    <2>4. QED
      BY <1>1, <2>1, <2>3
  <1>4. d.rows \in Seq(Tickets)
    BY <1>3, SeqMonotonic
  <1>5. d.count \in Int
    BY <1>1, TicketsAreFinite, FS_Subset, FS_CardinalityType
  <1> HIDE DEF d, known
  <1>6. d \in Desks
    BY <1>1, <1>2, <1>4, <1>5 DEF Desks
  <1>7. \A t \in Tickets : d.known[t] = IF t \notin Found(search) THEN "unknown"
                                        ELSE IF t \in checked THEN "in" ELSE "pending"
    BY <1>1 DEF known
  <1>8. \A t : t \in ToSet(d.rows) <=> t \in shown
    BY <1>3, FoundAreTickets DEF Tickets
  <1>9. RowsAgree(d)
    BY <1>1, <1>3, <1>7, <1>8, FoundAreTickets DEF RowsAgree
  <1>10. QED
    BY <1>1, <1>6, <1>7, <1>9 DEF d

-----------------------------------------------------------------------------
(* A row put into the list, or taken out of it.                            *)

\* At one place the new row, after it the others move up.
PutBetween(rows, new, t, at, len) ==
    \A i \in 1..(len + 1) :
       /\ i < at => i \in 1..len /\ new[i] = rows[i]
       /\ i = at => new[i] = t
       /\ i > at => i - 1 \in 1..len /\ new[i] = rows[i - 1]

LEMMA RowBetween ==
  ASSUME NEW len \in Nat, NEW at \in 1..len, NEW rows, NEW new, NEW t,
         DOMAIN rows = 1..len, DOMAIN new = 1..(len + 1),
         IsInjective(rows), t \notin ToSet(rows), PutBetween(rows, new, t, at, len)
  PROVE  IsInjective(new) /\ ToSet(new) = ToSet(rows) \cup {t}
  <1>1. len \in Nat /\ at \in 1..len
    OBVIOUS
  <1>9. DOMAIN new = 1..(len + 1)
    OBVIOUS
  <1>10. \A i \in 1..(len + 1) :
            /\ i < at => i \in 1..len /\ new[i] = rows[i]
            /\ i = at => new[i] = t
            /\ i > at => i - 1 \in 1..len /\ new[i] = rows[i - 1]
    BY DEF PutBetween
  <1>11. \A i \in 1..len : rows[i] # t
    BY <1>1, InRows
  <1>12. ASSUME NEW i \in 1..(len + 1), NEW j \in 1..(len + 1), new[i] = new[j]
         PROVE  i = j
    <2>1. \A k, l \in 1..len : rows[k] = rows[l] => k = l
      BY <1>1 DEF IsInjective
    <2>2. CASE i = at \/ j = at
      BY <1>1, <1>10, <1>11, <1>12, <2>2
    <2>3. CASE i < at /\ j < at
      BY <1>10, <1>12, <2>1, <2>3
    <2>4. CASE i > at /\ j > at
      <3>1. i - 1 = j - 1
        BY <1>10, <1>12, <2>1, <2>4
      <3>2. QED
        BY <1>1, <3>1
    <2>5. CASE i < at /\ j > at
      <3>1. i = j - 1
        BY <1>10, <1>12, <2>1, <2>5
      <3>2. QED
        BY <1>1, <2>5, <3>1
    <2>6. CASE i > at /\ j < at
      <3>1. i - 1 = j
        BY <1>10, <1>12, <2>1, <2>6
      <3>2. QED
        BY <1>1, <2>6, <3>1
    <2>7. QED
      BY <1>1, <2>2, <2>3, <2>4, <2>5, <2>6
  <1>13. IsInjective(new)
    BY <1>9, <1>12, Zenon DEF IsInjective
  <1>14. \A x : x \in ToSet(new) <=> x \in ToSet(rows) \/ x = t
    <2> TAKE x
    <2>1. ASSUME NEW i \in 1..(len + 1), new[i] = x
          PROVE  (\E k \in 1..len : rows[k] = x) \/ x = t
      <3>1. i < at \/ i = at \/ i > at
        BY <1>1
      <3>2. QED
        BY <1>10, <2>1, <3>1
    <2>2. ASSUME NEW i \in 1..len, rows[i] = x
          PROVE  \E k \in 1..(len + 1) : new[k] = x
      <3>1. CASE i < at
        <4>1. i \in 1..(len + 1)
          BY <1>1
        <4>2. QED
          BY <1>10, <2>2, <3>1, <4>1
      <3>2. CASE i >= at
        <4>1. i + 1 \in 1..(len + 1) /\ i + 1 > at /\ (i + 1) - 1 = i
          BY <1>1, <3>2
        <4>2. new[i + 1] = x
          BY <1>10, <2>2, <4>1
        <4>3. QED
          BY <4>1, <4>2
      <3>3. QED
        BY <1>1, <3>1, <3>2
    <2>3. \E k \in 1..(len + 1) : new[k] = t
      <3>1. at \in 1..(len + 1)
        BY <1>1
      <3>2. QED
        BY <1>10, <3>1
    <2>4. x \in ToSet(new) <=> \E k \in 1..(len + 1) : new[k] = x
      <3>1. x \in ToSet(new) <=> \E k \in DOMAIN new : new[k] = x
        BY InRows
      <3>2. QED
        BY <1>9, <3>1
    <2>5. x \in ToSet(rows) <=> \E k \in 1..len : rows[k] = x
      BY <1>1, InRows, Zenon
    <2>6. QED
      BY <2>1, <2>2, <2>3, <2>4, <2>5, Zenon
  <1>15. QED
    BY <1>13, <1>14

\* A row put between others.
LEMMA RowPutIn ==
  ASSUME NEW rows \in Seq(Tickets), NEW t \in Tickets, NEW at \in 1..Len(rows),
         IsInjective(rows), t \notin ToSet(rows),
         NEW new, new = SubSeq(rows, 1, at - 1) \o <<t>> \o SubSeq(rows, at, Len(rows))
  PROVE  new \in Seq(Tickets) /\ IsInjective(new) /\ ToSet(new) = ToSet(rows) \cup {t}
  <1> DEFINE len == Len(rows)
             left == SubSeq(rows, 1, at - 1)
             right == SubSeq(rows, at, len)
             first == left \o <<t>>
  <1>1. len \in Nat /\ DOMAIN rows = 1..len /\ at \in 1..len /\ \A i \in 1..len : rows[i] \in Tickets
    BY LenProperties, ElementOfSeq
  <1>2. /\ left \in Seq(Tickets) /\ Len(left) = at - 1
        /\ \A i \in 1..(at - 1) : left[i] = rows[i]
    BY <1>1, SubSeqProperties
  <1>3. /\ right \in Seq(Tickets) /\ Len(right) = len - at + 1
        /\ \A i \in 1..(len - at + 1) : right[i] = rows[at + i - 1]
    BY <1>1, SubSeqProperties
  <1>4. <<t>> \in Seq(Tickets) /\ Len(<<t>>) = 1 /\ <<t>>[1] = t
    OBVIOUS
  <1>5. first \in Seq(Tickets) /\ Len(first) = at
        /\ \A i \in 1..at : first[i] = IF i < at THEN rows[i] ELSE t
    <2> HIDE DEF left
    <2>1. /\ first \in Seq(Tickets) /\ Len(first) = Len(left) + Len(<<t>>)
          /\ \A i \in 1..(Len(left) + Len(<<t>>)) :
                first[i] = IF i <= Len(left) THEN left[i] ELSE <<t>>[i - Len(left)]
      BY <1>2, <1>4, ConcatProperties
    <2> HIDE DEF first
    <2>2. Len(left) + Len(<<t>>) = at
      BY <1>1, <1>2, <1>4
    <2>3. \A i \in 1..at : first[i] = IF i <= at - 1 THEN left[i] ELSE <<t>>[i - (at - 1)]
      BY <1>2, <2>1, <2>2
    <2>4. ASSUME NEW i \in 1..at
          PROVE  first[i] = IF i < at THEN rows[i] ELSE t
      <3>1. CASE i < at
        <4>1. i <= at - 1 /\ i \in 1..(at - 1)
          BY <1>1, <3>1
        <4>2. QED
          BY <1>2, <2>3, <3>1, <4>1
      <3>2. CASE ~(i < at)
        <4>1. i = at /\ ~(i <= at - 1) /\ i - (at - 1) = 1
          BY <1>1, <3>2
        <4>2. QED
          BY <1>4, <2>3, <3>2, <4>1
      <3>3. QED
        BY <3>1, <3>2
    <2>5. QED
      BY <2>1, <2>2, <2>4
  <1>6. new = first \o right
    OBVIOUS
  <1> HIDE DEF left, right, len, first
  <1>7. /\ new \in Seq(Tickets) /\ Len(new) = Len(first) + Len(right)
        /\ \A i \in 1..(Len(first) + Len(right)) :
              new[i] = IF i <= Len(first) THEN first[i] ELSE right[i - Len(first)]
    <2>1. first \in Seq(Tickets) /\ right \in Seq(Tickets)
      BY <1>3, <1>5
    <2>2. /\ first \o right \in Seq(Tickets) /\ Len(first \o right) = Len(first) + Len(right)
          /\ \A i \in 1..(Len(first) + Len(right)) :
                (first \o right)[i] = IF i <= Len(first) THEN first[i] ELSE right[i - Len(first)]
      BY <2>1, ConcatProperties
    <2>3. QED
      BY <1>6, <2>2
  <1>8. Len(first) + Len(right) = len + 1
    BY <1>1, <1>3, <1>5
  <1>9. DOMAIN new = 1..(len + 1)
    BY <1>7, <1>8, LenProperties
  <1>10. ASSUME NEW i \in 1..(len + 1)
         PROVE  /\ i < at => i \in 1..len /\ new[i] = rows[i]
                /\ i = at => new[i] = t
                /\ i > at => i - 1 \in 1..len /\ new[i] = rows[i - 1]
    <2>1. new[i] = IF i <= at THEN first[i] ELSE right[i - at]
      BY <1>5, <1>7, <1>8
    <2>2. CASE i <= at
      <3>1. i \in 1..at /\ (i < at => i \in 1..len)
        BY <1>1, <2>2
      <3>2. QED
        BY <1>1, <1>5, <2>1, <2>2, <3>1
    <2>3. CASE i > at
      <3>1. /\ i - at \in 1..(len - at + 1) /\ at + (i - at) - 1 = i - 1
            /\ i - 1 \in 1..len /\ ~(i <= at)
        BY <1>1, <2>3
      <3>2. right[i - at] = rows[i - 1]
        BY <1>3, <3>1
      <3>3. QED
        BY <1>1, <2>1, <2>3, <3>1, <3>2
    <2>4. QED
      BY <1>1, <2>2, <2>3
  <1>11. IsInjective(new) /\ ToSet(new) = ToSet(rows) \cup {t}
    <2>1. PutBetween(rows, new, t, at, len)
      BY <1>10, Zenon DEF PutBetween
    <2>2. len \in Nat /\ at \in 1..len /\ DOMAIN rows = 1..len /\ DOMAIN new = 1..(len + 1)
      BY <1>1, <1>9
    <2>3. QED
      BY ONLY <2>1, <2>2, RowBetween, IsInjective(rows), t \notin ToSet(rows)
  <1>12. QED
    BY <1>7, <1>11

\* A nonempty set of positions has a first.
LEMMA FirstExists ==
  ASSUME NEW P \in SUBSET Nat, P # {}
  PROVE  \E i \in P : \A j \in P : i <= j
  <1> SUFFICES ASSUME \A i \in P : \E j \in P : ~(i <= j)
               PROVE  FALSE
    OBVIOUS
  <1>1. \A i \in P : \E j \in P : j < i
    OBVIOUS
  <1>2. QED
    BY <1>1, NoLeast

LEMMA WithRowIs ==
  ASSUME NEW rows \in Seq(Tickets), NEW t \in Tickets, IsInjective(rows), t \notin ToSet(rows)
  PROVE  /\ WithRow(rows, t) \in Seq(Tickets) /\ IsInjective(WithRow(rows, t))
         /\ ToSet(WithRow(rows, t)) = ToSet(rows) \cup {t}
  <1> DEFINE group == {i \in DOMAIN rows : OrderOf[rows[i]] = OrderOf[t]}
             at == CHOOSE i \in group : \A j \in group : i <= j
  <1>1. Len(rows) \in Nat /\ DOMAIN rows = 1..Len(rows) /\ \A i \in 1..Len(rows) : rows[i] \in Tickets
    BY LenProperties, ElementOfSeq
  <1>2. CASE group = {}
    <2>1. WithRow(rows, t) = Append(rows, t)
      BY <1>2 DEF WithRow
    <2> DEFINE new == Append(rows, t)
    <2>2. /\ new \in Seq(Tickets) /\ Len(new) = Len(rows) + 1
          /\ \A i \in 1..Len(rows) : new[i] = rows[i]
          /\ new[Len(rows) + 1] = t
      BY AppendProperties
    <2> HIDE DEF new
    <2>3. DOMAIN new = 1..(Len(rows) + 1)
      BY <2>2, LenProperties
    <2>4. \A i \in 1..Len(rows) : rows[i] # t
      BY <1>1, InRows
    <2>5. \A i \in 1..(Len(rows) + 1) : i = Len(rows) + 1 \/ i \in 1..Len(rows)
      BY <1>1
    <2>6. IsInjective(new)
      <3>1. \A i, j \in 1..Len(rows) : rows[i] = rows[j] => i = j
        BY <1>1 DEF IsInjective
      <3>2. \A i, j \in 1..(Len(rows) + 1) : new[i] = new[j] => i = j
        BY <2>2, <2>4, <2>5, <3>1
      <3>3. QED
        BY <2>3, <3>2 DEF IsInjective
    <2>7. \A x : x \in ToSet(new) <=> x \in ToSet(rows) \/ x = t
      <3> TAKE x
      <3>1. x \in ToSet(new) <=> \E i \in 1..(Len(rows) + 1) : new[i] = x
        <4>1. x \in ToSet(new) <=> \E i \in DOMAIN new : new[i] = x
          BY InRows
        <4>2. QED
          BY <2>3, <4>1
      <3>2. x \in ToSet(rows) <=> \E i \in 1..Len(rows) : rows[i] = x
        <4>1. x \in ToSet(rows) <=> \E i \in DOMAIN rows : rows[i] = x
          BY InRows
        <4>2. QED
          BY <1>1, <4>1
      <3>3. Len(rows) + 1 \in 1..(Len(rows) + 1) /\ \A i \in 1..Len(rows) : i \in 1..(Len(rows) + 1)
        BY <1>1
      <3>4. QED
        BY <2>2, <2>5, <3>1, <3>2, <3>3
    <2>8. QED
      BY <2>1, <2>2, <2>6, <2>7 DEF new
  <1>3. CASE group # {}
    <2>1. WithRow(rows, t) = SubSeq(rows, 1, at - 1) \o <<t>> \o SubSeq(rows, at, Len(rows))
      BY <1>3 DEF WithRow
    <2>2. at \in 1..Len(rows)
      <3>1. group \in SUBSET Nat
        BY <1>1
      <3>2. \E i \in group : \A j \in group : i <= j
        BY <1>3, <3>1, FirstExists
      <3> HIDE DEF group
      <3>3. at \in group
        BY <3>2
      <3>4. QED
        BY <1>1, <3>3 DEF group
    <2> HIDE DEF at
    <2>3. QED
      BY <2>1, <2>2, RowPutIn
  <1>4. QED
    BY <1>2, <1>3

LEMMA WithoutRowIs ==
  ASSUME NEW rows \in Seq(Tickets), NEW t \in Tickets, IsInjective(rows)
  PROVE  /\ WithoutRow(rows, t) \in Seq(Tickets) /\ IsInjective(WithoutRow(rows, t))
         /\ ToSet(WithoutRow(rows, t)) = ToSet(rows) \ {t}
  <1> DEFINE rest == Tickets \ {t}
             new == Kept(rows, rest)
  <1>1. /\ new \in Seq(Tickets \cap (Tickets \ {t})) /\ IsInjective(new)
        /\ \A x : (\E j \in DOMAIN new : new[j] = x)
                    <=> x \in Tickets \ {t} /\ \E i \in DOMAIN rows : rows[i] = x
    <2> HIDE DEF rest
    <2>1. /\ Kept(rows, rest) \in Seq(Tickets \cap rest)
          /\ \A x : (\E j \in DOMAIN Kept(rows, rest) : Kept(rows, rest)[j] = x)
                      <=> x \in rest /\ \E i \in DOMAIN rows : rows[i] = x
          /\ IsInjective(rows) => IsInjective(Kept(rows, rest))
      BY ONLY rows \in Seq(Tickets), KeptAre
    <2>2. QED
      BY <2>1 DEF rest
  <1> HIDE DEF new
  <1>2. new \in Seq(Tickets)
    BY <1>1, SeqMonotonic
  <1>3. \A x : x \in ToSet(rows) => x \in Tickets
    BY InRows, LenProperties, ElementOfSeq
  <1>4. \A x : x \in ToSet(new) <=> x \in Tickets \ {t} /\ x \in ToSet(rows)
    BY <1>1, InRows
  <1>5. QED
    BY <1>1, <1>2, <1>3, <1>4 DEF WithoutRow, new

Mark(in) == IF in THEN "in" ELSE "pending"

LEMMA AppliedIs ==
  ASSUME NEW d \in Desks, RowsAgree(d), NEW t \in Tickets, NEW in \in BOOLEAN
  PROVE  /\ Applied(d, t, in) \in Desks /\ RowsAgree(Applied(d, t, in))
         /\ Applied(d, t, in).search = d.search
         /\ Applied(d, t, in).known = [d.known EXCEPT ![t] = Mark(in)]
         /\ Applied(d, t, in).count = IF d.known[t] = Mark(in) THEN d.count
                                      ELSE IF in = TRUE THEN d.count + 1 ELSE d.count - 1
  <1> DEFINE new == Applied(d, t, in)
  <1>1. /\ d.known \in [Tickets -> Knowledge] /\ d.rows \in Seq(Tickets)
        /\ d.count \in Int /\ d.search \in BOOLEAN
    BY DEF Desks
  <1>2. CASE d.known[t] = Mark(in)
    <2>1. new = d
      BY <1>2 DEF Applied, Mark
    <2>2. [d.known EXCEPT ![t] = Mark(in)] = d.known
      BY <1>1, <1>2
    <2>3. QED
      BY <1>2, <2>1, <2>2
  <1>3. CASE d.known[t] # Mark(in)
    <2> DEFINE rows == IF ~InView(d, t) THEN d.rows
                       ELSE IF in THEN WithoutRow(d.rows, t) ELSE WithRow(d.rows, t)
               known == [d.known EXCEPT ![t] = Mark(in)]
               count == IF in THEN d.count + 1 ELSE d.count - 1
    <2>1. new = [d EXCEPT !.known = known, !.rows = rows, !.count = count]
      BY <1>3 DEF Applied, Mark
    <2>2. d.known[t] = "pending" \/ t \notin ToSet(d.rows)
      BY DEF RowsAgree
    <2>3. in = FALSE => t \notin ToSet(d.rows)
      BY <1>3, <2>2 DEF Mark
    <2>4. /\ rows \in Seq(Tickets) /\ IsInjective(rows)
          /\ InView(d, t) /\ in = TRUE => ToSet(rows) = ToSet(d.rows) \ {t}
          /\ InView(d, t) /\ in = FALSE => ToSet(rows) = ToSet(d.rows) \cup {t}
          /\ ~InView(d, t) => rows = d.rows
      <3>1. IsInjective(d.rows)
        BY DEF RowsAgree
      <3>2. CASE ~InView(d, t)
        BY <1>1, <3>1, <3>2
      <3>3. CASE InView(d, t) /\ in = TRUE
        <4>1. rows = WithoutRow(d.rows, t)
          BY <3>3
        <4>2. QED
          BY <1>1, <3>1, <3>3, <4>1, WithoutRowIs
      <3>4. CASE InView(d, t) /\ in = FALSE
        <4>1. rows = WithRow(d.rows, t)
          BY <3>4
        <4>2. QED
          BY <1>1, <2>3, <3>1, <3>4, <4>1, WithRowIs
      <3>5. QED
        BY <3>2, <3>3, <3>4
    <2>5. known \in [Tickets -> Knowledge] /\ count \in Int
      <3>1. Mark(in) \in Knowledge
        BY DEF Mark, Knowledge
      <3>2. count \in Int
        BY <1>1
      <3>3. QED
        BY <1>1, <3>1, <3>2
    <2> HIDE DEF rows, count
    <2>6. /\ new.known = known /\ new.rows = rows /\ new.count = count /\ new.search = d.search
          /\ new \in Desks
      BY <1>1, <2>1, <2>4, <2>5 DEF Desks
    <2>7. RowsAgree(new)
      <3> HIDE DEF new
      <3>0. /\ \A u \in ToSet(d.rows) : d.known[u] = "pending"
            /\ \A u \in Found(d.search) :
                  d.known[u] = "in" \/ (d.known[u] = "pending" /\ u \in ToSet(d.rows))
        BY DEF RowsAgree
      <3>1. \A u \in ToSet(d.rows) : u \in Tickets
        BY <1>1, InRows, LenProperties, ElementOfSeq
      <3>2. \A u \in Tickets : known[u] = IF u = t THEN Mark(in) ELSE d.known[u]
        BY <1>1
      <3>3. CASE ~InView(d, t)
        <4>1. d.known[t] = "unknown" /\ t \notin Found(d.search) /\ t \notin ToSet(d.rows)
          BY <3>3, <2>2 DEF InView
        <4>2. QED
          BY <2>4, <2>6, <3>0, <3>1, <3>2, <3>3, <4>1, FoundAreTickets DEF RowsAgree
      <3>4. CASE InView(d, t) /\ in = TRUE
        <4>1. Mark(in) = "in"
          BY <3>4 DEF Mark
        <4>2. QED
          BY <2>4, <2>6, <3>0, <3>1, <3>2, <3>4, <4>1, FoundAreTickets DEF RowsAgree
      <3>5. CASE InView(d, t) /\ in = FALSE
        <4>1. Mark(in) = "pending"
          BY <3>5 DEF Mark
        <4>2. QED
          BY <2>4, <2>6, <3>0, <3>1, <3>2, <3>5, <4>1, FoundAreTickets DEF RowsAgree
      <3>6. QED
        BY <3>3, <3>4, <3>5
    <2>8. QED
      BY <1>3, <2>6, <2>7 DEF count
  <1>4. QED
    BY <1>2, <1>3

-----------------------------------------------------------------------------
(* The types, and the page that follows the desk.                          *)

NewsItems == [ticket: Tickets, in: BOOLEAN]
RowKeys == [event: {"toggle-check-in", "check-in-order"}, of: Tickets, shortcut: BOOLEAN]
SearchKeys == [event: {"search"}, of: BOOLEAN, shortcut: BOOLEAN]
KeyEvents == RowKeys \cup SearchKeys
DeskPages == [rows: Seq(Tickets), search: BOOLEAN]
Tabs == [rows: Seq(Tickets), search: BOOLEAN, text: BOOLEAN]

DeskTypes ==
    /\ checked \subseteq Tickets
    /\ \A s \in sending : s.ticket \in Tickets /\ s.in \in BOOLEAN
    /\ news \in Seq(NewsItems)
    /\ desk \in Desks /\ RowsAgree(desk)
    /\ keys \in Seq(KeyEvents)
    /\ patches \in Seq(DeskPages)
    /\ tab \in Tabs
    /\ connected \in BOOLEAN /\ crossed \in BOOLEAN /\ readAhead \in BOOLEAN

\* What the page will show when it has received everything is what the desk holds.
PageFollowsDesk ==
    connected = TRUE =>
        IF patches = <<>> THEN tab.rows = desk.rows /\ tab.search = desk.search
        ELSE patches[Len(patches)] = Page(desk)

LEMMA PageIs == ASSUME NEW d \in Desks PROVE Page(d) \in DeskPages
  BY DEF Desks, Page, DeskPages

LEMMA KeyKinds ==
  ASSUME DeskTypes, keys # <<>>
  PROVE  /\ Tail(keys) \in Seq(KeyEvents)
         /\ Head1.event \in {"toggle-check-in", "check-in-order"} => Head1.of \in Tickets
         /\ Head1.event = "search" => Head1.of \in BOOLEAN
  <1>1. Head(keys) \in KeyEvents /\ Tail(keys) \in Seq(KeyEvents)
    BY HeadTailProperties DEF DeskTypes
  <1>2. Head1 \in KeyEvents
    BY <1>1 DEF Head1
  <1>3. Head1 \in RowKeys => Head1.of \in Tickets /\ Head1.event # "search"
    BY DEF RowKeys
  <1>4. Head1 \in SearchKeys => Head1.of \in BOOLEAN /\ Head1.event = "search"
    BY DEF SearchKeys
  <1>5. QED
    BY <1>1, <1>2, <1>3, <1>4 DEF KeyEvents

\* The rows that the page shows are tickets.
LEMMA DomRowsAre == ASSUME DeskTypes PROVE \A n \in DOMAIN DomRows : DomRows[n] \in Tickets
  <1>1. tab.rows \in Seq(Tickets)
    BY DEF DeskTypes, Tabs
  <1>2. DomRows \in Seq(Tickets)
    BY <1>1, ConcatProperties DEF DomRows
  <1>3. QED
    BY <1>2, LenProperties, ElementOfSeq

\* A key that is pressed changes nothing but what waits to be handled.
KeyStep ==
    \/ PressEscape \/ TypeSearch
    \/ \E n \in DOMAIN DomRows : PressShortcut(n) \/ PressRow(n)
    \/ \E t \in Tickets : ClickUndo(t)

LEMMA KeyStepDoes ==
  ASSUME DeskTypes, KeyStep
  PROVE  /\ KeyFrame /\ keys' \in Seq(KeyEvents)
         /\ tab' \in Tabs /\ tab'.rows = tab.rows /\ tab'.search = tab.search
  <1>1. keys \in Seq(KeyEvents) /\ tab \in Tabs
    BY DEF DeskTypes
  <1>2. \A t \in Tickets, b \in BOOLEAN : Toggle(t, b) \in KeyEvents /\ AllOf(t) \in KeyEvents
    BY DEF Toggle, AllOf, KeyEvents, RowKeys
  <1>3. \A on \in BOOLEAN : Search(on) \in KeyEvents
    BY DEF Search, KeyEvents, SearchKeys
  <1>4. \A k \in KeyEvents : PressKey(k) => keys' \in Seq(KeyEvents)
    BY <1>1, AppendProperties DEF PressKey
  <1>5. CASE PressEscape
    BY <1>1, <1>3, <1>4, <1>5 DEF PressEscape
  <1>6. CASE TypeSearch
    <2>1. tab' = [tab EXCEPT !.text = ~@] /\ PressKey(Search(~tab.text)) /\ KeyFrame
      BY <1>6 DEF TypeSearch
    <2>2. tab.text \in BOOLEAN /\ (~tab.text) \in BOOLEAN
      BY <1>1 DEF Tabs
    <2>3. tab' \in Tabs /\ tab'.rows = tab.rows /\ tab'.search = tab.search
      BY <1>1, <2>1, <2>2 DEF Tabs
    <2>4. QED
      BY <1>3, <1>4, <2>1, <2>2, <2>3
  <1>7. ASSUME NEW n \in DOMAIN DomRows, PressShortcut(n) \/ PressRow(n)
        PROVE  /\ KeyFrame /\ keys' \in Seq(KeyEvents) /\ UNCHANGED tab
    <2>1. DomRows[n] \in Tickets
      BY DomRowsAre
    <2>2. KeyFrame /\ UNCHANGED tab
      BY <1>7 DEF PressShortcut, PressRow
    <2>3. \E t \in Tickets, b \in BOOLEAN : PressKey(Toggle(t, b)) \/ PressKey(AllOf(t))
      <3>1. CASE PressRow(n)
        BY <2>1, <3>1, Zenon DEF PressRow
      <3>2. CASE PressShortcut(n)
        BY <2>1, <3>2, Zenon DEF PressShortcut
      <3>3. QED
        BY <1>7, <3>1, <3>2
    <2>4. QED
      BY <1>2, <1>4, <2>2, <2>3
  <1>8. ASSUME NEW t \in Tickets, ClickUndo(t)
        PROVE  /\ KeyFrame /\ keys' \in Seq(KeyEvents) /\ UNCHANGED tab
    BY <1>2, <1>4, <1>8 DEF ClickUndo
  <1>9. QED
    BY <1>1, <1>5, <1>6, <1>7, <1>8 DEF KeyStep

\* The page is told of a change of what it shows, and of nothing else.
LEMMA ShowsDoes ==
  ASSUME DeskTypes, PageFollowsDesk, connected = TRUE, NEW d \in Desks, RowsAgree(d), Shows(d),
         UNCHANGED <<tab, connected>>
  PROVE  desk' \in Desks /\ RowsAgree(desk') /\ patches' \in Seq(DeskPages) /\ PageFollowsDesk'
  <1>1. desk' = d /\ patches' = IF Page(d) = Page(desk) THEN patches ELSE Append(patches, Page(d))
    BY DEF Shows
  <1>2. Page(d) \in DeskPages /\ patches \in Seq(DeskPages)
    BY PageIs DEF DeskTypes
  <1>3. CASE Page(d) = Page(desk)
    <2>1. d.rows = desk.rows /\ d.search = desk.search
      BY <1>3 DEF Page
    <2>2. QED
      BY <1>1, <1>2, <1>3, <2>1 DEF PageFollowsDesk
  <1>4. CASE Page(d) # Page(desk)
    <2>1. patches' = Append(patches, Page(d))
      BY <1>1, <1>4
    <2>2. /\ patches' \in Seq(DeskPages) /\ Len(patches') = Len(patches) + 1
          /\ patches'[Len(patches) + 1] = Page(d)
      BY <1>2, <2>1, AppendProperties
    <2>3. patches' # <<>>
      BY <1>2, <2>2, LenProperties
    <2>4. QED
      BY <1>1, <2>2, <2>3 DEF PageFollowsDesk
  <1>5. QED
    BY <1>3, <1>4

LEMMA ReceivePatchDoes ==
  ASSUME DeskTypes, PageFollowsDesk, ReceivePatch
  PROVE  patches' \in Seq(DeskPages) /\ tab' \in Tabs /\ PageFollowsDesk'
  <1>1. /\ patches # <<>> /\ patches \in Seq(DeskPages) /\ patches' = Tail(patches)
        /\ UNCHANGED <<desk, connected>>
    BY DEF ReceivePatch, DeskTypes
  <1>2. /\ Head(patches) \in DeskPages /\ patches' \in Seq(DeskPages)
        /\ Len(patches') = Len(patches) - 1
        /\ \A i \in 1..Len(patches') : patches'[i] = patches[i + 1]
    BY <1>1, HeadTailProperties
  <1>3. PICK text \in {tab.text, Head(patches).search} :
          tab' = [rows |-> Head(patches).rows, search |-> Head(patches).search, text |-> text]
    BY DEF ReceivePatch
  <1>4. /\ tab' \in Tabs /\ tab'.rows = Head(patches).rows /\ tab'.search = Head(patches).search
    <2>1. tab.text \in BOOLEAN
      BY DEF DeskTypes, Tabs
    <2>2. Head(patches).rows \in Seq(Tickets) /\ Head(patches).search \in BOOLEAN
      BY <1>2 DEF DeskPages
    <2>3. QED
      BY <1>3, <2>1, <2>2 DEF Tabs
  <1>5. PageFollowsDesk'
    <2> SUFFICES ASSUME connected = TRUE
                 PROVE  IF patches' = <<>> THEN tab'.rows = desk'.rows /\ tab'.search = desk'.search
                        ELSE patches'[Len(patches')] = Page(desk')
      BY <1>1 DEF PageFollowsDesk
    <2>1. patches[Len(patches)] = Page(desk) /\ Len(patches) \in Nat
      BY <1>1, LenProperties DEF PageFollowsDesk
    <2>2. CASE patches' = <<>>
      <3>1. Len(patches) = 1
        BY <1>2, <2>1, <2>2
      <3>2. Head(patches) = patches[1]
        BY <1>1
      <3>3. Head(patches) = Page(desk)
        BY <2>1, <3>1, <3>2
      <3>4. QED
        BY <1>1, <1>4, <2>2, <3>3 DEF Page
    <2>3. CASE patches' # <<>>
      <3>1. Len(patches') \in 1..Len(patches') /\ Len(patches') + 1 = Len(patches)
        BY <1>2, <2>1, <2>3, EmptySeq
      <3>2. QED
        BY <1>1, <1>2, <2>1, <2>3, <3>1
    <2>4. QED
      BY <2>2, <2>3
  <1>6. QED
    BY <1>2, <1>4, <1>5

\* A process that starts reads everything again.
LEMMA RestartedDoes ==
  ASSUME DeskTypes, Restarted
  PROVE  /\ desk' \in Desks /\ RowsAgree(desk')
         /\ desk'.count = Cardinality(checked) /\ desk'.search = tab.search
         /\ \A t \in Tickets : desk'.known[t] = IF t \notin Found(tab.search) THEN "unknown"
                                                ELSE IF t \in checked THEN "in" ELSE "pending"
         /\ news' = <<>> /\ keys' = <<>> /\ patches' = <<>>
         /\ tab' \in Tabs /\ tab'.rows = desk'.rows /\ tab'.search = desk'.search
         /\ readAhead' = (readAhead \/ (tab.search /\ sending # {}))
  <1>1. tab.search \in BOOLEAN /\ tab \in Tabs /\ checked \subseteq Tickets
    BY DEF DeskTypes, Tabs
  <1>2. /\ desk' = Reloaded(tab.search) /\ news' = <<>> /\ keys' = <<>> /\ patches' = <<>>
        /\ tab' = [tab EXCEPT !.rows = desk'.rows]
        /\ readAhead' = (readAhead \/ (tab.search /\ sending # {}))
    BY DEF Restarted
  <1>3. /\ desk' \in Desks /\ RowsAgree(desk')
        /\ desk'.count = Cardinality(checked) /\ desk'.search = tab.search
        /\ \A t \in Tickets : desk'.known[t] = IF t \notin Found(tab.search) THEN "unknown"
                                               ELSE IF t \in checked THEN "in" ELSE "pending"
    BY <1>1, <1>2, ReloadedIs
  <1>4. desk'.rows \in Seq(Tickets)
    BY <1>3 DEF Desks
  <1>5. tab' \in Tabs /\ tab'.rows = desk'.rows /\ tab'.search = tab.search
    BY <1>1, <1>2, <1>4 DEF Tabs
  <1>6. QED
    BY <1>2, <1>3, <1>5

-----------------------------------------------------------------------------
(* What the handlers do.                                                   *)

\* A toggle that the process survives: the change, its broadcast and the desk's own answer.
Toggles(t, in) ==
    /\ keys # <<>> /\ keys' = Tail(keys)
    /\ checked' = IF in THEN checked \cup {t} ELSE checked \ {t}
    /\ news' = Append(news, News(t, in))
    /\ Changes(t)
    /\ Shows(Applied(desk, t, in))
    /\ readAhead' \in BOOLEAN
    /\ readAhead' = FALSE => readAhead = FALSE /\ (desk.known[t] = "unknown" => ~OnItsWay(t))
    /\ UNCHANGED <<tab, sending>>

LEMMA ToggleDoes ==
  ASSUME DeskTypes, HandleToggle
  PROVE  /\ connected = TRUE /\ UNCHANGED <<sending, connected>>
         /\ \/ Restarted /\ UNCHANGED <<checked, crossed>>
            \/ \E t \in Tickets, in \in BOOLEAN :
                  /\ Toggles(t, in)
                  /\ readAhead' = FALSE /\ desk.known[t] = "unknown" => (in = TRUE <=> t \notin checked)
                  /\ desk.known[t] # "unknown" => (in = TRUE <=> desk.known[t] = "pending")
  <1>0. PICK late \in BOOLEAN :
          LET t == Head1.of
              known == IF desk.known[t] # "unknown" THEN desk.known[t]
                       ELSE IF (t \in checked) # late THEN "in" ELSE "pending"
              in == known = "pending"
          IN IF in /\ t \in checked /\ ~late
             THEN Restarted /\ UNCHANGED <<checked, crossed>>
             ELSE /\ keys' = Tail(keys)
                  /\ checked' = IF in THEN checked \cup {t} ELSE checked \ {t}
                  /\ news' = Append(news, News(t, in))
                  /\ Changes(t)
                  /\ Shows(Applied(desk, t, in))
                  /\ readAhead' = (readAhead \/ (desk.known[t] = "unknown" /\ (late \/ OnItsWay(t))))
                  /\ UNCHANGED tab
    BY DEF HandleToggle
  <1> DEFINE t == Head1.of
             known == IF desk.known[t] # "unknown" THEN desk.known[t]
                      ELSE IF (t \in checked) # late THEN "in" ELSE "pending"
             in == known = "pending"
  <1>1. /\ connected = TRUE /\ UNCHANGED <<sending, connected>> /\ keys # <<>>
        /\ Head1.event = "toggle-check-in"
    <2>1. connected \in BOOLEAN
      BY DEF DeskTypes
    <2>2. connected /\ UNCHANGED <<sending, connected>> /\ keys # <<>>
          /\ Head1.event = "toggle-check-in"
      BY DEF HandleToggle
    <2>3. QED
      BY <2>1, <2>2
  <1>2. t \in Tickets
    BY <1>1, KeyKinds
  <1>3. \/ Restarted /\ UNCHANGED <<checked, crossed>>
        \/ Toggles(t, in) /\ (readAhead' = FALSE /\ desk.known[t] = "unknown" => late = FALSE)
    <2>1. CASE in /\ t \in checked /\ ~late
      BY <1>0, <2>1
    <2>2. CASE ~(in /\ t \in checked /\ ~late)
      <3>1. /\ keys' = Tail(keys)
            /\ checked' = IF in THEN checked \cup {t} ELSE checked \ {t}
            /\ news' = Append(news, News(t, in))
            /\ Changes(t)
            /\ Shows(Applied(desk, t, in))
            /\ readAhead' = (readAhead \/ (desk.known[t] = "unknown" /\ (late \/ OnItsWay(t))))
            /\ UNCHANGED tab
        BY <1>0, <2>2
      <3>2. readAhead \in BOOLEAN
        BY DEF DeskTypes
      <3> HIDE DEF t, in
      <3>3. /\ readAhead' \in BOOLEAN
            /\ readAhead' = FALSE => readAhead = FALSE /\ (desk.known[t] = "unknown" => late = FALSE /\ ~OnItsWay(t))
        BY <3>1, <3>2
      <3>4. Toggles(t, in)
        BY <1>1, <3>1, <3>3, Zenon DEF Toggles
      <3>5. QED
        BY <3>3, <3>4
    <2>3. QED
      BY <2>1, <2>2
  <1>4. in \in BOOLEAN
    OBVIOUS
  <1>5. /\ desk.known[t] = "unknown" /\ late = FALSE => (in = TRUE <=> t \notin checked)
        /\ desk.known[t] # "unknown" => (in = TRUE <=> desk.known[t] = "pending")
    OBVIOUS
  <1> HIDE DEF t, in
  <1>6. QED
    BY <1>1, <1>2, <1>3, <1>4, <1>5, Zenon

\* The broadcasts of a whole order: one of each ticket of it that was not in.
LEMMA OrderDoes ==
  ASSUME DeskTypes, HandleOrder
  PROVE  /\ connected = TRUE /\ UNCHANGED <<sending, desk, patches, tab, connected, readAhead>>
         /\ keys' \in Seq(KeyEvents)
         /\ \E left \in SUBSET Tickets, more \in Seq(NewsItems) :
              /\ left \cap checked = {} /\ checked' = checked \cup left
              /\ news' = news \o more
              /\ crossed' = (crossed \/ \E s \in sending : s.ticket \in left)
              /\ \A i \in DOMAIN more : more[i].ticket \in left /\ more[i].in = TRUE
              /\ \A i, j \in DOMAIN more : more[i].ticket = more[j].ticket => i = j
              /\ \A t \in left : \E i \in DOMAIN more : more[i].ticket = t
  <1> DEFINE left == {t \in Tickets : OrderOf[t] = OrderOf[Head1.of]} \ checked
             size == Cardinality(left)
             order == SetToSeq(left)
             more == [i \in 1..size |-> News(order[i], TRUE)]
  <1>1. /\ connected = TRUE /\ UNCHANGED <<sending, desk, patches, tab, connected, readAhead>>
        /\ keys # <<>> /\ keys' = Tail(keys)
    <2>1. connected \in BOOLEAN
      BY DEF DeskTypes
    <2>2. connected /\ UNCHANGED <<sending, desk, patches, tab, connected, readAhead>>
          /\ keys # <<>> /\ keys' = Tail(keys)
      BY DEF HandleOrder
    <2>3. QED
      BY <2>1, <2>2
  <1>2. /\ checked' = checked \cup left /\ news' = news \o more
        /\ crossed' = (crossed \/ \E s \in sending : s.ticket \in left)
    BY DEF HandleOrder
  <1>3. left \in SUBSET Tickets /\ left \cap checked = {}
    OBVIOUS
  <1> HIDE DEF left
  <1>4. IsFiniteSet(left) /\ size \in Nat /\ ExistsBijection(1..size, left)
    BY <1>3, TicketsAreFinite, FS_Subset, FS_CardinalityType
  <1>5. order \in [1..size -> left] /\ IsInjective(order)
    <2>1. PICK f \in Bijection(1..size, left) : TRUE
      BY <1>4, Zenon DEF ExistsBijection
    <2>2. f \in [1..size -> left] /\ IsInjective(f)
      BY <2>1 DEF Bijection, Injection, IsInjective
    <2>3. \E g \in [1..Cardinality(left) -> left] : IsInjective(g)
      BY <2>2
    <2>4. QED
      BY <2>3, Zenon DEF SetToSeq
  <1> HIDE DEF size
  <1>6. \A t \in left : \E i \in 1..size : order[i] = t
    <2>1. order \in Injection(1..size, left)
      BY <1>5 DEF Injection, IsInjective
    <2>2. Cardinality(1..size) = size
      BY <1>4, FS_Interval
    <2>3. order \in Surjection(1..size, left)
      BY <1>4, <2>1, <2>2, FS_Injection DEF size
    <2>4. QED
      BY <2>3 DEF Surjection
  <1> HIDE DEF order
  <1>7. /\ more \in Seq(NewsItems) /\ DOMAIN more = 1..size
        /\ \A i \in 1..size : more[i].ticket = order[i] /\ more[i].in = TRUE
    <2>1. \A i \in 1..size : News(order[i], TRUE) \in NewsItems
      BY <1>3, <1>5 DEF News, NewsItems
    <2>2. more \in [1..size -> NewsItems]
      BY <2>1
    <2>3. more \in Seq(NewsItems)
      BY <1>4, <2>2, SeqDef
    <2>4. QED
      BY <2>3 DEF News
  <1> HIDE DEF more
  <1>8. /\ \A i \in DOMAIN more : more[i].ticket \in left /\ more[i].in = TRUE
        /\ \A i, j \in DOMAIN more : more[i].ticket = more[j].ticket => i = j
        /\ \A t \in left : \E i \in DOMAIN more : more[i].ticket = t
    <2>1. \A i \in DOMAIN more : more[i].ticket \in left /\ more[i].in = TRUE
      BY <1>5, <1>7
    <2>2. \A i, j \in DOMAIN more : more[i].ticket = more[j].ticket => i = j
      BY <1>5, <1>7 DEF IsInjective
    <2>3. \A t \in left : \E i \in DOMAIN more : more[i].ticket = t
      BY <1>6, <1>7
    <2>4. QED
      BY <2>1, <2>2, <2>3
  <1>9. keys' \in Seq(KeyEvents)
    BY <1>1, KeyKinds
  <1>10. QED
    BY <1>1, <1>2, <1>3, <1>7, <1>8, <1>9

LEMMA SearchDoes ==
  ASSUME DeskTypes, PageFollowsDesk, HandleSearch
  PROVE  /\ connected = TRUE /\ UNCHANGED <<checked, sending, news, tab, connected, crossed>>
         /\ keys' \in Seq(KeyEvents)
         /\ desk' \in Desks /\ RowsAgree(desk') /\ patches' \in Seq(DeskPages) /\ PageFollowsDesk'
         /\ desk'.count = Cardinality(checked)
         /\ \E on \in BOOLEAN :
              /\ \A t \in Tickets : desk'.known[t] = IF t \notin Found(on) THEN "unknown"
                                                     ELSE IF t \in checked THEN "in" ELSE "pending"
              /\ readAhead' = (readAhead \/ (on /\ (sending # {} \/ news # <<>>)))
  <1> DEFINE on == Head1.of
  <1>1. /\ connected = TRUE /\ UNCHANGED <<checked, sending, news, tab, connected, crossed>>
        /\ keys # <<>> /\ keys' = Tail(keys) /\ Head1.event = "search"
    <2>1. connected \in BOOLEAN
      BY DEF DeskTypes
    <2>2. connected /\ UNCHANGED <<checked, sending, news, tab, connected, crossed>>
          /\ keys # <<>> /\ keys' = Tail(keys) /\ Head1.event = "search"
      BY DEF HandleSearch
    <2>3. QED
      BY <2>1, <2>2
  <1>2. on \in BOOLEAN /\ keys' \in Seq(KeyEvents) /\ checked \subseteq Tickets
    BY <1>1, KeyKinds DEF DeskTypes
  <1>3. /\ Shows(Reloaded(on))
        /\ readAhead' = (readAhead \/ (on /\ (sending # {} \/ news # <<>>)))
    BY DEF HandleSearch
  <1> HIDE DEF on
  <1>4. /\ Reloaded(on) \in Desks /\ RowsAgree(Reloaded(on))
        /\ Reloaded(on).count = Cardinality(checked)
        /\ \A t \in Tickets : Reloaded(on).known[t] = IF t \notin Found(on) THEN "unknown"
                                                      ELSE IF t \in checked THEN "in" ELSE "pending"
    BY <1>2, ReloadedIs
  <1>5. desk' = Reloaded(on)
    BY <1>3 DEF Shows
  <1>6. patches' \in Seq(DeskPages) /\ PageFollowsDesk'
    BY <1>1, <1>3, <1>4, ShowsDoes
  <1>7. QED
    BY <1>1, <1>2, <1>3, <1>4, <1>5, <1>6

LEMMA NewsDoes ==
  ASSUME DeskTypes, PageFollowsDesk, HandleNews
  PROVE  /\ connected = TRUE
         /\ UNCHANGED <<checked, sending, keys, tab, connected, crossed, readAhead>>
         /\ news # <<>> /\ news' = Tail(news)
         /\ Head(news) \in NewsItems /\ news' \in Seq(NewsItems)
         /\ desk' = Applied(desk, Head(news).ticket, Head(news).in)
         /\ desk' \in Desks /\ RowsAgree(desk') /\ patches' \in Seq(DeskPages) /\ PageFollowsDesk'
  <1>1. /\ connected = TRUE
        /\ UNCHANGED <<checked, sending, keys, tab, connected, crossed, readAhead>>
        /\ news # <<>> /\ news' = Tail(news)
    <2>1. connected \in BOOLEAN
      BY DEF DeskTypes
    <2>2. /\ connected /\ UNCHANGED <<checked, sending, keys, tab, connected, crossed, readAhead>>
          /\ news # <<>> /\ news' = Tail(news)
      BY DEF HandleNews
    <2>3. QED
      BY <2>1, <2>2
  <1>2. Head(news) \in NewsItems /\ news' \in Seq(NewsItems)
    BY <1>1, HeadTailProperties DEF DeskTypes
  <1>3. Head(news).ticket \in Tickets /\ Head(news).in \in BOOLEAN
    BY <1>2 DEF NewsItems
  <1> DEFINE d == Applied(desk, Head(news).ticket, Head(news).in)
  <1>4. Shows(d)
    BY DEF HandleNews
  <1>5. d \in Desks /\ RowsAgree(d)
    BY <1>3, AppliedIs DEF DeskTypes
  <1> HIDE DEF d
  <1>6. desk' = d
    BY <1>4 DEF Shows
  <1>7. patches' \in Seq(DeskPages) /\ PageFollowsDesk'
    BY <1>1, <1>4, <1>5, ShowsDoes
  <1>8. QED
    BY <1>1, <1>2, <1>5, <1>6, <1>7 DEF d

LEMMA TogglesDoes ==
  ASSUME DeskTypes, PageFollowsDesk, connected = TRUE, UNCHANGED connected,
         NEW t \in Tickets, NEW in \in BOOLEAN, Toggles(t, in)
  PROVE  /\ keys' \in Seq(KeyEvents) /\ checked' \subseteq Tickets
         /\ News(t, in) \in NewsItems /\ news' \in Seq(NewsItems)
         /\ desk' = Applied(desk, t, in)
         /\ desk' \in Desks /\ RowsAgree(desk') /\ patches' \in Seq(DeskPages) /\ PageFollowsDesk'
  <1>1. /\ keys # <<>> /\ keys' = Tail(keys) /\ UNCHANGED tab
        /\ checked' = IF in THEN checked \cup {t} ELSE checked \ {t}
        /\ news' = Append(news, News(t, in)) /\ Shows(Applied(desk, t, in))
    BY DEF Toggles
  <1>2. keys' \in Seq(KeyEvents) /\ checked' \subseteq Tickets
    BY <1>1, KeyKinds DEF DeskTypes
  <1>3. News(t, in) \in NewsItems /\ news' \in Seq(NewsItems)
    <2>1. News(t, in) \in NewsItems
      BY DEF News, NewsItems
    <2>2. QED
      BY <1>1, <2>1, AppendProperties DEF DeskTypes
  <1> DEFINE d == Applied(desk, t, in)
  <1>4. d \in Desks /\ RowsAgree(d) /\ Shows(d)
    BY <1>1, AppliedIs DEF DeskTypes
  <1> HIDE DEF d
  <1>5. desk' = d /\ UNCHANGED <<tab, connected>>
    BY <1>1, <1>4 DEF Shows
  <1>6. patches' \in Seq(DeskPages) /\ PageFollowsDesk'
    BY <1>4, <1>5, ShowsDoes
  <1>7. QED
    BY <1>2, <1>3, <1>4, <1>5, <1>6 DEF d

-----------------------------------------------------------------------------
(* The types and the page are kept.                                        *)

LEMMA DeskTypesStart == DeskInit => DeskTypes /\ PageFollowsDesk
  <1> SUFFICES ASSUME DeskInit PROVE DeskTypes /\ PageFollowsDesk
    OBVIOUS
  <1>1. /\ checked = {} /\ sending = {} /\ news = <<>> /\ desk = Reloaded(FALSE)
        /\ keys = <<>> /\ patches = <<>> /\ connected = TRUE /\ crossed = FALSE /\ readAhead = FALSE
        /\ tab = [rows |-> desk.rows, search |-> FALSE, text |-> FALSE]
    BY DEF DeskInit
  <1>2. desk \in Desks /\ RowsAgree(desk) /\ desk.search = FALSE
    BY <1>1, ReloadedIs
  <1>3. tab \in Tabs /\ tab.rows = desk.rows /\ tab.search = FALSE
    BY <1>1, <1>2 DEF Tabs, Desks
  <1>4. /\ news \in Seq(NewsItems) /\ keys \in Seq(KeyEvents) /\ patches \in Seq(DeskPages)
        /\ checked \subseteq Tickets /\ \A s \in sending : s.ticket \in Tickets /\ s.in \in BOOLEAN
    BY <1>1
  <1>5. connected \in BOOLEAN /\ crossed \in BOOLEAN /\ readAhead \in BOOLEAN
    BY <1>1
  <1>6. DeskTypes
    BY <1>2, <1>3, <1>4, <1>5, Zenon DEF DeskTypes
  <1>7. PageFollowsDesk
    BY <1>1, <1>2, <1>3, Zenon DEF PageFollowsDesk
  <1>8. QED
    BY <1>6, <1>7

LEMMA DeskTypesStep ==
  ASSUME DeskTypes, PageFollowsDesk, [DeskNext]_deskVars
  PROVE  DeskTypes' /\ PageFollowsDesk'
  <1> USE DEF DeskTypes
  <1>1. CASE UNCHANGED deskVars
    BY <1>1 DEF deskVars, PageFollowsDesk, RowsAgree, Page, Found
  <1>2. CASE KeyStep
    <2>1. /\ UNCHANGED <<checked, sending, news, desk, patches, connected, crossed, readAhead>>
          /\ keys' \in Seq(KeyEvents)
          /\ tab' \in Tabs /\ tab'.rows = tab.rows /\ tab'.search = tab.search
      BY <1>2, KeyStepDoes DEF KeyFrame
    <2>2. QED
      BY <2>1 DEF PageFollowsDesk, RowsAgree, Page, Found
  <1>3. CASE ReceivePatch
    <2>1. /\ UNCHANGED <<checked, sending, news, desk, keys, connected, crossed, readAhead>>
          /\ tab' \in Tabs /\ patches' \in Seq(DeskPages) /\ PageFollowsDesk'
      BY <1>3, ReceivePatchDoes DEF ReceivePatch
    <2>2. QED
      BY <2>1 DEF RowsAgree, Found
  <1>4. CASE HandleToggle
    <2>1. connected = TRUE /\ UNCHANGED <<sending, connected>>
      BY <1>4, ToggleDoes
    <2>2. CASE Restarted /\ UNCHANGED <<checked, crossed>>
      <3>1. /\ desk' \in Desks /\ RowsAgree(desk')
            /\ news' = <<>> /\ keys' = <<>> /\ patches' = <<>>
            /\ tab' \in Tabs /\ tab'.rows = desk'.rows /\ tab'.search = desk'.search
            /\ readAhead' \in BOOLEAN
        BY <2>2, RestartedDoes
      <3>2. QED
        BY <2>1, <2>2, <3>1 DEF PageFollowsDesk, RowsAgree, Found
    <2>3. ASSUME NEW t \in Tickets, NEW in \in BOOLEAN, Toggles(t, in)
          PROVE  DeskTypes' /\ PageFollowsDesk'
      <3>1. /\ keys' \in Seq(KeyEvents) /\ checked' \subseteq Tickets /\ news' \in Seq(NewsItems)
            /\ desk' \in Desks /\ RowsAgree(desk') /\ patches' \in Seq(DeskPages) /\ PageFollowsDesk'
        BY <2>1, <2>3, TogglesDoes
      <3>2. UNCHANGED tab /\ crossed' \in BOOLEAN /\ readAhead' \in BOOLEAN
        BY <2>3 DEF Toggles, Changes
      <3>3. QED
        BY <2>1, <3>1, <3>2 DEF RowsAgree, Found
    <2>4. QED
      BY <1>4, <2>2, <2>3, ToggleDoes
  <1>5. CASE HandleOrder
    <2>1. PICK left \in SUBSET Tickets, more \in Seq(NewsItems) :
            /\ checked' = checked \cup left /\ news' = news \o more
            /\ crossed' = (crossed \/ \E s \in sending : s.ticket \in left)
      BY <1>5, OrderDoes
    <2>2. news' \in Seq(NewsItems)
      BY <2>1, ConcatProperties
    <2>3. UNCHANGED <<sending, desk, patches, tab, connected, readAhead>> /\ keys' \in Seq(KeyEvents)
      BY <1>5, OrderDoes
    <2>4. QED
      BY <2>1, <2>2, <2>3 DEF PageFollowsDesk, RowsAgree, Found, Page
  <1>6. CASE HandleSearch
    <2>1. /\ UNCHANGED <<checked, sending, news, tab, connected, crossed>>
          /\ keys' \in Seq(KeyEvents) /\ readAhead' \in BOOLEAN
          /\ desk' \in Desks /\ RowsAgree(desk') /\ patches' \in Seq(DeskPages) /\ PageFollowsDesk'
      BY <1>6, SearchDoes
    <2>2. QED
      BY <2>1 DEF RowsAgree, Found
  <1>7. CASE HandleNews
    <2>1. /\ UNCHANGED <<checked, sending, keys, tab, connected, crossed, readAhead>>
          /\ news' \in Seq(NewsItems)
          /\ desk' \in Desks /\ RowsAgree(desk') /\ patches' \in Seq(DeskPages) /\ PageFollowsDesk'
      BY <1>7, NewsDoes
    <2>2. QED
      BY <2>1 DEF RowsAgree, Found
  <1>13. ASSUME NEW t \in Tickets, OtherRepeats(t)
         PROVE  DeskTypes' /\ PageFollowsDesk'
    <2>1. /\ sending' = sending \cup {[ticket |-> t, in |-> t \in checked, at |-> others]}
          /\ readAhead' \in BOOLEAN
          /\ UNCHANGED <<checked, news, desk, keys, patches, tab, connected, crossed>>
      BY <1>13 DEF OtherRepeats
    <2>3. \A s \in sending' : s.ticket \in Tickets /\ s.in \in BOOLEAN
      <3> DEFINE own == [ticket |-> t, in |-> t \in checked, at |-> others]
      <3>1. own.ticket = t /\ own.in = (t \in checked)
        OBVIOUS
      <3>2. (t \in checked) \in BOOLEAN
        OBVIOUS
      <3>3. own.in \in BOOLEAN
        BY <3>1, <3>2, Zenon
      <3> HIDE DEF own
      <3>4. \A s \in sending' : s \in sending \/ s = own
        BY <2>1 DEF own
      <3>5. QED
        BY <3>1, <3>3, <3>4
    <2>4. QED
      BY <2>1, <2>3 DEF PageFollowsDesk, RowsAgree, Found, Page
  <1>8. ASSUME NEW t \in Tickets, OtherCommits(t)
        PROVE  DeskTypes' /\ PageFollowsDesk'
    <2>1. /\ checked' = IF t \in checked THEN checked \ {t} ELSE checked \cup {t}
          /\ sending' = sending \cup {[ticket |-> t, in |-> t \notin checked, at |-> others]}
          /\ Changes(t)
          /\ UNCHANGED <<news, desk, keys, patches, tab, connected, readAhead>>
      BY <1>8 DEF OtherCommits
    <2>2. checked' \subseteq Tickets /\ crossed' \in BOOLEAN
      BY <2>1 DEF Changes
    <2>3. \A s \in sending' : s.ticket \in Tickets /\ s.in \in BOOLEAN
      <3> DEFINE own == [ticket |-> t, in |-> t \notin checked, at |-> others]
      <3>1. own.ticket = t /\ own.in = (t \notin checked)
        OBVIOUS
      <3>2. (t \notin checked) \in BOOLEAN
        OBVIOUS
      <3>3. own.in \in BOOLEAN
        BY <3>1, <3>2, Zenon
      <3> HIDE DEF own
      <3>4. \A s \in sending' : s \in sending \/ s = own
        BY <2>1 DEF own
      <3>5. QED
        BY <3>1, <3>3, <3>4
    <2>4. QED
      BY <2>1, <2>2, <2>3 DEF PageFollowsDesk, RowsAgree, Found, Page
  <1>9. ASSUME NEW s \in sending, OtherBroadcasts(s)
        PROVE  DeskTypes' /\ PageFollowsDesk'
    <2>1. /\ sending' = sending \ {s}
          /\ news' = IF connected THEN Append(news, News(s.ticket, s.in)) ELSE news
          /\ UNCHANGED <<checked, desk, keys, patches, tab, connected, crossed, readAhead>>
      BY <1>9 DEF OtherBroadcasts
    <2>2. News(s.ticket, s.in) \in NewsItems
      BY DEF News, NewsItems
    <2>3. news' \in Seq(NewsItems)
      BY <2>1, <2>2, AppendProperties
    <2>4. QED
      BY <2>1, <2>3 DEF PageFollowsDesk, RowsAgree, Found, Page
  <1>10. CASE LoseDesk
    <2>1. /\ connected' = FALSE /\ keys' = <<>> /\ patches' = <<>> /\ news' = <<>>
          /\ UNCHANGED <<checked, sending, desk, tab, crossed, readAhead>>
      BY <1>10 DEF LoseDesk
    <2>2. /\ news' \in Seq(NewsItems) /\ keys' \in Seq(KeyEvents) /\ patches' \in Seq(DeskPages)
          /\ connected' \in BOOLEAN
      <3>1. \A S : <<>> \in Seq(S)
        BY EmptySeq
      <3>2. QED
        BY <2>1, <3>1, Zenon
    <2>3. PageFollowsDesk'
      BY <2>1, Zenon DEF PageFollowsDesk
    <2>4. QED
      BY <2>1, <2>2, <2>3 DEF RowsAgree, Found
  <1>11. CASE RejoinDesk
    <2>1. connected' = TRUE /\ Restarted /\ UNCHANGED <<checked, sending, crossed>>
      BY <1>11 DEF RejoinDesk
    <2>2. /\ desk' \in Desks /\ RowsAgree(desk')
          /\ news' = <<>> /\ keys' = <<>> /\ patches' = <<>>
          /\ tab' \in Tabs /\ tab'.rows = desk'.rows /\ tab'.search = desk'.search
          /\ readAhead' \in BOOLEAN
      BY <2>1, RestartedDoes
    <2>3. QED
      BY <2>1, <2>2 DEF PageFollowsDesk, RowsAgree, Found
  <1>12. QED
    BY <1>1, <1>2, <1>3, <1>4, <1>5, <1>6, <1>7, <1>8, <1>9, <1>10, <1>11, <1>13, Zenon
    DEF DeskNext, KeyStep

-----------------------------------------------------------------------------
SaysTrue(w) == w.in = TRUE <=> w.ticket \in checked
Sent(t) == \E s \in sending : s.ticket = t
InNews(t) == \E i \in DOMAIN news : news[i].ticket = t
LastWord(i) == /\ \A j \in DOMAIN news : j > i => news[j].ticket # news[i].ticket
               /\ ~Sent(news[i].ticket)

\* The last that is told of a ticket, on its way or in the mailbox, is what the database says
\* of it; of a ticket that nothing is told of the desk knows that, if it knows it.
LastWordIsTrue ==
    crossed = FALSE =>
        /\ \A s \in sending : SaysTrue(s)
        /\ connected = TRUE =>
              /\ \A i \in DOMAIN news : LastWord(i) => SaysTrue(news[i])
              /\ \A t \in Tickets : ~Sent(t) /\ ~InNews(t) =>
                    desk.known[t] = "unknown" \/ (desk.known[t] = "in" <=> t \in checked)

\* More messages behind those in the mailbox.
Extended(more) ==
    /\ Len(news) \in Nat /\ Len(more) \in Nat
    /\ DOMAIN news = 1..Len(news) /\ DOMAIN more = 1..Len(more)
    /\ DOMAIN news' = 1..(Len(news) + Len(more))
    /\ \A i \in 1..Len(news) : news'[i] = news[i]
    /\ \A i \in 1..Len(more) : news'[Len(news) + i] = more[i]

LEMMA OneMore ==
  ASSUME news \in Seq(NewsItems), NEW w \in NewsItems, news' = Append(news, w)
  PROVE  Extended(<<w>>) /\ DOMAIN <<w>> = {1} /\ <<w>>[1] = w
  <1>1. /\ news' \in Seq(NewsItems) /\ Len(news') = Len(news) + 1
        /\ \A i \in 1..Len(news) : news'[i] = news[i]
        /\ news'[Len(news) + 1] = w
    BY AppendProperties
  <1>2. Len(news) \in Nat /\ DOMAIN news = 1..Len(news) /\ DOMAIN news' = 1..Len(news')
    BY <1>1, LenProperties
  <1>3. <<w>> \in Seq(NewsItems) /\ Len(<<w>>) = 1 /\ DOMAIN <<w>> = 1..1 /\ <<w>>[1] = w
    OBVIOUS
  <1>4. 1..1 = {1}
    OBVIOUS
  <1>5. QED
    BY <1>1, <1>2, <1>3, <1>4 DEF Extended

LEMMA ManyMore ==
  ASSUME news \in Seq(NewsItems), NEW more \in Seq(NewsItems), news' = news \o more
  PROVE  Extended(more)
  <1>1. /\ news' \in Seq(NewsItems) /\ Len(news') = Len(news) + Len(more)
        /\ \A i \in 1..(Len(news) + Len(more)) :
              news'[i] = IF i <= Len(news) THEN news[i] ELSE more[i - Len(news)]
    BY ConcatProperties
  <1>2. /\ Len(news) \in Nat /\ DOMAIN news = 1..Len(news) /\ DOMAIN news' = 1..Len(news')
        /\ Len(more) \in Nat /\ DOMAIN more = 1..Len(more)
    BY <1>1, LenProperties
  <1>3. \A i \in 1..Len(news) : i \in 1..(Len(news) + Len(more)) /\ i <= Len(news)
    BY <1>2
  <1>4. \A i \in 1..Len(more) : /\ Len(news) + i \in 1..(Len(news) + Len(more))
                                /\ ~(Len(news) + i <= Len(news)) /\ Len(news) + i - Len(news) = i
    BY <1>2
  <1>5. \A i \in 1..Len(news) : news'[i] = news[i]
    BY <1>1, <1>3
  <1>6. \A i \in 1..Len(more) : news'[Len(news) + i] = more[i]
    BY <1>1, <1>4
  <1>7. QED
    BY <1>1, <1>2, <1>5, <1>6 DEF Extended

LEMMA KnownIs == ASSUME NEW d \in Desks PROVE d.known \in [Tickets -> Knowledge] /\ d.count \in Int
  BY DEF Desks

LEMMA NewsAre ==
  ASSUME DeskTypes
  PROVE  /\ Len(news) \in Nat /\ DOMAIN news = 1..Len(news)
         /\ \A i \in DOMAIN news : news[i].ticket \in Tickets /\ news[i].in \in BOOLEAN
  <1>1. news \in Seq(NewsItems)
    BY DEF DeskTypes
  <1>2. Len(news) \in Nat /\ DOMAIN news = 1..Len(news)
    BY <1>1, LenProperties
  <1>3. \A i \in DOMAIN news : news[i] \in NewsItems
    BY <1>1, <1>2, ElementOfSeq
  <1>4. QED
    BY <1>2, <1>3 DEF NewsItems

LEMMA LastWordMore ==
  ASSUME LastWordIsTrue, crossed = FALSE, connected = TRUE, NEW more, Extended(more),
         DeskTypes,
         \A i \in DOMAIN more : more[i].in = TRUE <=> more[i].ticket \in checked',
         \A s \in sending' : s \in sending /\ SaysTrue(s)',
         \A t \in Tickets : (\A i \in DOMAIN more : more[i].ticket # t) =>
            /\ t \in checked' <=> t \in checked
            /\ desk'.known[t] = desk.known[t]
            /\ Sent(t) => Sent(t)'
  PROVE  LastWordIsTrue'
  <1> USE DEF Extended
  <1>1. \A i \in DOMAIN news : news[i].ticket \in Tickets
    BY NewsAre
  <1>2. ASSUME NEW i \in DOMAIN news', LastWord(i)'
        PROVE  SaysTrue(news[i])'
    <2>1. CASE i \in 1..Len(news)
      <3>1. news'[i] = news[i] /\ news[i].ticket \in Tickets
        BY <1>1, <2>1
      <3>2. \A k \in DOMAIN more : more[k].ticket # news[i].ticket
        <4> TAKE k \in DOMAIN more
        <4>1. Len(news) + k \in DOMAIN news' /\ Len(news) + k > i /\ news'[Len(news) + k] = more[k]
          BY <2>1
        <4>2. QED
          BY <1>2, <3>1, <4>1 DEF LastWord
      <3>3. LastWord(i)
        <4>1. \A j \in DOMAIN news : j > i => news[j].ticket # news[i].ticket
          <5> TAKE j \in DOMAIN news
          <5>1. j \in DOMAIN news' /\ news'[j] = news[j]
            OBVIOUS
          <5>2. QED
            BY <1>2, <3>1, <5>1 DEF LastWord
        <4>2. ~Sent(news[i].ticket)
          BY <1>2, <3>1, <3>2 DEF LastWord
        <4>3. QED
          BY <4>1, <4>2 DEF LastWord
      <3>4. SaysTrue(news[i])
        BY <2>1, <3>3 DEF LastWordIsTrue
      <3>5. QED
        BY <3>1, <3>2, <3>4 DEF SaysTrue
    <2>2. CASE i \notin 1..Len(news)
      <3>1. i - Len(news) \in DOMAIN more /\ Len(news) + (i - Len(news)) = i
        BY <2>2
      <3>2. news'[i] = more[i - Len(news)]
        BY <3>1
      <3>3. QED
        BY <3>1, <3>2 DEF SaysTrue
    <2>3. QED
      BY <2>1, <2>2
  <1>3. ASSUME NEW t \in Tickets, ~Sent(t)', ~InNews(t)'
        PROVE  desk'.known[t] = "unknown" \/ (desk'.known[t] = "in" <=> t \in checked')
    <2>1. \A i \in DOMAIN more : more[i].ticket # t
      <3> TAKE i \in DOMAIN more
      <3>1. Len(news) + i \in DOMAIN news' /\ news'[Len(news) + i] = more[i]
        OBVIOUS
      <3>2. QED
        BY <1>3, <3>1 DEF InNews
    <2>2. ~InNews(t)
      <3>1. \A i \in DOMAIN news : i \in DOMAIN news' /\ news'[i] = news[i]
        OBVIOUS
      <3>2. QED
        BY <1>3, <3>1 DEF InNews
    <2>3. QED
      BY <1>3, <2>1, <2>2 DEF LastWordIsTrue
  <1>4. QED
    BY <1>2, <1>3 DEF LastWordIsTrue

\* A desk that has just read the database has nothing to be told that it does not know.
LEMMA LastWordFresh ==
  ASSUME LastWordIsTrue, UNCHANGED <<checked, sending, crossed>>, news' = <<>>,
         NEW search, \A t \in Tickets : desk'.known[t] = IF t \notin Found(search) THEN "unknown"
                                                         ELSE IF t \in checked THEN "in" ELSE "pending"
  PROVE  LastWordIsTrue'
  <1>1. crossed = FALSE => \A s \in sending' : SaysTrue(s)'
    BY DEF LastWordIsTrue, SaysTrue
  <1>2. \A i \in DOMAIN news' : FALSE
    OBVIOUS
  <1>3. \A t \in Tickets : desk'.known[t] = "unknown" \/ (desk'.known[t] = "in" <=> t \in checked')
    OBVIOUS
  <1>4. QED
    BY <1>1, <1>2, <1>3 DEF LastWordIsTrue

\* A desk that reads the database while messages wait knows what the last of them says.
LEMMA LastWordReads ==
  ASSUME LastWordIsTrue, UNCHANGED <<checked, sending, news, connected, crossed>>,
         NEW search, \A t \in Tickets : desk'.known[t] = IF t \notin Found(search) THEN "unknown"
                                                         ELSE IF t \in checked THEN "in" ELSE "pending"
  PROVE  LastWordIsTrue'
  <1>1. \A t \in Tickets : desk'.known[t] = "unknown" \/ (desk'.known[t] = "in" <=> t \in checked')
    OBVIOUS
  <1>2. crossed = FALSE => \A s \in sending' : SaysTrue(s)'
    BY DEF LastWordIsTrue, SaysTrue
  <1>3. crossed = FALSE /\ connected = TRUE => \A i \in DOMAIN news' : LastWord(i)' => SaysTrue(news[i])'
    BY DEF LastWordIsTrue, LastWord, SaysTrue, Sent
  <1>4. QED
    BY <1>1, <1>2, <1>3 DEF LastWordIsTrue

LEMMA LastWordStarts == DeskInit => LastWordIsTrue
  <1> SUFFICES ASSUME DeskInit PROVE LastWordIsTrue
    OBVIOUS
  <1>1. checked \subseteq Tickets /\ sending = {} /\ news = <<>> /\ desk = Reloaded(FALSE)
    BY DEF DeskInit
  <1>2. \A t \in Tickets : desk.known[t] = IF t \notin Found(FALSE) THEN "unknown"
                                           ELSE IF t \in checked THEN "in" ELSE "pending"
    BY <1>1, ReloadedIs
  <1>3. \A i \in DOMAIN news : FALSE
    BY <1>1
  <1>4. QED
    BY <1>1, <1>2, <1>3 DEF LastWordIsTrue

LEMMA LastWordToggle ==
  ASSUME DeskTypes, LastWordIsTrue, connected = TRUE, UNCHANGED connected, crossed' = FALSE,
         NEW t \in Tickets, NEW in \in BOOLEAN, Toggles(t, in)
  PROVE  LastWordIsTrue'
  <1>1. /\ checked' = IF in THEN checked \cup {t} ELSE checked \ {t}
        /\ news' = Append(news, News(t, in)) /\ Changes(t) /\ UNCHANGED sending
        /\ desk' = Applied(desk, t, in)
    BY DEF Toggles, Shows
  <1>2. crossed = FALSE /\ (checked' = checked \/ ~Sent(t))
    <2>1. crossed \in BOOLEAN /\ crossed' = (crossed \/ (checked' # checked /\ Sent(t)))
      BY <1>1 DEF DeskTypes, Changes, Sent
    <2>2. QED
      BY <2>1
  <1> DEFINE w == News(t, in)
  <1>3. w.ticket = t /\ w.in = in /\ w \in NewsItems
    BY DEF News, NewsItems
  <1> HIDE DEF w
  <1>4. Extended(<<w>>) /\ DOMAIN <<w>> = {1} /\ <<w>>[1] = w
    BY <1>1, <1>3, OneMore DEF DeskTypes, w
  <1>5. w.in = TRUE <=> w.ticket \in checked'
    BY <1>1, <1>3
  <1>6. \A s \in sending' : s \in sending /\ SaysTrue(s)'
    <2>1. \A s \in sending : (s.in = TRUE <=> s.ticket \in checked) /\ (checked' = checked \/ s.ticket # t)
      BY <1>2 DEF LastWordIsTrue, SaysTrue, Sent
    <2>2. \A x : checked' = checked \/ x # t => (x \in checked' <=> x \in checked)
      BY <1>1
    <2>3. sending' = sending
      BY <1>1
    <2>4. \A s \in sending : s.in = TRUE <=> s.ticket \in checked'
      BY <2>1, <2>2, Zenon
    <2>5. ASSUME NEW s \in sending'
          PROVE  s \in sending /\ SaysTrue(s)'
      <3>1. s \in sending
        BY <2>3
      <3>2. s.in = TRUE <=> s.ticket \in checked'
        BY <2>4, <3>1, Zenon
      <3>3. QED
        BY <3>1, <3>2 DEF SaysTrue
    <2>6. QED
      BY <2>5
  <1>7. desk.known \in [Tickets -> Knowledge] /\ desk'.known = [desk.known EXCEPT ![t] = Mark(in)]
    <2>1. desk \in Desks /\ RowsAgree(desk)
      BY DEF DeskTypes
    <2>2. Applied(desk, t, in).known = [desk.known EXCEPT ![t] = Mark(in)]
      BY <2>1, AppliedIs
    <2>3. desk.known \in [Tickets -> Knowledge]
      BY <2>1, KnownIs
    <2>4. QED
      BY <1>1, <2>2, <2>3
  <1>8. \A u \in Tickets : u # t => /\ u \in checked' <=> u \in checked
                                    /\ desk'.known[u] = desk.known[u]
                                    /\ Sent(u) => Sent(u)'
    BY <1>1, <1>7 DEF Sent
  <1>9. QED
    <2> DEFINE more == <<w>>
    <2>1. /\ Extended(more)
          /\ \A i \in DOMAIN more : more[i].in = TRUE <=> more[i].ticket \in checked'
          /\ \A u \in Tickets : (\A i \in DOMAIN more : more[i].ticket # u) => u # t
      BY <1>3, <1>4, <1>5
    <2> HIDE DEF more
    <2>2. QED
      BY <1>2, <1>6, <1>8, <2>1, LastWordMore

\* What a message taken from the front leaves.
Shortened ==
    /\ Len(news) \in Nat /\ Len(news) > 0 /\ DOMAIN news = 1..Len(news)
    /\ DOMAIN news' = 1..(Len(news) - 1)
    /\ \A i \in 1..(Len(news) - 1) : news'[i] = news[i + 1]
    /\ Head(news) = news[1]

LEMMA OneLess ==
  ASSUME news \in Seq(NewsItems), news # <<>>, news' = Tail(news)
  PROVE  Shortened
  <1>1. /\ Tail(news) \in Seq(NewsItems) /\ Len(Tail(news)) = Len(news) - 1
        /\ \A i \in 1..Len(Tail(news)) : Tail(news)[i] = news[i + 1]
    BY HeadTailProperties
  <1>2. Len(news) \in Nat /\ Len(news) > 0 /\ DOMAIN news = 1..Len(news) /\ Head(news) = news[1]
    BY EmptySeq, LenProperties
  <1>3. DOMAIN news' = 1..Len(news')
    BY <1>1, LenProperties
  <1>4. QED
    BY <1>1, <1>2, <1>3 DEF Shortened

LEMMA LastWordNews ==
  ASSUME DeskTypes, PageFollowsDesk, LastWordIsTrue, HandleNews
  PROVE  LastWordIsTrue'
  <1> SUFFICES ASSUME crossed' = FALSE
               PROVE  LastWordIsTrue'
    BY DEF LastWordIsTrue
  <1>1. /\ connected = TRUE
        /\ UNCHANGED <<checked, sending, connected, crossed>>
        /\ news # <<>> /\ news' = Tail(news) /\ Head(news) \in NewsItems
        /\ desk' = Applied(desk, Head(news).ticket, Head(news).in)
    BY NewsDoes
  <1>2. Shortened
    BY <1>1, OneLess DEF DeskTypes
  <1> DEFINE w == Head(news)
  <1>3. w.ticket \in Tickets /\ w.in \in BOOLEAN /\ w = news[1] /\ 1 \in DOMAIN news
    <2>1. w \in NewsItems
      BY <1>1
    <2> HIDE DEF w
    <2>2. w.ticket \in Tickets /\ w.in \in BOOLEAN
      BY <2>1 DEF NewsItems
    <2>3. w = news[1] /\ 1 \in DOMAIN news
      BY <1>2 DEF w, Shortened
    <2>4. QED
      BY <2>2, <2>3
  <1>4. desk.known \in [Tickets -> Knowledge] /\ desk'.known = [desk.known EXCEPT ![w.ticket] = Mark(w.in)]
    <2>1. desk \in Desks /\ RowsAgree(desk)
      BY DEF DeskTypes
    <2>2. Applied(desk, w.ticket, w.in).known = [desk.known EXCEPT ![w.ticket] = Mark(w.in)]
      BY <2>1, <1>3, AppliedIs
    <2>3. desk.known \in [Tickets -> Knowledge]
      BY <2>1, KnownIs
    <2>4. QED
      BY <1>1, <2>2, <2>3
  <1> HIDE DEF w
  <1>5. ASSUME NEW i \in DOMAIN news', LastWord(i)'
        PROVE  SaysTrue(news[i])'
    <2>1. i + 1 \in DOMAIN news /\ news'[i] = news[i + 1]
      BY <1>2 DEF Shortened
    <2>2. LastWord(i + 1)
      <3>1. \A j \in DOMAIN news : j > i + 1 => news[j].ticket # news[i + 1].ticket
        <4> SUFFICES ASSUME NEW j \in DOMAIN news, j > i + 1
                     PROVE  news[j].ticket # news[i + 1].ticket
          OBVIOUS
        <4>1. j - 1 \in DOMAIN news' /\ j - 1 > i /\ (j - 1) + 1 = j
          BY <1>2, <2>1 DEF Shortened
        <4>2. news'[j - 1] = news[j]
          BY <1>2, <4>1 DEF Shortened
        <4>3. QED
          BY <1>5, <2>1, <4>1, <4>2 DEF LastWord
      <3>2. ~Sent(news[i + 1].ticket)
        BY <1>1, <1>5, <2>1 DEF LastWord, Sent
      <3>3. QED
        BY <3>1, <3>2 DEF LastWord
    <2>3. SaysTrue(news[i + 1])
      BY <1>1, <2>1, <2>2 DEF LastWordIsTrue
    <2>4. QED
      BY <1>1, <2>1, <2>3 DEF SaysTrue
  <1>6. ASSUME NEW t \in Tickets, ~Sent(t)', ~InNews(t)'
        PROVE  desk'.known[t] = "unknown" \/ (desk'.known[t] = "in" <=> t \in checked')
    <2>1. ~Sent(t)
      BY <1>1, <1>6 DEF Sent
    <2>2. \A j \in DOMAIN news : j > 1 => news[j].ticket # t
      <3> SUFFICES ASSUME NEW j \in DOMAIN news, j > 1
                   PROVE  news[j].ticket # t
        OBVIOUS
      <3>1. j - 1 \in DOMAIN news' /\ (j - 1) + 1 = j
        BY <1>2 DEF Shortened
      <3>2. news'[j - 1] = news[j]
        BY <1>2, <3>1 DEF Shortened
      <3>3. QED
        BY <1>6, <3>1, <3>2 DEF InNews
    <2>3. CASE t = w.ticket
      <3>1. LastWord(1)
        BY <1>3, <2>1, <2>2, <2>3 DEF LastWord
      <3>2. SaysTrue(w)
        BY <1>1, <1>3, <3>1 DEF LastWordIsTrue
      <3>3. desk'.known[t] = Mark(w.in)
        BY <1>4, <2>3
      <3>4. Mark(w.in) = "in" <=> w.in = TRUE
        BY <1>3 DEF Mark
      <3>5. w.in = TRUE <=> t \in checked'
        BY <1>1, <2>3, <3>2 DEF SaysTrue
      <3>6. QED
        BY <3>3, <3>4, <3>5, Zenon
    <2>4. CASE t # w.ticket
      <3>1. ~InNews(t)
        <4>1. \A j \in DOMAIN news : j = 1 \/ j > 1
          BY <1>2 DEF Shortened
        <4>2. QED
          BY <1>3, <2>2, <2>4, <4>1 DEF InNews
      <3>2. desk.known[t] = "unknown" \/ (desk.known[t] = "in" <=> t \in checked)
        BY <1>1, <2>1, <3>1 DEF LastWordIsTrue
      <3>3. desk'.known[t] = desk.known[t] /\ checked' = checked
        BY <1>1, <1>4, <2>4
      <3>4. QED
        BY <3>2, <3>3
    <2>5. QED
      BY <2>3, <2>4
  <1>7. \A s \in sending' : SaysTrue(s)'
    BY <1>1 DEF LastWordIsTrue, SaysTrue
  <1>8. QED
    BY <1>5, <1>6, <1>7 DEF LastWordIsTrue

LEMMA LastWordSteps ==
  ASSUME DeskTypes, PageFollowsDesk, LastWordIsTrue, [DeskNext]_deskVars
  PROVE  LastWordIsTrue'
  <1> SUFFICES ASSUME crossed' = FALSE
               PROVE  LastWordIsTrue'
    BY DEF LastWordIsTrue
  <1>1. ASSUME UNCHANGED <<checked, sending, news, desk, connected, crossed>>
        PROVE  LastWordIsTrue'
    BY <1>1 DEF LastWordIsTrue, SaysTrue, LastWord, Sent, InNews
  <1>2. CASE UNCHANGED deskVars
    BY <1>1, <1>2 DEF deskVars
  <1>3. CASE KeyStep
    BY <1>1, <1>3, KeyStepDoes DEF KeyFrame
  <1>4. CASE ReceivePatch
    BY <1>1, <1>4 DEF ReceivePatch
  <1>5. CASE HandleToggle
    <2>1. connected = TRUE /\ UNCHANGED <<sending, connected>>
      BY <1>5, ToggleDoes
    <2>2. CASE Restarted /\ UNCHANGED <<checked, crossed>>
      BY <2>1, <2>2, RestartedDoes, LastWordFresh
    <2>3. ASSUME NEW t \in Tickets, NEW in \in BOOLEAN, Toggles(t, in)
          PROVE  LastWordIsTrue'
      BY <2>1, <2>3, LastWordToggle
    <2>4. QED
      BY <1>5, <2>2, <2>3, ToggleDoes
  <1>6. CASE HandleOrder
    <2>1. connected = TRUE /\ UNCHANGED <<sending, desk, connected>>
      BY <1>6, OrderDoes
    <2>2. PICK left \in SUBSET Tickets, more \in Seq(NewsItems) :
              /\ left \cap checked = {} /\ checked' = checked \cup left
              /\ news' = news \o more
              /\ crossed' = (crossed \/ \E s \in sending : s.ticket \in left)
              /\ \A i \in DOMAIN more : more[i].ticket \in left /\ more[i].in = TRUE
              /\ \A i, j \in DOMAIN more : more[i].ticket = more[j].ticket => i = j
              /\ \A t \in left : \E i \in DOMAIN more : more[i].ticket = t
      BY <1>6, OrderDoes, Zenon
    <2>3. Extended(more)
      BY <2>2, ManyMore DEF DeskTypes
    <2>4. crossed = FALSE /\ \A s \in sending : s.ticket \notin left
      <3>1. crossed \in BOOLEAN
        BY DEF DeskTypes
      <3>2. QED
        BY <2>2, <3>1
    <2>5. \A i \in DOMAIN more : more[i].in = TRUE <=> more[i].ticket \in checked'
      BY <2>2
    <2>6. \A s \in sending' : s \in sending /\ SaysTrue(s)'
      <3>1. \A s \in sending : (s.in = TRUE <=> s.ticket \in checked) /\ s.ticket \notin left
        BY <2>4 DEF LastWordIsTrue, SaysTrue
      <3>2. \A s \in sending : s.in = TRUE <=> s.ticket \in checked'
        BY <2>2, <3>1
      <3>3. sending' = sending
        BY <2>1
      <3>4. QED
        BY <3>2, <3>3, Zenon DEF SaysTrue
    <2>7. \A t \in Tickets : (\A i \in DOMAIN more : more[i].ticket # t) =>
            /\ t \in checked' <=> t \in checked
            /\ desk'.known[t] = desk.known[t]
            /\ Sent(t) => Sent(t)'
      BY <2>1, <2>2 DEF Sent
    <2>8. QED
      BY <2>1, <2>3, <2>4, <2>5, <2>6, <2>7, LastWordMore
  <1>7. CASE HandleSearch
    BY <1>7, SearchDoes, LastWordReads
  <1>8. CASE HandleNews
    BY <1>8, LastWordNews
  <1>14. ASSUME NEW t \in Tickets, OtherRepeats(t)
         PROVE  LastWordIsTrue'
    <2>1. /\ sending' = sending \cup {[ticket |-> t, in |-> t \in checked, at |-> others]}
          /\ UNCHANGED <<checked, news, desk, connected, crossed>>
      BY <1>14 DEF OtherRepeats
    <2> DEFINE own == [ticket |-> t, in |-> t \in checked, at |-> others]
    <2>2. own.ticket = t /\ (own.in = TRUE <=> t \in checked)
      OBVIOUS
    <2>3. \A s : s \in sending' <=> s \in sending \/ s = own
      BY <2>1
    <2> HIDE DEF own
    <2>4. \A s \in sending' : SaysTrue(s)
      BY <2>1, <2>2, <2>3 DEF LastWordIsTrue, SaysTrue
    <2>5. \A x : Sent(x) => Sent(x)'
      BY <2>3 DEF Sent
    <2>6. QED
      BY <2>1, <2>4, <2>5 DEF LastWordIsTrue, SaysTrue, LastWord, InNews
  <1>9. ASSUME NEW t \in Tickets, OtherCommits(t)
        PROVE  LastWordIsTrue'
    <2>1. /\ checked' = IF t \in checked THEN checked \ {t} ELSE checked \cup {t}
          /\ sending' = sending \cup {[ticket |-> t, in |-> t \notin checked, at |-> others]}
          /\ Changes(t)
          /\ UNCHANGED <<news, desk, connected>>
      BY <1>9 DEF OtherCommits
    <2>2. crossed = FALSE /\ ~Sent(t)
      <3>1. crossed \in BOOLEAN /\ crossed' = (crossed \/ (checked' # checked /\ Sent(t)))
        BY <2>1 DEF DeskTypes, Changes, Sent
      <3>2. checked' # checked
        BY <2>1
      <3>3. QED
        BY <3>1, <3>2
    <2> DEFINE own == [ticket |-> t, in |-> t \notin checked, at |-> others]
    <2>3. own.ticket = t /\ (own.in = TRUE <=> t \notin checked)
      OBVIOUS
    <2>4. own \in sending' /\ \A s \in sending' : s \in sending \/ s = own
      BY <2>1
    <2> HIDE DEF own
    <2>5. \A x : (x \in checked' <=> IF x = t THEN t \notin checked ELSE x \in checked)
      BY <2>1
    <2>6. \A s \in sending : (s.in = TRUE <=> s.ticket \in checked) /\ s.ticket # t
      BY <2>2 DEF LastWordIsTrue, SaysTrue, Sent
    <2>7. \A s \in sending' : s.in = TRUE <=> s.ticket \in checked'
      BY <2>3, <2>4, <2>5, <2>6
    <2>8. \A x : Sent(x)' <=> Sent(x) \/ x = t
      BY <2>1, <2>3, <2>4 DEF Sent
    <2>9. ASSUME connected = TRUE, NEW i \in DOMAIN news', LastWord(i)'
          PROVE  SaysTrue(news[i])'
      <3>1. news' = news /\ LastWord(i) /\ news[i].ticket # t
        BY <2>1, <2>8, <2>9 DEF LastWord
      <3>2. SaysTrue(news[i])
        BY <2>2, <2>9, <3>1 DEF LastWordIsTrue
      <3>3. QED
        BY <2>5, <3>1, <3>2 DEF SaysTrue
    <2>10. ASSUME connected = TRUE, NEW u \in Tickets, ~Sent(u)', ~InNews(u)'
           PROVE  desk'.known[u] = "unknown" \/ (desk'.known[u] = "in" <=> u \in checked')
      <3>1. ~Sent(u) /\ ~InNews(u) /\ u # t /\ desk' = desk
        BY <2>1, <2>8, <2>10 DEF InNews
      <3>2. QED
        BY <2>2, <2>5, <2>10, <3>1 DEF LastWordIsTrue
    <2>11. QED
      BY <2>1, <2>7, <2>9, <2>10 DEF LastWordIsTrue, SaysTrue
  <1>10. ASSUME NEW s \in sending, OtherBroadcasts(s)
         PROVE  LastWordIsTrue'
    <2>1. /\ sending' = sending \ {s}
          /\ news' = IF connected THEN Append(news, News(s.ticket, s.in)) ELSE news
          /\ UNCHANGED <<checked, desk, connected, crossed>>
      BY <1>10 DEF OtherBroadcasts
    <2>2. \A r \in sending' : r \in sending /\ SaysTrue(r)'
      BY <2>1 DEF LastWordIsTrue, SaysTrue
    <2>3. CASE connected = TRUE
      <3> DEFINE w == News(s.ticket, s.in)
      <3>1. w \in NewsItems /\ w.ticket = s.ticket /\ w.in = s.in
        BY DEF DeskTypes, News, NewsItems
      <3> HIDE DEF w
      <3>2. Extended(<<w>>) /\ DOMAIN <<w>> = {1} /\ <<w>>[1] = w
        BY <2>1, <2>3, <3>1, OneMore DEF DeskTypes, w
      <3>3. w.in = TRUE <=> w.ticket \in checked'
        BY <2>1, <3>1 DEF LastWordIsTrue, SaysTrue
      <3>4. \A t \in Tickets : t # s.ticket =>
              /\ t \in checked' <=> t \in checked
              /\ desk'.known[t] = desk.known[t]
              /\ Sent(t) => Sent(t)'
        BY <2>1 DEF Sent
      <3> DEFINE more == <<w>>
      <3>5. /\ Extended(more)
            /\ \A i \in DOMAIN more : more[i].in = TRUE <=> more[i].ticket \in checked'
            /\ \A u \in Tickets : (\A i \in DOMAIN more : more[i].ticket # u) => u # s.ticket
        BY <3>1, <3>2, <3>3
      <3> HIDE DEF more
      <3>6. QED
        BY <2>1, <2>2, <2>3, <3>4, <3>5, LastWordMore
    <2>4. CASE connected = FALSE
      BY <2>1, <2>2, <2>4 DEF LastWordIsTrue
    <2>5. QED
      BY <2>3, <2>4 DEF DeskTypes
  <1>11. CASE LoseDesk
    <2>1. connected' = FALSE /\ UNCHANGED <<checked, sending, crossed>>
      BY <1>11 DEF LoseDesk
    <2>2. QED
      BY <2>1 DEF LastWordIsTrue, SaysTrue
  <1>12. CASE RejoinDesk
    <2>1. Restarted /\ UNCHANGED <<checked, sending, crossed>>
      BY <1>12 DEF RejoinDesk
    <2>2. QED
      BY <2>1, RestartedDoes, LastWordFresh
  <1>13. QED
    BY <1>2, <1>3, <1>4, <1>5, <1>6, <1>7, <1>8, <1>9, <1>10, <1>11, <1>12, <1>14, Zenon
    DEF DeskNext, KeyStep

-----------------------------------------------------------------------------
(* The count stands for a set of tickets.                                  *)

FirstWord(i) == \A j \in DOMAIN news : j < i => news[j].ticket # news[i].ticket

\* The tickets that the desk's count stands for: those it knows to be in, and of the others
\* those that were in before the first thing that it has not been told yet.
Counted(C) ==
    /\ \A t \in Tickets : desk.known[t] # "unknown" => (t \in C <=> desk.known[t] = "in")
    /\ \A i \in DOMAIN news : desk.known[news[i].ticket] = "unknown" /\ FirstWord(i) =>
          (news[i].ticket \in C <=> news[i].in = FALSE)
    /\ \A t \in Tickets : desk.known[t] = "unknown" /\ ~InNews(t) =>
          (t \in C <=> IF Sent(t) THEN t \notin checked ELSE t \in checked)

CountFollows ==
    connected = TRUE /\ crossed = FALSE /\ readAhead = FALSE =>
        \E C \in SUBSET Tickets : desk.count = Cardinality(C) /\ Counted(C)

\* A desk that has read the database counts what is in it.
LEMMA CountReads ==
  ASSUME DeskTypes, NEW on \in BOOLEAN, UNCHANGED <<checked, sending>>,
         desk'.count = Cardinality(checked),
         \A t \in Tickets : desk'.known[t] = IF t \notin Found(on) THEN "unknown"
                                             ELSE IF t \in checked THEN "in" ELSE "pending",
         news' = <<>> \/ (on = FALSE /\ UNCHANGED news), on = TRUE => sending = {}
  PROVE  CountFollows'
  <1>1. checked \in SUBSET Tickets
    BY DEF DeskTypes
  <1>2. \A t \in Tickets : desk'.known[t] # "unknown" => (t \in checked <=> desk'.known[t] = "in")
    OBVIOUS
  <1>3. on = FALSE => \A t \in Tickets : desk'.known[t] # "unknown"
    BY DEF Found
  <1>4. \A i \in DOMAIN news' : desk'.known[news'[i].ticket] # "unknown"
    <2>1. CASE news' = <<>>
      <3>1. \A i \in DOMAIN news' : FALSE
        BY <2>1
      <3>2. QED
        BY <3>1
    <2>2. CASE on = FALSE /\ UNCHANGED news
      BY <1>3, <2>2, NewsAre
    <2>3. QED
      BY <2>1, <2>2
  <1>5. \A t \in Tickets : desk'.known[t] = "unknown" => ~Sent(t)'
    <2>1. CASE on = TRUE
      BY <2>1 DEF Sent
    <2>2. CASE on = FALSE
      BY <1>3, <2>2
    <2>3. QED
      BY <2>1, <2>2
  <1>6. Counted(checked)'
    BY <1>2, <1>4, <1>5 DEF Counted
  <1>7. Cardinality(checked') = desk'.count /\ checked' \in SUBSET Tickets
    BY <1>1
  <1>8. QED
    BY <1>6, <1>7, Zenon DEF CountFollows

LEMMA CountStarts == DeskInit => CountFollows
  <1> SUFFICES ASSUME DeskInit PROVE CountFollows
    OBVIOUS
  <1>1. checked = {} /\ sending = {} /\ news = <<>> /\ desk = Reloaded(FALSE)
    BY DEF DeskInit
  <1>2. /\ desk.count = Cardinality(checked)
        /\ \A t \in Tickets : desk.known[t] = IF t \notin Found(FALSE) THEN "unknown"
                                              ELSE IF t \in checked THEN "in" ELSE "pending"
    BY <1>1, ReloadedIs
  <1>3. \A i \in DOMAIN news : FALSE
    BY <1>1
  <1>4. Counted(checked)
    BY <1>1, <1>2, <1>3 DEF Counted, Sent
  <1>5. QED
    BY <1>1, <1>2, <1>4 DEF CountFollows

\* What is told of is counted as it was when it had not been.
CountsOn(C, D, more) ==
    /\ \A t \in Tickets : desk'.known[t] # "unknown" => (t \in D <=> desk'.known[t] = "in")
    /\ \A t \in Tickets : desk'.known[t] = "unknown" => desk.known[t] = "unknown" /\ (t \in D <=> t \in C)
    /\ \A i \in DOMAIN more : /\ more[i].ticket \in Tickets
                              /\ \/ desk'.known[more[i].ticket] # "unknown"
                                 \/ InNews(more[i].ticket)
                                 \/ more[i].ticket \in C <=> more[i].in = FALSE
    /\ \A t \in Tickets : (\A i \in DOMAIN more : more[i].ticket # t) =>
            /\ t \in checked' <=> t \in checked
            /\ Sent(t) <=> Sent(t)'

LEMMA CountMore ==
  ASSUME DeskTypes, NEW C \in SUBSET Tickets, NEW D \in SUBSET Tickets, NEW more,
         Counted(C), Extended(more), CountsOn(C, D, more)
  PROVE  Counted(D)'
  <1> USE DEF Extended, CountsOn
  <1>1. ASSUME NEW i \in DOMAIN news', desk'.known[news'[i].ticket] = "unknown", FirstWord(i)'
        PROVE  news'[i].ticket \in D <=> news'[i].in = FALSE
    <2>1. CASE i \in 1..Len(news)
      <3>1. news'[i] = news[i] /\ news[i].ticket \in Tickets /\ i \in DOMAIN news
        BY <2>1, NewsAre
      <3>2. FirstWord(i)
        <4> SUFFICES ASSUME NEW j \in DOMAIN news, j < i
                     PROVE  news[j].ticket # news[i].ticket
          BY DEF FirstWord
        <4>1. j \in DOMAIN news' /\ news'[j] = news[j]
          OBVIOUS
        <4>2. QED
          BY <1>1, <3>1, <4>1 DEF FirstWord
      <3>3. QED
        BY <1>1, <3>1, <3>2 DEF Counted
    <2>2. CASE i \notin 1..Len(news)
      <3>1. i - Len(news) \in DOMAIN more /\ Len(news) + (i - Len(news)) = i
        BY <2>2
      <3>2. news'[i] = more[i - Len(news)]
        BY <3>1
      <3>3. ~InNews(news'[i].ticket)
        <4> SUFFICES ASSUME NEW j \in DOMAIN news, news[j].ticket = news'[i].ticket
                     PROVE  FALSE
          BY DEF InNews
        <4>1. j \in DOMAIN news' /\ news'[j] = news[j] /\ j < i
          BY <2>2
        <4>2. QED
          BY <1>1, <4>1 DEF FirstWord
      <3>4. QED
        BY <1>1, <3>1, <3>2, <3>3
    <2>3. QED
      BY <2>1, <2>2
  <1>2. ASSUME NEW t \in Tickets, desk'.known[t] = "unknown", ~InNews(t)'
        PROVE  t \in D <=> IF Sent(t)' THEN t \notin checked' ELSE t \in checked'
    <2>1. \A i \in DOMAIN more : more[i].ticket # t
      <3> TAKE i \in DOMAIN more
      <3>1. Len(news) + i \in DOMAIN news' /\ news'[Len(news) + i] = more[i]
        OBVIOUS
      <3>2. QED
        BY <1>2, <3>1 DEF InNews
    <2>2. ~InNews(t)
      <3>1. \A i \in DOMAIN news : i \in DOMAIN news' /\ news'[i] = news[i]
        OBVIOUS
      <3>2. QED
        BY <1>2, <3>1 DEF InNews
    <2>3. t \in C <=> IF Sent(t) THEN t \notin checked ELSE t \in checked
      BY <1>2, <2>2 DEF Counted
    <2>4. QED
      BY <1>2, <2>1, <2>3
  <1>3. QED
    BY <1>1, <1>2 DEF Counted

\* The tickets counted after the desk has been told one thing more.
AfterWord(C, t, in) == IF in = TRUE THEN C \cup {t} ELSE C \ {t}

\* It is told something that it counts the opposite of, unless it knows it.
CanBeTold(C, t, in) ==
    /\ desk.known[t] = Mark(in) => (t \in C <=> in = TRUE)
    /\ desk.known[t] # Mark(in) => (t \in C <=> in = FALSE)

IsTold(C, D, t, in) ==
    /\ desk'.count = Cardinality(D)
    /\ desk'.known[t] = Mark(in)
    /\ \A u \in Tickets : u # t => desk'.known[u] = desk.known[u] /\ (u \in D <=> u \in C)
    /\ t \in D <=> in = TRUE
    /\ Mark(in) # "unknown" /\ (Mark(in) = "in" <=> in = TRUE)

LEMMA CountApplied ==
  ASSUME DeskTypes, NEW C \in SUBSET Tickets, NEW t \in Tickets, NEW in \in BOOLEAN,
         desk.count = Cardinality(C), desk' = Applied(desk, t, in), CanBeTold(C, t, in)
  PROVE  \E D \in SUBSET Tickets : IsTold(C, D, t, in)
  <1> USE DEF CanBeTold
  <1>1. desk \in Desks /\ RowsAgree(desk)
    BY DEF DeskTypes
  <1>2. /\ desk'.known = [desk.known EXCEPT ![t] = Mark(in)]
        /\ desk'.count = IF desk.known[t] = Mark(in) THEN desk.count
                         ELSE IF in = TRUE THEN desk.count + 1 ELSE desk.count - 1
    BY <1>1, AppliedIs
  <1>3. desk.known \in [Tickets -> Knowledge]
    BY <1>1, KnownIs
  <1>4. IsFiniteSet(C) /\ Cardinality(C) \in Nat
    BY TicketsAreFinite, FS_Subset, FS_CardinalityType
  <1>5. desk'.count = Cardinality(AfterWord(C, t, in))
    <2>1. CASE desk.known[t] = Mark(in)
      <3>1. AfterWord(C, t, in) = C
        BY <2>1 DEF AfterWord
      <3>2. QED
        BY <1>2, <2>1, <3>1
    <2>2. CASE desk.known[t] # Mark(in) /\ in = TRUE
      <3>1. AfterWord(C, t, in) = C \cup {t} /\ t \notin C
        BY <2>2 DEF AfterWord
      <3>2. Cardinality(C \cup {t}) = Cardinality(C) + 1
        BY <1>4, <3>1, FS_AddElement
      <3>3. QED
        BY <1>2, <2>2, <3>1, <3>2
    <2>3. CASE desk.known[t] # Mark(in) /\ in = FALSE
      <3>1. AfterWord(C, t, in) = C \ {t} /\ t \in C
        BY <2>3 DEF AfterWord
      <3>2. Cardinality(C \ {t}) = Cardinality(C) - 1
        BY <1>4, <3>1, FS_RemoveElement
      <3>3. QED
        BY <1>2, <2>3, <3>1, <3>2
    <2>4. QED
      BY <2>1, <2>2, <2>3
  <1>6. Mark(in) # "unknown" /\ (Mark(in) = "in" <=> in = TRUE)
    BY DEF Mark
  <1>7. /\ AfterWord(C, t, in) \in SUBSET Tickets
        /\ \A u \in Tickets : u # t => (u \in AfterWord(C, t, in) <=> u \in C)
        /\ t \in AfterWord(C, t, in) <=> in = TRUE
    BY DEF AfterWord
  <1>8. desk'.known[t] = Mark(in) /\ \A u \in Tickets : u # t => desk'.known[u] = desk.known[u]
    BY <1>2, <1>3
  <1>9. IsTold(C, AfterWord(C, t, in), t, in)
    BY <1>5, <1>6, <1>7, <1>8 DEF IsTold
  <1>10. QED
    BY <1>7, <1>9, Zenon

LEMMA CountedPrime ==
  ASSUME NEW C \in SUBSET Tickets, desk'.count = Cardinality(C), Counted(C)'
  PROVE  CountFollows'
  BY Zenon DEF CountFollows

\* One message more, as a sequence of messages.
OnlyOf(more, t, in) ==
    /\ \A i \in DOMAIN more : more[i].ticket = t /\ more[i].in = in
    /\ \A u : (\A i \in DOMAIN more : more[i].ticket # u) => u # t

LEMMA OneWord ==
  ASSUME DeskTypes, NEW t \in Tickets, NEW in \in BOOLEAN, news' = Append(news, News(t, in))
  PROVE  \E more : Extended(more) /\ OnlyOf(more, t, in)
  <1> DEFINE w == News(t, in)
             more == <<w>>
  <1>1. w \in NewsItems /\ w.ticket = t /\ w.in = in
    BY DEF News, NewsItems
  <1>2. Extended(<<w>>) /\ DOMAIN <<w>> = {1} /\ <<w>>[1] = w
    <2> HIDE DEF w
    <2>1. QED
      BY <1>1, OneMore DEF DeskTypes, w
  <1> HIDE DEF w
  <1>3. Extended(more) /\ OnlyOf(more, t, in)
    BY <1>1, <1>2 DEF OnlyOf
  <1> HIDE DEF more
  <1>4. QED
    BY <1>3

LEMMA CountToggle ==
  ASSUME DeskTypes, CountFollows, connected = TRUE, UNCHANGED connected,
         crossed' = FALSE, readAhead' = FALSE,
         NEW t \in Tickets, NEW in \in BOOLEAN, Toggles(t, in),
         readAhead' = FALSE /\ desk.known[t] = "unknown" => (in = TRUE <=> t \notin checked),
         desk.known[t] # "unknown" => (in = TRUE <=> desk.known[t] = "pending")
  PROVE  CountFollows'
  <1>1. /\ checked' = IF in THEN checked \cup {t} ELSE checked \ {t}
        /\ news' = Append(news, News(t, in)) /\ Changes(t) /\ UNCHANGED sending
        /\ desk' = Applied(desk, t, in)
        /\ readAhead' = FALSE => readAhead = FALSE /\ (desk.known[t] = "unknown" => ~OnItsWay(t))
    BY DEF Toggles, Shows
  <1>2. crossed = FALSE
    <2>1. crossed \in BOOLEAN /\ crossed' = (crossed \/ (checked' # checked /\ Sent(t)))
      BY <1>1 DEF DeskTypes, Changes, Sent
    <2>2. QED
      BY <2>1
  <1>3. readAhead = FALSE /\ (desk.known[t] = "unknown" => ~Sent(t) /\ ~InNews(t))
    BY <1>1 DEF OnItsWay, Sent, InNews
  <1>4. PICK C \in SUBSET Tickets : desk.count = Cardinality(C) /\ Counted(C)
    BY <1>2, <1>3 DEF CountFollows
  <1>5. /\ desk.known[t] # "unknown" => (t \in C <=> desk.known[t] = "in")
        /\ desk.known[t] = "unknown" => (t \in C <=> t \in checked)
    BY <1>3, <1>4 DEF Counted
  <1>6. desk.known[t] \in Knowledge
    BY KnownIs DEF DeskTypes
  <1>7. desk.known[t] # Mark(in) /\ (t \in C <=> in = FALSE)
    BY <1>5, <1>6 DEF Mark, Knowledge
  <1>8. PICK D \in SUBSET Tickets : IsTold(C, D, t, in)
    <2>1. CanBeTold(C, t, in)
      BY <1>7 DEF CanBeTold
    <2>2. desk' = Applied(desk, t, in) /\ desk.count = Cardinality(C)
      BY <1>1, <1>4
    <2>3. QED
      BY <2>1, <2>2, CountApplied
  <1> USE DEF IsTold
  <1>11. PICK more : Extended(more) /\ OnlyOf(more, t, in)
    BY <1>1, OneWord
  <1> USE DEF OnlyOf
  <1>12. \A u \in Tickets : desk'.known[u] # "unknown" => (u \in D <=> desk'.known[u] = "in")
    <2> SUFFICES ASSUME NEW u \in Tickets, desk'.known[u] # "unknown"
                 PROVE  u \in D <=> desk'.known[u] = "in"
      OBVIOUS
    <2>1. CASE u = t
      BY <1>8, <2>1
    <2>2. CASE u # t
      BY <1>4, <1>8, <2>2 DEF Counted
    <2>3. QED
      BY <2>1, <2>2
  <1>13. \A u \in Tickets : desk'.known[u] = "unknown" => desk.known[u] = "unknown" /\ (u \in D <=> u \in C)
    BY <1>8
  <1>14. \A i \in DOMAIN more : /\ more[i].ticket \in Tickets
                                /\ \/ desk'.known[more[i].ticket] # "unknown"
                                   \/ InNews(more[i].ticket)
                                   \/ more[i].ticket \in C <=> more[i].in = FALSE
    <2>1. \A i \in DOMAIN more : more[i].ticket \in Tickets /\ desk'.known[more[i].ticket] # "unknown"
      BY <1>8, <1>11
    <2>2. QED
      BY <2>1, Zenon
  <1>15. \A u \in Tickets : (\A i \in DOMAIN more : more[i].ticket # u) =>
            /\ u \in checked' <=> u \in checked
            /\ Sent(u) <=> Sent(u)'
    <2>1. \A u \in Tickets : u # t => (u \in checked' <=> u \in checked) /\ (Sent(u) <=> Sent(u)')
      BY <1>1 DEF Sent
    <2>2. QED
      BY <1>11, <2>1, Zenon
  <1>16. CountsOn(C, D, more)
    BY <1>12, <1>13, <1>14, <1>15, Zenon DEF CountsOn
  <1>17. Counted(D)'
    <2> HIDE DEF OnlyOf, IsTold
    <2>1. QED
      BY <1>4, <1>11, <1>16, CountMore
  <1>18. QED
    BY <1>8, <1>17, CountedPrime

LEMMA CountNews ==
  ASSUME DeskTypes, PageFollowsDesk, CountFollows, HandleNews
  PROVE  CountFollows'
  <1> SUFFICES ASSUME crossed' = FALSE, readAhead' = FALSE
               PROVE  CountFollows'
    BY DEF CountFollows
  <1>1. /\ connected = TRUE
        /\ UNCHANGED <<checked, sending, connected, crossed, readAhead>>
        /\ news # <<>> /\ news' = Tail(news) /\ Head(news) \in NewsItems
        /\ desk' = Applied(desk, Head(news).ticket, Head(news).in)
    BY NewsDoes
  <1>2. Shortened
    BY <1>1, OneLess DEF DeskTypes
  <1> USE DEF Shortened
  <1>3. PICK C \in SUBSET Tickets : desk.count = Cardinality(C) /\ Counted(C)
    BY <1>1 DEF CountFollows
  <1>4. PICK t \in Tickets, in \in BOOLEAN : t = Head(news).ticket /\ in = Head(news).in
    <2>1. Head(news).ticket \in Tickets /\ Head(news).in \in BOOLEAN
      BY <1>1 DEF NewsItems
    <2>2. QED
      BY <2>1
  <1>5. 1 \in DOMAIN news /\ t = news[1].ticket /\ in = news[1].in
    BY <1>2, <1>4
  <1>6. /\ desk.known[t] # "unknown" => (t \in C <=> desk.known[t] = "in")
        /\ desk.known[t] = "unknown" => (t \in C <=> in = FALSE)
    <2>1. FirstWord(1)
      BY <1>2 DEF FirstWord
    <2>2. QED
      BY <1>3, <1>4, <1>5, <2>1 DEF Counted
  <1>7. desk.known[t] \in Knowledge
    BY <1>4, KnownIs DEF DeskTypes
  <1>8. /\ desk.known[t] = Mark(in) => (t \in C <=> in = TRUE)
        /\ desk.known[t] # Mark(in) => (t \in C <=> in = FALSE)
    BY <1>4, <1>6, <1>7 DEF Mark, Knowledge
  <1>9. PICK D \in SUBSET Tickets : IsTold(C, D, t, in)
    <2>1. CanBeTold(C, t, in)
      BY <1>8 DEF CanBeTold
    <2>2. desk' = Applied(desk, t, in) /\ desk.count = Cardinality(C)
      BY <1>1, <1>3, <1>4
    <2>3. QED
      BY <2>1, <2>2, CountApplied
  <1> USE DEF IsTold
  <1>10. \A u \in Tickets : desk'.known[u] # "unknown" => (u \in D <=> desk'.known[u] = "in")
    <2> SUFFICES ASSUME NEW u \in Tickets, desk'.known[u] # "unknown"
                 PROVE  u \in D <=> desk'.known[u] = "in"
      OBVIOUS
    <2>1. CASE u = t
      BY <1>9, <2>1
    <2>2. CASE u # t
      BY <1>3, <1>9, <2>2 DEF Counted
    <2>3. QED
      BY <2>1, <2>2
  <1>11. ASSUME NEW i \in DOMAIN news', desk'.known[news'[i].ticket] = "unknown", FirstWord(i)'
         PROVE  news'[i].ticket \in D <=> news'[i].in = FALSE
    <2>1. i + 1 \in DOMAIN news /\ news'[i] = news[i + 1] /\ news[i + 1].ticket \in Tickets
      BY <1>2, NewsAre
    <2>2. news[i + 1].ticket # t
      BY <1>9, <1>11, <2>1
    <2>3. FirstWord(i + 1)
      <3> SUFFICES ASSUME NEW j \in DOMAIN news, j < i + 1
                   PROVE  news[j].ticket # news[i + 1].ticket
        BY DEF FirstWord
      <3>1. CASE j = 1
        BY <1>5, <2>2, <3>1
      <3>2. CASE j # 1
        <4>1. j - 1 \in DOMAIN news' /\ j - 1 < i /\ (j - 1) + 1 = j
          BY <1>2, <3>2
        <4>2. news'[j - 1] = news[j]
          BY <1>2, <4>1
        <4>3. QED
          BY <1>11, <2>1, <4>1, <4>2 DEF FirstWord
      <3>3. QED
        BY <3>1, <3>2
    <2>4. desk.known[news[i + 1].ticket] = "unknown" /\ (news[i + 1].ticket \in D <=> news[i + 1].ticket \in C)
      BY <1>9, <1>11, <2>1, <2>2
    <2>5. QED
      BY <1>3, <2>1, <2>3, <2>4 DEF Counted
  <1>12. ASSUME NEW u \in Tickets, desk'.known[u] = "unknown", ~InNews(u)'
         PROVE  u \in D <=> IF Sent(u)' THEN u \notin checked' ELSE u \in checked'
    <2>1. u # t
      BY <1>9, <1>12
    <2>2. ~InNews(u)
      <3> SUFFICES ASSUME NEW j \in DOMAIN news, news[j].ticket = u
                   PROVE  FALSE
        BY DEF InNews
      <3>1. j # 1
        BY <1>5, <2>1
      <3>2. j - 1 \in DOMAIN news' /\ (j - 1) + 1 = j
        BY <1>2, <3>1
      <3>3. news'[j - 1] = news[j]
        BY <1>2, <3>2
      <3>4. QED
        BY <1>12, <3>2, <3>3 DEF InNews
    <2>3. u \in C <=> IF Sent(u) THEN u \notin checked ELSE u \in checked
      BY <1>3, <1>9, <1>12, <2>1, <2>2 DEF Counted
    <2>4. Sent(u)' <=> Sent(u)
      BY <1>1 DEF Sent
    <2>5. QED
      BY <1>1, <1>9, <2>1, <2>3, <2>4
  <1>13. Counted(D)'
    BY <1>10, <1>11, <1>12 DEF Counted
  <1>14. QED
    BY <1>9, <1>13, CountedPrime

LEMMA CountSteps ==
  ASSUME DeskTypes, PageFollowsDesk, LastWordIsTrue, CountFollows, [DeskNext]_deskVars
  PROVE  CountFollows'
  <1> SUFFICES ASSUME connected' = TRUE, crossed' = FALSE, readAhead' = FALSE
               PROVE  CountFollows'
    BY DEF CountFollows
  <1>0. crossed \in BOOLEAN /\ readAhead \in BOOLEAN /\ connected \in BOOLEAN
    BY DEF DeskTypes
  <1>1. ASSUME UNCHANGED <<checked, sending, news, desk, connected, crossed, readAhead>>
        PROVE  CountFollows'
    BY <1>1 DEF CountFollows, Counted, FirstWord, Sent, InNews
  <1>2. CASE UNCHANGED deskVars
    BY <1>1, <1>2 DEF deskVars
  <1>3. CASE KeyStep
    BY <1>1, <1>3, KeyStepDoes DEF KeyFrame
  <1>4. CASE ReceivePatch
    BY <1>1, <1>4 DEF ReceivePatch
  <1>5. ASSUME Restarted, UNCHANGED <<checked, sending>>
        PROVE  CountFollows'
    <2>1. tab.search \in BOOLEAN
      BY DEF DeskTypes, Tabs
    <2>2. tab.search = TRUE => sending = {}
      BY <1>0, <1>5, <2>1, RestartedDoes
    <2>3. QED
      BY <1>5, <2>1, <2>2, RestartedDoes, CountReads
  <1>6. CASE HandleToggle
    <2>1. connected = TRUE /\ UNCHANGED <<sending, connected>>
      BY <1>6, ToggleDoes
    <2>2. CASE Restarted /\ UNCHANGED <<checked, crossed>>
      BY <1>5, <2>1, <2>2
    <2>3. CASE \E t \in Tickets, in \in BOOLEAN :
                  /\ Toggles(t, in)
                  /\ readAhead' = FALSE /\ desk.known[t] = "unknown" => (in = TRUE <=> t \notin checked)
                  /\ desk.known[t] # "unknown" => (in = TRUE <=> desk.known[t] = "pending")
      BY <2>1, <2>3, CountToggle
    <2>4. QED
      BY <1>6, <2>2, <2>3, ToggleDoes, Zenon
  <1>7. CASE HandleOrder
    <2>1. connected = TRUE /\ UNCHANGED <<sending, desk, connected, readAhead>>
      BY <1>7, OrderDoes
    <2>2. PICK left \in SUBSET Tickets, more \in Seq(NewsItems) :
              /\ left \cap checked = {} /\ checked' = checked \cup left
              /\ news' = news \o more
              /\ crossed' = (crossed \/ \E s \in sending : s.ticket \in left)
              /\ \A i \in DOMAIN more : more[i].ticket \in left /\ more[i].in = TRUE
              /\ \A i, j \in DOMAIN more : more[i].ticket = more[j].ticket => i = j
              /\ \A t \in left : \E i \in DOMAIN more : more[i].ticket = t
      BY <1>7, OrderDoes, Zenon
    <2>3. Extended(more)
      BY <2>2, ManyMore DEF DeskTypes
    <2>4. crossed = FALSE /\ \A t \in left : ~Sent(t)
      BY <1>0, <2>2 DEF Sent
    <2>5. PICK C \in SUBSET Tickets : desk.count = Cardinality(C) /\ Counted(C)
      BY <2>1, <2>4 DEF CountFollows
    <2>6. \A t \in Tickets : desk'.known[t] # "unknown" => (t \in C <=> desk'.known[t] = "in")
      BY <2>1, <2>5 DEF Counted
    <2>7. \A t \in Tickets : desk'.known[t] = "unknown" => desk.known[t] = "unknown" /\ (t \in C <=> t \in C)
      BY <2>1
    <2>8. ASSUME NEW i \in DOMAIN more
          PROVE  /\ more[i].ticket \in Tickets
                 /\ \/ desk'.known[more[i].ticket] # "unknown"
                    \/ InNews(more[i].ticket)
                    \/ more[i].ticket \in C <=> more[i].in = FALSE
      <3>1. more[i].ticket \in left /\ more[i].in = TRUE /\ more[i].ticket \in Tickets
            /\ more[i].ticket \notin checked /\ ~Sent(more[i].ticket)
        BY <2>2, <2>4
      <3>2. QED
        BY <2>1, <2>5, <3>1 DEF Counted
    <2>9. \A t \in Tickets : (\A i \in DOMAIN more : more[i].ticket # t) =>
            (t \in checked' <=> t \in checked) /\ (Sent(t) <=> Sent(t)')
      BY <2>1, <2>2 DEF Sent
    <2>12. CountsOn(C, C, more)
      BY <2>6, <2>7, <2>8, <2>9, Zenon DEF CountsOn
    <2>10. Counted(C)'
      BY <2>3, <2>5, <2>12, CountMore
    <2>11. QED
      BY <2>1, <2>5, <2>10, CountedPrime
  <1>8. CASE HandleSearch
    <2>1. /\ UNCHANGED <<checked, sending, news>> /\ desk'.count = Cardinality(checked)
      BY <1>8, SearchDoes
    <2>2. PICK on \in BOOLEAN :
              /\ \A t \in Tickets : desk'.known[t] = IF t \notin Found(on) THEN "unknown"
                                                     ELSE IF t \in checked THEN "in" ELSE "pending"
              /\ readAhead' = (readAhead \/ (on /\ (sending # {} \/ news # <<>>)))
      BY <1>8, SearchDoes
    <2>3. on = TRUE => sending = {} /\ news = <<>>
      BY <1>0, <2>2
    <2>4. QED
      BY <2>1, <2>2, <2>3, CountReads
  <1>9. CASE HandleNews
    BY <1>9, CountNews
  <1>15. ASSUME NEW t \in Tickets, OtherRepeats(t)
         PROVE  CountFollows'
    <2>1. /\ sending' = sending \cup {[ticket |-> t, in |-> t \in checked, at |-> others]}
          /\ readAhead' = (readAhead \/ desk.known[t] = "unknown")
          /\ UNCHANGED <<checked, news, desk, connected, crossed>>
      BY <1>15 DEF OtherRepeats
    <2>2. readAhead = FALSE /\ desk.known[t] # "unknown"
      BY <1>0, <2>1
    <2> DEFINE own == [ticket |-> t, in |-> t \in checked, at |-> others]
    <2>3. own.ticket = t
      OBVIOUS
    <2>4. \A s : s \in sending' <=> s \in sending \/ s = own
      BY <2>1
    <2> HIDE DEF own
    <2>5. \A x : x # t => (Sent(x)' <=> Sent(x))
      BY <2>3, <2>4 DEF Sent
    <2>6. PICK C \in SUBSET Tickets : desk.count = Cardinality(C) /\ Counted(C)
      BY <2>1, <2>2 DEF CountFollows
    <2>7. Counted(C)'
      BY <2>1, <2>2, <2>5, <2>6 DEF Counted, FirstWord, InNews
    <2>8. QED
      BY <2>1, <2>6, <2>7, CountedPrime
  <1>10. ASSUME NEW t \in Tickets, OtherCommits(t)
         PROVE  CountFollows'
    <2>1. /\ checked' = IF t \in checked THEN checked \ {t} ELSE checked \cup {t}
          /\ sending' = sending \cup {[ticket |-> t, in |-> t \notin checked, at |-> others]}
          /\ Changes(t)
          /\ UNCHANGED <<news, desk, connected, readAhead>>
      BY <1>10 DEF OtherCommits
    <2>2. crossed = FALSE /\ ~Sent(t)
      <3>1. crossed' = (crossed \/ (checked' # checked /\ Sent(t)))
        BY <2>1 DEF Changes, Sent
      <3>2. checked' # checked
        BY <2>1
      <3>3. QED
        BY <1>0, <3>1, <3>2
    <2> DEFINE own == [ticket |-> t, in |-> t \notin checked, at |-> others]
    <2>3. own.ticket = t
      OBVIOUS
    <2>4. own \in sending' /\ \A s : s \in sending' <=> s \in sending \/ s = own
      BY <2>1
    <2> HIDE DEF own
    <2>5. \A x : (x \in checked' <=> IF x = t THEN t \notin checked ELSE x \in checked)
      BY <2>1
    <2>6. \A x : Sent(x)' <=> Sent(x) \/ x = t
      BY <2>3, <2>4 DEF Sent
    <2>7. PICK C \in SUBSET Tickets : desk.count = Cardinality(C) /\ Counted(C)
      BY <2>1, <2>2 DEF CountFollows
    <2>8. ASSUME NEW u \in Tickets, desk'.known[u] = "unknown", ~InNews(u)'
          PROVE  u \in C <=> IF Sent(u)' THEN u \notin checked' ELSE u \in checked'
      <3>1. u \in C <=> IF Sent(u) THEN u \notin checked ELSE u \in checked
        BY <2>1, <2>7, <2>8 DEF Counted, InNews
      <3>2. CASE u = t
        BY <2>2, <2>5, <2>6, <3>1, <3>2
      <3>3. CASE u # t
        BY <2>5, <2>6, <3>1, <3>3
      <3>4. QED
        BY <3>2, <3>3
    <2>9. Counted(C)'
      BY <2>1, <2>7, <2>8 DEF Counted, FirstWord
    <2>10. QED
      BY <2>1, <2>7, <2>9, CountedPrime
  <1>11. ASSUME NEW s \in sending, OtherBroadcasts(s)
         PROVE  CountFollows'
    <2>1. /\ sending' = sending \ {s}
          /\ news' = IF connected THEN Append(news, News(s.ticket, s.in)) ELSE news
          /\ UNCHANGED <<checked, desk, connected, crossed, readAhead>>
      BY <1>11 DEF OtherBroadcasts
    <2>2. PICK C \in SUBSET Tickets : desk.count = Cardinality(C) /\ Counted(C)
      BY <2>1 DEF CountFollows
    <2>3. PICK t \in Tickets, in \in BOOLEAN : t = s.ticket /\ in = s.in
      BY DEF DeskTypes
    <2>4. in = TRUE <=> t \in checked
      BY <2>1, <2>3 DEF LastWordIsTrue, SaysTrue
    <2>5. desk'.known[t] # "unknown" \/ InNews(t) \/ (t \in C <=> in = FALSE)
      <3>1. Sent(t)
        BY <2>3 DEF Sent
      <3>2. QED
        BY <2>1, <2>2, <2>4, <3>1 DEF Counted
    <2>6. PICK more : Extended(more) /\ OnlyOf(more, t, in)
      <3>1. news' = Append(news, News(t, in))
        BY <2>1, <2>3
      <3>2. QED
        BY <3>1, OneWord
    <2>7. \A i \in DOMAIN more : /\ more[i].ticket \in Tickets
                                 /\ \/ desk'.known[more[i].ticket] # "unknown"
                                    \/ InNews(more[i].ticket)
                                    \/ more[i].ticket \in C <=> more[i].in = FALSE
      BY <2>5, <2>6 DEF OnlyOf
    <2>8. \A u \in Tickets : (\A i \in DOMAIN more : more[i].ticket # u) =>
            /\ u \in checked' <=> u \in checked
            /\ Sent(u) <=> Sent(u)'
      <3>1. \A u \in Tickets : u # t => (u \in checked' <=> u \in checked) /\ (Sent(u) <=> Sent(u)')
        BY <2>1, <2>3 DEF Sent
      <3>2. QED
        BY <2>6, <3>1, Zenon DEF OnlyOf
    <2>9. CountsOn(C, C, more)
      <3>1. /\ \A u \in Tickets : desk'.known[u] # "unknown" => (u \in C <=> desk'.known[u] = "in")
            /\ \A u \in Tickets : desk'.known[u] = "unknown" => desk.known[u] = "unknown" /\ (u \in C <=> u \in C)
        BY <2>1, <2>2 DEF Counted
      <3>2. QED
        BY <2>7, <2>8, <3>1, Zenon DEF CountsOn
    <2>10. Counted(C)'
      BY <2>2, <2>6, <2>9, CountMore
    <2>11. QED
      BY <2>1, <2>2, <2>10, CountedPrime
  <1>12. CASE LoseDesk
    BY <1>12 DEF LoseDesk
  <1>13. CASE RejoinDesk
    BY <1>5, <1>13 DEF RejoinDesk
  <1>14. QED
    BY <1>2, <1>3, <1>4, <1>6, <1>7, <1>8, <1>9, <1>10, <1>11, <1>12, <1>13, <1>15, Zenon
    DEF DeskNext, KeyStep

-----------------------------------------------------------------------------
(* What follows for the door.                                              *)

\* A list without repetitions is as long as it has members.
LEMMA NoneTwice ==
  ASSUME NEW rows \in Seq(Tickets), IsInjective(rows)
  PROVE  Cardinality(ToSet(rows)) = Len(rows)
  <1> DEFINE S == DOMAIN rows
             T == ToSet(rows)
  <1>1. Len(rows) \in Nat /\ S = 1..Len(rows)
    OBVIOUS
  <1>2. IsFiniteSet(S) /\ Cardinality(S) = Len(rows)
    <2>1. IsFiniteSet(1..Len(rows)) /\ Cardinality(1..Len(rows)) = Len(rows)
      BY <1>1, FS_Interval
    <2>2. QED
      BY <1>1, <2>1
  <1>3. /\ \A i \in S : rows[i] \in T
        /\ \A t \in T : \E i \in S : rows[i] = t
    BY InRows
  <1>4. \A i, j \in S : rows[i] = rows[j] => i = j
    BY Zenon DEF IsInjective
  <1>5. rows = [i \in S |-> rows[i]]
    BY <1>1
  <1> HIDE DEF S, T
  <1>6. rows \in [S -> T]
    BY <1>3, <1>5
  <1>7. rows \in Surjection(S, T) /\ rows \in Injection(S, T)
    BY <1>3, <1>4, <1>6, Zenon DEF Surjection, Injection
  <1>8. Cardinality(T) = Cardinality(S)
    BY <1>2, <1>7, FS_Surjection
  <1>9. QED
    BY <1>2, <1>8 DEF T

\* The inductive invariant: the desk's own list agrees with what it knows, the page follows
\* it, and what it has been told or will be told, and what it counts, ends in what is true.
DeskInv == DeskTypes /\ PageFollowsDesk /\ LastWordIsTrue /\ CountFollows

LEMMA DeskStarts == DeskInit => DeskInv
  BY DeskTypesStart, LastWordStarts, CountStarts DEF DeskInv

LEMMA DeskSteps == DeskInv /\ [DeskNext]_deskVars => DeskInv'
  <1> SUFFICES ASSUME DeskInv, [DeskNext]_deskVars
               PROVE  DeskInv'
    OBVIOUS
  <1>1. DeskTypes' /\ PageFollowsDesk'
    BY DeskTypesStep DEF DeskInv
  <1>2. LastWordIsTrue'
    BY LastWordSteps DEF DeskInv
  <1>3. CountFollows'
    BY CountSteps DEF DeskInv
  <1>4. QED
    BY <1>1, <1>2, <1>3 DEF DeskInv

LEMMA DeskInvTypes == DeskInv => DeskTypeOK
  <1> SUFFICES ASSUME DeskInv
               PROVE  DeskTypeOK
    OBVIOUS
  <1>1. desk \in Desks /\ tab \in Tabs /\ checked \subseteq Tickets
    BY DEF DeskInv, DeskTypes
  <1>2. {connected, crossed, readAhead} \subseteq BOOLEAN
    BY Zenon DEF DeskInv, DeskTypes
  <1>3. desk.known \in [Tickets -> {"unknown", "pending", "in"}] /\ desk.rows \in Seq(Tickets) /\ desk.count \in Int
    BY <1>1 DEF Desks, Knowledge
  <1>4. tab.rows \in Seq(Tickets) /\ tab.text \in BOOLEAN /\ tab.search \in BOOLEAN
    BY <1>1 DEF Tabs
  <1>5. {tab.text, tab.search} \subseteq BOOLEAN
    BY <1>4, Zenon
  <1>6. QED
    BY <1>1, <1>2, <1>3, <1>4, <1>5, Zenon DEF DeskTypeOK

LEMMA SettledDesk ==
  ASSUME DeskInv, DeskSettled, crossed = FALSE
  PROVE  /\ connected = TRUE /\ sending = {} /\ news = <<>> /\ patches = <<>>
         /\ tab.rows = desk.rows
         /\ \A t \in Tickets : ~Sent(t) /\ ~InNews(t)
         /\ \A t \in Tickets : desk.known[t] = "unknown" \/ (desk.known[t] = "in" <=> t \in checked)
  <1>1. connected = TRUE /\ sending = {} /\ news = <<>> /\ patches = <<>>
    BY Zenon DEF DeskInv, DeskTypes, DeskSettled
  <1>2. tab.rows = desk.rows
    BY <1>1 DEF DeskInv, PageFollowsDesk
  <1>3. \A t : ~Sent(t) /\ ~InNews(t)
    BY <1>1 DEF Sent, InNews
  <1>4. \A t \in Tickets : desk.known[t] = "unknown" \/ (desk.known[t] = "in" <=> t \in checked)
    BY <1>1, <1>3, Zenon DEF DeskInv, LastWordIsTrue
  <1>5. QED
    BY <1>1, <1>2, <1>3, <1>4, Zenon

LEMMA InvShowsWhoIsMissing == DeskInv => ListShowsWhoIsMissing
  <1> SUFFICES ASSUME DeskInv, DeskSettled, crossed = FALSE
               PROVE  /\ \A t \in Found(desk.search) \ checked : t \in ToSet(tab.rows)
                      /\ ToSet(tab.rows) \cap checked = {}
                      /\ Cardinality(ToSet(tab.rows)) = Len(tab.rows)
    BY Zenon DEF ListShowsWhoIsMissing, DeskInv, DeskTypes
  <1>1. /\ tab.rows = desk.rows
        /\ \A t \in Tickets : desk.known[t] = "unknown" \/ (desk.known[t] = "in" <=> t \in checked)
    BY SettledDesk
  <1>2. desk \in Desks /\ RowsAgree(desk) /\ checked \subseteq Tickets
    BY DEF DeskInv, DeskTypes
  <1>3. desk.rows \in Seq(Tickets)
    BY <1>2 DEF Desks
  <1>4. ASSUME NEW t \in Found(desk.search) \ checked
        PROVE  t \in ToSet(tab.rows)
    <2>1. t \in Tickets /\ t \notin checked
      BY FoundAreTickets
    <2>2. desk.known[t] = "in" \/ (desk.known[t] = "pending" /\ t \in ToSet(desk.rows))
      BY <1>2 DEF RowsAgree
    <2>3. QED
      BY <1>1, <2>1, <2>2
  <1>5. ASSUME NEW t \in ToSet(tab.rows), t \in checked
        PROVE  FALSE
    <2>1. desk.known[t] = "pending" /\ t \in Tickets
      BY <1>1, <1>2, <1>5 DEF RowsAgree
    <2>2. QED
      BY <1>1, <1>5, <2>1
  <1>6. Cardinality(ToSet(tab.rows)) = Len(tab.rows)
    BY <1>1, <1>2, <1>3, NoneTwice DEF RowsAgree
  <1>7. QED
    BY <1>4, <1>5, <1>6

LEMMA InvCounts == DeskInv => CountIsTrue
  <1> SUFFICES ASSUME DeskInv, DeskSettled, crossed = FALSE, readAhead = FALSE
               PROVE  desk.count = Cardinality(checked)
    BY Zenon DEF CountIsTrue, DeskInv, DeskTypes
  <1>1. /\ connected = TRUE
        /\ \A t \in Tickets : ~Sent(t) /\ ~InNews(t)
        /\ \A t \in Tickets : desk.known[t] = "unknown" \/ (desk.known[t] = "in" <=> t \in checked)
    BY SettledDesk
  <1>2. PICK C \in SUBSET Tickets : desk.count = Cardinality(C) /\ Counted(C)
    BY <1>1 DEF DeskInv, CountFollows
  <1>3. checked \subseteq Tickets
    BY DEF DeskInv, DeskTypes
  <1>4. ASSUME NEW t \in Tickets
        PROVE  t \in C <=> t \in checked
    <2>1. CASE desk.known[t] = "unknown"
      BY <1>1, <1>2, <2>1 DEF Counted
    <2>2. CASE desk.known[t] # "unknown"
      BY <1>1, <1>2, <2>2 DEF Counted
    <2>3. QED
      BY <2>1, <2>2
  <1>5. C = checked
    BY <1>3, <1>4
  <1>6. QED
    BY <1>2, <1>5

\* What the door goes by is right once nothing is under way, for any list of tickets, any
\* orders, any search and any number of other desks: who is missing is listed, each once,
\* and the count is the database's (admin_event_check_in_live.ex, apply_ticket_checked_in,
\* apply_ticket_unchecked and reload_tickets against the broadcasts of scanning.ex).
THEOREM DeskIsAlwaysTrue == DeskSpec => []DeskIsTrue
  <1>1. DeskInv => DeskIsTrue
    BY InvShowsWhoIsMissing, InvCounts DEF DeskIsTrue
  <1>2. QED
    BY <1>1, DeskStarts, DeskSteps, PTL DEF DeskSpec
=============================================================================

---------------------------- MODULE TotalsProofs ----------------------------
(***************************************************************************)
(* The facts about totals over finite sets that the proofs about seats     *)
(* need.  The library's induction theorems take an operator, which the     *)
(* provers cannot be given; here an induction is the search for a smallest *)
(* exception instead (NoException).                                        *)
(***************************************************************************)
EXTENDS Totals, FiniteSetTheorems, TLAPS

\* A family of sets each of which has a smaller one in the family is empty.
LEMMA NoException ==
  ASSUME NEW S, IsFiniteSet(S), NEW Bad \in SUBSET (SUBSET S),
         \A T \in Bad : \E U \in Bad : U \subseteq T /\ U # T
  PROVE  Bad = {}
  <1> SUFFICES ASSUME Bad # {}
               PROVE  FALSE
    OBVIOUS
  <1>1. IsWellFoundedOn(StrictSubsetOrdering(S), SUBSET S)
    <2>1. IsWellFoundedOn(StrictSubsetOrdering(S), FiniteSubsetsOf(S))
      BY FS_StrictSubsetOrderingWellFounded
    <2>2. FiniteSubsetsOf(S) = SUBSET S
      BY FS_FiniteSubsetsOfFinite
    <2>3. QED
      BY <2>1, <2>2, Zenon
  <1>2. \E T \in Bad : \A U \in Bad : ~(<<U, T>> \in StrictSubsetOrdering(S))
    BY <1>1, WFMin
  <1>3. PICK T \in Bad : \A U \in Bad : ~(<<U, T>> \in StrictSubsetOrdering(S))
    BY <1>2
  <1>4. PICK U \in Bad : U \subseteq T /\ U # T
    OBVIOUS
  <1>5. <<U, T>> \in StrictSubsetOrdering(S)
    BY <1>4 DEF StrictSubsetOrdering
  <1>6. QED
    BY <1>3, <1>5

-----------------------------------------------------------------------------
(* The recursion of the library's fold, which is defined by a choice.       *)

Pick(s) == CHOOSE x \in s : TRUE
Step(f, g, s) == IF s = {} THEN 0 ELSE f[Pick(s)] + g[s \ {Pick(s)}]
Unfolds(f, g, S) == g = [s \in SUBSET S |-> Step(f, g, s)]
Fold(f, S) == CHOOSE g : Unfolds(f, g, S)

LEMMA TotalIsFold ==
  ASSUME NEW f, NEW S
  PROVE  Total(f, S) = Fold(f, S)[S]
  BY DEF Total, MapThenSumSet, MapThenFoldSet, Fold, Unfolds, Step, Pick

LEMMA PickIsIn ==
  ASSUME NEW s, s # {}
  PROVE  Pick(s) \in s /\ s \ {Pick(s)} \subseteq s /\ s \ {Pick(s)} # s
  BY DEF Pick

\* Two foldings agree wherever both are defined.
LEMMA FoldsAgree ==
  ASSUME NEW f, NEW S, IsFiniteSet(S), NEW T, NEW g, NEW h, Unfolds(f, g, S), Unfolds(f, h, T),
         NEW u \in SUBSET S, u \in SUBSET T
  PROVE  g[u] = h[u]
  <1> DEFINE Bad == {s \in SUBSET S : s \in SUBSET T /\ g[s] # h[s]}
  <1>1. ASSUME NEW s \in Bad
        PROVE  \E r \in Bad : r \subseteq s /\ r # s
    <2>1. g[s] = Step(f, g, s) /\ h[s] = Step(f, h, s)
      BY <1>1 DEF Unfolds
    <2>2. s # {}
      BY <1>1, <2>1 DEF Step
    <2>3. g[s \ {Pick(s)}] # h[s \ {Pick(s)}]
      BY <1>1, <2>1, <2>2 DEF Step
    <2>4. s \ {Pick(s)} \in Bad
      BY <1>1, <2>3
    <2>5. QED
      BY <2>2, <2>4, PickIsIn
  <1>2. Bad = {}
    <2>1. Bad \in SUBSET (SUBSET S)
      OBVIOUS
    <2> HIDE DEF Bad
    <2>2. QED
      BY <1>1, <2>1, NoException
  <1>3. QED
    BY <1>2

LEMMA FoldExists ==
  ASSUME NEW f, NEW S, IsFiniteSet(S)
  PROVE  \A T \in SUBSET S : Unfolds(f, Fold(f, T), T)
  <1> DEFINE Bad == {T \in SUBSET S : ~Unfolds(f, Fold(f, T), T)}
  <1>1. ASSUME NEW T \in Bad
        PROVE  \E U \in Bad : U \subseteq T /\ U # T
    <2>1. SUFFICES ASSUME \A U \in SUBSET T : U # T => Unfolds(f, Fold(f, U), U)
                   PROVE  \E g : Unfolds(f, g, T)
      <3>1. (\E g : Unfolds(f, g, T)) => Unfolds(f, Fold(f, T), T)
        BY DEF Fold
      <3>2. ~Unfolds(f, Fold(f, T), T)
        BY <1>1
      <3>3. QED
        BY <1>1, <3>1, <3>2
    <2> DEFINE below == [s \in SUBSET T |-> Fold(f, s)[s]]
               g == [s \in SUBSET T |-> Step(f, below, s)]
    <2>2. ASSUME NEW s \in SUBSET T, s # T
          PROVE  below[s] = g[s]
      <3>0. IsFiniteSet(s) /\ Unfolds(f, Fold(f, s), s)
        BY <1>1, <2>1, <2>2, FS_Subset
      <3>1. Fold(f, s)[s] = Step(f, Fold(f, s), s)
        BY <3>0 DEF Unfolds
      <3>2. CASE s = {}
        BY <3>1, <3>2 DEF Step
      <3>3. CASE s # {}
        <4> DEFINE r == s \ {Pick(s)}
        <4>1. r \in SUBSET s /\ r \in SUBSET T /\ r # T
          BY <2>2, <3>3, PickIsIn
        <4>2. Unfolds(f, Fold(f, r), r)
          BY <2>1, <4>1
        <4>3. Fold(f, s)[r] = Fold(f, r)[r]
          BY <3>0, <4>1, <4>2, FoldsAgree
        <4>4. QED
          BY <3>1, <3>3, <4>1, <4>3 DEF Step
      <3>4. QED
        BY <3>2, <3>3
    <2>3. ASSUME NEW s \in SUBSET T
          PROVE  Step(f, below, s) = Step(f, g, s)
      <3>1. CASE s = {}
        BY <3>1 DEF Step
      <3>2. CASE s # {}
        <4>1. s \ {Pick(s)} \in SUBSET T /\ s \ {Pick(s)} # T
          BY <3>2, PickIsIn
        <4>2. below[s \ {Pick(s)}] = g[s \ {Pick(s)}]
          BY <2>2, <4>1
        <4> HIDE DEF below, g
        <4>3. QED
          BY <3>2, <4>2 DEF Step
      <3>3. QED
        BY <3>1, <3>2
    <2>4. Unfolds(f, g, T)
      BY <2>3, Zenon DEF Unfolds
    <2>5. QED
      BY <2>4
  <1>2. Bad = {}
    <2>1. Bad \in SUBSET (SUBSET S)
      OBVIOUS
    <2> HIDE DEF Bad
    <2>2. QED
      BY <1>1, <2>1, NoException
  <1>3. QED
    BY <1>2

\* The total of nothing, and of everything with one row set aside.
LEMMA TotalEmpty ==
  ASSUME NEW f
  PROVE  Total(f, {}) = 0
  <1>1. Unfolds(f, Fold(f, {}), {})
    BY FoldExists, FS_EmptySet
  <1>2. QED
    BY <1>1, TotalIsFold DEF Unfolds, Step

LEMMA TotalPicks ==
  ASSUME NEW f, NEW S, IsFiniteSet(S), S # {}
  PROVE  Total(f, S) = f[Pick(S)] + Total(f, S \ {Pick(S)})
  <1> DEFINE R == S \ {Pick(S)}
  <1>1. Unfolds(f, Fold(f, S), S) /\ Unfolds(f, Fold(f, R), R)
    BY FoldExists
  <1>2. Fold(f, S)[S] = f[Pick(S)] + Fold(f, S)[R]
    BY <1>1 DEF Unfolds, Step
  <1>3. Fold(f, S)[R] = Fold(f, R)[R]
    BY <1>1, FoldsAgree
  <1>4. QED
    BY <1>2, <1>3, TotalIsFold

-----------------------------------------------------------------------------
(* Totals of natural numbers.                                               *)

LEMMA TotalType ==
  ASSUME NEW S, IsFiniteSet(S), NEW f, \A x \in S : f[x] \in Nat
  PROVE  Total(f, S) \in Nat
  <1> DEFINE Bad == {T \in SUBSET S : Total(f, T) \notin Nat}
  <1>1. ASSUME NEW T \in Bad
        PROVE  \E U \in Bad : U \subseteq T /\ U # T
    <2>0. IsFiniteSet(T)
      BY <1>1, FS_Subset
    <2>1. T # {}
      BY <1>1, TotalEmpty
    <2>2. Total(f, T) = f[Pick(T)] + Total(f, T \ {Pick(T)}) /\ f[Pick(T)] \in Nat
      BY <1>1, <2>0, <2>1, TotalPicks, PickIsIn
    <2>3. Total(f, T \ {Pick(T)}) \notin Nat
      BY <1>1, <2>2
    <2>4. QED
      BY <2>1, <2>3, PickIsIn
  <1>2. Bad = {}
    <2>1. Bad \in SUBSET (SUBSET S)
      OBVIOUS
    <2> HIDE DEF Bad
    <2>2. QED
      BY <1>1, <2>1, NoException
  <1>3. QED
    BY <1>2

\* Any row may be set aside, not only the one the fold has picked.
LEMMA TotalTakes ==
  ASSUME NEW S, IsFiniteSet(S), NEW f, \A x \in S : f[x] \in Nat, NEW y \in S
  PROVE  Total(f, S) = f[y] + Total(f, S \ {y})
  <1> DEFINE Bad == {T \in SUBSET S : \E z \in T : Total(f, T) # f[z] + Total(f, T \ {z})}
  <1>1. ASSUME NEW T \in Bad
        PROVE  \E U \in Bad : U \subseteq T /\ U # T
    <2> DEFINE x == Pick(T)
    <2>1. PICK z \in T : Total(f, T) # f[z] + Total(f, T \ {z})
      BY <1>1
    <2>2. IsFiniteSet(T) /\ x \in T /\ x # z
      BY <1>1, <2>1, FS_Subset, TotalPicks, PickIsIn
    <2> HIDE DEF x
    <2>3. Total(f, T) = f[x] + Total(f, T \ {x})
      BY <2>1, <2>2, TotalPicks DEF x
    <2>4. SUFFICES ASSUME T \ {x} \notin Bad, T \ {z} \notin Bad
                   PROVE  FALSE
      BY <2>1, <2>2
    <2>5. Total(f, T \ {x}) = f[z] + Total(f, (T \ {x}) \ {z})
      BY <1>1, <2>1, <2>2, <2>4
    <2>6. Total(f, T \ {z}) = f[x] + Total(f, (T \ {z}) \ {x})
      BY <1>1, <2>1, <2>2, <2>4
    <2>7. (T \ {x}) \ {z} = (T \ {z}) \ {x}
      OBVIOUS
    <2>8. Total(f, (T \ {x}) \ {z}) \in Nat /\ f[x] \in Nat /\ f[z] \in Nat
      BY <1>1, <2>1, <2>2, FS_Subset, TotalType
    <2>9. QED
      BY <2>1, <2>3, <2>5, <2>6, <2>7, <2>8
  <1>2. Bad = {}
    <2>1. Bad \in SUBSET (SUBSET S)
      OBVIOUS
    <2> HIDE DEF Bad
    <2>2. QED
      BY <1>1, <2>1, NoException
  <1>3. QED
    BY <1>2

\* Fewer rows with no more in each total no more.
LEMMA TotalBelow ==
  ASSUME NEW S, IsFiniteSet(S), NEW R \in SUBSET S, NEW f, NEW g,
         \A x \in S : g[x] \in Nat, \A x \in R : f[x] \in Nat /\ f[x] <= g[x]
  PROVE  Total(f, R) <= Total(g, S)
  <1> DEFINE Bad == {T \in SUBSET S : ~(Total(f, T \cap R) <= Total(g, T))}
  <1>1. ASSUME NEW T \in Bad
        PROVE  \E U \in Bad : U \subseteq T /\ U # T
    <2>0. T # {}
      <3>1. {} \cap R = {}
        OBVIOUS
      <3>2. QED
        BY <1>1, <3>1, TotalEmpty
    <2>1. IsFiniteSet(T) /\ IsFiniteSet(T \cap R) /\ T # {}
      BY <1>1, <2>0, FS_Subset
    <2> DEFINE x == Pick(T)
    <2>2. x \in T /\ T \ {x} # T
      BY <2>1, PickIsIn
    <2> HIDE DEF x
    <2>3. Total(g, T) = g[x] + Total(g, T \ {x}) /\ g[x] \in Nat
      BY <1>1, <2>1, <2>2, TotalTakes
    <2>4. /\ Total(g, T \ {x}) \in Nat /\ Total(f, T \cap R) \in Nat
          /\ Total(f, (T \ {x}) \cap R) \in Nat
      <3>1. IsFiniteSet(T \ {x}) /\ IsFiniteSet((T \ {x}) \cap R)
        BY <1>1, FS_Subset
      <3>2. QED
        BY <1>1, <2>1, <3>1, TotalType
    <2>5. Total(f, T \cap R) <= g[x] + Total(f, (T \ {x}) \cap R)
      <3>1. CASE x \in R
        <4>1. (T \ {x}) \cap R = (T \cap R) \ {x}
          OBVIOUS
        <4>2. Total(f, T \cap R) = f[x] + Total(f, (T \cap R) \ {x})
          BY <2>1, <2>2, <3>1, TotalTakes
        <4>3. QED
          BY <2>3, <2>4, <3>1, <4>1, <4>2
      <3>2. CASE x \notin R
        <4>1. (T \ {x}) \cap R = T \cap R
          BY <3>2
        <4>2. Total(f, (T \ {x}) \cap R) \in Nat /\ g[x] \in Nat
          BY <2>3, <2>4
        <4>3. Total(f, T \cap R) = Total(f, (T \ {x}) \cap R)
          BY <4>1, Zenon
        <4>4. QED
          BY <4>2, <4>3
      <3>3. QED
        BY <3>1, <3>2
    <2>6. T \ {x} \in Bad
      BY <1>1, <2>3, <2>4, <2>5
    <2>7. QED
      BY <2>2, <2>6
  <1>2. Bad = {}
    <2>1. Bad \in SUBSET (SUBSET S)
      OBVIOUS
    <2> HIDE DEF Bad
    <2>2. QED
      BY <1>1, <2>1, NoException
  <1>3. S \cap R = R
    OBVIOUS
  <1>4. QED
    BY <1>2, <1>3

LEMMA TotalSame ==
  ASSUME NEW S, IsFiniteSet(S), NEW f, NEW g, \A x \in S : f[x] \in Nat /\ f[x] = g[x]
  PROVE  Total(f, S) = Total(g, S)
  <1>1. Total(f, S) <= Total(g, S) /\ Total(g, S) <= Total(f, S)
    BY TotalBelow
  <1>2. QED
    BY <1>1, TotalType

\* The total of sums is the sum of the totals.
LEMMA TotalAdds ==
  ASSUME NEW S, IsFiniteSet(S), NEW f, NEW g, NEW h,
         \A x \in S : f[x] \in Nat /\ g[x] \in Nat /\ h[x] = f[x] + g[x]
  PROVE  Total(h, S) = Total(f, S) + Total(g, S)
  <1> DEFINE Bad == {T \in SUBSET S : Total(h, T) # Total(f, T) + Total(g, T)}
  <1>1. ASSUME NEW T \in Bad
        PROVE  \E U \in Bad : U \subseteq T /\ U # T
    <2>0. T # {}
      <3>1. Total(h, {}) = 0 /\ Total(f, {}) = 0 /\ Total(g, {}) = 0
        BY TotalEmpty
      <3>2. Total(h, T) # Total(f, T) + Total(g, T)
        BY <1>1
      <3>3. Total(h, {}) = Total(f, {}) + Total(g, {})
        BY <3>1
      <3>4. QED
        BY <3>2, <3>3, Zenon
    <2>1. IsFiniteSet(T) /\ T # {}
      BY <1>1, <2>0, FS_Subset
    <2> DEFINE x == Pick(T)
    <2>2. x \in T /\ T \ {x} # T
      BY <2>1, PickIsIn
    <2>3. /\ Total(f, T) = f[x] + Total(f, T \ {x})
          /\ Total(g, T) = g[x] + Total(g, T \ {x})
          /\ Total(h, T) = h[x] + Total(h, T \ {x})
      BY <2>1, TotalPicks
    <2> HIDE DEF x
    <2>4. f[x] \in Nat /\ g[x] \in Nat /\ h[x] = f[x] + g[x]
      BY <1>1, <2>2
    <2>5. /\ Total(f, T \ {x}) \in Nat /\ Total(g, T \ {x}) \in Nat
          /\ Total(h, T \ {x}) \in Nat
      <3>1. IsFiniteSet(T \ {x})
        BY <1>1, FS_Subset
      <3>2. \A y \in T \ {x} : f[y] \in Nat /\ g[y] \in Nat /\ h[y] \in Nat
        BY <1>1
      <3>3. QED
        BY <3>1, <3>2, TotalType
    <2>6. T \ {x} \in Bad
      BY <1>1, <2>3, <2>4, <2>5
    <2>7. QED
      BY <2>2, <2>6
  <1>2. Bad = {}
    <2>1. Bad \in SUBSET (SUBSET S)
      OBVIOUS
    <2> HIDE DEF Bad
    <2>2. QED
      BY <1>1, <2>1, NoException
  <1>3. QED
    BY <1>2

\* Rows left out are rows that count nothing.
LEMMA TotalMasked ==
  ASSUME NEW S, IsFiniteSet(S), NEW R \in SUBSET S, NEW f, NEW g,
         \A x \in R : f[x] \in Nat, \A x \in S : g[x] = IF x \in R THEN f[x] ELSE 0
  PROVE  Total(f, R) = Total(g, S)
  <1> DEFINE Bad == {T \in SUBSET S : Total(f, T \cap R) # Total(g, T)}
  <1>1. ASSUME NEW T \in Bad
        PROVE  \E U \in Bad : U \subseteq T /\ U # T
    <2>0. T # {}
      <3>1. {} \cap R = {}
        OBVIOUS
      <3>2. QED
        BY <1>1, <3>1, TotalEmpty
    <2>1. IsFiniteSet(T) /\ IsFiniteSet(T \cap R)
      BY <1>1, FS_Subset
    <2> DEFINE x == Pick(T)
    <2>2. x \in T /\ T \ {x} # T
      BY <2>0, PickIsIn
    <2>3. Total(g, T) = g[x] + Total(g, T \ {x})
      BY <2>0, <2>1, TotalPicks
    <2> HIDE DEF x
    <2>4. /\ Total(g, T \ {x}) \in Nat /\ g[x] \in Nat
          /\ Total(f, (T \ {x}) \cap R) \in Nat
      <3>1. IsFiniteSet(T \ {x}) /\ IsFiniteSet((T \ {x}) \cap R)
        BY <1>1, FS_Subset
      <3>2. \A y \in T : g[y] \in Nat
        BY <1>1
      <3>3. QED
        BY <2>2, <3>1, <3>2, TotalType
    <2>5. Total(f, T \cap R) = g[x] + Total(f, (T \ {x}) \cap R)
      <3>1. CASE x \in R
        <4>1. (T \ {x}) \cap R = (T \cap R) \ {x}
          OBVIOUS
        <4>2. Total(f, T \cap R) = f[x] + Total(f, (T \cap R) \ {x})
          BY <2>1, <2>2, <3>1, TotalTakes
        <4>3. QED
          BY <3>1, <4>1, <4>2
      <3>2. CASE x \notin R
        <4>1. (T \ {x}) \cap R = T \cap R /\ g[x] = 0
          BY <1>1, <2>2, <3>2
        <4>2. Total(f, T \cap R) = Total(f, (T \ {x}) \cap R)
          BY <4>1, Zenon
        <4>3. QED
          BY <2>4, <4>1, <4>2
      <3>3. QED
        BY <3>1, <3>2
    <2>6. T \ {x} \in Bad
      BY <1>1, <2>3, <2>4, <2>5
    <2>7. QED
      BY <2>2, <2>6
  <1>2. Bad = {}
    <2>1. Bad \in SUBSET (SUBSET S)
      OBVIOUS
    <2> HIDE DEF Bad
    <2>2. QED
      BY <1>1, <2>1, NoException
  <1>3. S \cap R = R
    OBVIOUS
  <1>4. QED
    BY <1>2, <1>3

\* The total of two sets with nothing in common.
LEMMA TotalUnion ==
  ASSUME NEW A, NEW B, IsFiniteSet(A), IsFiniteSet(B), A \cap B = {}, NEW f,
         \A x \in A \cup B : f[x] \in Nat
  PROVE  Total(f, A \cup B) = Total(f, A) + Total(f, B)
  <1> DEFINE S == A \cup B
             inA == [x \in S |-> IF x \in A THEN f[x] ELSE 0]
             inB == [x \in S |-> IF x \in B THEN f[x] ELSE 0]
  <1>1. IsFiniteSet(S)
    BY FS_Union
  <1>2. Total(f, A) = Total(inA, S)
    <2>1. \A x \in S : inA[x] = IF x \in A THEN f[x] ELSE 0
      OBVIOUS
    <2> HIDE DEF inA
    <2>2. QED
      BY <1>1, <2>1, TotalMasked
  <1>3. Total(f, B) = Total(inB, S)
    <2>1. \A x \in S : inB[x] = IF x \in B THEN f[x] ELSE 0
      OBVIOUS
    <2> HIDE DEF inB
    <2>2. QED
      BY <1>1, <2>1, TotalMasked
  <1>4. Total(f, S) = Total(inA, S) + Total(inB, S)
    <2>1. \A x \in S : /\ inA[x] \in Nat /\ inB[x] \in Nat
                      /\ f[x] = inA[x] + inB[x]
      OBVIOUS
    <2> HIDE DEF S, inA, inB
    <2>2. QED
      BY <1>1, <2>1, TotalAdds
  <1>5. QED
    BY <1>2, <1>3, <1>4

\* The total over rows that are named by others, each by one.
LEMMA TotalRenamed ==
  ASSUME NEW G, IsFiniteSet(G), NEW r, \A x, y \in G : r[x] = r[y] => x = y,
         NEW f, NEW g, \A x \in G : f[r[x]] \in Nat /\ g[x] = f[r[x]]
  PROVE  Total(f, {r[x] : x \in G}) = Total(g, G)
  <1> DEFINE Image(T) == {r[x] : x \in T}
             Bad == {T \in SUBSET G : Total(f, Image(T)) # Total(g, T)}
  <1>1. ASSUME NEW T \in Bad
        PROVE  \E U \in Bad : U \subseteq T /\ U # T
    <2>1. IsFiniteSet(T) /\ T # {}
      <3>1. Image({}) = {}
        OBVIOUS
      <3>2. QED
        BY <1>1, <3>1, FS_Subset, TotalEmpty
    <2> DEFINE x == Pick(T)
    <2>2. x \in T /\ T \ {x} # T
      BY <2>1, PickIsIn
    <2> HIDE DEF x
    <2>3. Total(g, T) = g[x] + Total(g, T \ {x})
      BY <1>1, <2>1, <2>2, TotalTakes
    <2>4. Image(T \ {x}) = Image(T) \ {r[x]}
      BY <1>1, <2>2
    <2>5. Total(f, Image(T)) = f[r[x]] + Total(f, Image(T) \ {r[x]})
      <3>1. IsFiniteSet(Image(T))
        <4> DEFINE m == [y \in T |-> r[y]]
        <4>1. m \in Surjection(T, Image(T))
          BY DEF Surjection
        <4>2. QED
          BY <2>1, <4>1, FS_Surjection
      <3>2. \A y \in Image(T) : f[y] \in Nat
        BY <1>1
      <3>3. QED
        BY <2>2, <3>1, <3>2, TotalTakes
    <2>6. T \ {x} \in Bad
      BY <1>1, <2>2, <2>3, <2>4, <2>5
    <2>7. QED
      BY <2>2, <2>6
  <1>2. Bad = {}
    <2>1. Bad \in SUBSET (SUBSET G)
      OBVIOUS
    <2> HIDE DEF Bad
    <2>2. QED
      BY <1>1, <2>1, NoException
  <1>3. QED
    BY <1>2
=============================================================================

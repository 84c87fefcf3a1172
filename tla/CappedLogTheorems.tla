------------------------- MODULE CappedLogTheorems -------------------------
(***************************************************************************)
(* Facts about capped logs, for every strict total order and every cap.    *)
(* Those about the logs of the feed, the tiers and the mirrors rest on it. *)
(***************************************************************************)
EXTENDS CappedLog, FiniteSetTheorems, TLAPS

(***************************************************************************)
(* A nonempty set of entries of a finite log has a newest one.             *)
(***************************************************************************)
LEMMA NewestOfExists ==
  ASSUME NEW R, NEW E, StrictTotalOrder(R, E),
         NEW S \in SUBSET E, IsFiniteSet(S),
         NEW B \in SUBSET S, B # {}
  PROVE  \E x \in B : \A y \in B : <<x, y>> \notin R
<1> DEFINE T == {Newer(R, S, x) : x \in B}
<1>1. T \subseteq FiniteSubsetsOf(S) /\ T # {}
  <2>1. ASSUME NEW x PROVE Newer(R, S, x) \in FiniteSubsetsOf(S)
    <3>1. Newer(R, S, x) \in SUBSET S
      BY DEF Newer
    <3> QED BY <3>1, FS_Subset DEF FiniteSubsetsOf
  <2> QED BY <2>1
<1>2. PICK U \in T : \A V \in T : <<V, U>> \notin StrictSubsetOrdering(S)
  BY <1>1, WFMin, FS_StrictSubsetOrderingWellFounded
<1>3. PICK x \in B : U = Newer(R, S, x)
  OBVIOUS
<1>4. ASSUME NEW y \in B, <<x, y>> \in R
      PROVE  FALSE
  <2>1. Newer(R, S, y) \subseteq Newer(R, S, x)
    BY <1>4 DEF Newer, StrictTotalOrder
  <2>2. y \in Newer(R, S, x) /\ y \notin Newer(R, S, y)
    BY <1>4 DEF Newer, StrictTotalOrder
  <2>3. <<Newer(R, S, y), U>> \in StrictSubsetOrdering(S)
    BY <1>3, <2>1, <2>2 DEF StrictSubsetOrdering, Newer
  <2> QED BY <1>2, <2>3
<1> QED BY <1>4

(***************************************************************************)
(* A nonempty set of entries of a finite log has an oldest one.            *)
(***************************************************************************)
LEMMA OldestOfExists ==
  ASSUME NEW R, NEW E, StrictTotalOrder(R, E),
         NEW S \in SUBSET E, IsFiniteSet(S), S # {}
  PROVE  \E x \in S : \A y \in S : y = x \/ <<x, y>> \in R
<1> DEFINE Older(x) == {y \in S : <<y, x>> \in R}
           T == {Older(x) : x \in S}
<1>1. T \subseteq FiniteSubsetsOf(S) /\ T # {}
  <2>1. ASSUME NEW x PROVE Older(x) \in FiniteSubsetsOf(S)
    <3>1. Older(x) \in SUBSET S
      OBVIOUS
    <3> QED BY <3>1, FS_Subset DEF FiniteSubsetsOf
  <2> QED BY <2>1
<1>2. PICK U \in T : \A V \in T : <<V, U>> \notin StrictSubsetOrdering(S)
  BY <1>1, WFMin, FS_StrictSubsetOrderingWellFounded
<1>3. PICK x \in S : U = Older(x)
  OBVIOUS
<1>4. ASSUME NEW y \in S, <<y, x>> \in R
      PROVE  FALSE
  <2>1. Older(y) \subseteq Older(x) /\ y \in Older(x) /\ y \notin Older(y)
    BY <1>4 DEF StrictTotalOrder
  <2>2. <<Older(y), U>> \in StrictSubsetOrdering(S)
    BY <1>3, <2>1 DEF StrictSubsetOrdering
  <2> QED BY <1>2, <2>2
<1> QED BY <1>4 DEF StrictTotalOrder

(***************************************************************************)
(* Oldest names that entry, and only it.                                   *)
(***************************************************************************)
LEMMA OldestIsOne ==
  ASSUME NEW R, NEW E, StrictTotalOrder(R, E),
         NEW S \in SUBSET E, IsFiniteSet(S), S # {}
  PROVE  \E m \in S : /\ Oldest(R, S) = {m}
                      /\ \A y \in S : y = m \/ <<m, y>> \in R
<1>1. PICK m \in S : \A y \in S : y = m \/ <<m, y>> \in R
  BY OldestOfExists
<1>2. m \in Oldest(R, S)
  BY <1>1 DEF Oldest, Newer
<1>3. ASSUME NEW z \in Oldest(R, S), z # m
      PROVE  FALSE
  <2>1. <<z, m>> \in R /\ <<m, z>> \in R
    BY <1>1, <1>3 DEF Oldest, Newer
  <2> QED BY <2>1 DEF StrictTotalOrder, Oldest
<1> QED BY <1>1, <1>2, <1>3

(***************************************************************************)
(* Truncation keeps a subset, and no more than the cap.                    *)
(***************************************************************************)
LEMMA NewestBounded ==
  ASSUME NEW R, NEW E, StrictTotalOrder(R, E), NEW k \in Nat,
         NEW S \in SUBSET E, IsFiniteSet(S)
  PROVE  /\ Newest(R, k, S) \in SUBSET S
         /\ IsFiniteSet(Newest(R, k, S))
         /\ Cardinality(Newest(R, k, S)) \in Nat
         /\ Cardinality(Newest(R, k, S)) <= k
<1> DEFINE T == Newest(R, k, S)
<1>1. T \in SUBSET S /\ IsFiniteSet(T) /\ Cardinality(T) \in Nat
  BY FS_Subset, FS_CardinalityType DEF Newest
<1>2. CASE T = {}
  BY <1>1, <1>2, FS_EmptySet
<1>3. CASE T # {}
  <2>1. PICK m \in T : \A y \in T : y = m \/ <<m, y>> \in R
    BY <1>1, <1>3, OldestOfExists
  <2>2. /\ Cardinality(Newer(R, S, m)) \in Nat /\ Cardinality(Newer(R, S, m)) < k
        /\ IsFiniteSet(Newer(R, S, m))
    BY <2>1, FS_Subset, FS_CardinalityType DEF Newest, Newer
  <2>3. T \ {m} \subseteq Newer(R, S, m)
    BY <1>1, <2>1 DEF Newer
  <2>4. Cardinality(T \ {m}) <= Cardinality(Newer(R, S, m))
    BY <2>2, <2>3, FS_Subset
  <2>5. Cardinality(T \ {m}) = Cardinality(T) - 1
    BY <1>1, <2>1, FS_RemoveElement
  <2> QED BY <1>1, <2>2, <2>4, <2>5
<1> QED BY <1>1, <1>2, <1>3

(***************************************************************************)
(* A log within the cap is not truncated.                                  *)
(***************************************************************************)
LEMMA NewestOfFew ==
  ASSUME NEW R, NEW E, StrictTotalOrder(R, E), NEW k \in Nat,
         NEW S \in SUBSET E, IsFiniteSet(S), Cardinality(S) <= k
  PROVE  Newest(R, k, S) = S
<1>1. ASSUME NEW x \in S
      PROVE  Cardinality(Newer(R, S, x)) < k
  <2>1. Newer(R, S, x) \subseteq S \ {x}
    BY DEF Newer, StrictTotalOrder
  <2>2. /\ IsFiniteSet(S \ {x})
        /\ Cardinality(S \ {x}) = Cardinality(S) - 1
        /\ Cardinality(S) \in Nat
    BY FS_RemoveElement, FS_CardinalityType
  <2>3. /\ Cardinality(Newer(R, S, x)) \in Nat
        /\ Cardinality(Newer(R, S, x)) <= Cardinality(S \ {x})
    BY <2>1, <2>2, FS_Subset, FS_CardinalityType
  <2> QED BY <2>2, <2>3
<1> QED BY <1>1 DEF Newest

(***************************************************************************)
(* What k entries push out, k retained entries push out.                   *)
(***************************************************************************)
LEMMA NewestPushesOut ==
  ASSUME NEW R, NEW E, StrictTotalOrder(R, E), NEW k \in Nat,
         NEW S \in SUBSET E, IsFiniteSet(S), NEW x \in E,
         ~(Cardinality(Newer(R, S, x)) < k)
  PROVE  ~(Cardinality(Newer(R, Newest(R, k, S), x)) < k)
<1> DEFINE T == Newest(R, k, S)
           B == Newer(R, S, x) \ T
<1>0. T \subseteq S /\ IsFiniteSet(T)
  BY NewestBounded
<1>1. CASE B = {}
  <2>1. Newer(R, T, x) = Newer(R, S, x)
    BY <1>0, <1>1 DEF Newer
  <2> QED BY <2>1
<1>2. CASE B # {}
  <2>0. B \in SUBSET S
    BY DEF Newer
  <2>1. PICK q \in B : \A y \in B : <<q, y>> \notin R
    <3> HIDE DEF B
    <3> QED BY <1>2, <2>0, NewestOfExists
  <2>2. ~(Cardinality(Newer(R, S, q)) < k)
    BY <2>1 DEF Newest, Newer
  <2>3. Newer(R, S, q) \subseteq Newer(R, T, x)
    <3> SUFFICES ASSUME NEW y \in S, <<q, y>> \in R
                 PROVE  y \in T /\ <<x, y>> \in R
      BY DEF Newer
    <3>1. <<x, q>> \in R /\ q \in E
      BY <2>1 DEF Newer
    <3>2. <<x, y>> \in R
      BY <3>1 DEF StrictTotalOrder
    <3>3. y \in T
      BY <2>1, <3>2 DEF Newer
    <3> QED BY <3>2, <3>3
  <2>4. /\ IsFiniteSet(Newer(R, T, x)) /\ IsFiniteSet(Newer(R, S, q))
        /\ Cardinality(Newer(R, T, x)) \in Nat /\ Cardinality(Newer(R, S, q)) \in Nat
    BY <1>0, FS_Subset, FS_CardinalityType DEF Newer
  <2>5. Cardinality(Newer(R, S, q)) <= Cardinality(Newer(R, T, x))
    BY <2>3, <2>4, FS_Subset
  <2> QED BY <2>2, <2>4, <2>5
<1> QED BY <1>1, <1>2

(***************************************************************************)
(* More entries push out more.                                             *)
(***************************************************************************)
LEMMA NewerMonotone ==
  ASSUME NEW R, NEW E, NEW k \in Nat,
         NEW S \in SUBSET E, IsFiniteSet(S), NEW T \in SUBSET S, NEW x,
         Cardinality(Newer(R, S, x)) < k
  PROVE  Cardinality(Newer(R, T, x)) < k
<1>1. IsFiniteSet(Newer(R, S, x)) /\ Newer(R, T, x) \in SUBSET Newer(R, S, x)
  BY FS_Subset DEF Newer
<1>2. /\ Cardinality(Newer(R, T, x)) \in Nat /\ Cardinality(Newer(R, S, x)) \in Nat
      /\ Cardinality(Newer(R, T, x)) <= Cardinality(Newer(R, S, x))
  BY <1>1, FS_Subset, FS_CardinalityType
<1> QED BY <1>2

(***************************************************************************)
(* Truncating early is harmless: merging B into a truncated A gives what   *)
(* merging it into all of A gives.  This is the reason a log of unbounded  *)
(* history can be kept in bounded space, whatever the order of the merges. *)
(***************************************************************************)
THEOREM NewestAbsorbs ==
  ASSUME NEW R, NEW E, StrictTotalOrder(R, E), NEW k \in Nat,
         NEW A \in SUBSET E, IsFiniteSet(A),
         NEW B \in SUBSET E, IsFiniteSet(B)
  PROVE  Newest(R, k, Newest(R, k, A) \cup B) = Newest(R, k, A \cup B)
<1> DEFINE TA == Newest(R, k, A)
<1>1. /\ TA \in SUBSET A /\ IsFiniteSet(TA)
      /\ IsFiniteSet(TA \cup B) /\ IsFiniteSet(A \cup B)
      /\ TA \cup B \in SUBSET (A \cup B) /\ A \cup B \in SUBSET E
  BY NewestBounded, FS_Union
<1>2. ASSUME NEW x \in Newest(R, k, A \cup B)
      PROVE  x \in Newest(R, k, TA \cup B)
  <2>1. x \in A \cup B /\ Cardinality(Newer(R, A \cup B, x)) < k
    BY DEF Newest
  <2>2. Cardinality(Newer(R, TA \cup B, x)) < k
    BY <1>1, <2>1, NewerMonotone
  <2>3. ASSUME x \in A PROVE x \in TA
    <3>1. Cardinality(Newer(R, A, x)) < k
      BY <1>1, <2>1, NewerMonotone
    <3> QED BY <2>3, <3>1 DEF Newest
  <2> QED BY <2>1, <2>2, <2>3 DEF Newest
<1>3. ASSUME NEW x \in Newest(R, k, TA \cup B)
      PROVE  x \in Newest(R, k, A \cup B)
  <2>1. x \in TA \cup B /\ Cardinality(Newer(R, TA \cup B, x)) < k
    BY DEF Newest
  <2>2. ASSUME NEW q \in Newer(R, A \cup B, x), q \notin TA \cup B
        PROVE  FALSE
    <3>1. q \in A /\ q \in E /\ <<x, q>> \in R /\ x \in E
      BY <1>1, <2>1, <2>2 DEF Newer
    <3>2. ~(Cardinality(Newer(R, A, q)) < k)
      BY <2>2, <3>1 DEF Newest
    <3>3. ~(Cardinality(Newer(R, TA, q)) < k)
      BY <3>1, <3>2, NewestPushesOut
    <3>4. Newer(R, TA, q) \subseteq Newer(R, TA \cup B, x)
      BY <1>1, <3>1 DEF Newer, StrictTotalOrder
    <3>5. /\ IsFiniteSet(Newer(R, TA \cup B, x))
          /\ Cardinality(Newer(R, TA \cup B, x)) \in Nat
      BY <1>1, FS_Subset, FS_CardinalityType DEF Newer
    <3>6. /\ Cardinality(Newer(R, TA, q)) <= Cardinality(Newer(R, TA \cup B, x))
          /\ Cardinality(Newer(R, TA, q)) \in Nat
      BY <3>4, <3>5, FS_Subset, FS_CardinalityType
    <3> QED BY <2>1, <3>3, <3>5, <3>6
  <2>3. Newer(R, A \cup B, x) = Newer(R, TA \cup B, x)
    BY <1>1, <2>2 DEF Newer
  <2> QED BY <1>1, <2>1, <2>3 DEF Newest
<1> QED BY <1>2, <1>3

(***************************************************************************)
(* An entry that k entries of a log within the cap push out is older than  *)
(* the whole log, and the log is full.                                     *)
(***************************************************************************)
LEMMA PushedOutByAll ==
  ASSUME NEW R, NEW k \in Nat, NEW L, IsFiniteSet(L), Cardinality(L) <= k,
         NEW x, ~(Cardinality(Newer(R, L, x)) < k)
  PROVE  Newer(R, L, x) = L /\ Cardinality(L) = k
<1>1. Newer(R, L, x) \in SUBSET L
  BY DEF Newer
<1>2. /\ Cardinality(L) \in Nat /\ Cardinality(Newer(R, L, x)) \in Nat
      /\ Cardinality(Newer(R, L, x)) <= Cardinality(L)
  BY <1>1, FS_Subset, FS_CardinalityType
<1>3. Cardinality(Newer(R, L, x)) = Cardinality(L)
  BY <1>2
<1> QED BY <1>1, <1>2, <1>3, FS_Subset

(***************************************************************************)
(* The meaning of the retention horizon: it stops exactly the entries that *)
(* the replica's own log would push out again.                             *)
(***************************************************************************)
THEOREM HorizonIsExact ==
  ASSUME NEW R, NEW E, StrictTotalOrder(R, E), NEW k \in Nat \ {0},
         NEW L \in SUBSET E, IsFiniteSet(L), Cardinality(L) <= k,
         NEW x \in E, x \notin L
  PROVE  AboveHorizon(R, Horizon(R, k, L), x) <=> Cardinality(Newer(R, L, x)) < k
<1>0. Cardinality(L) \in Nat
  BY FS_CardinalityType
<1>1. CASE Cardinality(L) < k
  <2>1. Cardinality(Newer(R, L, x)) < k
    BY <1>1, PushedOutByAll
  <2> QED BY <1>1, <2>1 DEF AboveHorizon, Horizon
<1>2. CASE ~(Cardinality(L) < k)
  <2>1. L # {}
    BY <1>2, FS_EmptySet
  <2>2. PICK m \in L : /\ Oldest(R, L) = {m}
                       /\ \A y \in L : y = m \/ <<m, y>> \in R
    BY <2>1, OldestIsOne
  <2>3. AboveHorizon(R, Horizon(R, k, L), x) <=> <<m, x>> \in R
    BY <1>2, <2>2 DEF AboveHorizon, Horizon
  <2>4. ASSUME <<m, x>> \in R
        PROVE  Cardinality(Newer(R, L, x)) < k
    <3>1. m \notin Newer(R, L, x)
      BY <2>4 DEF Newer, StrictTotalOrder
    <3> QED BY <3>1, PushedOutByAll
  <2>5. ASSUME <<m, x>> \notin R
        PROVE  ~(Cardinality(Newer(R, L, x)) < k)
    <3>1. <<x, m>> \in R
      BY <2>5 DEF StrictTotalOrder
    <3>2. Newer(R, L, x) = L
      BY <2>2, <3>1 DEF Newer, StrictTotalOrder
    <3> QED BY <1>2, <3>2
  <2> QED BY <2>3, <2>4, <2>5
<1> QED BY <1>1, <1>2

(***************************************************************************)
(* A delta that leaves out what the receiver B holds and what it would     *)
(* push out again merges to the same log as everything the sender A holds. *)
(***************************************************************************)
THEOREM DeltaIsEnough ==
  ASSUME NEW R, NEW E, StrictTotalOrder(R, E), NEW k \in Nat,
         NEW A \in SUBSET E, IsFiniteSet(A),
         NEW B \in SUBSET E, IsFiniteSet(B), Cardinality(B) <= k,
         NEW D,
         \A x : x \in D <=> x \in A /\ x \notin B /\ Cardinality(Newer(R, B, x)) < k
  PROVE  Newest(R, k, B \cup D) = Newest(R, k, B \cup A)
<1>1. /\ D \in SUBSET A /\ IsFiniteSet(D)
      /\ IsFiniteSet(B \cup D) /\ IsFiniteSet(B \cup A)
      /\ B \cup D \in SUBSET (B \cup A) /\ B \cup A \in SUBSET E
  BY FS_Subset, FS_Union
<1>2. ASSUME NEW p \in A, p \notin B \cup D
      PROVE  Newer(R, B, p) = B /\ p \notin Newest(R, k, B \cup A)
  <2>1. ~(Cardinality(Newer(R, B, p)) < k)
    BY <1>2
  <2>2. Newer(R, B, p) = B
    BY <2>1, PushedOutByAll
  <2>3. ~(Cardinality(Newer(R, B \cup A, p)) < k)
    BY <1>1, <2>1, NewerMonotone
  <2> QED BY <2>2, <2>3 DEF Newest
<1>3. ASSUME NEW x \in B \cup D
      PROVE  Newer(R, B \cup A, x) = Newer(R, B \cup D, x)
  <2> SUFFICES ASSUME NEW p \in A, p \notin B \cup D, <<x, p>> \in R
               PROVE  FALSE
    BY <1>1 DEF Newer
  <2>1. \A y \in B : <<p, y>> \in R
    BY <1>2 DEF Newer
  <2>2. CASE x \in B
    BY <2>1, <2>2 DEF StrictTotalOrder
  <2>3. CASE x \in D
    <3>1. Newer(R, B, x) = B
      BY <1>1, <2>1, <2>3 DEF Newer, StrictTotalOrder
    <3>2. ~(Cardinality(B) < k)
      BY <1>2, PushedOutByAll, FS_CardinalityType
    <3> QED BY <2>3, <3>1, <3>2
  <2> QED BY <2>2, <2>3
<1>4. \A x \in B \cup A : x \in Newest(R, k, B \cup A) => x \in B \cup D
  BY <1>2
<1> QED BY <1>1, <1>3, <1>4 DEF Newest

(***************************************************************************)
(* After such a merge the sender has nothing the receiver would retain,    *)
(* and a merge of something is not a no-op.                                *)
(***************************************************************************)
THEOREM DeltaSettles ==
  ASSUME NEW R, NEW E, StrictTotalOrder(R, E), NEW k \in Nat,
         NEW A \in SUBSET E, IsFiniteSet(A),
         NEW B \in SUBSET E, IsFiniteSet(B), Cardinality(B) <= k,
         NEW D,
         \A x : x \in D <=> x \in A /\ x \notin B /\ Cardinality(Newer(R, B, x)) < k
  PROVE  /\ \A x \in A : \/ x \in Newest(R, k, B \cup D)
                        \/ ~(Cardinality(Newer(R, Newest(R, k, B \cup D), x)) < k)
         /\ D # {} => Newest(R, k, B \cup D) # B
<1>1. IsFiniteSet(B \cup A) /\ B \cup A \in SUBSET E
  BY FS_Union
<1>2. Newest(R, k, B \cup D) = Newest(R, k, B \cup A)
  BY DeltaIsEnough
<1>3. ASSUME NEW x \in A, x \notin Newest(R, k, B \cup A)
      PROVE  ~(Cardinality(Newer(R, Newest(R, k, B \cup A), x)) < k)
  <2>1. ~(Cardinality(Newer(R, B \cup A, x)) < k)
    BY <1>3 DEF Newest
  <2> QED BY <1>1, <2>1, NewestPushesOut
<1> QED BY <1>2, <1>3

(***************************************************************************)
(* Two logs that would each push out whatever the other has more are equal.*)
(***************************************************************************)
THEOREM MutualSilenceAgrees ==
  ASSUME NEW R, NEW E, StrictTotalOrder(R, E), NEW k \in Nat,
         NEW A \in SUBSET E, IsFiniteSet(A), Cardinality(A) <= k,
         NEW B \in SUBSET E, IsFiniteSet(B), Cardinality(B) <= k,
         \A x \in A \ B : ~(Cardinality(Newer(R, B, x)) < k),
         \A x \in B \ A : ~(Cardinality(Newer(R, A, x)) < k)
  PROVE  A = B
<1>1. ASSUME NEW p \in A \ B, NEW q \in B \ A
      PROVE  FALSE
  <2>1. Newer(R, B, p) = B /\ Newer(R, A, q) = A
    BY PushedOutByAll
  <2>2. <<p, q>> \in R /\ <<q, p>> \in R
    BY <2>1 DEF Newer
  <2> QED BY <2>2 DEF StrictTotalOrder
<1>2. ASSUME NEW p \in A \ B, B \ A = {}
      PROVE  FALSE
  <2>1. Cardinality(B) = k
    BY PushedOutByAll
  <2>2. Cardinality(A) = Cardinality(B) /\ B \in SUBSET A
    BY <1>2, <2>1, FS_Subset, FS_CardinalityType
  <2> QED BY <1>2, <2>2, FS_Subset
<1>3. ASSUME NEW q \in B \ A, A \ B = {}
      PROVE  FALSE
  <2>1. Cardinality(A) = k
    BY PushedOutByAll
  <2>2. Cardinality(A) = Cardinality(B) /\ A \in SUBSET B
    BY <1>3, <2>1, FS_Subset, FS_CardinalityType
  <2> QED BY <1>3, <2>2, FS_Subset
<1> QED BY <1>1, <1>2, <1>3

(***************************************************************************)
(* A log that has, or would push out, each of the newest k of U is them.   *)
(***************************************************************************)
THEOREM SilenceIsComplete ==
  ASSUME NEW R, NEW E, StrictTotalOrder(R, E), NEW k \in Nat,
         NEW U \in SUBSET E, IsFiniteSet(U),
         NEW L \in SUBSET U, Cardinality(L) <= k,
         \A x \in Newest(R, k, U) : x \in L \/ ~(Cardinality(Newer(R, L, x)) < k)
  PROVE  L = Newest(R, k, U)
<1>0. IsFiniteSet(L) /\ L \in SUBSET E
  BY FS_Subset
<1>1. Newest(R, k, U) \subseteq L
  BY NewerMonotone DEF Newest
<1>2. ASSUME NEW x \in L, x \notin Newest(R, k, U)
      PROVE  FALSE
  <2>1. ~(Cardinality(Newer(R, U, x)) < k)
    BY <1>2 DEF Newest
  <2>2. ~(Cardinality(Newer(R, Newest(R, k, U), x)) < k)
    BY <2>1, NewestPushesOut
  <2>3. ~(Cardinality(Newer(R, L, x)) < k)
    BY <1>0, <1>1, <2>2, NewerMonotone
  <2>4. Newer(R, L, x) = L
    BY <1>0, <2>3, PushedOutByAll
  <2> QED BY <1>0, <2>4 DEF Newer, StrictTotalOrder
<1> QED BY <1>1, <1>2
=============================================================================

--------------------------- MODULE DirectoryProofs ---------------------------
(***************************************************************************)
(* The directory's safety properties, proved for every number of peers,    *)
(* every cap and share, and every set of listings and difficulty records.  *)
(***************************************************************************)
EXTENDS Directory, CappedLogTheorems

-----------------------------------------------------------------------------
(* One tier: its order, its slots, its winners *)

\* What may be in the attested tier, and what in the anonymous one.
Tier == {Attested(Listing), Anon(Listing)}

\* Across the tiers the order does not decide between two listings of one
\* author with one key; within each of them it is total.
LEMMA TierOrderTotal ==
  ASSUME NEW E \in Tier
  PROVE  /\ StrictTotalOrder(ListingOrder, E)
         /\ E \subseteq Listing
         /\ \A S \in SUBSET E : IsFiniteSet(S) /\ Cardinality(S) \in Nat
<1>1. \A l, m \in Listing : <<l, m>> \in ListingOrder <=>
        \/ l.time < m.time \/ (l.time = m.time /\ l.author < m.author)
        \/ l.time = m.time /\ l.author = m.author /\ l.hash < m.hash
  BY DEF ListingOrder, OrderKeyLess
<1>2. \A l \in Listing : l.time \in Nat /\ l.author \in Nat /\ l.hash \in Nat
  BY DirectoryAssumption
<1>3. \A l, m \in E : l.time = m.time /\ l.author = m.author /\ l.hash = m.hash => l = m
  BY DirectoryAssumption DEF Tier, Attested, Anon
<1>4. E \subseteq Listing
  BY DEF Tier, Attested, Anon
<1>5. \A x \in E : <<x, x>> \notin ListingOrder
  BY <1>1, <1>2, <1>4
<1>6. \A x, y \in E : x = y \/ <<x, y>> \in ListingOrder \/ <<y, x>> \in ListingOrder
  <2> SUFFICES ASSUME NEW x \in E, NEW y \in E, x # y
               PROVE  <<x, y>> \in ListingOrder \/ <<y, x>> \in ListingOrder
    OBVIOUS
  <2>1. x \in Listing /\ y \in Listing
    BY <1>4
  <2>2. x.time # y.time \/ x.author # y.author \/ x.hash # y.hash
    BY <1>3
  <2> QED BY <1>1, <1>2, <2>1, <2>2
<1>7. \A x, y, z \in E : <<x, y>> \in ListingOrder /\ <<y, z>> \in ListingOrder
                            => <<x, z>> \in ListingOrder
  BY <1>1, <1>2, <1>4
<1>8. \A S \in SUBSET E : IsFiniteSet(S) /\ Cardinality(S) \in Nat
  BY <1>4, DirectoryAssumption, FS_Subset, FS_CardinalityType
<1> QED BY <1>4, <1>5, <1>6, <1>7, <1>8 DEF StrictTotalOrder

\* A tier that is a map: one listing an author.
OneEach(S) == \A l, m \in S : l.author = m.author => l = m

\* l or a newer listing of its author is in S.
Covered(l, S) == \E m \in S : m.author = l.author /\ (m = l \/ <<l, m>> \in ListingOrder)

\* Only one listing of an author wins: the map has one entry for a key.
LEMMA WinnersAreOneEach ==
  ASSUME NEW E \in Tier, NEW S \in SUBSET E
  PROVE  Winners(S) \in SUBSET S /\ OneEach(Winners(S))
BY TierOrderTotal DEF Winners, Slot, OneEach, StrictTotalOrder

\* Every author has a winner.
LEMMA WinnerExists ==
  ASSUME NEW E \in Tier, NEW S \in SUBSET E, NEW l \in S
  PROVE  Covered(l, Winners(S))
<1>1. /\ StrictTotalOrder(ListingOrder, E) /\ IsFiniteSet(S)
      /\ Slot(S, l) \in SUBSET S /\ l \in Slot(S, l)
  BY TierOrderTotal DEF Slot
<1>2. PICK w \in Slot(S, l) : \A h \in Slot(S, l) : <<w, h>> \notin ListingOrder
  BY <1>1, NewestOfExists
<1>3. w \in Winners(S) /\ w.author = l.author
  BY <1>2 DEF Winners, Slot
<1> QED BY <1>1, <1>2, <1>3 DEF Covered, StrictTotalOrder

\* Counting by author: a map each of whose authors is in T is no larger.
LEMMA CountByAuthor ==
  ASSUME NEW S, OneEach(S), NEW T, IsFiniteSet(T),
         \A l \in S : \E m \in T : m.author = l.author
  PROVE  IsFiniteSet(S) /\ Cardinality(S) <= Cardinality(T)
<1> DEFINE f == [l \in S |-> CHOOSE m \in T : m.author = l.author]
<1>1. \A l \in S : f[l] \in T /\ f[l].author = l.author
  OBVIOUS
<1>2. f \in Injection(S, T)
  BY <1>1 DEF Injection, IsInjective, OneEach
<1> QED BY <1>2, FS_Injection

\* What pushes x out of S pushes it out of a T that covers it.
LEMMA CoveredPushesOut ==
  ASSUME NEW E \in Tier, NEW k \in Nat, NEW S \in SUBSET E, OneEach(S),
         NEW T \in SUBSET E, NEW x \in E,
         \A l \in Newer(ListingOrder, S, x) : Covered(l, T),
         ~(Cardinality(Newer(ListingOrder, S, x)) < k)
  PROVE  ~(Cardinality(Newer(ListingOrder, T, x)) < k)
<1> DEFINE N == Newer(ListingOrder, S, x)
           M == Newer(ListingOrder, T, x)
<1>1. OneEach(N) /\ N \in SUBSET E /\ M \in SUBSET E
  BY DEF Newer, OneEach
<1>2. IsFiniteSet(M) /\ Cardinality(M) \in Nat /\ Cardinality(N) \in Nat
  BY <1>1, TierOrderTotal
<1>3. ASSUME NEW l \in N PROVE \E m \in M : m.author = l.author
  BY TierOrderTotal DEF Covered, Newer, StrictTotalOrder
<1>4. Cardinality(N) <= Cardinality(M)
  <2> HIDE DEF N, M
  <2> QED BY <1>1, <1>2, <1>3, CountByAuthor
<1> QED BY <1>2, <1>4

\* Cutting A's winners to j before B is merged in changes nothing.
EarlyCutIsHarmless(j, k, A, B) ==
  Newest(ListingOrder, k, Winners(Newest(ListingOrder, j, Winners(A)) \cup B))
    = Newest(ListingOrder, k, Winners(A \cup B))

(***************************************************************************)
(* Forgetting is harmless: a tier cut to its newest j winners, merged with *)
(* B and cut to k <= j, is what one pass over all that ever arrived gives; *)
(* though the winner of an evicted author is forgotten, and a stale        *)
(* listing of that author may follow it.                                   *)
(***************************************************************************)
THEOREM TierAbsorbs ==
  ASSUME NEW E \in Tier, NEW A \in SUBSET E, NEW B \in SUBSET E,
         NEW j \in Nat, NEW k \in Nat, k <= j
  PROVE  EarlyCutIsHarmless(j, k, A, B)
<1> DEFINE W == Winners(A)
           T == Newest(ListingOrder, j, W)
           U == Winners(T \cup B)
           V == Winners(A \cup B)
<1>1. StrictTotalOrder(ListingOrder, E)
  BY TierOrderTotal
<1>2. W \in SUBSET A /\ OneEach(W) /\ W \in SUBSET E
  BY WinnersAreOneEach
<1>3. T \in SUBSET W /\ T \in SUBSET E /\ T \cup B \in SUBSET E /\ A \cup B \in SUBSET E
  BY <1>2 DEF Newest
<1>4. /\ U \in SUBSET (T \cup B) /\ U \in SUBSET E /\ OneEach(U)
      /\ V \in SUBSET (A \cup B) /\ V \in SUBSET E /\ OneEach(V)
  <2> HIDE DEF T
  <2> QED BY <1>3, WinnersAreOneEach
<1>5. (\A l \in T \cup B : Covered(l, U)) /\ (\A l \in A \cup B : Covered(l, V))
  <2> HIDE DEF T
  <2> QED BY <1>3, WinnerExists
<1>6. OneEach(T)
  BY <1>2, <1>3 DEF OneEach
<1> HIDE DEF T, U
<1>7. ASSUME NEW v \in V, v \notin T \cup B
      PROVE  ~(Cardinality(Newer(ListingOrder, T, v)) < j)
  <2>1. v \in W
    BY <1>4, <1>7 DEF Winners, Slot
  <2>2. ~(Cardinality(Newer(ListingOrder, W, v)) < j)
    BY <1>7, <2>1 DEF T, Newest
  <2>3. IsFiniteSet(W) /\ v \in E
    BY <1>2, <1>4, TierOrderTotal
  <2> QED BY <1>1, <1>2, <2>2, <2>3, NewestPushesOut DEF T
<1> HIDE DEF V, W
<1>8. ASSUME NEW x \in E, NEW v \in V, v \notin T \cup B, <<x, v>> \in ListingOrder
      PROVE  ~(Cardinality(Newer(ListingOrder, U, x)) < k)
  <2>1. v \in E
    BY <1>4
  <2>2. ~(Cardinality(Newer(ListingOrder, U, v)) < j)
    <3>1. \A l \in Newer(ListingOrder, T, v) : Covered(l, U)
      BY <1>5 DEF Newer
    <3>2. ~(Cardinality(Newer(ListingOrder, T, v)) < j)
      BY <1>7, <1>8
    <3> QED BY <1>3, <1>4, <1>6, <2>1, <3>1, <3>2, CoveredPushesOut
  <2>3. Newer(ListingOrder, U, v) \in SUBSET Newer(ListingOrder, U, x)
    BY <1>1, <1>4, <1>8, <2>1 DEF Newer, StrictTotalOrder
  <2>4. Newer(ListingOrder, U, x) \in SUBSET E
    BY <1>4 DEF Newer
  <2>5. IsFiniteSet(Newer(ListingOrder, U, x)) /\ Cardinality(Newer(ListingOrder, U, x)) \in Nat
    BY <2>4, TierOrderTotal
  <2>6. /\ Cardinality(Newer(ListingOrder, U, v)) \in Nat
        /\ Cardinality(Newer(ListingOrder, U, v)) <= Cardinality(Newer(ListingOrder, U, x))
    BY <2>3, <2>5, FS_Subset, FS_CardinalityType
  <2> QED BY <2>2, <2>5, <2>6
<1>9. ASSUME NEW x \in E
      PROVE  Cardinality(Newer(ListingOrder, U, x)) < k
               <=> Cardinality(Newer(ListingOrder, V, x)) < k
  <2>1. ASSUME ~(Cardinality(Newer(ListingOrder, U, x)) < k)
        PROVE  ~(Cardinality(Newer(ListingOrder, V, x)) < k)
    <3>1. \A l \in Newer(ListingOrder, U, x) : Covered(l, V)
      BY <1>3, <1>4, <1>5, <1>2 DEF Newer
    <3> QED BY <1>4, <2>1, <3>1, CoveredPushesOut
  <2>2. ASSUME ~(Cardinality(Newer(ListingOrder, V, x)) < k)
        PROVE  ~(Cardinality(Newer(ListingOrder, U, x)) < k)
    <3>1. CASE \A v \in Newer(ListingOrder, V, x) : v \in T \cup B
      BY <1>4, <1>5, <2>2, <3>1, CoveredPushesOut
    <3>2. CASE \E v \in Newer(ListingOrder, V, x) : v \notin T \cup B
      BY <1>8, <3>2 DEF Newer
    <3> QED BY <3>1, <3>2
  <2> QED BY <2>1, <2>2
<1>10. ASSUME NEW x \in V, Cardinality(Newer(ListingOrder, V, x)) < k
       PROVE  x \in U
  <2>1. x \in T \cup B
    <3> SUFFICES ASSUME x \notin T \cup B PROVE FALSE
      OBVIOUS
    <3>1. ~(Cardinality(Newer(ListingOrder, T, x)) < j) /\ x \in E
      BY <1>4, <1>7
    <3>2. ~(Cardinality(Newer(ListingOrder, U, x)) < j)
      BY <1>3, <1>4, <1>5, <1>6, <3>1, CoveredPushesOut DEF Newer
    <3>3. Cardinality(Newer(ListingOrder, U, x)) \in Nat
      BY <1>4, TierOrderTotal DEF Newer
    <3> QED BY <1>9, <1>10, <3>1, <3>2, <3>3
  <2> QED BY <1>3, <2>1, <1>2 DEF U, V, Winners, Slot
<1>11. ASSUME NEW x \in U, Cardinality(Newer(ListingOrder, U, x)) < k
       PROVE  x \in V
  <2>1. x \in A \cup B /\ x \in T \cup B /\ x \in E
    BY <1>2, <1>3, <1>4
  <2>2. PICK v \in V : v.author = x.author /\ (v = x \/ <<x, v>> \in ListingOrder)
    BY <1>5, <2>1 DEF Covered
  <2>3. CASE v = x
    BY <2>2, <2>3
  <2>4. CASE <<x, v>> \in ListingOrder
    <3>1. v \in T \cup B
      BY <1>8, <1>11, <2>1, <2>4
    <3> QED BY <2>2, <2>4, <3>1, <1>11 DEF U, Winners, Slot
  <2> QED BY <2>2, <2>3, <2>4
<1>12. \A x \in U \cup V : x \in E
  BY <1>4
<1>13. Newest(ListingOrder, k, U) = Newest(ListingOrder, k, V)
  BY <1>9, <1>10, <1>11, <1>12 DEF Newest
<1> QED BY <1>13 DEF T, U, V, W, EarlyCutIsHarmless

\* Skipping the listings of B that do not win their slot in T changes nothing.
SkippingIsHarmless(T, B) == Winners(T \cup {l \in B : Wins(l, T)}) = Winners(T \cup B)

\* A listing that does not win its slot may be skipped.
LEMMA FreshIsEnough ==
  ASSUME NEW E \in Tier, NEW T \in SUBSET E, NEW B \in SUBSET E
  PROVE  SkippingIsHarmless(T, B)
<1> DEFINE F == {l \in B : Wins(l, T)}
<1>1. StrictTotalOrder(ListingOrder, E)
  BY TierOrderTotal
<1>2. ASSUME NEW h \in B, h \notin T \cup F
      PROVE  \E t \in T : t.author = h.author /\ <<h, t>> \in ListingOrder
  BY <1>1, <1>2 DEF Wins, Slot, StrictTotalOrder
<1>3. ASSUME NEW x \in Winners(T \cup F)
      PROVE  x \in Winners(T \cup B)
  <2>1. x \in T \cup F /\ \A h \in T \cup F : h.author = x.author => <<x, h>> \notin ListingOrder
    BY DEF Winners, Slot
  <2>2. ASSUME NEW h \in B, h \notin T \cup F, h.author = x.author
        PROVE  <<x, h>> \notin ListingOrder
    <3>1. PICK t \in T : t.author = h.author /\ <<h, t>> \in ListingOrder
      BY <1>2, <2>2
    <3>2. <<x, t>> \notin ListingOrder /\ x \in E /\ h \in E /\ t \in E
      BY <2>1, <2>2, <3>1
    <3> QED BY <1>1, <3>1, <3>2 DEF StrictTotalOrder
  <2> QED BY <2>1, <2>2 DEF Winners, Slot
<1>4. ASSUME NEW x \in Winners(T \cup B)
      PROVE  x \in Winners(T \cup F)
  BY <1>1 DEF Winners, Slot, Wins, StrictTotalOrder
<1> QED BY <1>3, <1>4 DEF SkippingIsHarmless

\* A tier that is a map and within the cap is as it would be canonicalized.
LEMMA TierOfFew ==
  ASSUME NEW E \in Tier, NEW S \in SUBSET E, OneEach(S), NEW k \in Nat, Cardinality(S) <= k
  PROVE  Newest(ListingOrder, k, Winners(S)) = S
<1>1. Winners(S) = S
  BY TierOrderTotal DEF Winners, Slot, OneEach, StrictTotalOrder
<1> QED BY <1>1, TierOrderTotal, NewestOfFew

\* A tier cut to k has at most k listings, one an author, out of those offered.
LEMMA TierBounded ==
  ASSUME NEW E \in Tier, NEW S \in SUBSET E, NEW k \in Nat
  PROVE  LET T == Newest(ListingOrder, k, Winners(S))
         IN  T \in SUBSET S /\ OneEach(T) /\ Cardinality(T) \in Nat /\ Cardinality(T) <= k
<1>1. Winners(S) \in SUBSET S /\ OneEach(Winners(S)) /\ Winners(S) \in SUBSET E
  BY WinnersAreOneEach
<1>2. StrictTotalOrder(ListingOrder, E) /\ IsFiniteSet(Winners(S))
  BY <1>1, TierOrderTotal
<1>3. /\ Newest(ListingOrder, k, Winners(S)) \in SUBSET Winners(S)
      /\ Cardinality(Newest(ListingOrder, k, Winners(S))) \in Nat
      /\ Cardinality(Newest(ListingOrder, k, Winners(S))) <= k
  BY <1>1, <1>2, NewestBounded
<1> QED BY <1>1, <1>3 DEF OneEach

\* The attested tier never shrinks in number.
LEMMA TierGrows ==
  ASSUME NEW E \in Tier, NEW k \in Nat, NEW B \in SUBSET E,
         NEW T \in SUBSET E, OneEach(T), Cardinality(T) <= k
  PROVE  Cardinality(T) <= Cardinality(Newest(ListingOrder, k, Winners(T \cup B)))
<1> DEFINE U == Winners(T \cup B)
           X == Newest(ListingOrder, k, U)
<1>1. StrictTotalOrder(ListingOrder, E) /\ U \in SUBSET E /\ IsFiniteSet(U)
  BY TierOrderTotal, WinnersAreOneEach
<1>2. /\ X \in SUBSET U /\ IsFiniteSet(X) /\ Cardinality(X) \in Nat
      /\ Cardinality(T) \in Nat
  <2> HIDE DEF U
  <2> QED BY <1>1, NewestBounded, TierOrderTotal
<1> SUFFICES Cardinality(T) <= Cardinality(X)
  OBVIOUS
<1>3. CASE X = U
  <2>1. \A l \in T : \E m \in U : m.author = l.author
    BY WinnerExists DEF Covered
  <2> HIDE DEF U, X
  <2> QED BY <1>2, <1>3, <2>1, CountByAuthor
<1>4. CASE X # U
  <2>1. PICK x \in U : ~(Cardinality(Newer(ListingOrder, U, x)) < k)
    BY <1>4 DEF Newest
  <2> HIDE DEF U
  <2>2. ~(Cardinality(Newer(ListingOrder, X, x)) < k)
    BY <1>1, <2>1, NewestPushesOut
  <2> HIDE DEF X
  <2>3. /\ Cardinality(Newer(ListingOrder, X, x)) \in Nat
        /\ Cardinality(Newer(ListingOrder, X, x)) <= Cardinality(X)
    BY <1>2, FS_Subset, FS_CardinalityType DEF Newer
  <2> QED BY <1>2, <2>2, <2>3
<1> QED BY <1>3, <1>4

\* The anonymous share is within its bound and shrinks as the other tier fills.
LEMMA ShareBounded ==
  ASSUME NEW S, Cardinality(S) \in Nat
  PROVE  /\ effective_anon_share(S) \in Nat
         /\ effective_anon_share(S) <= ANON_LISTINGS
         /\ \A T : Cardinality(T) \in Nat /\ Cardinality(S) <= Cardinality(T)
                     => effective_anon_share(T) <= effective_anon_share(S)
BY DirectoryAssumption DEF effective_anon_share

-----------------------------------------------------------------------------
(* What a peer stores *)

(***************************************************************************)
(* d is checked, none of its listings is ahead of the clock, and its tiers *)
(* are one canonicalization of acc, all that was ever admitted.            *)
(***************************************************************************)
Sound(d, acc, now) ==
  /\ d \in DirState
  /\ acc \in SUBSET Listing
  /\ verify(d)
  /\ \A l \in d.attested \cup d.anon : l.time <= now + MAX_FUTURE_MS
  /\ d.attested = Newest(ListingOrder, MAX_LISTINGS, Winners(Attested(acc)))
  /\ d.anon = Newest(ListingOrder, effective_anon_share(d.attested), Winners(Anon(acc)))

\* The scrub leaves a directory alone exactly when no listing is dated ahead.
LEMMA ScrubOfTimely ==
  ASSUME NEW d \in DirState, NEW now
  PROVE  scrub_future(d, now) = d
           <=> \A l \in d.attested \cup d.anon : l.time <= now + MAX_FUTURE_MS
<1>1. scrub_future(d, now) = d <=> InTime(d.attested, now) = d.attested
                                     /\ InTime(d.anon, now) = d.anon
  BY DEF scrub_future, DirState
<1> QED BY <1>1 DEF InTime

\* A sound directory passes validate_state, and the scrub does not change it.
LEMMA SoundIsValid ==
  ASSUME NEW d, NEW acc, NEW now, Sound(d, acc, now)
  PROVE  validate_state(d, now) /\ scrub_future(d, now) = d
BY ScrubOfTimely DEF Sound, validate_state

\* The tiers of a sound state, as the lemmas about tiers want them.
LEMMA SoundTiers ==
  ASSUME NEW d, NEW acc, NEW now, Sound(d, acc, now)
  PROVE  /\ Attested(Listing) \in Tier /\ Anon(Listing) \in Tier
         /\ Attested(acc) \in SUBSET Attested(Listing) /\ Anon(acc) \in SUBSET Anon(Listing)
         /\ d.attested \in SUBSET Attested(Listing) /\ OneEach(d.attested)
         /\ d.anon \in SUBSET Anon(Listing) /\ OneEach(d.anon)
         /\ Cardinality(d.attested) \in Nat /\ Cardinality(d.attested) <= MAX_LISTINGS
         /\ Cardinality(d.anon) \in Nat
         /\ Cardinality(d.anon) <= effective_anon_share(d.attested)
         /\ effective_anon_share(d.attested) \in Nat
         /\ effective_anon_share(d.attested) <= ANON_LISTINGS
<1>1. Attested(Listing) \in Tier /\ Anon(Listing) \in Tier
  BY DEF Tier
<1>2. Attested(acc) \in SUBSET Attested(Listing) /\ Anon(acc) \in SUBSET Anon(Listing)
  BY DEF Sound, Attested, Anon
<1>3. /\ d.attested \in SUBSET Attested(acc) /\ OneEach(d.attested)
      /\ Cardinality(d.attested) \in Nat /\ Cardinality(d.attested) <= MAX_LISTINGS
  BY <1>1, <1>2, TierBounded, DirectoryAssumption DEF Sound
<1>4. /\ effective_anon_share(d.attested) \in Nat
      /\ effective_anon_share(d.attested) <= ANON_LISTINGS
  BY <1>3, ShareBounded
<1>5. /\ d.anon \in SUBSET Anon(acc) /\ OneEach(d.anon) /\ Cardinality(d.anon) \in Nat
      /\ Cardinality(d.anon) <= effective_anon_share(d.attested)
  BY <1>1, <1>2, <1>4, TierBounded DEF Sound
<1> QED BY <1>1, <1>2, <1>3, <1>4, <1>5

\* The latch: a record of the publisher, never an older one.
LEMMA LatchKeeps ==
  ASSUME NEW held \in Difficulty \cup {None}, NEW c \in Difficulty \cup {None}
  PROVE  /\ adopt_difficulty(held, c) \in Difficulty \cup {None}
         /\ held \notin Malformed => adopt_difficulty(held, c) \notin Malformed
         /\ difficulty_seq(held) \in Nat
         /\ difficulty_seq(adopt_difficulty(held, c)) >= difficulty_seq(held)
         /\ c \notin Malformed => difficulty_seq(adopt_difficulty(held, c)) >= difficulty_seq(c)
         /\ difficulty_bits(held) \in Nat /\ difficulty_bits(held) >= POW_FLOOR_BITS
BY PowAssumption DEF adopt_difficulty, difficulty_seq, difficulty_bits

\* One record has one seq, and only no record has seq 0.
LEMMA SeqIsRecord ==
  ASSUME NEW c \in Difficulty \cup {None}, NEW e \in Difficulty \cup {None},
         difficulty_seq(c) = difficulty_seq(e)
  PROVE  c = e
BY PowAssumption DEF difficulty_seq

\* What an update admits: HostUpdate's let_in.
Admits(news, now, pow) == Clearing(InTime(news.listings, now) \ Malformed, pow)

\* new is d with what news admits merged in and the tiers cut once.
OneCut(new, d, news, now) ==
  LET adm == Admits(news, now, new.pow) IN
  /\ new = [attested |-> new.attested, anon |-> new.anon, pow |-> new.pow]
  /\ new.attested = Newest(ListingOrder, MAX_LISTINGS, Winners(d.attested \cup Attested(adm)))
  /\ new.anon = Newest(ListingOrder, effective_anon_share(new.attested),
                       Winners(d.anon \cup Anon(adm)))
  /\ new.pow = adopt_difficulty(d.pow, news.pow)
  /\ adm \in SUBSET Listing

(***************************************************************************)
(* An accepted update cuts the winners of what was stored and of what it   *)
(* admits to the caps: neither the scrub, nor the skipping of listings     *)
(* that lose their slot, nor the checks on the others show in the result.  *)
(***************************************************************************)
LEMMA UpdateIsOneCut ==
  ASSUME NEW now \in Nat, NEW d, NEW acc, Sound(d, acc, now),
         NEW news \in DirDelta,
         NEW new, new = apply_delta(scrub_future(d, now), scrub_delta(news, now)),
         new # None
  PROVE  OneCut(new, d, news, now)
<1> DEFINE L == InTime(news.listings, now)
           pow == adopt_difficulty(d.pow, news.pow)
           fresh == {l \in L : Wins(l, IF l.anon THEN d.anon ELSE d.attested)}
           let_in == Clearing(fresh, pow)
           AW == Winners(d.attested \cup Attested(let_in))
           NW == Winners(d.anon \cup Anon(let_in))
           X == [attested |-> AW, anon |-> NW, pow |-> pow]
           adm == Clearing(L \ Malformed, pow)
<1>1. scrub_future(d, now) = d
  BY SoundIsValid
<1>2. /\ scrub_delta(news, now).listings = L
      /\ scrub_delta(news, now).pow = news.pow
  BY DEF scrub_delta, DirDelta
<1>3. apply_delta(d, scrub_delta(news, now)) =
        IF Cardinality(L) > MAX_LISTINGS + ANON_LISTINGS \/ fresh \cap Malformed # {}
        THEN None ELSE canonicalize(X)
  BY <1>2 DEF apply_delta
<1>4. new = canonicalize(X) /\ fresh \cap Malformed = {}
  BY <1>1, <1>3
<1>5. /\ new = [attested |-> new.attested, anon |-> new.anon, pow |-> new.pow]
      /\ new.attested = Newest(ListingOrder, MAX_LISTINGS, AW)
      /\ new.anon = Newest(ListingOrder, effective_anon_share(new.attested), NW)
      /\ new.pow = pow
  <2> HIDE DEF AW, NW, pow
  <2>1. /\ X.attested = AW /\ X.anon = NW /\ X.pow = pow
        /\ DOMAIN X = {"attested", "anon", "pow"}
    OBVIOUS
  <2> QED BY <1>4, <2>1 DEF canonicalize
<1>6. L \in SUBSET Listing
  BY DEF DirDelta, InTime
<1>7. adm \in SUBSET Listing /\ \A l \in L : l.anon \in BOOLEAN
  BY <1>6, DirectoryAssumption DEF Clearing
<1>8. Attested(let_in) = {l \in Attested(adm) : Wins(l, d.attested)}
  BY <1>4, <1>7 DEF Attested, Clearing
<1>9. Anon(let_in) = {l \in Anon(adm) : Wins(l, d.anon)}
  BY <1>4, <1>7 DEF Anon, Clearing
<1>10. /\ Attested(Listing) \in Tier /\ Anon(Listing) \in Tier
       /\ d.attested \in SUBSET Attested(Listing) /\ d.anon \in SUBSET Anon(Listing)
  BY SoundTiers
<1>11. Attested(adm) \in SUBSET Attested(Listing) /\ Anon(adm) \in SUBSET Anon(Listing)
  BY <1>7 DEF Attested, Anon
<1>12. AW = Winners(d.attested \cup Attested(adm)) /\ NW = Winners(d.anon \cup Anon(adm))
  <2> HIDE DEF let_in, adm
  <2>1. SkippingIsHarmless(d.attested, Attested(adm)) /\ SkippingIsHarmless(d.anon, Anon(adm))
    BY <1>10, <1>11, FreshIsEnough
  <2> QED BY <1>8, <1>9, <2>1 DEF SkippingIsHarmless
<1>13. adm = Admits(news, now, new.pow)
  BY <1>5 DEF Admits
<1> HIDE DEF AW, NW, adm, pow
<1> QED BY <1>5, <1>7, <1>12, <1>13 DEF pow, OneCut

(***************************************************************************)
(* An update keeps a state sound: what it admits joins what was admitted.  *)
(***************************************************************************)
LEMMA UpdateIsSound ==
  ASSUME NEW now \in Nat, NEW d, NEW acc, Sound(d, acc, now),
         NEW news \in DirDelta,
         NEW new, new = apply_delta(scrub_future(d, now), scrub_delta(news, now)),
         new # None
  PROVE  Sound(new, acc \cup Admits(news, now, new.pow), now)
<1> DEFINE adm == Admits(news, now, new.pow)
           A == Attested(adm)
           N == Anon(adm)
           share == effective_anon_share(d.attested)
           share2 == effective_anon_share(new.attested)
<1>1. /\ new = [attested |-> new.attested, anon |-> new.anon, pow |-> new.pow]
      /\ new.attested = Newest(ListingOrder, MAX_LISTINGS, Winners(d.attested \cup A))
      /\ new.anon = Newest(ListingOrder, share2, Winners(d.anon \cup N))
      /\ new.pow = adopt_difficulty(d.pow, news.pow)
      /\ adm \in SUBSET Listing
  BY UpdateIsOneCut DEF OneCut
<1>2. /\ Attested(Listing) \in Tier /\ Anon(Listing) \in Tier
      /\ Attested(acc) \in SUBSET Attested(Listing) /\ Anon(acc) \in SUBSET Anon(Listing)
      /\ d.attested \in SUBSET Attested(Listing) /\ OneEach(d.attested)
      /\ d.anon \in SUBSET Anon(Listing) /\ OneEach(d.anon)
      /\ Cardinality(d.attested) \in Nat /\ Cardinality(d.attested) <= MAX_LISTINGS
      /\ share \in Nat
  BY SoundTiers
<1>3. A \in SUBSET Attested(Listing) /\ N \in SUBSET Anon(Listing) /\ MAX_LISTINGS \in Nat
  BY <1>1, DirectoryAssumption DEF Attested, Anon
<1>4. /\ d.attested \cup A \in SUBSET Attested(Listing)
      /\ d.anon \cup N \in SUBSET Anon(Listing)
  BY <1>2, <1>3
<1> HIDE DEF A, N
<1>5. /\ new.attested \in SUBSET (d.attested \cup A)
      /\ Cardinality(new.attested) \in Nat /\ Cardinality(new.attested) <= MAX_LISTINGS
      /\ Cardinality(d.attested) <= Cardinality(new.attested)
  <2>1. LET T == Newest(ListingOrder, MAX_LISTINGS, Winners(d.attested \cup A))
        IN  T \in SUBSET (d.attested \cup A) /\ Cardinality(T) \in Nat
              /\ Cardinality(T) <= MAX_LISTINGS
    BY <1>2, <1>3, <1>4, TierBounded
  <2>2. Cardinality(d.attested)
          <= Cardinality(Newest(ListingOrder, MAX_LISTINGS, Winners(d.attested \cup A)))
    BY <1>2, <1>3, TierGrows
  <2> QED BY <1>1, <2>1, <2>2
<1>6. share2 \in Nat /\ share2 <= share
  BY <1>2, <1>5, ShareBounded
<1>7. /\ new.anon \in SUBSET (d.anon \cup N)
      /\ Cardinality(new.anon) \in Nat /\ Cardinality(new.anon) <= share2
  <2> HIDE DEF share2
  <2> QED BY <1>1, <1>2, <1>4, <1>6, TierBounded
<1>8. new.attested = Newest(ListingOrder, MAX_LISTINGS, Winners(Attested(acc) \cup A))
  <2>1. EarlyCutIsHarmless(MAX_LISTINGS, MAX_LISTINGS, Attested(acc), A)
    BY <1>2, <1>3, TierAbsorbs
  <2> QED BY <1>1, <2>1 DEF Sound, EarlyCutIsHarmless
<1>9. new.anon = Newest(ListingOrder, share2, Winners(Anon(acc) \cup N))
  <2> HIDE DEF share, share2
  <2>1. EarlyCutIsHarmless(share, share2, Anon(acc), N)
    BY <1>2, <1>3, <1>6, TierAbsorbs
  <2> QED BY <1>1, <2>1 DEF Sound, EarlyCutIsHarmless, share
<1>10. Attested(acc \cup adm) = Attested(acc) \cup A /\ Anon(acc \cup adm) = Anon(acc) \cup N
  BY DEF A, N, Attested, Anon
<1>11. d \in DirState /\ verify(d) /\ acc \in SUBSET Listing
       /\ \A l \in d.attested \cup d.anon : l.time <= now + MAX_FUTURE_MS
  BY DEF Sound
<1>12. d.pow \in Difficulty \cup {None} /\ news.pow \in Difficulty \cup {None}
       /\ d.pow \notin Malformed
  BY <1>11 DEF DirState, DirDelta, verify
<1>13. /\ new.pow \in Difficulty \cup {None} /\ new.pow \notin Malformed
       /\ difficulty_bits(new.pow) \in Nat /\ difficulty_bits(new.pow) >= POW_FLOOR_BITS
  BY <1>1, <1>12, LatchKeeps
<1>14. new \in DirState
  <2>1. new.attested \in SUBSET Listing /\ new.anon \in SUBSET Listing
    BY <1>4, <1>5, <1>7 DEF Attested, Anon
  <2> QED BY <1>1, <1>13, <2>1 DEF DirState
<1>15. \A l \in adm : /\ l \notin Malformed /\ l.time <= now + MAX_FUTURE_MS
                      /\ l.anon => l.bits >= difficulty_bits(new.pow)
  BY DEF Admits, Clearing, InTime
<1>16. \A l \in new.attested \cup new.anon :
         l \notin Malformed /\ l.time <= now + MAX_FUTURE_MS
  BY <1>5, <1>7, <1>11, <1>15 DEF A, N, Attested, Anon, verify
<1>17. Anon(new.attested) = {} /\ Attested(new.anon) = {}
  BY <1>4, <1>5, <1>7 DEF Attested, Anon
<1>18. \A l \in new.anon : l.bits >= POW_FLOOR_BITS
  <2> SUFFICES ASSUME NEW l \in new.anon PROVE l.bits >= POW_FLOOR_BITS
    OBVIOUS
  <2>1. CASE l \in d.anon
    BY <1>11, <2>1 DEF verify
  <2>2. CASE l \in N
    <3>1. l \in adm /\ l.anon
      BY <2>2 DEF N, Anon
    <3>2. l.bits >= difficulty_bits(new.pow) /\ l.bits \in Nat
      BY <1>1, <1>15, <3>1, DirectoryAssumption
    <3> QED BY <1>13, <3>2, PowAssumption
  <2> QED BY <1>7, <2>1, <2>2
<1>19. verify(new)
  BY <1>5, <1>7, <1>13, <1>16, <1>17, <1>18 DEF verify
<1>20. acc \cup adm \in SUBSET Listing
  BY <1>1, <1>11
<1> QED BY <1>8, <1>9, <1>10, <1>14, <1>16, <1>19, <1>20 DEF Sound

\* A state stored whole is sound if it was built by apply_delta or is one
\* listing: the check lets a state pass, and counts what it seats as admitted.
LEMMA StoreIsSound ==
  ASSUME NEW d \in DirState, NEW now, validate_state(d, now),
         OneEach(d.attested), OneEach(d.anon)
  PROVE  Sound(d, d.attested \cup d.anon, now)
<1>1. d.attested \in SUBSET Listing /\ d.anon \in SUBSET Listing
  BY DEF DirState
<1>2. /\ verify(d)
      /\ \A l \in d.attested \cup d.anon : l.time <= now + MAX_FUTURE_MS
  BY ScrubOfTimely DEF validate_state
<1>3. Anon(d.attested) = {} /\ Attested(d.anon) = {}
  BY <1>2 DEF verify
<1>4. /\ Attested(d.attested \cup d.anon) = d.attested
      /\ Anon(d.attested \cup d.anon) = d.anon
      /\ d.attested \in SUBSET Attested(Listing) /\ d.anon \in SUBSET Anon(Listing)
  BY <1>1, <1>3 DEF Attested, Anon
<1>5. /\ Attested(Listing) \in Tier /\ Anon(Listing) \in Tier
      /\ Cardinality(d.attested) <= MAX_LISTINGS
      /\ Cardinality(d.anon) <= effective_anon_share(d.attested)
  BY <1>2 DEF Tier, verify
<1>6. Cardinality(d.attested) \in Nat
  BY <1>4, <1>5, TierOrderTotal
<1>7. effective_anon_share(d.attested) \in Nat /\ MAX_LISTINGS \in Nat
  BY <1>6, ShareBounded, DirectoryAssumption
<1>8. /\ Newest(ListingOrder, MAX_LISTINGS, Winners(d.attested)) = d.attested
      /\ Newest(ListingOrder, effective_anon_share(d.attested), Winners(d.anon)) = d.anon
  BY <1>4, <1>5, <1>7, TierOfFew
<1> QED BY <1>1, <1>2, <1>4, <1>8 DEF Sound

\* The directory of a new peer is sound, with nothing accepted.
LEMMA EmptyIsSound ==
  ASSUME NEW now \in Nat
  PROVE  EmptyDir \in DirState /\ Sound(EmptyDir, {}, now)
<1>1. EmptyDir \in DirState /\ EmptyDir.attested = {} /\ EmptyDir.anon = {}
      /\ EmptyDir.pow = None
  BY DEF EmptyDir, DirState
<1>2. Cardinality({}) = 0
  BY FS_EmptySet
<1>3. effective_anon_share({}) \in Nat
  BY <1>2, ShareBounded
<1>4. verify(EmptyDir)
  BY <1>1, <1>2, <1>3, PowAssumption, DirectoryAssumption DEF verify, Anon, Attested
<1>5. scrub_future(EmptyDir, now) = EmptyDir
  BY <1>1, ScrubOfTimely
<1>6. validate_state(EmptyDir, now)
  BY <1>4, <1>5 DEF validate_state
<1>7. Sound(EmptyDir, EmptyDir.attested \cup EmptyDir.anon, now)
  BY <1>1, <1>6, StoreIsSound DEF OneEach
<1> QED BY <1>1, <1>7

\* A clock that runs on makes no state unsound.
LEMMA SoundLater ==
  ASSUME NEW d, NEW acc, NEW now \in Nat, NEW later \in Nat, now <= later,
         Sound(d, acc, now)
  PROVE  Sound(d, acc, later)
<1>1. d \in DirState
  BY DEF Sound
<1>2. \A l \in d.attested \cup d.anon : l.time \in Nat
  BY <1>1, DirectoryAssumption DEF DirState
<1> QED BY <1>2, DirectoryAssumption DEF Sound

-----------------------------------------------------------------------------
(* The inductive invariant *)

PeerSound(d, acc, now) == (d = None /\ acc = {}) \/ (d # None /\ Sound(d, acc, now))

(***************************************************************************)
(* Each peer's state is one canonicalization of all it ever admitted.  Of  *)
(* the summaries and of the updates in flight nothing is needed but their  *)
(* type: a stale or a repeated one does no harm.                           *)
(***************************************************************************)
DirInv ==
  /\ dir \in [Replica -> DirState \cup {None}]
  /\ clock \in [Replica -> 0 .. MaxClock]
  /\ heard \in [Replica -> [Replica -> DirSummary \cup {None}]]
  /\ wire \in [Replica -> [Replica -> DirDelta \cup {None}]]
  /\ admitted \in [Replica -> SUBSET Listing]
  /\ \A r \in Replica : PeerSound(dir[r], admitted[r], clock[r])

\* What a peer sends, in whole or in part, is well typed.
LEMMA DeltaTypes ==
  ASSUME NEW d \in DirState
  PROVE  /\ AsDelta(d) \in DirDelta
         /\ summarize(d) \in DirSummary
         /\ \A t \in DirSummary : delta(d, t) \in DirDelta
<1>1. /\ d.attested \in SUBSET Listing /\ d.anon \in SUBSET Listing
      /\ d.pow \in Difficulty \cup {None}
  BY DEF DirState
<1>2. \A cap : \A S \in SUBSET Listing : tier_horizon(cap, S) \in TierHorizon
  BY DEF tier_horizon, TierHorizon, Horizon, Oldest
<1>3. difficulty_seq(d.pow) \in Nat
  BY <1>1, LatchKeeps
<1>4. summarize(d) \in DirSummary
  BY <1>1, <1>2, <1>3 DEF summarize, DirSummary
<1>5. AsDelta(d) \in DirDelta
  BY <1>1 DEF AsDelta, DirDelta
<1>6. \A t \in DirSummary : delta(d, t) \in DirDelta
  BY <1>1 DEF delta, Offered, DirDelta
<1> QED BY <1>4, <1>5, <1>6

\* What a peer updates from is sound, also when it stores nothing yet.
LEMMA StoredSound ==
  ASSUME NEW r \in Replica, DirInv
  PROVE  /\ clock[r] \in Nat
         /\ Stored(dir[r]) \in DirState
         /\ Sound(Stored(dir[r]), admitted[r], clock[r])
<1>1. clock[r] \in Nat
  BY DirectoryAssumption DEF DirInv
<1>2. PeerSound(dir[r], admitted[r], clock[r])
  BY DEF DirInv
<1> QED BY <1>1, <1>2, EmptyIsSound DEF PeerSound, Stored, Sound

\* An update keeps the invariant.
LEMMA HostUpdateKeeps ==
  ASSUME DirInv, NEW r \in Replica, NEW news \in DirDelta, HostUpdate(r, news),
         UNCHANGED clock, heard' \in [Replica -> [Replica -> DirSummary \cup {None}]],
         wire' \in [Replica -> [Replica -> DirDelta \cup {None}]]
  PROVE  DirInv'
<1> DEFINE new == update_state(dir[r], news, clock[r])
           adm == Admits(news, clock[r], new.pow)
<1>1. /\ new # None
      /\ dir' = [dir EXCEPT ![r] = new]
      /\ admitted' = [admitted EXCEPT ![r] = @ \cup adm]
  BY DEF HostUpdate, Admits
<1>2. Sound(new, admitted[r] \cup adm, clock[r])
  BY <1>1, StoredSound, UpdateIsSound DEF update_state
<1> HIDE DEF new, adm
<1>3. new \in DirState /\ admitted[r] \cup adm \in SUBSET Listing
  BY <1>2 DEF Sound
<1> QED BY <1>1, <1>2, <1>3 DEF DirInv, PeerSound

\* A first copy that the node stores keeps the invariant.
LEMMA HostStoreKeeps ==
  ASSUME DirInv, NEW r \in Replica, NEW d \in DirState, HostStore(r, d),
         OneEach(d.attested), OneEach(d.anon), UNCHANGED <<clock, heard, wire>>
  PROVE  DirInv'
<1>1. /\ dir' = [dir EXCEPT ![r] = d]
      /\ admitted' = [admitted EXCEPT ![r] = (d.attested \cup d.anon)]
  <2>1. admitted[r] = {}
    BY DEF DirInv, PeerSound, HostStore
  <2> QED BY <2>1 DEF HostStore
<1>2. Sound(d, d.attested \cup d.anon, clock[r]) /\ d # None
  BY StoreIsSound, DirectoryNone DEF HostStore
<1>3. d.attested \cup d.anon \in SUBSET Listing
  BY <1>2 DEF Sound
<1> QED BY <1>1, <1>2, <1>3 DEF DirInv, PeerSound

\* At first no peer has a directory.
LEMMA DirInvInit == Init => DirInv
BY DEF Init, DirInv, PeerSound

\* Every step keeps the invariant.
LEMMA DirInvStep == DirInv /\ [Next]_vars => DirInv'
<1> SUFFICES ASSUME DirInv, [Next]_vars PROVE DirInv'
  OBVIOUS
<1>1. ASSUME NEW r \in Replica, Tick(r) PROVE DirInv'
  <2>1. /\ clock' = [clock EXCEPT ![r] = clock[r] + 1] /\ clock[r] < MaxClock
        /\ UNCHANGED <<dir, heard, wire, admitted>>
    BY <1>1 DEF Tick
  <2>2. clock' \in [Replica -> 0 .. MaxClock] /\ \A q \in Replica : clock[q] <= clock'[q]
    BY <2>1, DirectoryAssumption DEF DirInv
  <2>3. \A q \in Replica : clock[q] \in Nat /\ clock'[q] \in Nat
    BY <2>2, DirectoryAssumption DEF DirInv
  <2> QED BY <2>1, <2>2, <2>3, SoundLater DEF DirInv, PeerSound
<1>2. ASSUME NEW r \in Replica, NEW l \in Listing, NEW c \in Difficulty \cup {None},
             Put(r, l, c)
      PROVE  DirInv'
  <2> DEFINE d == [attested |-> Attested({l}), anon |-> Anon({l}), pow |-> c]
  <2>1. /\ HostStore(r, d) \/ (dir[r] # None /\ HostUpdate(r, AsDelta(d)))
        /\ UNCHANGED <<clock, heard, wire>>
    BY <1>2 DEF Put
  <2>2. d \in DirState /\ OneEach(d.attested) /\ OneEach(d.anon)
    BY DEF DirState, Attested, Anon, OneEach
  <2> HIDE DEF d
  <2>3. AsDelta(d) \in DirDelta
    BY <2>2, DeltaTypes
  <2>4. CASE HostStore(r, d)
    BY <2>1, <2>2, <2>4, HostStoreKeeps
  <2>5. CASE HostUpdate(r, AsDelta(d))
    BY <2>1, <2>3, <2>5, HostUpdateKeeps DEF DirInv
  <2> QED BY <2>1, <2>4, <2>5
<1>3. ASSUME NEW r \in Replica, NEW l \in Listing, Write(r, l) PROVE DirInv'
  <2>1. [listings |-> {l}, pow |-> None] \in DirDelta
    BY DEF DirDelta
  <2> QED BY <1>3, <2>1, HostUpdateKeeps DEF Write, DirInv
<1>4. ASSUME NEW r \in Replica, NEW s \in Replica, Announce(r, s) PROVE DirInv'
  <2>1. summarize_state(dir[r]) \in DirSummary
    BY StoredSound, DeltaTypes DEF summarize_state
  <2> QED BY <1>4, <2>1 DEF Announce, DirInv
<1>5. ASSUME NEW s \in Replica, NEW r \in Replica, Offer(s, r) PROVE DirInv'
  <2>1. dir[s] \in DirState /\ heard[s][r] \in DirSummary \cup {None}
    BY <1>5 DEF Offer, DirInv
  <2>2. AsDelta(dir[s]) \in DirDelta
        /\ (heard[s][r] # None => delta(dir[s], heard[s][r]) \in DirDelta)
    BY <2>1, DeltaTypes
  <2>3. PICK d \in DirDelta : wire' = [wire EXCEPT ![s][r] = d]
    BY <1>5, <2>2 DEF Offer
  <2> QED BY <1>5, <2>3 DEF Offer, DirInv
<1>6. ASSUME NEW s \in Replica, NEW r \in Replica, Deliver(s, r) PROVE DirInv'
  <2>1. wire[s][r] \in DirDelta
    BY <1>6 DEF Deliver, DirInv
  <2> QED BY <1>6, <2>1, HostUpdateKeeps DEF Deliver, DirInv
<1>7. ASSUME NEW s \in Replica, NEW r \in Replica, Lose(s, r) PROVE DirInv'
  BY <1>7 DEF Lose, DirInv
<1>8. ASSUME NEW r \in Replica, NEW s \in Replica, Fetch(r, s) PROVE DirInv'
  <2>1. dir[s] \in DirState /\ Sound(dir[s], admitted[s], clock[s])
    BY <1>8 DEF Fetch, DirInv, PeerSound
  <2>2. OneEach(dir[s].attested) /\ OneEach(dir[s].anon)
    BY <2>1, SoundTiers
  <2> QED BY <1>8, <2>1, <2>2, HostStoreKeeps DEF Fetch
<1>9. ASSUME UNCHANGED vars PROVE DirInv'
  BY <1>9 DEF vars, DirInv
<1> QED BY <1>1, <1>2, <1>3, <1>4, <1>5, <1>6, <1>7, <1>8, <1>9 DEF Next

\* The invariant holds in every state of every run.
LEMMA DirInvHolds == Spec => []DirInv
BY DirInvInit, DirInvStep, PTL DEF Spec

-----------------------------------------------------------------------------
(* What the invariant gives *)

\* Type correctness, with the shape of a tier: one listing an author, all of
\* the tier's kind, as the two maps of DirectoryState have it.
THEOREM DirTypes == Spec => []DirTypeOK
<1>1. ASSUME DirInv PROVE DirTypeOK
  <2>1. ASSUME NEW r \in Replica, dir[r] # None
        PROVE  /\ Anon(dir[r].attested) = {} /\ Attested(dir[r].anon) = {}
               /\ \A l \in dir[r].attested : Slot(dir[r].attested, l) = {l}
               /\ \A l \in dir[r].anon : Slot(dir[r].anon, l) = {l}
    <3>1. Sound(dir[r], admitted[r], clock[r])
      BY <1>1, <2>1 DEF DirInv, PeerSound
    <3>2. OneEach(dir[r].attested) /\ OneEach(dir[r].anon)
      BY <3>1, SoundTiers
    <3> QED BY <3>1, <3>2 DEF Sound, verify, OneEach, Slot
  <2> QED BY <1>1, <2>1 DEF DirTypeOK, DirInv
<1> QED BY <1>1, DirInvHolds, PTL

(***************************************************************************)
(* What a peer stores, its own validate_state accepts, so that any other   *)
(* peer whose clock is not behind can fetch it.                            *)
(***************************************************************************)
THEOREM DirStatesValidHolds == Spec => []DirStatesValid
<1>1. DirInv => DirStatesValid
  BY SoundIsValid DEF DirInv, PeerSound, DirStatesValid, Seeded
<1> QED BY <1>1, DirInvHolds, PTL

(***************************************************************************)
(* The claim of canonicalize: whatever arrived in whatever order, a tier   *)
(* is its newest winners, though each peer dropped early, under a share    *)
(* that was larger, and forgot the authors it dropped.                     *)
(***************************************************************************)
THEOREM TiersAreNewestHolds == Spec => []TiersAreNewest
<1>1. DirInv => TiersAreNewest
  BY DEF DirInv, PeerSound, TiersAreNewest, Seeded, Sound
<1> QED BY <1>1, DirInvHolds, PTL

-----------------------------------------------------------------------------
(* What an update may never do *)

\* A state a peer has changes only by an update.
LEMMA StepIsUpdate ==
  ASSUME DirInv, [Next]_vars, NEW r \in Replica, Seeded(r)
  PROVE  \/ dir'[r] = dir[r]
         \/ \E news \in DirDelta : /\ dir'[r] = update_state(dir[r], news, clock[r])
                                   /\ dir'[r] # None
<1> DEFINE Updated == \E news \in DirDelta :
                         /\ dir'[r] = update_state(dir[r], news, clock[r])
                         /\ dir'[r] # None
<1>1. ASSUME NEW q \in Replica, NEW news \in DirDelta, HostUpdate(q, news)
      PROVE  dir'[r] = dir[r] \/ Updated
  <2>1. /\ dir' = [dir EXCEPT ![q] = update_state(dir[q], news, clock[q])]
        /\ update_state(dir[q], news, clock[q]) # None
    BY <1>1 DEF HostUpdate
  <2>2. dir \in [Replica -> DirState \cup {None}]
    BY DEF DirInv
  <2>3. CASE q = r
    BY <2>1, <2>2, <2>3
  <2>4. CASE q # r
    BY <2>1, <2>2, <2>4
  <2> QED BY <2>3, <2>4
<1>2. ASSUME NEW q \in Replica, NEW d, HostStore(q, d) PROVE dir'[r] = dir[r]
  BY <1>2 DEF HostStore, Seeded, DirInv
<1>3. ASSUME NEW q \in Replica, NEW l \in Listing, NEW c \in Difficulty \cup {None},
             Put(q, l, c)
      PROVE  dir'[r] = dir[r] \/ Updated
  <2> DEFINE d == [attested |-> Attested({l}), anon |-> Anon({l}), pow |-> c]
  <2>1. HostStore(q, d) \/ HostUpdate(q, AsDelta(d))
    BY <1>3 DEF Put
  <2>2. d \in DirState
    BY DEF DirState, Attested, Anon
  <2> HIDE DEF d
  <2>3. AsDelta(d) \in DirDelta
    BY <2>2, DeltaTypes
  <2> HIDE DEF Updated
  <2> QED BY <1>1, <1>2, <2>1, <2>3
<1>4. ASSUME NEW q \in Replica, NEW l \in Listing, Write(q, l)
      PROVE  dir'[r] = dir[r] \/ Updated
  <2>1. [listings |-> {l}, pow |-> None] \in DirDelta
    BY DEF DirDelta
  <2> HIDE DEF Updated
  <2> QED BY <1>1, <1>4, <2>1 DEF Write
<1>5. ASSUME NEW q \in Replica, NEW s \in Replica, Deliver(s, q)
      PROVE  dir'[r] = dir[r] \/ Updated
  <2>1. wire[s][q] \in DirDelta
    BY <1>5 DEF Deliver, DirInv
  <2> HIDE DEF Updated
  <2> QED BY <1>1, <1>5, <2>1 DEF Deliver
<1>6. ASSUME NEW q \in Replica, NEW s \in Replica, Fetch(q, s)
      PROVE  dir'[r] = dir[r]
  BY <1>2, <1>6 DEF Fetch
<1> HIDE DEF Updated
<1>7. dir'[r] = dir[r] \/ Updated
  BY <1>3, <1>4, <1>5, <1>6 DEF Next, vars, Tick, Announce, Offer, Lose
<1> QED BY <1>7 DEF Updated

(***************************************************************************)
(* A raise binds: the latched record never steps back, and a listing that  *)
(* enters the anonymous tier clears the record latched as it enters,       *)
(* whatever record the update carries.                                     *)
(***************************************************************************)
THEOREM RaiseBindsHolds == Spec => RaiseBinds
<1> DEFINE Binds(r) ==
      /\ difficulty_seq(dir'[r].pow) >= difficulty_seq(dir[r].pow)
      /\ \A l \in dir'[r].anon \ dir[r].anon :
           l.bits >= difficulty_bits(dir'[r].pow) /\ l.bits >= POW_FLOOR_BITS
<1>1. ASSUME DirInv, [Next]_vars, NEW r \in Replica, Seeded(r)
      PROVE  Binds(r)
  <2>1. /\ clock[r] \in Nat /\ Stored(dir[r]) = dir[r]
        /\ Sound(dir[r], admitted[r], clock[r])
    BY <1>1, StoredSound DEF Stored, Seeded
  <2>2. dir[r].pow \in Difficulty \cup {None}
    BY <2>1 DEF Sound, DirState
  <2>3. CASE dir'[r] = dir[r]
    BY <2>2, <2>3, LatchKeeps
  <2>4. ASSUME NEW news \in DirDelta,
               dir'[r] = update_state(dir[r], news, clock[r]), dir'[r] # None
        PROVE  Binds(r)
    <3> DEFINE new == dir'[r]
               adm == Admits(news, clock[r], new.pow)
    <3>1. OneCut(new, dir[r], news, clock[r])
      BY <2>1, <2>4, UpdateIsOneCut DEF update_state
    <3> HIDE DEF new
    <3>2. /\ new.anon = Newest(ListingOrder, effective_anon_share(new.attested),
                               Winners(dir[r].anon \cup Anon(adm)))
          /\ new.pow = adopt_difficulty(dir[r].pow, news.pow)
          /\ adm \in SUBSET Listing
      BY <3>1 DEF OneCut
    <3>3. news.pow \in Difficulty \cup {None}
      BY DEF DirDelta
    <3>4. /\ new.pow \in Difficulty \cup {None}
          /\ difficulty_seq(new.pow) >= difficulty_seq(dir[r].pow)
          /\ difficulty_bits(new.pow) \in Nat
          /\ difficulty_bits(new.pow) >= POW_FLOOR_BITS
      BY <2>2, <3>2, <3>3, LatchKeeps
    <3>5. ASSUME NEW l \in new.anon, l \notin dir[r].anon
          PROVE  l.bits >= difficulty_bits(new.pow) /\ l.bits >= POW_FLOOR_BITS
      <4>1. l \in Anon(adm)
        <5> HIDE DEF adm
        <5> QED BY <3>2, <3>5 DEF Newest, Winners
      <4>2. l.anon /\ l \in adm /\ l.bits \in Nat
        BY <3>2, <4>1, DirectoryAssumption DEF Anon
      <4>3. l.bits >= difficulty_bits(new.pow)
        BY <4>2 DEF Admits, Clearing
      <4> QED BY <3>4, <4>2, <4>3, PowAssumption
    <3> QED BY <3>4, <3>5 DEF new
  <2> HIDE DEF Binds
  <2> QED BY <1>1, <2>3, <2>4, StepIsUpdate
<1>2. DirInv /\ [Next]_vars => [\A r \in Replica : Seeded(r) => Binds(r)]_vars
  BY <1>1
<1> QED BY <1>2, DirInvHolds, PTL DEF Spec, RaiseBinds

\* Pushing out is upward closed: what has k newer than it, so has whatever is
\* older.
LEMMA OlderGoesToo ==
  ASSUME NEW E \in Tier, NEW T \in SUBSET E, NEW k \in Nat, NEW x \in E, NEW y \in E,
         <<x, y>> \in ListingOrder,
         ~(Cardinality(Newer(ListingOrder, T, y)) < k)
  PROVE  ~(Cardinality(Newer(ListingOrder, T, x)) < k)
<1>1. Newer(ListingOrder, T, y) \in SUBSET Newer(ListingOrder, T, x)
  BY TierOrderTotal DEF Newer, StrictTotalOrder
<1>2. /\ IsFiniteSet(Newer(ListingOrder, T, x))
      /\ Cardinality(Newer(ListingOrder, T, x)) \in Nat
      /\ Cardinality(Newer(ListingOrder, T, y)) \in Nat
  <2>1. /\ Newer(ListingOrder, T, x) \in SUBSET E
        /\ Newer(ListingOrder, T, y) \in SUBSET E
    BY DEF Newer
  <2> QED BY <2>1, TierOrderTotal
<1>3. Cardinality(Newer(ListingOrder, T, y)) <= Cardinality(Newer(ListingOrder, T, x))
  BY <1>1, <1>2, FS_Subset
<1> QED BY <1>2, <1>3

\* What covers a listing keeps it out, or is itself pushed out.
LEMMA CoverDecides ==
  ASSUME NEW E \in Tier, NEW S \in SUBSET E, NEW k \in Nat, NEW l \in E, Covered(l, Winners(S))
  PROVE  LET T == Newest(ListingOrder, k, Winners(S)) IN
         \/ Covered(l, T)
         \/ /\ ~(Cardinality(Newer(ListingOrder, T, l)) < k)
            /\ Slot(T, l) = {}
<1> DEFINE W == Winners(S)
           T == Newest(ListingOrder, k, W)
<1>1. /\ W \in SUBSET E /\ OneEach(W) /\ IsFiniteSet(W) /\ StrictTotalOrder(ListingOrder, E)
  BY WinnersAreOneEach, TierOrderTotal
<1>2. PICK w \in W : w.author = l.author /\ (w = l \/ <<l, w>> \in ListingOrder)
  BY DEF Covered
<1>3. CASE w \in T
  BY <1>2, <1>3 DEF Covered
<1>4. CASE w \notin T
  <2>1. ~(Cardinality(Newer(ListingOrder, W, w)) < k)
    BY <1>4 DEF Newest
  <2>2. T \in SUBSET W
    BY DEF Newest
  <2> HIDE DEF W
  <2>3. ~(Cardinality(Newer(ListingOrder, T, w)) < k)
    BY <1>1, <2>1, NewestPushesOut
  <2> HIDE DEF T
  <2>4. ~(Cardinality(Newer(ListingOrder, T, l)) < k)
    BY <1>1, <1>2, <2>2, <2>3, OlderGoesToo
  <2>5. Slot(T, l) = {}
    BY <1>1, <1>2, <1>4, <2>2 DEF Slot, OneEach
  <2> QED BY <2>4, <2>5 DEF T, W
<1> QED BY <1>3, <1>4

(***************************************************************************)
(* A listing leaves the attested tier for a newer one of its author or for *)
(* MAX_LISTINGS newer attested ones.                                       *)
(***************************************************************************)
THEOREM AttestedUncrowdableHolds == Spec => AttestedUncrowdable
<1> DEFINE Keeps(r) ==
      \A l \in dir[r].attested \ dir'[r].attested :
         \/ \E m \in Slot(dir'[r].attested, l) : <<l, m>> \in ListingOrder
         \/ Cardinality(Newer(ListingOrder, dir'[r].attested, l)) = MAX_LISTINGS
<1>1. ASSUME DirInv, [Next]_vars, NEW r \in Replica, Seeded(r)
      PROVE  Keeps(r)
  <2>1. /\ clock[r] \in Nat /\ Stored(dir[r]) = dir[r]
        /\ Sound(dir[r], admitted[r], clock[r])
    BY <1>1, StoredSound DEF Stored, Seeded
  <2>2. ASSUME NEW news \in DirDelta,
               dir'[r] = update_state(dir[r], news, clock[r]), dir'[r] # None
        PROVE  Keeps(r)
    <3> DEFINE new == dir'[r]
               A == Attested(Admits(news, clock[r], new.pow))
               E == Attested(Listing)
    <3>1. OneCut(new, dir[r], news, clock[r])
      BY <2>1, <2>2, UpdateIsOneCut DEF update_state
    <3> HIDE DEF new
    <3>2. /\ new.attested = Newest(ListingOrder, MAX_LISTINGS, Winners(dir[r].attested \cup A))
          /\ A \in SUBSET E
      BY <3>1 DEF OneCut, Attested
    <3>3. E \in Tier /\ dir[r].attested \in SUBSET E /\ MAX_LISTINGS \in Nat
      BY <2>1, SoundTiers, DirectoryAssumption
    <3>4. dir[r].attested \cup A \in SUBSET E
      BY <3>2, <3>3
    <3> HIDE DEF A, E
    <3>5. /\ new.attested \in SUBSET E /\ Cardinality(new.attested) \in Nat
          /\ Cardinality(new.attested) <= MAX_LISTINGS
      BY <3>2, <3>3, <3>4, TierBounded
    <3>6. ASSUME NEW l \in dir[r].attested, l \notin new.attested
          PROVE  \/ \E m \in Slot(new.attested, l) : <<l, m>> \in ListingOrder
                 \/ Cardinality(Newer(ListingOrder, new.attested, l)) = MAX_LISTINGS
      <4>1. Covered(l, Winners(dir[r].attested \cup A)) /\ l \in E
        BY <3>3, <3>4, WinnerExists
      <4>2. \/ Covered(l, new.attested)
            \/ ~(Cardinality(Newer(ListingOrder, new.attested, l)) < MAX_LISTINGS)
        BY <3>2, <3>3, <3>4, <4>1, CoverDecides
      <4>3. CASE Covered(l, new.attested)
        BY <3>6, <4>3 DEF Covered, Slot
      <4>4. CASE ~(Cardinality(Newer(ListingOrder, new.attested, l)) < MAX_LISTINGS)
        <5>1. /\ Cardinality(Newer(ListingOrder, new.attested, l)) \in Nat
              /\ Cardinality(Newer(ListingOrder, new.attested, l)) <= Cardinality(new.attested)
          BY <3>3, <3>5, TierOrderTotal, FS_Subset, FS_CardinalityType DEF Newer
        <5> QED BY <3>3, <3>5, <4>4, <5>1
      <4> QED BY <4>2, <4>3, <4>4
    <3> QED BY <3>6 DEF new
  <2>3. CASE dir'[r] = dir[r]
    BY <2>3
  <2> HIDE DEF Keeps
  <2> QED BY <1>1, <2>2, <2>3, StepIsUpdate
<1>2. DirInv /\ [Next]_vars => [\A r \in Replica : Seeded(r) => Keeps(r)]_vars
  BY <1>1
<1> QED BY <1>2, DirInvHolds, PTL DEF Spec, AttestedUncrowdable

-----------------------------------------------------------------------------
(* What two peers have to say to each other *)

\* The horizon of a tier is exact for an author without a slot in it: it lets
\* pass what the tier would keep.  A closed tier lets nothing pass.
LEMMA AdmitsIsExact ==
  ASSUME NEW E \in Tier, NEW T \in SUBSET E, NEW k \in Nat, Cardinality(T) <= k,
         NEW x \in E, Slot(T, x) = {}
  PROVE  admits(tier_horizon(k, T), x) <=> Cardinality(Newer(ListingOrder, T, x)) < k
<1>1. StrictTotalOrder(ListingOrder, E) /\ IsFiniteSet(T) /\ E \in SUBSET Listing
  BY TierOrderTotal
<1>2. Cardinality(Newer(ListingOrder, T, x)) \in Nat
  BY TierOrderTotal DEF Newer
<1>3. CASE k = 0
  <2>1. tier_horizon(k, T).closed
    BY <1>3 DEF tier_horizon
  <2>2. ~admits(tier_horizon(k, T), x)
    BY <2>1 DEF admits
  <2>3. ~(Cardinality(Newer(ListingOrder, T, x)) < k)
    BY <1>2, <1>3
  <2> QED BY <2>2, <2>3
<1>4. CASE k # 0
  <2>1. admits(tier_horizon(k, T), x) <=> \A o \in Horizon(ListingOrder, k, T) : OrderKeyLess(o, x)
    BY <1>4 DEF admits, tier_horizon
  <2>2. \A o \in Horizon(ListingOrder, k, T) : o \in T
    BY DEF Horizon, Oldest
  <2>3. \A o \in T : OrderKeyLess(o, x) <=> <<o, x>> \in ListingOrder
    <3>1. \A o \in T : o \in Listing /\ x \in Listing /\ o.author # x.author
      BY <1>1 DEF Slot
    <3> QED BY <3>1 DEF ListingOrder
  <2>4. admits(tier_horizon(k, T), x)
          <=> AboveHorizon(ListingOrder, Horizon(ListingOrder, k, T), x)
    BY <2>1, <2>2, <2>3 DEF AboveHorizon
  <2>5. x \notin T
    BY DEF Slot
  <2>6. AboveHorizon(ListingOrder, Horizon(ListingOrder, k, T), x)
          <=> Cardinality(Newer(ListingOrder, T, x)) < k
    BY <1>1, <1>4, <2>5, HorizonIsExact
  <2> QED BY <2>4, <2>6
<1> QED BY <1>3, <1>4

\* If neither tier is offered anything, then B has what A has or would drop it.
LEMMA SilentTier ==
  ASSUME NEW E \in Tier, NEW k \in Nat,
         NEW A \in SUBSET E, OneEach(A), NEW B \in SUBSET E, Cardinality(B) <= k,
         Offered(A, B, tier_horizon(k, B)) = {},
         NEW horizon, Offered(B, A, horizon) = {}
  PROVE  \A x \in A \ B : ~(Cardinality(Newer(ListingOrder, B, x)) < k)
<1> SUFFICES ASSUME NEW x \in A, x \notin B
             PROVE  ~(Cardinality(Newer(ListingOrder, B, x)) < k)
  OBVIOUS
<1>1. StrictTotalOrder(ListingOrder, E)
  BY TierOrderTotal
<1>2. ASSUME NEW h \in Slot(B, x) PROVE <<h, x>> \in ListingOrder
  <2>1. h \in B /\ h.author = x.author /\ h \in E /\ x \in E /\ h # x
    BY DEF Slot
  <2>2. Slot(A, h) = {x}
    BY <2>1 DEF Slot, OneEach
  <2>3. ~Wins(h, A)
    BY <2>1, <2>2 DEF Offered
  <2>4. <<x, h>> \notin ListingOrder
    BY <2>2, <2>3 DEF Wins
  <2> QED BY <1>1, <2>1, <2>4 DEF StrictTotalOrder
<1>3. Wins(x, B)
  BY <1>2 DEF Wins
<1>4. Slot(B, x) = {} /\ ~admits(tier_horizon(k, B), x)
  BY <1>3 DEF Offered
<1> QED BY <1>4, AdmitsIsExact

\* Two tiers that have nothing to offer each other are equal: their horizons
\* would admit whatever one has and the other lacks.
LEMMA SilentTiersAgree ==
  ASSUME NEW E \in Tier, NEW k \in Nat,
         NEW A \in SUBSET E, OneEach(A), Cardinality(A) <= k,
         NEW B \in SUBSET E, OneEach(B), Cardinality(B) <= k,
         Offered(A, B, tier_horizon(k, B)) = {},
         Offered(B, A, tier_horizon(k, A)) = {}
  PROVE  A = B
<1>1. \A x \in A \ B : ~(Cardinality(Newer(ListingOrder, B, x)) < k)
  BY SilentTier
<1>2. \A x \in B \ A : ~(Cardinality(Newer(ListingOrder, A, x)) < k)
  BY SilentTier
<1>3. StrictTotalOrder(ListingOrder, E) /\ IsFiniteSet(A) /\ IsFiniteSet(B)
  BY TierOrderTotal
<1> QED BY <1>1, <1>2, <1>3, MutualSilenceAgrees

(***************************************************************************)
(* Two peers that have nothing to offer each other store the same          *)
(* directory: the summaries hide neither a listing nor a record.           *)
(***************************************************************************)
THEOREM DirPairAgreementHolds == Spec => []DirPairAgreement
<1>1. ASSUME DirInv, NEW r \in Replica, NEW s \in Replica, Seeded(r), Seeded(s),
             OfferNow(s, r) = NoDelta, OfferNow(r, s) = NoDelta
      PROVE  dir[r] = dir[s]
  <2> DEFINE A == dir[s]
             B == dir[r]
             ka == effective_anon_share(A.attested)
             kb == effective_anon_share(B.attested)
  <2>1. Sound(A, admitted[s], clock[s]) /\ Sound(B, admitted[r], clock[r])
    BY <1>1 DEF DirInv, PeerSound, Seeded
  <2>2. /\ summarize(A).attested = A.attested /\ summarize(B).attested = B.attested
        /\ summarize(A).anon = A.anon /\ summarize(B).anon = B.anon
        /\ summarize(A).attested_horizon = tier_horizon(MAX_LISTINGS, A.attested)
        /\ summarize(B).attested_horizon = tier_horizon(MAX_LISTINGS, B.attested)
        /\ summarize(A).anon_horizon = tier_horizon(ka, A.anon)
        /\ summarize(B).anon_horizon = tier_horizon(kb, B.anon)
        /\ summarize(A).pow_seq = difficulty_seq(A.pow)
        /\ summarize(B).pow_seq = difficulty_seq(B.pow)
    BY DEF summarize
  <2> HIDE DEF ka, kb
  <2>3. /\ Offered(A.attested, B.attested, tier_horizon(MAX_LISTINGS, B.attested)) = {}
        /\ Offered(A.anon, B.anon, tier_horizon(kb, B.anon)) = {}
        /\ ~(difficulty_seq(A.pow) > difficulty_seq(B.pow)) \/ A.pow = None
    BY <1>1, <2>2 DEF OfferNow, delta, NoDelta
  <2>4. /\ Offered(B.attested, A.attested, tier_horizon(MAX_LISTINGS, A.attested)) = {}
        /\ Offered(B.anon, A.anon, tier_horizon(ka, A.anon)) = {}
        /\ ~(difficulty_seq(B.pow) > difficulty_seq(A.pow)) \/ B.pow = None
    BY <1>1, <2>2 DEF OfferNow, delta, NoDelta
  <2>5. /\ A.pow \in Difficulty \cup {None} /\ B.pow \in Difficulty \cup {None}
        /\ A \in DirState /\ B \in DirState /\ MAX_LISTINGS \in Nat
    BY <2>1, DirectoryAssumption DEF Sound, DirState
  <2> HIDE DEF A, B
  <2>6. /\ difficulty_seq(A.pow) \in Nat /\ difficulty_seq(B.pow) \in Nat
        /\ A.pow = None => difficulty_seq(A.pow) = 0
        /\ B.pow = None => difficulty_seq(B.pow) = 0
    BY <2>5, LatchKeeps DEF difficulty_seq
  <2>7. A.pow = B.pow
    <3>1. difficulty_seq(A.pow) = difficulty_seq(B.pow)
      BY <2>3, <2>4, <2>6
    <3> QED BY <2>5, <3>1, SeqIsRecord
  <2>8. /\ Attested(Listing) \in Tier /\ Anon(Listing) \in Tier
        /\ A.attested \in SUBSET Attested(Listing) /\ OneEach(A.attested)
        /\ A.anon \in SUBSET Anon(Listing) /\ OneEach(A.anon)
        /\ Cardinality(A.attested) <= MAX_LISTINGS
        /\ Cardinality(A.anon) <= ka /\ ka \in Nat
    BY <2>1, SoundTiers DEF ka
  <2>9. /\ B.attested \in SUBSET Attested(Listing) /\ OneEach(B.attested)
        /\ B.anon \in SUBSET Anon(Listing) /\ OneEach(B.anon)
        /\ Cardinality(B.attested) <= MAX_LISTINGS
        /\ Cardinality(B.anon) <= kb /\ kb \in Nat
    BY <2>1, SoundTiers DEF kb
  <2>10. A.attested = B.attested
    BY <2>3, <2>4, <2>5, <2>8, <2>9, SilentTiersAgree
  <2>11. ka = kb
    BY <2>10 DEF ka, kb
  <2>12. A.anon = B.anon
    BY <2>3, <2>4, <2>8, <2>9, <2>11, SilentTiersAgree
  <2>13. A = B
    BY <2>5, <2>7, <2>10, <2>12 DEF DirState
  <2> QED BY <2>13 DEF A, B
<1>2. DirInv => DirPairAgreement
  BY <1>1 DEF DirPairAgreement
<1> QED BY <1>2, DirInvHolds, PTL

(***************************************************************************)
(* After T has merged C, what it let in of the offer D, it is offered      *)
(* nothing again: each listing of A it was not offered, or let in, sits in *)
(* its slot, has lost it, or is under the new horizon.                     *)
(***************************************************************************)
LEMMA OfferSettles ==
  ASSUME NEW E \in Tier, NEW j \in Nat, NEW k \in Nat, k <= j,
         NEW A \in SUBSET E, OneEach(A),
         NEW T \in SUBSET E, OneEach(T), Cardinality(T) <= j,
         NEW C \in SUBSET Offered(A, T, tier_horizon(j, T)),
         NEW new, new = Newest(ListingOrder, k, Winners(T \cup C)),
         NEW l \in A, l \in Offered(A, T, tier_horizon(j, T)) => l \in C
  PROVE  l \notin Offered(A, new, tier_horizon(k, new))
<1> DEFINE V == Winners(T \cup C)
<1> SUFFICES ASSUME Wins(l, new), Slot(new, l) = {} => admits(tier_horizon(k, new), l)
             PROVE  FALSE
  BY DEF Offered
<1>1. C \in SUBSET A /\ T \cup C \in SUBSET E /\ l \in E
  BY DEF Offered
<1>2. StrictTotalOrder(ListingOrder, E)
  BY TierOrderTotal
<1>3. new \in SUBSET (T \cup C) /\ new \in SUBSET E /\ Cardinality(new) <= k
  BY <1>1, TierBounded
<1>4. ~Covered(l, new)
  BY <1>1, <1>2, <1>3 DEF Covered, Wins, Slot, StrictTotalOrder
<1>5. ASSUME ~(Cardinality(Newer(ListingOrder, new, l)) < k), Slot(new, l) = {}
      PROVE  FALSE
  BY <1>1, <1>3, <1>5, AdmitsIsExact
<1>6. CASE Covered(l, V)
  <2>1. ~(Cardinality(Newer(ListingOrder, new, l)) < k) /\ Slot(new, l) = {}
    BY <1>1, <1>4, <1>6, CoverDecides
  <2> QED BY <1>5, <2>1
<1>7. CASE ~Covered(l, V)
  <2>1. \A m \in T \cup C : Covered(m, V)
    BY <1>1, WinnerExists
  <2>2. l \notin C
    BY <1>7, <2>1
  <2>3. Wins(l, T)
    <3>1. ASSUME NEW h \in Slot(T, l) PROVE <<h, l>> \in ListingOrder
      <4>1. Covered(h, V) /\ h \in E /\ h.author = l.author
        BY <2>1 DEF Slot
      <4>2. V \in SUBSET E
        BY <1>1 DEF Winners
      <4>3. h # l /\ <<l, h>> \notin ListingOrder
        <5> HIDE DEF V
        <5> QED BY <1>1, <1>2, <1>7, <4>1, <4>2 DEF Covered, StrictTotalOrder
      <4> QED BY <1>1, <1>2, <4>1, <4>3 DEF StrictTotalOrder
    <3> QED BY <3>1 DEF Wins
  <2>4. Slot(T, l) = {} /\ ~admits(tier_horizon(j, T), l)
    BY <2>2, <2>3 DEF Offered
  <2>5. ~(Cardinality(Newer(ListingOrder, T, l)) < j)
    BY <1>1, <2>4, AdmitsIsExact
  <2>6. Slot(new, l) = {}
    BY <1>1, <1>3, <2>2, <2>4 DEF Slot, OneEach
  <2>7. V \in SUBSET E /\ IsFiniteSet(V) /\ Cardinality(Newer(ListingOrder, V, l)) \in Nat
    <3>1. V \in SUBSET E /\ Newer(ListingOrder, V, l) \in SUBSET E
      BY <1>1 DEF Winners, Newer
    <3> HIDE DEF V
    <3> QED BY <3>1, TierOrderTotal
  <2>8. \A m \in Newer(ListingOrder, T, l) : Covered(m, V)
    BY <2>1 DEF Newer
  <2> HIDE DEF V
  <2>9. ~(Cardinality(Newer(ListingOrder, V, l)) < j)
    BY <1>1, <2>5, <2>7, <2>8, CoveredPushesOut
  <2>10. ~(Cardinality(Newer(ListingOrder, V, l)) < k)
    BY <2>7, <2>9
  <2>11. ~(Cardinality(Newer(ListingOrder, Newest(ListingOrder, k, V), l)) < k)
    BY <1>1, <1>2, <2>7, <2>10, NewestPushesOut
  <2> QED BY <1>5, <2>6, <2>11 DEF V
<1> QED BY <1>6, <1>7

\* An update within the caps that is timely and well formed is accepted.
LEMMA UpdateIsAccepted ==
  ASSUME NEW now \in Nat, NEW d, NEW acc, Sound(d, acc, now), NEW news \in DirDelta,
         InTime(news.listings, now) = news.listings,
         news.listings \cap Malformed = {},
         Cardinality(news.listings) <= MAX_LISTINGS + ANON_LISTINGS
  PROVE  apply_delta(scrub_future(d, now), scrub_delta(news, now)) # None
<1> DEFINE L == news.listings
           pow == adopt_difficulty(d.pow, news.pow)
           fresh == {l \in L : Wins(l, IF l.anon THEN d.anon ELSE d.attested)}
           let_in == Clearing(fresh, pow)
           AW == Winners(d.attested \cup Attested(let_in))
           NW == Winners(d.anon \cup Anon(let_in))
           X == [attested |-> AW, anon |-> NW, pow |-> pow]
<1>1. scrub_future(d, now) = d /\ scrub_delta(news, now) = news
  BY SoundIsValid DEF scrub_delta, DirDelta
<1>2. L \in SUBSET Listing /\ d \in DirState /\ news.pow \in Difficulty \cup {None}
  BY DEF DirDelta, Sound
<1>3. Cardinality(L) \in Nat
  BY <1>2, DirectoryAssumption, FS_Subset, FS_CardinalityType
<1>4. fresh \cap Malformed = {}
  OBVIOUS
<1>5. ~(Cardinality(L) > MAX_LISTINGS + ANON_LISTINGS)
  BY <1>3, DirectoryAssumption
<1>6. apply_delta(d, news) = canonicalize(X)
  BY <1>4, <1>5 DEF apply_delta
<1>7. AW \in SUBSET Listing /\ NW \in SUBSET Listing /\ pow \in Difficulty \cup {None}
  BY <1>2, LatchKeeps DEF DirState, Winners, Attested, Anon, Clearing
<1>8. canonicalize(X) \in DirState
  <2> HIDE DEF AW, NW, pow
  <2> QED BY <1>7 DEF canonicalize, DirState, Newest
<1> QED BY <1>1, <1>6, <1>8, DirectoryNone

(***************************************************************************)
(* A delta against the receiver's current summary is accepted, and leaves  *)
(* nothing more to offer but anonymous listings under the receiver's bar.  *)
(***************************************************************************)
THEOREM DirExchangeSettlesHolds == Spec => []DirExchangeSettles
<1>1. ASSUME DirInv, NEW r \in Replica, NEW s \in Replica, Seeded(r), Seeded(s),
             InTime(OfferNow(s, r).listings, clock[r]) = OfferNow(s, r).listings
      PROVE  LET new  == update_state(dir[r], OfferNow(s, r), clock[r])
                 rest == delta(dir[s], summarize(new))
             IN  new # None /\ rest.pow = None /\ Clearing(rest.listings, new.pow) = {}
  <2> DEFINE A == dir[s]
             B == dir[r]
             now == clock[r]
             D == Offered(A.attested, B.attested, tier_horizon(MAX_LISTINGS, B.attested))
             kb == effective_anon_share(B.attested)
             F == Offered(A.anon, B.anon, tier_horizon(kb, B.anon))
             news == OfferNow(s, r)
             new == update_state(B, news, now)
             kn == effective_anon_share(new.attested)
             adm == Admits(news, now, new.pow)
             rest == delta(A, summarize(new))
  <2>1. /\ Sound(A, admitted[s], clock[s]) /\ Sound(B, admitted[r], now)
        /\ now \in Nat /\ Stored(B) = B
    BY <1>1, StoredSound DEF DirInv, PeerSound, Seeded, Stored
  <2>2. A \in DirState /\ B \in DirState /\ MAX_LISTINGS \in Nat /\ ANON_LISTINGS \in Nat
    BY <2>1, DirectoryAssumption DEF Sound
  <2>3. /\ news.listings = D \cup F
        /\ news.pow = IF difficulty_seq(A.pow) > difficulty_seq(B.pow) THEN A.pow ELSE None
        /\ InTime(D \cup F, now) = D \cup F
    BY <1>1 DEF OfferNow, delta, summarize
  <2>4. news \in DirDelta
    BY <2>2, DeltaTypes DEF OfferNow
  <2>5. new = apply_delta(scrub_future(B, now), scrub_delta(news, now))
    BY <2>1 DEF update_state
  <2>6. rest.pow = (IF difficulty_seq(A.pow) > difficulty_seq(new.pow) THEN A.pow ELSE None)
        /\ rest.listings = Offered(A.attested, new.attested, tier_horizon(MAX_LISTINGS, new.attested))
                             \cup Offered(A.anon, new.anon, tier_horizon(kn, new.anon))
    BY DEF delta, summarize
  <2>7. D \in SUBSET A.attested /\ F \in SUBSET A.anon
    BY DEF Offered
  <2>8. /\ A.pow \in Difficulty \cup {None} /\ B.pow \in Difficulty \cup {None}
        /\ A.pow \notin Malformed /\ (A.attested \cup A.anon) \cap Malformed = {}
        /\ Anon(A.attested) = {} /\ Attested(A.anon) = {}
    BY <2>1, <2>2 DEF Sound, verify, DirState
  <2> HIDE DEF D, F, A, B, now, news, new, rest, adm, kn, kb
  <2>9. /\ Attested(Listing) \in Tier /\ Anon(Listing) \in Tier
        /\ A.attested \in SUBSET Attested(Listing) /\ A.anon \in SUBSET Anon(Listing)
        /\ OneEach(A.attested) /\ OneEach(A.anon)
        /\ Cardinality(A.attested) \in Nat /\ Cardinality(A.attested) <= MAX_LISTINGS
        /\ Cardinality(A.anon) \in Nat
        /\ Cardinality(A.anon) <= effective_anon_share(A.attested)
        /\ effective_anon_share(A.attested) \in Nat
        /\ effective_anon_share(A.attested) <= ANON_LISTINGS
    BY <2>1, SoundTiers
  <2>10. /\ B.attested \in SUBSET Attested(Listing) /\ B.anon \in SUBSET Anon(Listing)
         /\ OneEach(B.attested) /\ OneEach(B.anon)
         /\ Cardinality(B.attested) \in Nat /\ Cardinality(B.attested) <= MAX_LISTINGS
         /\ Cardinality(B.anon) <= kb /\ kb \in Nat
    BY <2>1, SoundTiers DEF kb
  <2>11. Cardinality(D \cup F) <= MAX_LISTINGS + ANON_LISTINGS
    <3>1. IsFiniteSet(A.attested) /\ IsFiniteSet(A.anon)
      BY <2>9, TierOrderTotal
    <3>2. /\ IsFiniteSet(D) /\ IsFiniteSet(F)
          /\ Cardinality(D) \in Nat /\ Cardinality(D) <= Cardinality(A.attested)
          /\ Cardinality(F) \in Nat /\ Cardinality(F) <= Cardinality(A.anon)
      BY <2>7, <3>1, FS_Subset, FS_CardinalityType
    <3>3. Cardinality(D \cup F) = Cardinality(D) + Cardinality(F) - Cardinality(D \cap F)
          /\ Cardinality(D \cap F) \in Nat /\ Cardinality(D \cup F) \in Nat
      BY <3>2, FS_Union, FS_Intersection, FS_CardinalityType
    <3> QED BY <2>2, <2>9, <3>2, <3>3
  <2>12. (D \cup F) \cap Malformed = {}
    BY <2>7, <2>8
  <2>13. new # None
    BY <2>1, <2>3, <2>4, <2>5, <2>11, <2>12, UpdateIsAccepted
  <2>14. OneCut(new, B, news, now)
    BY <2>1, <2>4, <2>5, <2>13, UpdateIsOneCut
  <2>15. Sound(new, admitted[r] \cup adm, now)
    BY <2>1, <2>4, <2>5, <2>13, UpdateIsSound DEF adm
  <2>16. /\ new.attested = Newest(ListingOrder, MAX_LISTINGS,
                                  Winners(B.attested \cup Attested(adm)))
         /\ new.anon = Newest(ListingOrder, kn, Winners(B.anon \cup Anon(adm)))
         /\ new.pow = adopt_difficulty(B.pow, news.pow)
    BY <2>14 DEF OneCut, adm, kn
  <2>17. adm = Clearing(D \cup F, new.pow)
    BY <2>3, <2>12 DEF adm, Admits
  <2>18. /\ \A l \in D : ~l.anon
         /\ \A l \in F : l.anon
    BY <2>7, <2>9 DEF Attested, Anon
  <2>19. Attested(adm) = D /\ Anon(adm) = Clearing(F, new.pow)
    BY <2>17, <2>18 DEF Attested, Anon, Clearing
  <2>20. kn \in Nat /\ kn <= kb
    <3>1. D \in SUBSET Attested(Listing)
      BY <2>7, <2>9
    <3>2. Cardinality(B.attested) <= Cardinality(new.attested)
      BY <2>2, <2>9, <2>10, <2>16, <2>19, <3>1, TierGrows
    <3>3. Cardinality(new.attested) \in Nat
      BY <2>15, SoundTiers
    <3> QED BY <2>10, <3>2, <3>3, ShareBounded DEF kn, kb
  <2>21. rest.pow = None
    <3>1. news.pow \in Difficulty \cup {None} /\ news.pow \notin Malformed
      BY <2>3, <2>8, PowAssumption
    <3>2. /\ difficulty_seq(new.pow) >= difficulty_seq(B.pow)
          /\ difficulty_seq(new.pow) >= difficulty_seq(news.pow)
          /\ difficulty_seq(B.pow) \in Nat /\ difficulty_seq(A.pow) \in Nat
          /\ difficulty_seq(new.pow) \in Nat
      <4>1. new.pow \in Difficulty \cup {None}
        BY <2>8, <2>16, <3>1, LatchKeeps
      <4> QED BY <2>8, <2>16, <3>1, <4>1, LatchKeeps
    <3> QED BY <2>3, <2>6, <3>2
  <2>22. ASSUME NEW l \in A.attested
         PROVE  l \notin Offered(A.attested, new.attested, tier_horizon(MAX_LISTINGS, new.attested))
    <3>1. MAX_LISTINGS <= MAX_LISTINGS
      BY <2>2
    <3>2. D \in SUBSET Offered(A.attested, B.attested, tier_horizon(MAX_LISTINGS, B.attested))
      BY DEF D
    <3>3. l \in Offered(A.attested, B.attested, tier_horizon(MAX_LISTINGS, B.attested)) => l \in D
      BY DEF D
    <3>4. new.attested = Newest(ListingOrder, MAX_LISTINGS, Winners(B.attested \cup D))
      BY <2>16, <2>19
    <3> QED BY <2>2, <2>9, <2>10, <3>1, <3>2, <3>3, <3>4, OfferSettles
  <2>23. ASSUME NEW l \in A.anon, l.anon => l.bits >= difficulty_bits(new.pow)
         PROVE  l \notin Offered(A.anon, new.anon, tier_horizon(kn, new.anon))
    <3> DEFINE C == Clearing(F, new.pow)
    <3>1. C \in SUBSET Offered(A.anon, B.anon, tier_horizon(kb, B.anon))
      BY DEF Clearing, F
    <3>2. l \in Offered(A.anon, B.anon, tier_horizon(kb, B.anon)) => l \in C
      BY <2>23 DEF Clearing, F
    <3>3. new.anon = Newest(ListingOrder, kn, Winners(B.anon \cup C))
      BY <2>16, <2>19
    <3> HIDE DEF C
    <3> QED BY <2>9, <2>10, <2>20, <3>1, <3>2, <3>3, OfferSettles
  <2>24. Clearing(rest.listings, new.pow) = {}
    <3>1. \A l \in Offered(A.attested, new.attested, tier_horizon(MAX_LISTINGS, new.attested)) :
            l \in A.attested
      BY DEF Offered
    <3>2. \A l \in Offered(A.anon, new.anon, tier_horizon(kn, new.anon)) : l \in A.anon
      BY DEF Offered
    <3> QED BY <2>6, <2>22, <2>23, <3>1, <3>2 DEF Clearing
  <2> QED BY <2>13, <2>21, <2>24 DEF A, B, now, news, new, rest
<1>2. DirInv => DirExchangeSettles
  BY <1>1 DEF DirExchangeSettles
<1> QED BY <1>2, DirInvHolds, PTL
=============================================================================
